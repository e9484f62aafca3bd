---------------------------- MODULE FetchProofs ----------------------------
(***************************************************************************)
(* Proofs about the HTTP client, for every set of calls, hosts, requests   *)
(* and targets, and every interval, delay and limit.                       *)
(***************************************************************************)
EXTENDS Fetch, TLAPS

----------------------------------------------------------------------------
(* What is true of every call. *)

\* A call under way was asked something of a host, and backs off only if an
\* attempt is left.
Asked(k) ==
    /\ k.pc \notin {"idle", "over"} => k.host \in Hosts /\ k.req \in Requests /\ k.attempt >= 1
    /\ k.pc = "backoff" => k.attempt < MaxAttempts

\* The slot a call has claimed lies before the next one its host gives.
Claimed(k) == k.at # None => k.host \in Hosts /\ k.at + Interval <= next[k.host]

\* It sleeps until its slot, and is not sent before; nor before the server
\* wants it, once it has backed off.
Due(k) ==
    /\ k.pc = "slot" => k.at # None /\ k.until = k.at
    /\ k.pc = "flight" => k.at # None /\ now >= k.at
    /\ k.pc \in {"claim", "slot", "flight"} => now >= k.notBefore
    /\ k.pc = "backoff" => k.until >= k.notBefore \/ now >= k.notBefore

\* The last request of a chain is as CredentialsStay says; there is none before
\* the first is sent, and none is remembered after.
Stays(k) ==
    /\ k.hop # None => k.pc = "flight"
    /\ k.pc = "flight" =>
        /\ k.hop \in Target
        /\ client.creds \/ k.req.user # "none" \/ k.req.headers => k.hop.host \in {"origin", "explicit"}
        /\ k.secure => k.hop.scheme = "https"
        /\ k.hop.user \in {"none", k.req.user}

Good(k) == k \in Call /\ Asked(k) /\ Claimed(k) /\ Due(k) /\ Stays(k)

\* Two calls have slots of one host an interval apart.
Apart(k, l) ==
    k.at # None /\ l.at # None /\ k.host = l.host => k.at >= l.at + Interval \/ l.at >= k.at + Interval

IInv ==
    /\ TypeOK
    /\ \A c \in Calls : Good(call[c])
    /\ \A c, d \in Calls : c # d => Apart(call[c], call[d])

----------------------------------------------------------------------------
(* The records a step makes of a call. *)

\* What Retries makes of k.
BackedOff(k, asked) ==
    [k EXCEPT !.pc = "backoff", !.until = now + RetryDelay(k.attempt, asked), !.hop = None, !.hops = 0,
              !.secure = FALSE, !.notBefore = IF asked = None THEN 0 ELSE now + asked]

\* A wait is an integer, and none is shorter than the server asks: what is cut
\* at MaxDuration is longer than MaxRetryAfter.
LEMMA RetryDelayInt ==
    ASSUME NEW n \in 1..MaxAttempts, NEW asked \in RetryAfters \cup {None}, RetryDelay(n, asked) # None
    PROVE  /\ RetryDelay(n, asked) \in Int
           /\ asked # None => RetryDelay(n, asked) >= asked
<1> USE NoneAssumption, TimesAssumption
<1>1. CASE asked = None
  <2>1. n - 1 \in Nat
    OBVIOUS
  <2>2. 2^(n - 1) \in Int
    BY <2>1
  <2> QED
    BY <1>1, <2>2 DEF RetryDelay, Backoff, Smaller
<1>2. CASE asked \in RetryAfters
  BY <1>2 DEF RetryDelay, ParseRetryAfter, Smaller
<1> QED
  BY <1>1, <1>2

\* A step that makes k of one call, and no slot of it but what it had, keeps
\* the invariant if k is good.
LEMMA OneCall ==
    ASSUME IInv, NEW c \in Calls, NEW k, Good(k), call' = [call EXCEPT ![c] = k],
           k.at # None => k.at = call[c].at /\ k.host = call[c].host,
           UNCHANGED <<now, client, next>>
    PROVE  IInv'
<1>1. k \in Call
  BY DEF Good
<1>2. TypeOK'
  BY <1>1 DEF IInv, TypeOK
<1>3. ASSUME NEW d \in Calls PROVE Good(call[d])'
  <2>1. call'[d] = IF d = c THEN k ELSE call[d]
    BY DEF IInv, TypeOK
  <2> QED
    BY <2>1 DEF IInv, Good, Asked, Claimed, Due, Stays
<1>4. ASSUME NEW d \in Calls, NEW e \in Calls, d # e PROVE Apart(call[d], call[e])'
  <2>1. call'[d] = (IF d = c THEN k ELSE call[d]) /\ call'[e] = (IF e = c THEN k ELSE call[e])
    BY DEF IInv, TypeOK
  <2>2. Apart(call[d], call[e])
    BY <1>4 DEF IInv
  <2> QED
    BY <1>4, <2>1, <2>2 DEF Apart
<1> QED
  BY <1>2, <1>3, <1>4 DEF IInv

LEMMA Limits == MaxAttempts \in Nat /\ MaxAttempts >= 1 /\ MaxRedirects \in Nat /\ MaxRedirects >= 1
BY TimesAssumption

LEMMA FreshCall == Fresh \in Call
BY Limits DEF Fresh, Call

\* A call that is over is good, and keeps the slot it had.
LEMMA OverGood ==
    ASSUME IInv, NEW c \in Calls, NEW out \in Outcomes, Over(c, out), UNCHANGED <<now, client, next>>
    PROVE  IInv'
<1> USE NoneAssumption, Limits
<1> DEFINE k == Done(call[c], out)
<1>1. call[c] \in Call /\ Good(call[c])
  BY DEF IInv, TypeOK
<1>2. k \in Call
  <2>1. call[c].host \in Hosts \cup {None} /\ call[c].at \in Nat \cup {None}
    BY <1>1 DEF Call
  <2> QED
    BY <2>1, FreshCall DEF Call, Done
<1>3. k.pc = "over" /\ k.host = call[c].host /\ k.at = call[c].at /\ k.hop = None
  BY DEF Done, Fresh
<1>4. Good(k)
  BY <1>1, <1>2, <1>3 DEF Good, Asked, Claimed, Due, Stays
<1>5. call' = [call EXCEPT ![c] = k]
  BY DEF Over
<1> HIDE DEF k
<1> QED
  BY <1>3, <1>4, <1>5, OneCall

LEMMA BeginGood ==
    ASSUME IInv, NEW c \in Calls, NEW h \in Hosts, NEW r \in Requests, Begin(c, h, r)
    PROVE  IInv'
<1> USE NoneAssumption, Limits
<1> DEFINE k == [Fresh EXCEPT !.pc = "claim", !.host = h, !.req = r, !.attempt = 1,
                              !.deadline = now + RequestTimeout]
<1>1. now \in Nat /\ now + RequestTimeout \in Nat /\ 1 \in 0..MaxAttempts
  BY TimesAssumption DEF IInv, TypeOK
<1>2. k \in Call
  BY <1>1, FreshCall DEF Call
<1>3. k.pc = "claim" /\ k.host = h /\ k.req = r /\ k.at = None /\ k.hop = None /\ k.notBefore = 0
      /\ k.attempt = 1
  BY DEF Fresh
<1>4. Good(k)
  BY <1>1, <1>2, <1>3 DEF Good, Asked, Claimed, Due, Stays
<1>5. call' = [call EXCEPT ![c] = k] /\ UNCHANGED <<now, client, next>>
  BY DEF Begin
<1> HIDE DEF k
<1> QED
  BY <1>3, <1>4, <1>5, OneCall

\* A request that is issued starts a chain that stays where it may.
LEMMA IssuedStays ==
    ASSUME now \in Nat, NEW k \in Call, k.req \in Requests
    PROVE  /\ Issued(k) \in Call /\ Stays(Issued(k))
           /\ Issued(k).pc = "flight" /\ Issued(k).host = k.host /\ Issued(k).req = k.req
           /\ Issued(k).at = k.at /\ Issued(k).notBefore = k.notBefore /\ Issued(k).attempt = k.attempt
<1> DEFINE hop == [host |-> "origin", scheme |-> k.req.scheme, user |-> k.req.user]
<1>1. k.req \in Request
  BY WebAssumption
<1>2. hop \in Target
  BY <1>1 DEF Request, Target
<1>3. now + AttemptTimeout \in Int /\ 1 \in 0..MaxRedirects /\ (k.req.scheme = "https") \in BOOLEAN
  BY Limits, TimesAssumption
<1>4. Issued(k) \in Call
  BY <1>2, <1>3 DEF Call, Issued
<1>5. /\ Issued(k).pc = "flight" /\ Issued(k).host = k.host /\ Issued(k).req = k.req
      /\ Issued(k).at = k.at /\ Issued(k).notBefore = k.notBefore /\ Issued(k).attempt = k.attempt
      /\ Issued(k).hop = hop /\ (Issued(k).secure => k.req.scheme = "https")
  BY DEF Issued, Call
<1>6. hop.host = "origin" /\ hop.scheme = k.req.scheme /\ hop.user = k.req.user
  OBVIOUS
<1>7. Stays(Issued(k))
  <2> HIDE DEF hop
  <2> QED
    BY <1>2, <1>5, <1>6 DEF Stays
<1> QED
  BY <1>4, <1>5, <1>7

\* limiter.wait: the slot is an interval after every slot its host has given.
LEMMA ClaimGood ==
    ASSUME IInv, NEW c \in Calls, Claim(c)
    PROVE  IInv'
<1> USE NoneAssumption
<1> DEFINE h == call[c].host
           at == Larger(next[h], now)
           slept == [call[c] EXCEPT !.pc = "slot", !.at = at, !.until = at]
           k == IF at = now THEN Issued([call[c] EXCEPT !.at = at]) ELSE slept
<1>1. /\ call[c] \in Call /\ Good(call[c]) /\ call[c].pc = "claim" /\ h \in Hosts /\ call[c].req \in Requests
      /\ call[c].attempt >= 1 /\ now \in Nat /\ next \in [Hosts -> Nat] /\ call \in [Calls -> Call] /\ Interval \in Nat
  BY TimesAssumption DEF IInv, TypeOK, Claim, Good, Asked
<1>2. at \in Nat /\ at >= now /\ at >= next[h]
  BY <1>1 DEF Larger
<1>3. /\ next' = [next EXCEPT ![h] = at + Interval] /\ call' = [call EXCEPT ![c] = k]
      /\ UNCHANGED <<now, client>>
  BY DEF Claim
<1> HIDE DEF at
<1>4. /\ k \in Call /\ Stays(k) /\ k.host = h /\ k.req = call[c].req /\ k.at = at
      /\ k.notBefore = call[c].notBefore /\ k.attempt = call[c].attempt
      /\ \/ k.pc = "flight" /\ at = now
         \/ k.pc = "slot" /\ k.until = at
  <2>1. CASE at = now
    <3> DEFINE l == [call[c] EXCEPT !.at = at]
    <3>1. l \in Call
      BY <1>1, <1>2 DEF Call
    <3>2. l.req = call[c].req /\ l.host = h /\ l.at = at /\ l.notBefore = call[c].notBefore
          /\ l.attempt = call[c].attempt
      BY <1>1 DEF Call
    <3>3. k = Issued(l)
      BY <2>1
    <3> HIDE DEF l, k
    <3> QED
      BY <1>1, <2>1, <3>1, <3>2, <3>3, IssuedStays
  <2>2. CASE at # now
    <3>0. at \in Nat \cup {None} /\ at \in Int
      BY <1>2
    <3>1. slept \in Call
      BY <1>1, <3>0 DEF Call
    <3>4. /\ slept.req = call[c].req /\ slept.host = h /\ slept.at = at /\ slept.pc = "slot"
          /\ slept.notBefore = call[c].notBefore /\ slept.until = at /\ slept.hop = call[c].hop
          /\ slept.attempt = call[c].attempt
      BY <1>1 DEF Call
    <3>2. call[c].hop = None
      BY <1>1 DEF Good, Stays
    <3>3. k = slept
      BY <2>2
    <3> HIDE DEF slept, k
    <3> QED
      BY <3>1, <3>2, <3>3, <3>4 DEF Stays
  <2> QED
    BY <2>1, <2>2
<1>m. PICK m : m = k
  OBVIOUS
<1> HIDE DEF k
<1>5. \A g \in Hosts : next'[g] = (IF g = h THEN at + Interval ELSE next[g]) /\ next[g] <= next'[g] /\ next'[g] \in Nat
  BY <1>1, <1>2, <1>3
<1>6. TypeOK'
  <2>1. next' \in [Hosts -> Nat]
    BY <1>1, <1>2, <1>3
  <2> QED
    BY <1>1, <1>3, <1>4, <2>1 DEF IInv, TypeOK
<1>7. \A d \in Calls : call'[d] = IF d = c THEN m ELSE call[d]
  BY <1>1, <1>3, <1>m
<1>8. ASSUME NEW d \in Calls PROVE Good(call[d])'
  <2>1. CASE d = c
    <3>1. Asked(m)'
      BY <1>1, <1>4, <1>m DEF Asked
    <3>2. Claimed(m)'
      BY <1>1, <1>2, <1>4, <1>m, <1>5 DEF Claimed
    <3>3. Due(m)'
      BY <1>1, <1>2, <1>3, <1>4, <1>m DEF Due, Good
    <3> QED
      BY <1>3, <1>4, <1>m, <1>7, <2>1, <3>1, <3>2, <3>3 DEF Good, Asked, Claimed, Due, Stays
  <2>2. CASE d # c
    <3>1. Good(call[d]) /\ call[d] \in Call
      BY DEF IInv, TypeOK
    <3>2. call'[d] = call[d]
      BY <1>7, <2>2
    <3>3. Claimed(call[d])'
      <4>1. call[d].at # None => call[d].at \in Nat /\ call[d].at + Interval \in Nat
        BY <1>1, <3>1 DEF Call
      <4>2. call[d].at # None => call[d].host \in Hosts /\ next[call[d].host] \in Nat
        BY <1>1, <3>1 DEF Good, Claimed
      <4> QED
        BY <1>5, <3>1, <3>2, <4>1, <4>2 DEF Good, Claimed
    <3> QED
      BY <1>3, <3>1, <3>2, <3>3 DEF Good, Asked, Due, Stays
  <2> QED
    BY <2>1, <2>2
<1>9. ASSUME NEW d \in Calls, d # c PROVE Apart(m, call[d]) /\ Apart(call[d], m)
  <2>1. call[d] \in Call /\ Claimed(call[d])
    BY DEF IInv, TypeOK, Good
  <2>2. call[d].at # None /\ call[d].host = h => call[d].at \in Nat /\ call[d].at + Interval <= next[h]
    BY <2>1 DEF Call, Claimed
  <2> QED
    BY <1>1, <1>2, <1>4, <1>m, <2>2 DEF Apart
<1>10. ASSUME NEW d \in Calls, NEW e \in Calls, d # e PROVE Apart(call[d], call[e])'
  <2>1. Apart(call[d], call[e])
    BY <1>10 DEF IInv
  <2> QED
    BY <1>7, <1>9, <1>10, <2>1 DEF Apart
<1> QED
  BY <1>6, <1>8, <1>10 DEF IInv

LEMMA WakeGood ==
    ASSUME IInv, NEW c \in Calls, Wake(c)
    PROVE  IInv'
<1> USE NoneAssumption
<1>1. /\ call[c] \in Call /\ Good(call[c]) /\ now \in Nat /\ now >= call[c].until
      /\ UNCHANGED <<now, client, next>> /\ call \in [Calls -> Call]
  BY DEF IInv, TypeOK, Wake
<1>2. CASE call[c].pc = "slot" /\ call' = [call EXCEPT ![c] = Issued(@)]
  <2> DEFINE k == Issued(call[c])
  <2>1. call[c].req \in Requests /\ call[c].host \in Hosts
    BY <1>1, <1>2 DEF Good, Asked
  <2>2. /\ k \in Call /\ Stays(k) /\ k.pc = "flight" /\ k.host = call[c].host /\ k.req = call[c].req
        /\ k.at = call[c].at /\ k.notBefore = call[c].notBefore /\ k.attempt = call[c].attempt
    BY <1>1, <2>1, IssuedStays
  <2>3. call' = [call EXCEPT ![c] = k]
    BY <1>2
  <2> HIDE DEF k
  <2>4. Good(k)
    BY <1>1, <1>2, <2>1, <2>2 DEF Good, Asked, Claimed, Due
  <2> QED
    BY <1>1, <2>2, <2>3, <2>4, OneCall
<1>3. CASE call[c].pc = "backoff" /\ call' = [call EXCEPT ![c].pc = "claim", ![c].attempt = @ + 1]
  <2> DEFINE k == [call[c] EXCEPT !.pc = "claim", !.attempt = @ + 1]
  <2>1. call[c].attempt + 1 \in 0..MaxAttempts
    BY <1>1, <1>3, Limits DEF Good, Asked, Call
  <2>2. k \in Call
    BY <1>1, <2>1 DEF Call
  <2>3. /\ k.pc = "claim" /\ k.host = call[c].host /\ k.req = call[c].req /\ k.at = call[c].at
        /\ k.notBefore = call[c].notBefore /\ k.hop = call[c].hop /\ k.attempt = call[c].attempt + 1
    BY <1>1 DEF Call
  <2>4. call' = [call EXCEPT ![c] = k]
    BY <1>3
  <2>5. call[c].notBefore \in Int /\ call[c].until \in Int /\ call[c].attempt \in Nat
    BY <1>1 DEF Call
  <2> HIDE DEF k
  <2>6. Good(k)
    BY <1>1, <1>3, <2>2, <2>3, <2>5 DEF Good, Asked, Claimed, Due, Stays
  <2> QED
    BY <1>1, <2>3, <2>4, <2>6, OneCall
<1> QED
  BY <1>1, <1>2, <1>3 DEF Wake

\* A redirect is followed only where the rule admits it.
LEMMA RedirectGood ==
    ASSUME IInv, NEW c \in Calls, NEW t \in Targets, Redirect(c, t)
    PROVE  IInv'
<1> USE NoneAssumption
<1>1. /\ call[c] \in Call /\ Good(call[c]) /\ call[c].pc = "flight" /\ t \in Target /\ call \in [Calls -> Call]
      /\ call[c].req \in Request /\ call[c].hop \in Target /\ client \in Client
      /\ UNCHANGED <<now, client, next>>
  BY WebAssumption DEF IInv, TypeOK, Redirect, Flying, Good, Asked, Stays
<1>2. ASSUME NEW out \in Outcomes, Over(c, out) PROVE IInv'
  BY <1>1, <1>2, OverGood
<1>3. ASSUME Admits(call[c], t, Lenient(call[c]) /\ client.subdomains),
             call' = [call EXCEPT ![c].hop = t, ![c].hops = @ + 1, ![c].secure = @ \/ t.scheme = "https"]
      PROVE  IInv'
  <2> DEFINE k == [call[c] EXCEPT !.hop = t, !.hops = @ + 1, !.secure = @ \/ t.scheme = "https"]
  <2>1. call[c].hops + 1 \in 0..MaxRedirects
    BY <1>1, <1>3, Limits DEF Admits, Call
  <2>2. (call[c].secure \/ t.scheme = "https") \in BOOLEAN
    OBVIOUS
  <2>3. k \in Call
    BY <1>1, <2>1, <2>2 DEF Call
  <2>4. /\ k.pc = "flight" /\ k.host = call[c].host /\ k.req = call[c].req /\ k.at = call[c].at
        /\ k.notBefore = call[c].notBefore /\ k.hop = t /\ k.attempt = call[c].attempt /\ (k.secure => call[c].secure \/ t.scheme = "https")
    BY <1>1 DEF Call
  <2>5. call' = [call EXCEPT ![c] = k]
    BY <1>3
  <2> HIDE DEF k
  <2>6. client.creds \/ call[c].req.user # "none" \/ call[c].req.headers => t.host \in {"origin", "explicit"}
    BY <1>1, <1>3 DEF Admits, Lenient, SameOriginUserinfo
  <2>7. call[c].secure => t.scheme = "https"
    BY <1>1, <1>3 DEF Admits, Downgrade, Good, Stays
  <2>8. t.user \in {"none", call[c].req.user}
    BY <1>1, <1>3 DEF Admits, SameOriginUserinfo
  <2>9. Stays(k)
    BY <1>1, <2>4, <2>6, <2>7, <2>8 DEF Stays
  <2>10. Good(k)
    BY <1>1, <2>3, <2>4, <2>9 DEF Good, Asked, Claimed, Due
  <2> QED
    BY <1>1, <2>4, <2>5, <2>10, OneCall
<1> QED
  BY <1>2, <1>3 DEF Redirect, Outcomes

\* It backs off at least as long as the server asks.
LEMMA RetriesGood ==
    ASSUME IInv, NEW c \in Calls, NEW asked \in RetryAfters \cup {None}, Retries(c, asked)
    PROVE  IInv'
<1> USE NoneAssumption
<1> DEFINE n == call[c].attempt
           delay == RetryDelay(n, asked)
<1>1. /\ call[c] \in Call /\ Good(call[c]) /\ call[c].pc = "flight" /\ call \in [Calls -> Call] /\ now \in Nat
      /\ n \in 1..MaxAttempts /\ UNCHANGED <<now, client, next>>
  BY Limits DEF IInv, TypeOK, Retries, Flying, Good, Asked, Call
<1>2. ASSUME Over(c, "status") PROVE IInv'
  BY <1>1, <1>2, OverGood DEF Outcomes
<1>3. ASSUME n < MaxAttempts, delay # None, call' = [call EXCEPT ![c] = BackedOff(call[c], asked)]
      PROVE  IInv'
  <2> DEFINE k == BackedOff(call[c], asked)
             notBefore == IF asked = None THEN 0 ELSE now + asked
  <2>1. delay \in Int /\ (asked # None => delay >= asked)
    BY <1>1, <1>3, RetryDelayInt
  <2>2. now + delay \in Int /\ notBefore \in Int /\ (now + delay >= notBefore \/ now >= notBefore)
    <3> HIDE DEF delay
    <3>1. CASE asked = None
      BY <1>1, <2>1, <3>1
    <3>2. CASE asked \in RetryAfters
      <4>1. asked \in Int /\ asked # None
        BY <3>2, TimesAssumption
      <4> QED
        BY <1>1, <2>1, <4>1
    <3> QED
      BY <3>1, <3>2
  <2>3. 0 \in 0..MaxRedirects
    BY Limits
  <2> HIDE DEF delay, notBefore
  <2>4. k = [call[c] EXCEPT !.pc = "backoff", !.until = now + delay, !.hop = None, !.hops = 0, !.secure = FALSE,
                            !.notBefore = notBefore]
    BY DEF BackedOff, delay, notBefore
  <2>5. k \in Call
    BY <1>1, <2>2, <2>3, <2>4 DEF Call
  <2>6. /\ k.pc = "backoff" /\ k.host = call[c].host /\ k.req = call[c].req /\ k.at = call[c].at /\ k.attempt = n
        /\ k.notBefore = notBefore /\ k.until = now + delay /\ k.hop = None
    BY <1>1, <2>4 DEF Call
  <2> HIDE DEF k
  <2>7. Good(k)
    BY <1>1, <1>3, <2>2, <2>5, <2>6 DEF Good, Asked, Claimed, Due, Stays
  <2> QED
    BY <1>1, <1>3, <2>6, <2>7, OneCall DEF k
<1>4. \/ Over(c, "status")
      \/ n < MaxAttempts /\ delay # None /\ call' = [call EXCEPT ![c] = BackedOff(call[c], asked)]
  BY <1>1, Limits DEF Retries, BackedOff
<1> QED
  BY <1>2, <1>3, <1>4

----------------------------------------------------------------------------

LEMMA InitGood == Init => IInv
<1> USE NoneAssumption
<1> SUFFICES ASSUME Init PROVE IInv
  OBVIOUS
<1>1. \A c \in Calls : call[c] = Fresh
  BY DEF Init
<1>2. TypeOK
  BY FreshCall DEF Init, TypeOK
<1>3. Fresh.pc = "idle" /\ Fresh.at = None /\ Fresh.hop = None
  BY DEF Fresh
<1>4. Good(Fresh)
  BY <1>3, FreshCall DEF Good, Asked, Claimed, Due, Stays
<1> QED
  BY <1>1, <1>2, <1>3, <1>4 DEF IInv, Apart

\* Time only makes more due.
LEMMA TickGood == IInv /\ Tick => IInv'
<1> SUFFICES ASSUME IInv, Tick PROVE IInv'
  OBVIOUS
<1>1. now \in Nat /\ now' = now + 1 /\ UNCHANGED <<client, next, call>>
  BY DEF IInv, TypeOK, Tick
<1>2. TypeOK'
  BY <1>1 DEF IInv, TypeOK
<1>3. ASSUME NEW c \in Calls PROVE Good(call[c])'
  <2>1. Good(call[c]) /\ call[c] \in Call
    BY DEF IInv, TypeOK
  <2>2. call[c].notBefore \in Int /\ call[c].at \in Nat \cup {None}
    BY <2>1 DEF Call
  <2>3. Due(call[c])'
    BY <1>1, <2>1, <2>2, NoneAssumption DEF Good, Due
  <2> QED
    BY <1>1, <2>1, <2>3 DEF Good, Asked, Claimed, Stays
<1> QED
  BY <1>1, <1>2, <1>3 DEF IInv, Apart

LEMMA NextGood == IInv /\ [Next]_vars => IInv'
<1> SUFFICES ASSUME IInv, [Next]_vars PROVE IInv'
  OBVIOUS
<1>1. CASE Tick
  BY <1>1, TickGood
<1>2. ASSUME NEW c \in Calls, NEW h \in Hosts, NEW r \in Requests, Begin(c, h, r) PROVE IInv'
  BY <1>2, BeginGood
<1>3. ASSUME NEW c \in Calls, Claim(c) PROVE IInv'
  BY <1>3, ClaimGood
<1>4. ASSUME NEW c \in Calls, Wake(c) PROVE IInv'
  BY <1>4, WakeGood
<1>5. ASSUME NEW c \in Calls, Expire(c) \/ Cancel(c) \/ Fails(c) \/ Rejects(c) PROVE IInv'
  BY <1>5, OverGood DEF Expire, Cancel, Fails, Rejects, Outcomes
<1>6. ASSUME NEW c \in Calls, NEW size \in Sizes, Answers(c, size) PROVE IInv'
  BY <1>6, OverGood DEF Answers, Outcomes
<1>7. ASSUME NEW c \in Calls, NEW t \in Targets, Redirect(c, t) PROVE IInv'
  BY <1>7, RedirectGood
<1>8. ASSUME NEW c \in Calls, NEW asked \in RetryAfters \cup {None}, Retries(c, asked) PROVE IInv'
  BY <1>8, RetriesGood
<1>9. CASE UNCHANGED vars
  BY <1>9 DEF vars, IInv, TypeOK, Good, Asked, Claimed, Due, Stays, Apart
<1> QED
  BY <1>1, <1>2, <1>3, <1>4, <1>5, <1>6, <1>7, <1>8, <1>9 DEF Next, Server

\* In every state the records of calls, slots and time are of their types, and
\* every call keeps to its slots, its delays and its chain of hosts.
THEOREM CallsGood == Spec => []IInv
BY InitGood, NextGood, PTL DEF Spec

\* Any number of calls, at any number of hosts, never has two slots of one host
\* closer than the interval, and sends nothing before its slot.
THEOREM SlotsSpaced == Spec => []Spaced
<1>1. IInv => Spaced
  BY DEF IInv, Apart, Spaced, Good, Due
<1> QED
  BY <1>1, CallsGood, PTL

\* No attempt of a call is sent before the time its server named, whatever
\* number it named and however many attempts there are.
THEOREM RetryAfterHonoured == Spec => []HonoursRetryAfter
<1>1. IInv => HonoursRetryAfter
  BY DEF IInv, Good, Due, HonoursRetryAfter
<1> QED
  BY <1>1, CallsGood, PTL

\* However long a chain of redirects, and whatever each hop names: what carries
\* a credential stays at its host, https is not left, and no userinfo but the
\* request's own is sent.
THEOREM CredentialsKept == Spec => []CredentialsStay
<1>1. IInv => CredentialsStay
  BY DEF IInv, Good, Stays, CredentialsStay
<1> QED
  BY <1>1, CallsGood, PTL
=============================================================================
