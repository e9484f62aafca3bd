------------------------------- MODULE Fetch -------------------------------
(***************************************************************************)
(* The HTTP client of the search sources (internal/indexer/httpx): one     *)
(* call of Do waits for its host's next slot, sends, follows redirects,    *)
(* and on a retryable status backs off and does it again, all inside one   *)
(* deadline. Calls run at once and share the slots of their hosts; the     *)
(* server answers when and as it likes, and the caller may give up.        *)
(*                                                                         *)
(* Left out: the text of errors and their redaction, connection pooling,   *)
(* and how URLs, headers and dates are written.                            *)
(***************************************************************************)
EXTENDS Integers, FiniteSets

CONSTANTS
    Calls,           \* calls of Do
    Hosts,           \* buckets of the limiter
    None,
    Interval,        \* Config.MinHostInterval
    RequestTimeout,
    AttemptTimeout,  \* ConnectTimeout + ReadTimeout
    MaxAttempts,
    BaseBackoff,
    MaxBackoff,
    MaxRetryAfter,
    MaxDuration,     \* the largest time.Duration
    RetryAfters,     \* what a Retry-After header may say
    MaxRedirects,
    Clients,         \* Configs the client may have
    Requests,        \* what may be asked
    Targets,         \* where a Location may point
    Sizes,           \* bytes a body may have
    MaxBody,         \* Config.MaxBodyBytes
    MaxTime          \* bound on the clock

(***************************************************************************)
(* A Config's redirect settings, and whether it holds credentials. Every   *)
(* request goes to the host called "origin", written without a port. A     *)
(* Location may write that host's port out ("explicit"), name a subdomain  *)
(* of it, another host, or a magnet link, good or not. user is the         *)
(* userinfo: the request's own, byte for byte, or another.                 *)
(***************************************************************************)
Client  == [creds : BOOLEAN, subdomains : BOOLEAN, magnets : BOOLEAN]
Request == [scheme : {"http", "https"}, user : {"none", "own"}, headers : BOOLEAN]
Target  == [host : {"origin", "explicit", "sub", "other", "magnet", "badmagnet"},
            scheme : {"http", "https"}, user : {"none", "own", "theirs"}]

ASSUME NoneAssumption == None \notin Int
ASSUME TimesAssumption ==
    /\ {Interval, RequestTimeout, AttemptTimeout, BaseBackoff, MaxBackoff} \subseteq Nat \ {0}
    /\ BaseBackoff <= MaxBackoff /\ RetryAfters \subseteq Int
    /\ MaxDuration \in Nat /\ MaxRetryAfter \in 1..MaxDuration - 1
    /\ {MaxAttempts, MaxRedirects} \subseteq Nat \ {0} /\ MaxTime \in Nat
ASSUME WebAssumption == Clients \subseteq Client /\ Requests \subseteq Request /\ Targets \subseteq Target
ASSUME BodyAssumption == MaxBody \in Nat /\ Sizes \subseteq Nat

VARIABLES
    now,
    client,  \* its Config
    next,    \* hostLimiter.next
    call     \* call[c]: a call of Do

vars == <<now, client, next, call>>

Larger(a, b)  == IF a > b THEN a ELSE b
Smaller(a, b) == IF a < b THEN a ELSE b

(***************************************************************************)
(* A call, between two steps of Do: "claim" before limiter.wait, "slot"    *)
(* asleep in it, "flight" waiting for the server, "backoff" asleep before  *)
(* the next attempt. until ends the sleep, or the attempt. at is its last  *)
(* slot; hop the last request of the redirect chain, of hops; secure and   *)
(* notBefore remember whether one was https and when the server wants to   *)
(* be asked again. It returns a response, a magnet link, the status of the *)
(* server's last answer, or any other error.                               *)
(***************************************************************************)
Outcomes == {"ok", "magnet", "status", "error"}
Fresh ==
    [pc |-> "idle", out |-> None, host |-> None, req |-> None, attempt |-> 0, deadline |-> 0, until |-> 0,
     at |-> None, hop |-> None, hops |-> 0, secure |-> FALSE, notBefore |-> 0]

Init ==
    /\ now = 0
    /\ client \in Clients
    /\ next = [h \in Hosts |-> 0]
    /\ call = [c \in Calls |-> Fresh]

Tick ==
    /\ now < MaxTime
    /\ now' = now + 1
    /\ UNCHANGED <<client, next, call>>

----------------------------------------------------------------------------
(* Do. *)

\* Its context: the caller's, with RequestTimeout on top.
Alive(c) == now < call[c].deadline

Done(k, out) == [Fresh EXCEPT !.pc = "over", !.out = out, !.host = k.host, !.at = k.at]

\* Do returns; of what it knew only its last slot is of use to others.
Over(c, out) == call' = [call EXCEPT ![c] = Done(@, out)]

\* Do is called. MaxTime leaves it the time it may take.
Begin(c, h, r) ==
    /\ call[c].pc = "idle"
    /\ now + RequestTimeout <= MaxTime
    /\ call' = [call EXCEPT ![c] = [Fresh EXCEPT !.pc = "claim", !.host = h, !.req = r, !.attempt = 1,
                                                 !.deadline = now + RequestTimeout]]
    /\ UNCHANGED <<now, client, next>>

\* attempt: the request is issued.
Issued(k) ==
    [k EXCEPT !.pc = "flight", !.until = now + AttemptTimeout, !.hops = 1, !.secure = k.req.scheme = "https",
              !.hop = [host |-> "origin", scheme |-> k.req.scheme, user |-> k.req.user]]

\* Mutant: the slot after this one is counted from now (before DEC-054).
ClaimFromNow(c) ==
    LET h == call[c].host
        at == Larger(next[h], now)
    IN /\ call[c].pc = "claim" /\ Alive(c)
       /\ next' = [next EXCEPT ![h] = now + Interval]
       /\ call' = [call EXCEPT ![c] = IF at = now THEN Issued([@ EXCEPT !.at = at])
                                      ELSE [@ EXCEPT !.pc = "slot", !.at = at, !.until = at]]
       /\ UNCHANGED <<now, client>>

\* limiter.wait: the host's next slot is claimed before it is waited for, and
\* never given back.
Claim(c) ==
    LET h == call[c].host
        at == Larger(next[h], now)
    IN /\ call[c].pc = "claim" /\ Alive(c)
       /\ next' = [next EXCEPT ![h] = at + Interval]
       /\ call' = [call EXCEPT ![c] = IF at = now THEN Issued([@ EXCEPT !.at = at])
                                      ELSE [@ EXCEPT !.pc = "slot", !.at = at, !.until = at]]
       /\ UNCHANGED <<now, client>>

\* A sleep is over: the slot is due, or the next attempt.
Wake(c) ==
    /\ now >= call[c].until /\ Alive(c)
    /\ \/ call[c].pc = "slot" /\ call' = [call EXCEPT ![c] = Issued(@)]
       \/ call[c].pc = "backoff" /\ call' = [call EXCEPT ![c].pc = "claim", ![c].attempt = @ + 1]
    /\ UNCHANGED <<now, client, next>>

\* Mutant: only the attempt's own time is watched.
NeverExpires(c) ==
    /\ call[c].pc \notin {"idle", "over"}
    /\ ~Alive(c) /\ call[c].pc = "flight"
    /\ Over(c, "error")
    /\ UNCHANGED <<now, client, next>>

\* The deadline ends a sleep, a request, or the call before either.
Expire(c) ==
    /\ call[c].pc \notin {"idle", "over"}
    /\ ~Alive(c)
    /\ Over(c, "error")
    /\ UNCHANGED <<now, client, next>>

\* The caller gives up.
Cancel(c) ==
    /\ call[c].pc \notin {"idle", "over"}
    /\ Over(c, "error")
    /\ UNCHANGED <<now, client, next>>

----------------------------------------------------------------------------
(* attempt: what becomes of a request. *)

\* attemptCtx and the call's own context are both alive.
Flying(c) == call[c].pc = "flight" /\ Alive(c) /\ now < call[c].until

(***************************************************************************)
(* sameOriginUserinfo: the request's own userinfo, at its host and its     *)
(* effective port. The explicit port is that of the request's scheme.      *)
(***************************************************************************)
SameOriginUserinfo(r, t) ==
    /\ r.user = "own" /\ t.user = "own"
    /\ t.host = "explicit" \/ (t.host = "origin" /\ t.scheme = r.scheme)

Downgrade(from, to) == from = "https" /\ to # "https"

\* Mutant: the scheme is measured against the first request only (T-930).
AdmitsFromFirst(k, t, subdomains) ==
    /\ k.hops < MaxRedirects
    /\ IF t.user # "none" THEN SameOriginUserinfo(k.req, t)
       ELSE t.host = "origin" \/ (subdomains /\ t.host = "sub")
    /\ ~Downgrade(k.req.scheme, t.scheme)

\* checkRedirectHosts.
Admits(k, t, subdomains) ==
    /\ k.hops < MaxRedirects
    /\ IF t.user # "none" THEN SameOriginUserinfo(k.req, t)
       ELSE t.host = "origin" \/ (subdomains /\ t.host = "sub")
    /\ ~Downgrade(k.req.scheme, t.scheme) /\ ~Downgrade(k.hop.scheme, t.scheme)

\* New's choice of rule: neither the client nor the request has anything to
\* forward (strictForCredentialedRequests, carriesCredentials).
Lenient(k) == ~client.creds /\ k.req.user = "none" /\ ~k.req.headers

IsMagnet(t) == t.host \in {"magnet", "badmagnet"}

(***************************************************************************)
(* The server redirects: net/http asks the client's rule before it follows *)
(* (checkRedirect, withMagnetRedirects, validMagnet). A hop takes no slot. *)
(***************************************************************************)
Redirect(c, t) ==
    LET k == call[c]
    IN /\ Flying(c)
       /\ IF Lenient(k) /\ client.magnets /\ IsMagnet(t) /\ k.hops < MaxRedirects
          THEN Over(c, IF t.host = "magnet" THEN "magnet" ELSE "error")
          ELSE IF ~IsMagnet(t) /\ Admits(k, t, Lenient(k) /\ client.subdomains)
          THEN call' = [call EXCEPT ![c].hop = t, ![c].hops = @ + 1, ![c].secure = @ \/ t.scheme = "https"]
          ELSE Over(c, "error")
       /\ UNCHANGED <<now, client, next>>

\* readBody: the declared length, then one byte more than the cap is read.
ReadBody(size) == Smaller(size, MaxBody + 1)

\* A 2xx: a body over the cap is an error, not a short read.
Answers(c, size) ==
    /\ Flying(c)
    /\ IF ReadBody(size) > MaxBody THEN Over(c, "error")
       ELSE Over(c, "ok")
    /\ UNCHANGED <<now, client, next>>

\* A transport failure, an unreadable body, or the attempt's own time is up:
\* none is retried.
Fails(c) ==
    /\ call[c].pc = "flight" /\ Alive(c)
    /\ Over(c, "error")
    /\ UNCHANGED <<now, client, next>>

\* A status that is not retried: any other than 429 and 5xx.
Rejects(c) ==
    /\ Flying(c)
    /\ Over(c, "status")
    /\ UNCHANGED <<now, client, next>>

\* parseRetryAfter saturates: seconds beyond the largest duration are that.
ParseRetryAfter(secs) == IF secs <= 0 THEN 0 ELSE Smaller(secs, MaxDuration)

\* backoffFor: doubled from BaseBackoff, never past MaxBackoff.
Backoff(n) == Smaller(BaseBackoff * 2^(n - 1), MaxBackoff)

\* Mutant: a wait too long is cut to the longest allowed.
RetryDelayCapped(n, asked) ==
    IF asked = None THEN Backoff(n) ELSE Smaller(ParseRetryAfter(asked), MaxRetryAfter)

\* retryDelay; None if the server asks for more than MaxRetryAfter.
RetryDelay(n, asked) ==
    IF asked = None THEN Backoff(n)
    ELSE IF ParseRetryAfter(asked) > MaxRetryAfter THEN None ELSE ParseRetryAfter(asked)

\* A 429 or a 5xx, with what it asks for, if anything: again, if an attempt is
\* left and the wait is neither too long nor past the deadline (fitsDeadline).
Retries(c, asked) ==
    LET n == call[c].attempt
        delay == RetryDelay(n, asked)
    IN /\ Flying(c)
       /\ IF n >= MaxAttempts THEN Over(c, "status")
          ELSE IF delay = None THEN Over(c, "status")
          ELSE IF now + delay > call[c].deadline THEN Over(c, "status")
          ELSE call' = [call EXCEPT ![c] = [@ EXCEPT !.pc = "backoff", !.until = now + delay, !.hop = None, !.hops = 0,
                                                     !.secure = FALSE,
                                                     !.notBefore = IF asked = None THEN 0 ELSE now + asked]]
       /\ UNCHANGED <<now, client, next>>

----------------------------------------------------------------------------

Server(c) ==
    \/ \E t \in Targets : Redirect(c, t)
    \/ \E size \in Sizes : Answers(c, size)
    \/ Rejects(c)
    \/ \E asked \in RetryAfters \cup {None} : Retries(c, asked)

Next ==
    \/ Tick
    \/ \E c \in Calls :
        \/ \E h \in Hosts, r \in Requests : Begin(c, h, r)
        \/ Claim(c) \/ Wake(c) \/ Expire(c) \/ Cancel(c) \/ Fails(c) \/ Server(c)

Spec == Init /\ [][Next]_vars

\* Time passes and a call's own goroutine runs; nothing makes a server answer.
FairSpec == Spec /\ WF_vars(Tick) /\ \A c \in Calls : WF_vars(Claim(c) \/ Wake(c) \/ Expire(c))

----------------------------------------------------------------------------
(* What the client promises. *)

Call ==
    [pc : {"idle", "claim", "slot", "flight", "backoff", "over"}, out : Outcomes \cup {None},
     host : Hosts \cup {None}, req : Requests \cup {None}, attempt : 0..MaxAttempts, deadline : Nat, until : Int,
     at : Nat \cup {None}, hop : Target \cup {None}, hops : 0..MaxRedirects, secure : BOOLEAN, notBefore : Int]

\* At most MaxAttempts requests and MaxRedirects hops, whatever the server does.
TypeOK ==
    /\ now \in Nat /\ client \in Clients
    /\ next \in [Hosts -> Nat] /\ call \in [Calls -> Call]

(***************************************************************************)
(* hostLimiter: "at most one request to a given host per interval", of all *)
(* the calls there are: no two slots of a host are closer, and none is     *)
(* used before it is due. (A sleeper may wake late, and the hops of a      *)
(* redirect take no slot.)                                                 *)
(***************************************************************************)
Spaced ==
    /\ \A c, d \in Calls :
         c # d /\ call[c].at # None /\ call[d].at # None /\ call[c].host = call[d].host =>
            call[c].at >= call[d].at + Interval \/ call[d].at >= call[c].at + Interval
    /\ \A c \in Calls : call[c].pc = "flight" => now >= call[c].at

(***************************************************************************)
(* DEC-059: a server that says when to come back is not asked again before *)
(* that, however long it says.                                             *)
(***************************************************************************)
HonoursRetryAfter ==
    \A c \in Calls : call[c].pc = "flight" => now >= call[c].notBefore

(***************************************************************************)
(* What carries a credential stays at the host it was addressed to (DEC-   *)
(* 062, T-9099), nothing that has been sent over https is sent again over  *)
(* http (DEC-182), and no userinfo but the request's own is sent (T-9045). *)
(***************************************************************************)
CredentialsStay ==
    \A c \in Calls :
        LET k == call[c]
        IN k.hop # None =>
            /\ client.creds \/ k.req.user # "none" \/ k.req.headers => k.hop.host \in {"origin", "explicit"}
            /\ k.secure => k.hop.scheme = "https"
            /\ k.hop.user \in {"none", k.req.user}

\* Every call ends, whatever the server does and however many are before it.
CallsEnd == \A c \in Calls : call[c].pc # "idle" ~> call[c].pc = "over"

(***************************************************************************)
(* fitsDeadline: "Sleeping past the deadline only to be cancelled wastes   *)
(* the time the caller had left and reports the timeout instead of the     *)
(* status that caused it." It looks at the back-off only; the slot waited  *)
(* for after it may be past the deadline all the same.                     *)
(***************************************************************************)
NoUselessSleep == \A c \in Calls : call[c].pc = "slot" /\ call[c].attempt > 1 => call[c].until <= call[c].deadline
=============================================================================
