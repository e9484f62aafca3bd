------------------------------ MODULE Registry ------------------------------
(***************************************************************************)
(* The registry of search sources (internal/indexer/registry.go): sources  *)
(* come and go while fan-outs query them. SearchAll asks every selected    *)
(* source on a goroutine of its own, which looks in the cache, reserves    *)
(* the source's next request, sends it and stores the answer, each under   *)
(* the registry's lock for that step alone. An answer may never come: the  *)
(* source's deadline, or the caller, gives up on it.                       *)
(*                                                                         *)
(* Left out: what the answers hold, their merging and sorting, the order   *)
(* of registration, which only decides theirs, and SetEnabled, which the   *)
(* program never calls.                                                    *)
(***************************************************************************)
EXTENDS Naturals, FiniteSets

CONSTANTS
    Ids,        \* source ids
    None,
    Queries,
    Able,       \* Able[q]: the ids whose Caps allow q's mode
    Fans,       \* calls of SearchAll
    Interval,   \* Config.MinRefreshInterval
    TTL,        \* Config.CacheTTL
    MaxTime,    \* bound on the clock
    MaxGens     \* MaxGens[i]: bound on the sources registered under i

ASSUME NoneAssumption == None \notin Nat /\ None \notin [gen : Nat, last : Nat \cup {None}]
ASSUME TimesAssumption == Interval \in Nat \ {0} /\ TTL \in Nat \ {0} /\ MaxTime \in Nat
ASSUME GensAssumption == MaxGens \in [Ids -> Nat]
ASSUME AbleAssumption == Able \in [Queries -> SUBSET Ids]

VARIABLES
    now,        \* the clock
    sources,    \* sources[i]: what is registered under i
    gens,       \* gens[i]: sources registered under i so far; the n-th has gen n
    retired,    \* retiredFetch[i]
    cache,      \* cache[i][q]: i's answer to q, who gave it and when
    fan,        \* fan[f]: a call of SearchAll
    one,        \* one[f][i]: its goroutine for source i
    asked       \* ghost. asked[i]: when a source called i was last asked

regVars == <<sources, gens, retired>>
vars == <<now, sources, gens, retired, cache, fan, one, asked>>

Source == [gen : Nat, last : Nat \cup {None}]
Entry == [gen : Nat, fetched : Nat]

\* A goroutine runs from "begin" to one of the outcomes.
Outcomes == {"hit", "fetched", "skipped", "failed", "unknown"}
Pcs == {"off", "begin", "reserve", "ask", "store"} \cup Outcomes
One == [pc : Pcs, gen : Nat]
Fan == [st : {"idle", "going", "returned"}, query : Queries \cup {None}]

Registered == {i \in Ids : sources[i] # None}

NewFan == [st |-> "idle", query |-> None]
Off == [pc |-> "off", gen |-> 0]

\* At startup every source is registered.
Init ==
    /\ now = 0
    /\ gens = [i \in Ids |-> 1]
    /\ sources = [i \in Ids |-> [gen |-> 1, last |-> None]]
    /\ retired = [i \in Ids |-> None]
    /\ cache = [i \in Ids |-> [q \in Queries |-> None]]
    /\ fan = [f \in Fans |-> NewFan]
    /\ one = [f \in Fans |-> [i \in Ids |-> Off]]
    /\ asked = [i \in Ids |-> None]

----------------------------------------------------------------------------
(* Time. *)

Tick ==
    /\ now < MaxTime
    /\ now' = now + 1
    /\ UNCHANGED <<regVars, cache, fan, one, asked>>

\* t is less than Interval ago.
Recent(t) == t # None /\ now - t < Interval

\* An entry still inside the TTL.
Fresh(e) == e # None /\ now - e.fetched < TTL

----------------------------------------------------------------------------
(* Register, Unregister. *)

\* pruneRetiredFetch: the floors whose interval has passed.
Pruned == [i \in Ids |-> IF Recent(retired[i]) THEN retired[i] ELSE None]

\* The new source inherits the last fetch of the one unregistered under its id.
Register(i) ==
    /\ i \notin Registered
    /\ gens[i] < MaxGens[i]
    /\ gens' = [gens EXCEPT ![i] = @ + 1]
    /\ sources' = [sources EXCEPT ![i] = [gen |-> gens'[i], last |-> Pruned[i]]]
    /\ retired' = [Pruned EXCEPT ![i] = None]
    /\ UNCHANGED <<now, cache, fan, one, asked>>

\* Every answer of i goes with it.
Unregister(i) ==
    /\ i \in Registered
    /\ retired' = [Pruned EXCEPT ![i] = IF Recent(sources[i].last) THEN sources[i].last ELSE @]
    /\ sources' = [sources EXCEPT ![i] = None]
    /\ cache' = [cache EXCEPT ![i] = [q \in Queries |-> None]]
    /\ UNCHANGED <<now, gens, fan, one, asked>>

----------------------------------------------------------------------------
(* SearchAll. *)

(***************************************************************************)
(* selectSources: the ids named, or every source. An id nothing is         *)
(* registered under is reported as unknown. Nothing to ask: ErrNoSources.  *)
(***************************************************************************)
SearchAll(f, q, named) ==
    LET chosen == IF named = {} THEN Registered ELSE named
    IN /\ fan[f].st = "idle"
       /\ fan' = [fan EXCEPT ![f].st = IF chosen = {} THEN "returned" ELSE "going", ![f].query = q]
       /\ one' = [one EXCEPT ![f] = [i \in Ids |->
                    IF i \notin chosen THEN Off
                    ELSE IF i \notin Registered THEN [Off EXCEPT !.pc = "unknown"]
                    ELSE [pc |-> "begin", gen |-> sources[i].gen]]]
       /\ UNCHANGED <<now, regVars, cache, asked>>

At(f, i, pc) == fan[f].st = "going" /\ one[f][i].pc = pc
GoTo(f, i, pc) == one' = [one EXCEPT ![f][i].pc = pc]

\* The source this goroutine selected is still the one registered.
Current(f, i) == sources[i] # None /\ sources[i].gen = one[f][i].gen

\* supports and cachedResults: an answer that has aged out is dropped.
LookUp(f, i) ==
    LET q == fan[f].query
        e == cache[i][q]
    IN /\ At(f, i, "begin")
       /\ IF i \notin Able[q]
          THEN GoTo(f, i, "skipped") /\ UNCHANGED cache
          ELSE /\ GoTo(f, i, IF Fresh(e) THEN "hit" ELSE "reserve")
               /\ cache' = IF Fresh(e) THEN cache ELSE [cache EXCEPT ![i][q] = None]
       /\ UNCHANGED <<now, regVars, fan, asked>>

\* Mutant: the slot is checked here but taken only once the answer is in.
ReserveLate(f, i) ==
    /\ At(f, i, "reserve")
    /\ GoTo(f, i, IF ~Current(f, i) THEN "unknown" ELSE IF Recent(sources[i].last) THEN "skipped" ELSE "ask")
    /\ asked' = IF one'[f][i].pc = "ask" THEN [asked EXCEPT ![i] = now] ELSE asked
    /\ UNCHANGED <<now, regVars, cache, fan>>

\* reserveFetch: the source is gone, was asked a moment ago, or may be asked.
Reserve(f, i) ==
    /\ At(f, i, "reserve")
    /\ \/ ~Current(f, i) /\ GoTo(f, i, "unknown") /\ UNCHANGED <<sources, asked>>
       \/ Current(f, i) /\ Recent(sources[i].last) /\ GoTo(f, i, "skipped") /\ UNCHANGED <<sources, asked>>
       \/ /\ Current(f, i) /\ ~Recent(sources[i].last)
          /\ GoTo(f, i, "ask")
          /\ sources' = [sources EXCEPT ![i].last = now]
          /\ asked' = [asked EXCEPT ![i] = now]
    /\ UNCHANGED <<now, gens, retired, cache, fan>>

\* Mutant: callSearch waits for the adapter, deadline or not.
NeverGivesUp(f, i) ==
    /\ At(f, i, "ask")
    /\ one[f][i].gen > MaxGens[i]
    /\ GoTo(f, i, "failed")
    /\ UNCHANGED <<now, regVars, cache, fan, asked>>

\* callSearch: the source answers, with an error or a panic for one.
Answers(f, i) ==
    /\ At(f, i, "ask")
    /\ GoTo(f, i, "store") \/ GoTo(f, i, "failed")
    /\ UNCHANGED <<now, regVars, cache, fan, asked>>

\* Its deadline passes, or the caller has given up; a late answer is discarded.
GivesUp(f, i) ==
    /\ At(f, i, "ask")
    /\ GoTo(f, i, "failed")
    /\ UNCHANGED <<now, regVars, cache, fan, asked>>

\* Mutant: any answer is cached, whoever is registered by now.
StoreAny(f, i) ==
    /\ At(f, i, "store")
    /\ GoTo(f, i, "fetched")
    /\ cache' = [cache EXCEPT ![i][fan[f].query] = [gen |-> one[f][i].gen, fetched |-> now]]
    /\ UNCHANGED <<now, regVars, fan, asked>>

\* storeResults: every answer that has aged out is dropped as well.
Store(f, i) ==
    /\ At(f, i, "store")
    /\ GoTo(f, i, "fetched")
    /\ cache' = IF ~Current(f, i) THEN cache
                ELSE [j \in Ids |-> [q \in Queries |->
                        IF j = i /\ q = fan[f].query THEN [gen |-> one[f][i].gen, fetched |-> now]
                        ELSE IF Fresh(cache[j][q]) THEN cache[j][q] ELSE None]]
    /\ UNCHANGED <<now, regVars, fan, asked>>

Ended(f) == \A i \in Ids : one[f][i].pc \in {"off"} \cup Outcomes

\* wg.Wait is over: the outcomes are merged into the result.
Return(f) ==
    /\ fan[f].st = "going"
    /\ Ended(f)
    /\ fan' = [fan EXCEPT ![f].st = "returned"]
    /\ one' = [one EXCEPT ![f] = [i \in Ids |-> Off]]
    /\ UNCHANGED <<now, regVars, cache, asked>>

----------------------------------------------------------------------------

Goroutine(f, i) == LookUp(f, i) \/ Reserve(f, i) \/ Answers(f, i) \/ GivesUp(f, i) \/ Store(f, i)

Next ==
    \/ Tick
    \/ \E i \in Ids : Register(i) \/ Unregister(i)
    \/ \E f \in Fans :
        \/ \E q \in Queries, named \in SUBSET Ids : SearchAll(f, q, named)
        \/ \E i \in Ids : Goroutine(f, i)
        \/ Return(f)

Spec == Init /\ [][Next]_vars

----------------------------------------------------------------------------
(* What the registry promises. *)

TypeOK ==
    /\ now \in Nat /\ gens \in [Ids -> Nat]
    /\ sources \in [Ids -> Source \cup {None}]
    /\ retired \in [Ids -> Nat \cup {None}] /\ asked \in [Ids -> Nat \cup {None}]
    /\ cache \in [Ids -> [Queries -> Entry \cup {None}]]
    /\ fan \in [Fans -> Fan] /\ one \in [Fans -> [Ids -> One]]

(***************************************************************************)
(* DEC-183: every cached answer was given by the source registered under   *)
(* its id now, whatever was unregistered or replaced while a fetch was in  *)
(* flight.                                                                 *)
(***************************************************************************)
CacheIsCurrent ==
    \A i \in Ids, q \in Queries : cache[i][q] # None => i \in Registered /\ cache[i][q].gen = sources[i].gen

(***************************************************************************)
(* DefaultMinRefreshInterval is "the floor between two outbound requests   *)
(* to the same source": also between those of two fan-outs at once, and of *)
(* a source and the one registered anew under its id (T-995).              *)
(***************************************************************************)
FloorKept ==
    [][\A i \in Ids : (\E f \in Fans : one[f][i].pc = "reserve" /\ one'[f][i].pc = "ask")
                        => asked[i] = None \/ now - asked[i] >= Interval]_vars

\* What FloorKept rests on: the floor of the last request is kept somewhere
\* for as long as it counts.
FloorKnown ==
    \A i \in Ids : Recent(asked[i]) => \/ i \in Registered /\ sources[i].last = asked[i]
                                       \/ i \notin Registered /\ retired[i] = asked[i]
=============================================================================
