--------------------------- MODULE SourcesProofs ---------------------------
(***************************************************************************)
(* Proofs about sources: the registry and the search screen over it, for   *)
(* every set of sources, queries and searches and every interval; and      *)
(* the settings they are configured by, for every set of sources, specs    *)
(* and preferences and however many saves are under way at once.           *)
(***************************************************************************)
EXTENDS SearchScreen, Settings, TLAPS

----------------------------------------------------------------------------
(* The registry. *)

LEMMA InitTypes == Init => TypeOK
  BY NoneAssumption DEF Init, TypeOK, Source, Entry, One, Fan, NewFan, Off, Pcs, Outcomes

\* The registry's steps, one by one, keep every variable in its type.
LEMMA TypeStep == TypeOK /\ [Next]_vars => TypeOK'
<1> SUFFICES ASSUME TypeOK, [Next]_vars PROVE TypeOK'
  OBVIOUS
<1> USE NoneAssumption
<1>1. CASE Tick
  BY <1>1 DEF TypeOK, Tick, regVars
<1>2. ASSUME NEW i \in Ids, Register(i) PROVE TypeOK'
  <2>1. Pruned \in [Ids -> Nat \cup {None}]
    BY DEF TypeOK, Pruned
  <2>2. gens' \in [Ids -> Nat]
    BY <1>2 DEF TypeOK, Register
  <2>3. [gen |-> gens'[i], last |-> Pruned[i]] \in Source
    BY <2>1, <2>2 DEF Source
  <2>4. sources' \in [Ids -> Source \cup {None}] /\ retired' \in [Ids -> Nat \cup {None}]
    BY <1>2, <2>1, <2>3 DEF TypeOK, Register
  <2> QED
    BY <1>2, <2>2, <2>4 DEF TypeOK, Register
<1>3. ASSUME NEW i \in Ids, Unregister(i) PROVE TypeOK'
  <2>1. Pruned \in [Ids -> Nat \cup {None}]
    BY DEF TypeOK, Pruned
  <2>2. sources[i] \in Source
    BY <1>3 DEF TypeOK, Unregister, Registered
  <2>3. (IF Recent(sources[i].last) THEN sources[i].last ELSE Pruned[i]) \in Nat \cup {None}
    BY <2>1, <2>2 DEF Source
  <2>4. retired' \in [Ids -> Nat \cup {None}]
    BY <1>3, <2>1, <2>3 DEF Unregister
  <2>5. cache' \in [Ids -> [Queries -> Entry \cup {None}]]
    BY <1>3 DEF TypeOK, Unregister
  <2> QED
    BY <1>3, <2>4, <2>5 DEF TypeOK, Unregister
<1>4. ASSUME NEW f \in Fans, NEW q \in Queries, NEW named \in SUBSET Ids, SearchAll(f, q, named) PROVE TypeOK'
  <2>1. fan' \in [Fans -> Fan]
    BY <1>4 DEF TypeOK, SearchAll, Fan
  <2>2. \A i \in Registered : [pc |-> "begin", gen |-> sources[i].gen] \in One
    BY DEF TypeOK, Registered, Source, One, Pcs
  <2>3. Off \in One /\ [Off EXCEPT !.pc = "unknown"] \in One
    BY DEF Off, One, Pcs, Outcomes
  <2>4. one' \in [Fans -> [Ids -> One]]
    BY <1>4, <2>2, <2>3 DEF TypeOK, SearchAll
  <2> QED
    BY <1>4, <2>1, <2>4 DEF TypeOK, SearchAll, regVars
<1>5. ASSUME NEW f \in Fans, NEW i \in Ids, NEW pc \in Pcs, GoTo(f, i, pc) PROVE one' \in [Fans -> [Ids -> One]]
  <2>1. one[f] \in [Ids -> One] /\ one[f][i] \in One
    BY DEF TypeOK
  <2>2. [one[f][i] EXCEPT !.pc = pc] \in One
    BY <2>1 DEF One
  <2>3. one' = [one EXCEPT ![f] = [one[f] EXCEPT ![i] = [one[f][i] EXCEPT !.pc = pc]]]
    BY <1>5, <2>1 DEF TypeOK, GoTo
  <2> QED
    BY <2>1, <2>2, <2>3 DEF TypeOK
<1>6. ASSUME NEW f \in Fans, NEW i \in Ids, LookUp(f, i) PROVE TypeOK'
  <2>1. one' \in [Fans -> [Ids -> One]]
    BY <1>5, <1>6 DEF LookUp, Pcs, Outcomes
  <2>2. cache' \in [Ids -> [Queries -> Entry \cup {None}]]
    <3> DEFINE q == fan[f].query
    <3>1. cache[i] \in [Queries -> Entry \cup {None}]
      BY DEF TypeOK
    <3>2. [cache[i] EXCEPT ![q] = None] \in [Queries -> Entry \cup {None}]
      BY <3>1
    <3>3. [cache EXCEPT ![i][q] = None] \in [Ids -> [Queries -> Entry \cup {None}]]
      BY <3>2 DEF TypeOK
    <3> QED
      BY <1>6, <3>3 DEF TypeOK, LookUp
  <2> QED
    BY <1>6, <2>1, <2>2 DEF TypeOK, LookUp, regVars
<1>7. ASSUME NEW f \in Fans, NEW i \in Ids, Reserve(f, i) PROVE TypeOK'
  <2>1. one' \in [Fans -> [Ids -> One]]
    BY <1>5, <1>7 DEF Reserve, Pcs, Outcomes
  <2>2. sources' \in [Ids -> Source \cup {None}] /\ asked' \in [Ids -> Nat \cup {None}]
    <3>1. CASE UNCHANGED <<sources, asked>>
      BY <3>1 DEF TypeOK
    <3>2. CASE /\ Current(f, i)
               /\ sources' = [sources EXCEPT ![i].last = now]
               /\ asked' = [asked EXCEPT ![i] = now]
      <4>1. sources[i] \in Source /\ now \in Nat
        BY <3>2 DEF TypeOK, Current
      <4>2. [sources[i] EXCEPT !.last = now] \in Source
        BY <4>1 DEF Source
      <4>3. sources' = [sources EXCEPT ![i] = [sources[i] EXCEPT !.last = now]]
        BY <3>2
      <4> QED
        BY <3>2, <4>1, <4>2, <4>3 DEF TypeOK
    <3> QED
      BY <1>7, <3>1, <3>2 DEF Reserve
  <2> QED
    BY <1>7, <2>1, <2>2 DEF TypeOK, Reserve
<1>8. ASSUME NEW f \in Fans, NEW i \in Ids, Answers(f, i) \/ GivesUp(f, i) PROVE TypeOK'
  <2>1. one' \in [Fans -> [Ids -> One]]
    BY <1>5, <1>8 DEF Answers, GivesUp, Pcs, Outcomes
  <2> QED
    BY <1>8, <2>1 DEF TypeOK, Answers, GivesUp, regVars
<1>9. ASSUME NEW f \in Fans, NEW i \in Ids, Store(f, i) PROVE TypeOK'
  <2>1. one' \in [Fans -> [Ids -> One]]
    BY <1>5, <1>9 DEF Store, Pcs, Outcomes
  <2>2. [gen |-> one[f][i].gen, fetched |-> now] \in Entry
    BY DEF TypeOK, One, Entry
  <2>3. cache' \in [Ids -> [Queries -> Entry \cup {None}]]
    BY <1>9, <2>2 DEF TypeOK, Store
  <2> QED
    BY <1>9, <2>1, <2>3 DEF TypeOK, Store, regVars
<1>10. ASSUME NEW f \in Fans, Return(f) PROVE TypeOK'
  BY <1>10 DEF TypeOK, Return, regVars, Fan, One, Off, Pcs
<1>11. CASE UNCHANGED vars
  BY <1>11 DEF TypeOK, vars, regVars
<1> QED
  BY <1>1, <1>2, <1>3, <1>4, <1>6, <1>7, <1>8, <1>9, <1>10, <1>11 DEF Next, Goroutine

THEOREM RegistryTypes == Spec => []TypeOK
<1> QED
  BY InitTypes, TypeStep, PTL DEF Spec

\* An answer is cached, and a source removed, only together with what keeps
\* the cache that of the sources registered.
LEMMA CacheStep == TypeOK /\ CacheIsCurrent /\ [Next]_vars => CacheIsCurrent'
<1> SUFFICES ASSUME TypeOK, CacheIsCurrent, [Next]_vars,
                    NEW j \in Ids, NEW p \in Queries, cache'[j][p] # None
             PROVE  sources'[j] # None /\ cache'[j][p].gen = sources'[j].gen
  BY DEF CacheIsCurrent, Registered
<1>1. CASE UNCHANGED <<sources, cache>>
  BY <1>1 DEF CacheIsCurrent, Registered
<1>2. ASSUME NEW i \in Ids, Register(i) PROVE sources'[j] # None /\ cache'[j][p].gen = sources'[j].gen
  BY <1>2 DEF Register, TypeOK, CacheIsCurrent, Registered
<1>3. ASSUME NEW i \in Ids, Unregister(i) PROVE sources'[j] # None /\ cache'[j][p].gen = sources'[j].gen
  BY <1>3 DEF Unregister, TypeOK, CacheIsCurrent, Registered
<1>4. ASSUME NEW f \in Fans, NEW i \in Ids, LookUp(f, i) PROVE sources'[j] # None /\ cache'[j][p].gen = sources'[j].gen
  <2>1. cache'[j][p] = cache[j][p] /\ sources' = sources
    BY <1>4 DEF LookUp, TypeOK, regVars
  <2> QED
    BY <2>1 DEF CacheIsCurrent, Registered
<1>5. ASSUME NEW f \in Fans, NEW i \in Ids, Reserve(f, i) PROVE sources'[j] # None /\ cache'[j][p].gen = sources'[j].gen
  <2>1. sources[j] # None /\ cache'[j][p].gen = sources[j].gen
    BY <1>5 DEF Reserve, CacheIsCurrent, Registered
  <2>2. CASE sources' = sources
    BY <2>1, <2>2
  <2>3. CASE sources' = [sources EXCEPT ![i].last = now]
    <3>1. sources[j] \in Source /\ now \in Nat
      BY <2>1 DEF TypeOK
    <3>2. [sources[j] EXCEPT !.last = now] \in Source /\ [sources[j] EXCEPT !.last = now].gen = sources[j].gen
      BY <3>1 DEF Source
    <3>3. sources'[j] \in {sources[j], [sources[j] EXCEPT !.last = now]}
      BY <2>3 DEF TypeOK
    <3> QED
      BY <2>1, <3>2, <3>3, NoneAssumption DEF Source
  <2> QED
    BY <1>5, <2>2, <2>3 DEF Reserve
<1>6. ASSUME NEW f \in Fans, NEW i \in Ids, Store(f, i) PROVE sources'[j] # None /\ cache'[j][p].gen = sources'[j].gen
  <2>1. sources' = sources
    BY <1>6 DEF Store, regVars
  <2>2. CASE cache'[j][p] = cache[j][p]
    BY <2>1, <2>2 DEF CacheIsCurrent, Registered
  <2>3. CASE j = i /\ Current(f, i) /\ cache'[j][p] = [gen |-> one[f][i].gen, fetched |-> now]
    BY <2>1, <2>3 DEF Current
  <2> QED
    BY <1>6, <2>2, <2>3 DEF Store
<1> QED
  BY <1>1, <1>2, <1>3, <1>4, <1>5, <1>6
  DEF Next, Goroutine, Tick, SearchAll, Answers, GivesUp, Return, vars, regVars

(***************************************************************************)
(* Every cached answer is of the source registered now (Registry.          *)
(* CacheIsCurrent): storeResults checks the source again under the lock,   *)
(* and Unregister empties its cache there.                                 *)
(***************************************************************************)
THEOREM CacheCorrect == Spec => []CacheIsCurrent
<1>1. Init => CacheIsCurrent
  BY DEF Init, CacheIsCurrent
<1> QED
  BY <1>1, RegistryTypes, CacheStep, PTL DEF Spec

----------------------------------------------------------------------------
(* The floor between two requests to a source. *)

LEMMA FloorStep == TypeOK /\ FloorKnown /\ [Next]_vars => FloorKnown'
<1> SUFFICES ASSUME TypeOK, FloorKnown, [Next]_vars, NEW j \in Ids, Recent(asked[j])'
             PROVE  \/ sources'[j] # None /\ sources'[j].last = asked'[j]
                    \/ sources'[j] = None /\ retired'[j] = asked'[j]
  BY DEF FloorKnown, Registered
<1> DEFINE Known == \/ sources[j] # None /\ sources[j].last = asked[j]
                    \/ sources[j] = None /\ retired[j] = asked[j]
<1> USE NoneAssumption, TimesAssumption
<1>1. Recent(asked[j]) => Known
  BY DEF FloorKnown, Registered
<1>2. CASE UNCHANGED <<now, sources, retired, asked>>
  BY <1>1, <1>2 DEF Recent
<1>3. CASE Tick
  BY <1>1, <1>3 DEF Tick, Recent, TypeOK, regVars
<1>4. ASSUME NEW i \in Ids, Register(i) PROVE Known'
  <2>1. Known /\ Recent(asked[j]) /\ asked' = asked
    BY <1>1, <1>4 DEF Register, Recent
  <2>2. CASE i = j
    <3>1. sources'[j] = [gen |-> gens'[j], last |-> Pruned[j]] /\ gens'[j] \in Nat
      BY <1>4, <2>2 DEF Register, TypeOK
    <3>2. Pruned[j] = asked[j] /\ Pruned[j] \in Nat
      BY <1>4, <2>1, <2>2 DEF Register, Registered, Pruned, TypeOK, Recent
    <3>3. sources'[j] \in Source /\ sources'[j].last = asked[j]
      BY <3>1, <3>2 DEF Source
    <3> QED
      BY <2>1, <3>3 DEF Source
  <2>3. CASE i # j
    BY <1>4, <2>1, <2>3 DEF Register, Pruned, TypeOK, Recent
  <2> QED
    BY <2>2, <2>3
<1>5. ASSUME NEW i \in Ids, Unregister(i) PROVE Known'
  <2>1. Known /\ Recent(asked[j]) /\ asked' = asked
    BY <1>1, <1>5 DEF Unregister, Recent
  <2>2. CASE i = j
    BY <1>5, <2>1, <2>2 DEF Unregister, Registered, Pruned, TypeOK
  <2>3. CASE i # j
    BY <1>5, <2>1, <2>3 DEF Unregister, Pruned, TypeOK
  <2> QED
    BY <2>2, <2>3
<1>6. ASSUME NEW f \in Fans, NEW i \in Ids, Reserve(f, i) PROVE Known'
  <2>1. CASE UNCHANGED <<sources, asked>>
    BY <1>2, <1>6, <2>1 DEF Reserve
  <2>2. CASE /\ Current(f, i)
             /\ sources' = [sources EXCEPT ![i].last = now]
             /\ asked' = [asked EXCEPT ![i] = now]
    <3>1. CASE i = j
      <4>1. sources[j] \in Source /\ now \in Nat
        BY <2>2, <3>1 DEF Current, TypeOK
      <4>2. sources'[j] = [sources[j] EXCEPT !.last = now] /\ asked'[j] = now
        BY <2>2, <3>1 DEF TypeOK
      <4>3. sources'[j] \in Source /\ sources'[j].last = now
        BY <4>1, <4>2 DEF Source
      <4> QED
        BY <4>2, <4>3 DEF Source
    <3>2. CASE i # j
      BY <1>1, <1>6, <2>2, <3>2 DEF Reserve, Recent, TypeOK
    <3> QED
      BY <3>1, <3>2
  <2> QED
    BY <1>6, <2>1, <2>2 DEF Reserve
<1> QED
  BY <1>2, <1>3, <1>4, <1>5, <1>6
  DEF Next, Goroutine, SearchAll, LookUp, Answers, GivesUp, Store, Return, vars, regVars

\* What a request rests on: its source's floor is known (Registry.FloorKnown),
\* to the source registered or, once it is gone, to retiredFetch.
THEOREM FloorCorrect == Spec => []FloorKnown
<1>1. Init => FloorKnown
  BY DEF Init, FloorKnown, Recent
<1> QED
  BY <1>1, RegistryTypes, FloorStep, PTL DEF Spec

\* A step sends a goroutine from "reserve" to "ask" only by reserving.
LEMMA OnlyReserveAsks ==
    ASSUME TypeOK, [Next]_vars, NEW f \in Fans, NEW i \in Ids, one[f][i].pc = "reserve", one'[f][i].pc = "ask"
    PROVE  Current(f, i) /\ ~Recent(sources[i].last)
<1>1. ASSUME NEW g \in Fans, NEW j \in Ids, NEW pc, GoTo(g, j, pc)
      PROVE  /\ g = f /\ j = i => one'[f][i].pc = pc
             /\ g # f \/ j # i => one'[f][i] = one[f][i]
  <2>1. one[g] \in [Ids -> One] /\ one[f] \in [Ids -> One] /\ one[g][j] \in One
    BY DEF TypeOK
  <2>2. one' = [one EXCEPT ![g] = [one[g] EXCEPT ![j] = [one[g][j] EXCEPT !.pc = pc]]]
    BY <1>1, <2>1 DEF GoTo, TypeOK
  <2>3. one'[f] = IF g = f THEN [one[g] EXCEPT ![j] = [one[g][j] EXCEPT !.pc = pc]] ELSE one[f]
    BY <2>2 DEF TypeOK
  <2> QED
    BY <2>1, <2>3 DEF One
<1>2. ASSUME NEW g \in Fans, NEW j \in Ids, Goroutine(g, j) PROVE g = f /\ j = i /\ Reserve(f, i)
  <2>1. CASE LookUp(g, j)
    BY <1>1, <2>1 DEF LookUp, At
  <2>2. CASE Reserve(g, j)
    BY <1>1, <2>2 DEF Reserve, At
  <2>3. CASE Answers(g, j) \/ GivesUp(g, j) \/ Store(g, j)
    BY <1>1, <2>3 DEF Answers, GivesUp, Store, At
  <2> QED
    BY <1>2, <2>1, <2>2, <2>3 DEF Goroutine
<1>3. ASSUME NEW g \in Fans, NEW q, NEW named, SearchAll(g, q, named) PROVE FALSE
  BY <1>3 DEF SearchAll, TypeOK, Off, One
<1>4. ASSUME NEW g \in Fans, Return(g) PROVE FALSE
  BY <1>4 DEF Return, TypeOK, Off
<1>5. CASE UNCHANGED one
  BY <1>5
<1>6. PICK g \in Fans, j \in Ids : Goroutine(g, j)
  BY <1>3, <1>4, <1>5 DEF Next, Tick, Register, Unregister, vars
<1>7. Reserve(f, i)
  BY <1>2, <1>6
<1> QED
  BY <1>1, <1>7 DEF Reserve

(***************************************************************************)
(* Two requests to one source are at least the interval apart (Registry.   *)
(* FloorKept), whichever fan-outs send them and whether or not the source  *)
(* was registered anew between.                                            *)
(***************************************************************************)
THEOREM FloorIsKept == Spec => FloorKept
<1> DEFINE Apart == \A i \in Ids : (\E f \in Fans : one[f][i].pc = "reserve" /\ one'[f][i].pc = "ask")
                                      => asked[i] = None \/ now - asked[i] >= Interval
<1>1. TypeOK /\ FloorKnown /\ [Next]_vars => [Apart]_vars
  <2> SUFFICES ASSUME TypeOK, FloorKnown, [Next]_vars, NEW i \in Ids, NEW f \in Fans,
                      one[f][i].pc = "reserve", one'[f][i].pc = "ask", asked[i] # None
               PROVE  now - asked[i] >= Interval
    OBVIOUS
  <2>1. sources[i] # None /\ ~Recent(sources[i].last)
    BY OnlyReserveAsks DEF Current
  <2>2. ~Recent(asked[i])
    BY <2>1 DEF FloorKnown, Registered
  <2> QED
    BY <2>2, TimesAssumption DEF Recent, TypeOK
<1>2. Spec => [][Apart]_vars
  BY <1>1, RegistryTypes, FloorCorrect, PTL DEF Spec
<1> QED
  BY <1>2 DEF FloorKept

----------------------------------------------------------------------------
(* The screen. *)

(***************************************************************************)
(* What the searches sent look like. A search beyond sent is not there     *)
(* yet; one that is asks a query; the one shown has been handled; and      *)
(* generation is that of the last one sent, or 0 after esc.                *)
(***************************************************************************)
Sent ==
    /\ shown \in Fans \cup {0}
    /\ generation \in {0, sent}
    /\ \A f \in Fans : f > sent => search[f].st = "none"
    /\ \A f \in Fans : search[f].st # "none" => search[f].query \in Queries
    /\ shown # 0 => search[shown].st = "handled"

\* The screen's own part of ScreenTypeOK.
Types ==
    /\ inFlight \in BOOLEAN
    /\ sent \in Fans \cup {0} /\ generation \in 0..sent /\ shown \in 0..sent
    /\ search \in [Fans -> Search]
    /\ \A f \in Fans : fan[f].st = "idle" <=> search[f].st \in {"none", "sent"}

ScreenInv == TypeOK /\ Types /\ Sent

\* Giving up the search in flight leaves the searches what they were.
LEMMA CancelledKeeps ==
    ASSUME search \in [Fans -> Search]
    PROVE  /\ Cancelled \in [Fans -> Search]
           /\ \A f \in Fans : /\ Cancelled[f].st = search[f].st /\ Cancelled[f].query = search[f].query
                              /\ InFlight(f) => Cancelled[f].cancelled
                              /\ ~InFlight(f) => Cancelled[f] = search[f]
<1>1. \A f \in Fans : search[f] \in Search
  OBVIOUS
<1>2. \A f \in Fans : LET c == [search[f] EXCEPT !.cancelled = TRUE]
                      IN c \in Search /\ c.cancelled /\ c.st = search[f].st /\ c.query = search[f].query
  BY <1>1 DEF Search
<1> QED
  BY <1>1, <1>2 DEF Cancelled

(***************************************************************************)
(* Send adds the next search. The others keep their state and their query, *)
(* and of them none is left that is neither over nor cancelled.            *)
(***************************************************************************)
LEMMA SendAdds ==
    ASSUME Types, NEW q \in Queries, NEW ids \in SUBSET Ids, Send(q, ids)
    PROVE  /\ sent' = sent + 1 /\ sent' \in Fans /\ generation' = sent' /\ inFlight' = TRUE
           /\ UNCHANGED <<vars, shown>>
           /\ search' \in [Fans -> Search]
           /\ search'[sent'].st = "sent" /\ search'[sent'].query = q
           /\ \A f \in Fans \ {sent'} : search'[f] = Cancelled[f]
<1>1. Cancelled \in [Fans -> Search]
  BY CancelledKeeps DEF Types
<1>2. [query |-> q, ids |-> ids, cancelled |-> FALSE, st |-> "sent"] \in Search
  BY DEF Search
<1> QED
  BY <1>1, <1>2 DEF Send

\* Every step of the screen's specification is one of the registry's or none.
LEMMA ScreenStepsRegistry == ScreenInv /\ [ScreenNext]_allVars => [Next]_vars
<1> SUFFICES ASSUME ScreenInv, [ScreenNext]_allVars PROVE [Next]_vars
  OBVIOUS
<1>1. CASE Update
  BY <1>1 DEF Update, DispatchSearch, HandleRefresh, Send, HandleSearchCancel, HandleSearchResult
<1>2. ASSUME NEW f \in Fans, Call(f) PROVE Next
  <2>1. search[f].query \in Queries /\ search[f].ids \in SUBSET Ids
    BY <1>2 DEF Call, ScreenInv, Types, Sent, Search
  <2> QED
    BY <1>2, <2>1 DEF Call, Next
<1>3. CASE Tick \/ Settings \/ \E f \in Fans : FanOut(f)
  BY <1>3 DEF Settings, FanOut, Next
<1>4. CASE UNCHANGED allVars
  BY <1>4 DEF allVars
<1> QED
  BY <1>1, <1>2, <1>3, <1>4 DEF ScreenNext

\* The registry's own steps leave a call idle, or running or over.
LEMMA FansKept ==
    ASSUME TypeOK, Tick \/ Settings \/ \E f \in Fans : FanOut(f)
    PROVE  \A f \in Fans : fan'[f].st = "idle" <=> fan[f].st = "idle"
<1>1. CASE UNCHANGED fan
  BY <1>1
<1>2. ASSUME NEW g \in Fans, Return(g) PROVE \A f \in Fans : fan'[f].st = "idle" <=> fan[f].st = "idle"
  <2>1. fan[g] \in Fan
    BY DEF TypeOK
  <2>2. fan' = [fan EXCEPT ![g] = [fan[g] EXCEPT !.st = "returned"]] /\ fan[g].st = "going"
    BY <1>2, <2>1 DEF Return, TypeOK
  <2> QED
    BY <2>1, <2>2 DEF Fan, TypeOK
<1> QED
  BY <1>1, <1>2
  DEF Tick, Settings, Register, Unregister, FanOut, Goroutine, LookUp, Reserve, Answers, GivesUp, Store

LEMMA ScreenStep == ScreenInv /\ [ScreenNext]_allVars => ScreenInv'
<1> SUFFICES ASSUME ScreenInv, [ScreenNext]_allVars PROVE Types' /\ Sent'
  BY ScreenStepsRegistry, TypeStep DEF ScreenInv
<1> USE FansAssumption DEF ScreenInv
<1>1. ASSUME NEW q \in Queries, NEW ids \in SUBSET Ids, Send(q, ids) PROVE Types' /\ Sent'
  <2>1. /\ sent' = sent + 1 /\ sent' \in Fans /\ generation' = sent' /\ inFlight' = TRUE
        /\ UNCHANGED <<vars, shown>>
        /\ search' \in [Fans -> Search]
        /\ search'[sent'].st = "sent" /\ search'[sent'].query = q
        /\ \A f \in Fans \ {sent'} : search'[f] = Cancelled[f]
    BY <1>1, SendAdds
  <2>2. \A f \in Fans \ {sent'} : search'[f].st = search[f].st /\ search'[f].query = search[f].query
    BY <2>1, CancelledKeeps DEF Types
  <2>3. sent \in Nat /\ search[sent'].st = "none"
    <3>1. sent \in Nat
      BY DEF Types
    <3>. QED  BY <2>1, <3>1 DEF Sent
  <2>4. Types'
    <3>1. \A f \in Fans : fan'[f].st = "idle" <=> search'[f].st \in {"none", "sent"}
      BY <2>1, <2>2, <2>3 DEF Types, vars
    <3> QED
      BY <2>1, <2>3, <3>1 DEF Types, Sent
  <2>5. Sent'
    <3>1. shown' = shown /\ shown \in Fans \cup {0} /\ shown # sent'
      BY <2>1, <2>3 DEF Types, Sent
    <3>2. shown' # 0 => search'[shown'].st = "handled"
      BY <2>2, <3>1 DEF Sent
    <3>3. \A f \in Fans : f > sent' => search'[f].st = "none"
      BY <2>1, <2>2, <2>3 DEF Sent
    <3>4. \A f \in Fans : search'[f].st # "none" => search'[f].query \in Queries
      BY <2>1, <2>2 DEF Sent
    <3> QED
      BY <2>1, <3>1, <3>2, <3>3, <3>4 DEF Sent
  <2> QED
    BY <2>4, <2>5
<1>2. ASSUME search' = Cancelled, UNCHANGED <<vars, sent, shown>>,
             inFlight' \in BOOLEAN, generation' \in {0, generation}
      PROVE  Types' /\ Sent'
  <2>1. Cancelled \in [Fans -> Search]
    BY CancelledKeeps DEF Types
  <2>2. \A f \in Fans : search'[f].st = search[f].st /\ search'[f].query = search[f].query
    BY <1>2, CancelledKeeps DEF Types
  <2>3. Types'
    BY <1>2, <2>1, <2>2 DEF Types, Sent, vars
  <2> QED
    BY <1>2, <2>2, <2>3 DEF Types, Sent
<1>3. CASE \E q \in Queries, ids \in SUBSET Ids : DispatchSearch(q, ids)
  BY <1>1, <1>2, <1>3 DEF DispatchSearch, Types
<1>4. CASE HandleRefresh
  <2>1. search[shown].query \in Queries /\ search[shown].ids \in SUBSET Ids
    BY <1>4 DEF HandleRefresh, Types, Sent, Search
  <2> QED
    BY <1>1, <1>4, <2>1 DEF HandleRefresh
<1>5. CASE HandleSearchCancel
  BY <1>2, <1>5 DEF HandleSearchCancel
<1>6. ASSUME NEW f \in Fans, HandleSearchResult(f) PROVE Types' /\ Sent'
  <2>1. search[f] \in Search /\ search[f].st = "called" /\ fan' = fan
    BY <1>6 DEF HandleSearchResult, Arrived, Types, vars
  <2>2. /\ [search[f] EXCEPT !.st = "handled"] \in Search
        /\ [search[f] EXCEPT !.st = "handled"].st = "handled"
        /\ [search[f] EXCEPT !.st = "handled"].query = search[f].query
    BY <2>1 DEF Search
  <2>3. search' = [search EXCEPT ![f] = [search[f] EXCEPT !.st = "handled"]]
    BY <1>6, <2>1 DEF HandleSearchResult, Types
  <2>4. ~(f > sent)
    BY <2>1 DEF Sent
  <2>5. search' \in [Fans -> Search]
        /\ \A g \in Fans : fan'[g].st = "idle" <=> search'[g].st \in {"none", "sent"}
    BY <2>1, <2>2, <2>3 DEF Types
  <2>6. /\ \A g \in Fans : g > sent => search'[g].st = "none"
        /\ \A g \in Fans : search'[g].st # "none" => search'[g].query \in Queries
        /\ search'[f].st = "handled"
        /\ shown # 0 => search'[shown].st = "handled"
    BY <2>1, <2>2, <2>3, <2>4 DEF Types, Sent
  <2> QED
    BY <1>6, <2>4, <2>5, <2>6 DEF HandleSearchResult, Types, Sent
<1>7. ASSUME NEW f \in Fans, Call(f) PROVE Types' /\ Sent'
  <2>1. search[f] \in Search /\ search[f].st = "sent" /\ search' = [search EXCEPT ![f].st = "called"]
    BY <1>7 DEF Call, Types
  <2>2. /\ [search[f] EXCEPT !.st = "called"] \in Search
        /\ [search[f] EXCEPT !.st = "called"].st = "called"
        /\ [search[f] EXCEPT !.st = "called"].query = search[f].query
    BY <2>1 DEF Search
  <2>3. search' = [search EXCEPT ![f] = [search[f] EXCEPT !.st = "called"]]
    BY <2>1 DEF Types
  <2>4. fan'[f].st # "idle" /\ \A g \in Fans \ {f} : fan'[g] = fan[g]
    BY <1>7 DEF Call, SearchAll, TypeOK, Fan
  <2>5. Types'
    BY <1>7, <2>1, <2>2, <2>3, <2>4 DEF Call, Types
  <2> QED
    BY <1>7, <2>1, <2>2, <2>3, <2>5 DEF Call, Types, Sent
<1>8. CASE (Tick \/ Settings \/ \E f \in Fans : FanOut(f)) /\ UNCHANGED screen
  BY <1>8, FansKept DEF Types, Sent, screen
<1>9. CASE UNCHANGED allVars
  BY <1>9 DEF Types, Sent, allVars, vars, screen
<1> QED
  BY <1>3, <1>4, <1>5, <1>6, <1>7, <1>8, <1>9 DEF ScreenNext, Update

LEMMA ScreenInvariant == ScreenSpec => []ScreenInv
<1>1. ScreenInit => ScreenInv
  <2> SUFFICES ASSUME ScreenInit PROVE Types /\ Sent
    BY InitTypes DEF ScreenInit, ScreenInv
  <2>1. New \in Search
    BY DEF New, Search
  <2>2. \A f \in Fans : search[f].st = "none" /\ fan[f].st = "idle"
    BY DEF ScreenInit, Init, New, NewFan
  <2>3. search \in [Fans -> Search]
    BY <2>1 DEF ScreenInit
  <2>4. inFlight \in BOOLEAN /\ sent = 0 /\ generation = 0 /\ shown = 0
    BY DEF ScreenInit
  <2>5. Types
    BY <2>2, <2>3, <2>4 DEF Types
  <2>6. Sent
    BY <2>2, <2>4 DEF Sent
  <2> QED
    BY <2>5, <2>6
<1> QED
  BY <1>1, ScreenStep, PTL DEF ScreenSpec

\* Every variable of the screen and of the registry below it keeps its type,
\* and a call of SearchAll has begun exactly when its search was called.
THEOREM ScreenTypes == ScreenSpec => []ScreenTypeOK
<1>1. ScreenInv => ScreenTypeOK
  BY DEF ScreenInv, Types, ScreenTypeOK
<1> QED
  BY <1>1, ScreenInvariant, PTL

(***************************************************************************)
(* The screen uses the registry only by its operations: every behaviour of *)
(* the two is one of the registry, so that what is proved of the registry  *)
(* alone holds under the screen.                                           *)
(***************************************************************************)
THEOREM ScreenUsesRegistry == ScreenSpec => Spec
<1>1. ScreenInit => Init
  BY DEF ScreenInit
<1> QED
  BY <1>1, ScreenInvariant, ScreenStepsRegistry, PTL DEF ScreenSpec, Spec

(***************************************************************************)
(* A newer search's results are never replaced by an older one's           *)
(* (NeverGoesBack): the only result applied is the last search's.          *)
(***************************************************************************)
THEOREM NewestShown == ScreenSpec => NeverGoesBack
<1> DEFINE Newer == shown' # shown => shown' > shown /\ shown' = sent
<1>1. ScreenInv /\ [ScreenNext]_allVars => [Newer]_allVars
  <2> SUFFICES ASSUME ScreenInv, [ScreenNext]_allVars, shown' # shown PROVE shown' > shown /\ shown' = sent
    OBVIOUS
  <2>1. PICK f \in Fans : HandleSearchResult(f)
    BY DEF ScreenNext, Update, DispatchSearch, HandleRefresh, Send, HandleSearchCancel, Call, screen, allVars
  <2>2. shown' = f /\ generation = f
    BY <2>1 DEF HandleSearchResult
  <2>3. f # 0 /\ f = sent /\ shown \in 0..sent /\ sent \in Nat
    BY <2>2, FansAssumption DEF ScreenInv, Types, Sent
  <2> QED
    BY <2>2, <2>3
<1>2. ScreenSpec => [][Newer]_allVars
  BY <1>1, ScreenInvariant, PTL DEF ScreenSpec
<1> QED
  BY <1>2 DEF NeverGoesBack

\* Of the searches under way only the one in flight is not cancelled: every
\* step that takes the screen off a search cancels it.
LEMMA NoneUnseenStep == ScreenInv /\ NoneUnseen /\ [ScreenNext]_allVars => NoneUnseen'
<1> SUFFICES ASSUME ScreenInv, NoneUnseen, [ScreenNext]_allVars, NEW g \in Fans,
                    search'[g].st \in {"sent", "called"}, ~search'[g].cancelled
             PROVE  InFlight(g)'
  BY DEF NoneUnseen
<1> USE DEF ScreenInv
<1>1. ASSUME NEW q \in Queries, NEW ids \in SUBSET Ids, Send(q, ids) PROVE InFlight(g)'
  <2>1. /\ generation' = sent' /\ inFlight' = TRUE
        /\ \A f \in Fans \ {sent'} : search'[f] = Cancelled[f]
    BY <1>1, SendAdds
  <2>2. CASE g # sent'
    BY <2>1, <2>2, CancelledKeeps DEF NoneUnseen, Types
  <2> QED
    BY <2>1, <2>2 DEF InFlight
<1>2. ASSUME search' = Cancelled PROVE FALSE
  BY <1>2, CancelledKeeps DEF NoneUnseen, Types
<1>3. CASE \E q \in Queries, ids \in SUBSET Ids : DispatchSearch(q, ids)
  BY <1>1, <1>2, <1>3 DEF DispatchSearch
<1>4. CASE HandleRefresh
  <2>1. search[shown].query \in Queries /\ search[shown].ids \in SUBSET Ids
    BY <1>4 DEF HandleRefresh, Types, Sent, Search
  <2> QED
    BY <1>1, <1>4, <2>1 DEF HandleRefresh
<1>5. CASE HandleSearchCancel
  BY <1>2, <1>5 DEF HandleSearchCancel
<1>6. ASSUME NEW f \in Fans, HandleSearchResult(f) PROVE InFlight(g)'
  <2>1. search[f] \in Search /\ search' = [search EXCEPT ![f] = [search[f] EXCEPT !.st = "handled"]]
    BY <1>6 DEF HandleSearchResult, Types
  <2>2. f # g /\ InFlight(g)
    BY <2>1 DEF NoneUnseen, Types, Search
  <2> QED
    BY <1>6, <2>2 DEF HandleSearchResult, InFlight
<1>7. ASSUME NEW f \in Fans, Call(f) PROVE InFlight(g)'
  <2>1. search[f] \in Search /\ search[f].st = "sent"
    BY <1>7 DEF Call, Types
  <2>2. search' = [search EXCEPT ![f] = [search[f] EXCEPT !.st = "called"]]
    BY <1>7, <2>1 DEF Call, Types
  <2>3. search[g].st \in {"sent", "called"} /\ ~search[g].cancelled
    BY <2>1, <2>2 DEF Types, Search
  <2> QED
    BY <1>7, <2>3 DEF Call, NoneUnseen, InFlight
<1>8. CASE UNCHANGED screen
  BY <1>8 DEF screen, NoneUnseen, InFlight
<1> QED
  BY <1>3, <1>4, <1>5, <1>6, <1>7, <1>8 DEF ScreenNext, Update, allVars

(***************************************************************************)
(* No fan-out runs unseen (NoneUnseen): esc and a newer search cancel the  *)
(* context of the one they take the screen off.                            *)
(***************************************************************************)
THEOREM NothingUnseen == ScreenSpec => []NoneUnseen
<1>1. ScreenInit => NoneUnseen
  BY DEF ScreenInit, NoneUnseen, New
<1> QED
  BY <1>1, ScreenInvariant, NoneUnseenStep, PTL DEF ScreenSpec
----------------------------------------------------------------------------
(* The settings. What a command carries depends on what it saves. *)

ItemOK(x) ==
    /\ x.kind = "sources" => x.what \in [all : Entries, previous : Entries]
    /\ x.kind = "builtin" => x.what \in [id : Builtins, enabled : BOOLEAN]
    /\ x.kind = "prefs" => x.what \in Config

ResultOK(r) == r.kind \in {"sources", "builtin", "prefs"} /\ ItemOK(r) /\ r.err \in BOOLEAN /\ r.rows \in Rows

Jobs == [kind : {"start", "none", "sources", "builtin", "reload"}, drop : SUBSET Sources, add : SUBSET Sources]

\* The types, and what is asked of the manager by each command.
SettingsTypes ==
    /\ SettingsTypeOK
    /\ version \in Nat
    /\ strayed \subseteq Names
    /\ job \in Jobs /\ (job.kind = "none" => job = Idle)
    /\ \A i \in job.add : Desired(cfg, i) # Absent
    /\ \A c \in cmds : c.kind \in {"sources", "builtin", "prefs", "reload"} /\ ItemOK(c)
    /\ \A c \in reads : c.kind \in {"sources", "builtin"} /\ ItemOK(c)
    /\ \A r \in results : ResultOK(r) /\ r.seq \in 0..version

\* What a sync has yet to unregister and to register is not as the
\* configuration wants it, and all the rest is.
SyncInv ==
    /\ disk = cfg
    /\ \A i \in Sources :
         /\ i \in job.drop \ job.add => Desired(cfg, i) = Absent
         /\ i \in job.add \ job.drop => built[i] = Absent
         /\ i \in job.drop \cup job.add => i \notin skipped
         /\ i \notin job.drop \cup job.add => built[i] = IF i \in skipped THEN Absent ELSE Desired(cfg, i)

\* But for the strayed ids, the registry holds what was built, and what was
\* not, for want of a definition, has one.
HeldInv ==
    /\ \A k \in Names \ strayed :
         registry[k] = IF k \in Sources /\ built[k] # Absent THEN [owner |-> k, spec |-> built[k]] ELSE Absent
    /\ \A i \in skipped \ strayed : i \in Sources /\ Desired(cfg, i) \in Scrapers

\* A result that brings rows, and has the search screen refreshed.
Brings(r) == ~r.err /\ r.kind # "prefs"

\* What the registry has lately is on the search screen, or will be by a
\* result on its way.
RefreshInv ==
    /\ job.kind \in {"sources", "builtin"} => reads # {}
    /\ \/ job.kind = "start" \/ unseen \/ reads # {} \/ searchIds = Held
       \/ \E r \in results : Brings(r)

\* The rows of the last version are shown, or will be.
ReadInv ==
    /\ \A r \in results : Brings(r) /\ r.seq = version => r.rows = RowsOf(cfg)
    /\ \/ seq = version \/ reads # {}
       \/ \E r \in results : Brings(r) /\ r.seq = version

\* A toggle of b is yet to be saved, or was refused.
Turning(b) ==
    \/ \E c \in cmds : c.kind = "builtin" /\ c.what.id = b
    \/ \E r \in results : r.kind = "builtin" /\ r.err /\ r.what.id = b

\* The rows of the last version are shown but for toggles.
RowsInv ==
    ~({"builtin"} \subseteq overlapped \cap failed) /\ seq = version =>
        \A b \in Builtins :
            \/ rows[b] = RowsOf(cfg)[b]
            \/ rows[b] # "hidden" /\ RowsOf(cfg)[b] # "hidden" /\ Turning(b)

Of(kind, xs) == {x \in xs : x.kind = kind}

\* A save that none of its kind overlapped is the only one of its kind.
Alone(kind) ==
    kind \notin overlapped =>
        /\ \A x, y \in Of(kind, cmds) : x = y
        /\ \A x, y \in Of(kind, reads) : x = y
        /\ \A x, y \in Of(kind, results) : x = y
        /\ Of(kind, cmds) = {} \/ (Of(kind, reads) = {} /\ Of(kind, results) = {})
        /\ Of(kind, reads) = {} \/ Of(kind, results) = {}
AloneInv == \A kind \in {"sources", "builtin", "prefs"} : Alone(kind)

\* rows r say of b what the configuration does, or that it is replaced.
Agrees(r, b) == r[b] = "hidden" \/ (r[b] = "off" <=> b \in cfg.off)

\* The built-ins turned off have been those since version v.
OffSince(v) ==
    /\ \A r \in results : Brings(r) /\ r.seq >= v => \A b \in Builtins : Agrees(r.rows, b)
    /\ seq >= v => \A b \in Builtins : Agrees(rows, b) \/ Turning(b)
    /\ \A r \in results : r.kind = "builtin" /\ Brings(r) => r.seq >= v
    /\ Of("builtin", reads) = {} /\ (\A r \in results : ~(r.kind = "builtin" /\ Brings(r))) => seq >= v

\* A toggle asks for what is not yet so; and if there is none the rows agree.
ToggleInv ==
    "builtin" \notin overlapped =>
        /\ \A c \in cmds : c.kind = "builtin" => (c.what.id \in cfg.off <=> c.what.enabled)
        /\ \A r \in results : r.kind = "builtin" /\ r.err => (r.what.id \in cfg.off <=> r.what.enabled)
        /\ \E v \in 0..version : OffSince(v)

FailInv == \A r \in results : r.err => r.kind \in failed

\* The list shown is that saved, or that of the save that is to come.
ListInv ==
    "sources" \notin overlapped =>
        /\ \A c \in cmds : c.kind = "sources" => c.what.previous = cfg.entries /\ c.what.all = snapshot
        /\ \A r \in results : r.kind = "sources" /\ r.err => r.what.previous = cfg.entries
        /\ \/ snapshot = cfg.entries
           \/ \E c \in cmds : c.kind = "sources"
           \/ \E r \in results : r.kind = "sources" /\ r.err

PanelInv ==
    "prefs" \notin overlapped =>
        /\ \A r \in results : r.kind = "prefs" /\ ~r.err => r.what.prefs = cfg.prefs
        /\ \/ opened.prefs = cfg.prefs
           \/ \E r \in results : r.kind = "prefs" /\ ~r.err

SettingsInv ==
    /\ SettingsTypes /\ SyncInv /\ HeldInv /\ RefreshInv /\ ReadInv /\ RowsInv
    /\ AloneInv /\ ToggleInv /\ FailInv /\ ListInv /\ PanelInv

LEMMA RowsOfRows == ASSUME NEW c \in Config PROVE RowsOf(c) \in Rows
  BY DEF RowsOf, Rows

LEMMA DesiredType ==
    ASSUME NEW c \in Config, NEW i \in Sources
    PROVE  Desired(c, i) \in Specs \cup {Bundled, Absent}
  BY DEF Desired, Config, Entries, Indexer

\* What a save makes of the configuration is one, and has of each part what
\* it had or what the save is of.
LEMMA SavedParts ==
    ASSUME SettingsTypes, NEW c \in cmds, c.kind # "reload"
    PROVE  LET d == Saved(c.kind, c.what) IN
           /\ d \in Config
           /\ d.entries = IF c.kind = "sources" THEN c.what.all ELSE cfg.entries
           /\ d.prefs = IF c.kind = "prefs" THEN c.what.prefs ELSE cfg.prefs
           /\ d.off = IF c.kind = "builtin" THEN (IF c.what.enabled THEN cfg.off \ {c.what.id} ELSE cfg.off \cup {c.what.id})
                      ELSE cfg.off
<1>. /\ cfg \in Config /\ ItemOK(c) /\ c.kind \in {"sources", "builtin", "prefs"}
  BY DEF SettingsTypes, SettingsTypeOK
<1>1. CASE c.kind = "sources"
  BY <1>1 DEF ItemOK, Saved, Config
<1>2. CASE c.kind = "builtin"
  BY <1>2 DEF ItemOK, Saved, Config, WithBuiltin
<1>3. CASE c.kind = "prefs"
  BY <1>3 DEF ItemOK, Saved, Config
<1>. QED  BY <1>1, <1>2, <1>3

----------------------------------------------------------------------------
(* What a step does to the commands, the reads and the results. *)

\* A command for kind is given.
Asks(kind, what) ==
    /\ kind \in Calls
    /\ \E n : cmds' = cmds \cup {[n |-> n, kind |-> kind, what |-> what]}
    /\ overlapped' = IF kind \in UnderWay THEN overlapped \cup {kind} ELSE overlapped
    /\ UNCHANGED <<seq, opened, searchIds, manager, built, registry, file, job, reads, results, skipped, strayed, failed, unseen>>

LEMMA CommandAsks == ASSUME NEW kind, NEW what, Command(kind, what) PROVE Asks(kind, what)
  BY DEF Command, Asks

\* The results of x: a failure, and a success that read these rows.
FailureOf(x) == [n |-> x.n, kind |-> x.kind, what |-> x.what, err |-> TRUE, rows |-> Unread, seq |-> 0]
SuccessOf(x, rws, s) == [n |-> x.n, kind |-> x.kind, what |-> x.what, err |-> FALSE, rows |-> rws, seq |-> s]

LEMMA UnreadRows == Unread \in Rows
  BY DEF Unread, Rows

LEMMA ResultFields ==
    ASSUME NEW x, x.kind \in {"sources", "builtin", "prefs"}, ItemOK(x)
    PROVE  /\ ResultOK(FailureOf(x)) /\ FailureOf(x).kind = x.kind /\ FailureOf(x).what = x.what
           /\ FailureOf(x).err /\ FailureOf(x).seq = 0
           /\ \A rws \in Rows, s \in Nat : LET r == SuccessOf(x, rws, s) IN
                ResultOK(r) /\ r.kind = x.kind /\ r.what = x.what /\ ~r.err /\ r.rows = rws /\ r.seq = s
  BY UnreadRows DEF FailureOf, SuccessOf, ResultOK, ItemOK

----------------------------------------------------------------------------
(* The types. *)

LEMMA SyncJob ==
    ASSUME SettingsTypes, NEW kind \in {"sources", "builtin", "reload"}, NEW c, Sync(kind, c)
    PROVE  job' \in Jobs /\ job'.kind = kind /\ \A i \in job'.add : Desired(c, i) # Absent
  BY DEF Sync, Jobs

LEMMA EditTypes == ASSUME SettingsTypes, NEW all \in Entries, EditSources(all) PROVE SettingsTypes'
<1>. DEFINE what == [all |-> all, previous |-> snapshot]
<1>1. Asks("sources", what) /\ snapshot' = all /\ UNCHANGED rows
  BY CommandAsks DEF EditSources
<1>2. what \in [all : Entries, previous : Entries]
  BY DEF SettingsTypes, SettingsTypeOK
<1>. HIDE DEF what
<1>. QED  BY <1>1, <1>2 DEF Asks, Desired, SettingsTypes, SettingsTypeOK, ItemOK, manager

LEMMA ToggleTypes == ASSUME SettingsTypes, NEW b \in Builtins, ToggleBuiltin(b) PROVE SettingsTypes'
<1>. DEFINE what == [id |-> b, enabled |-> rows'[b] = "on"]
<1>1. Asks("builtin", what) /\ UNCHANGED snapshot
  BY CommandAsks DEF ToggleBuiltin
<1>2. what \in [id : Builtins, enabled : BOOLEAN]
  OBVIOUS
<1>3. rows' \in Rows
  BY DEF ToggleBuiltin, Rows, SettingsTypes, SettingsTypeOK
<1>. HIDE DEF what
<1>. QED  BY <1>1, <1>2, <1>3 DEF Asks, Desired, SettingsTypes, SettingsTypeOK, ItemOK, manager

LEMMA PreferTypes == ASSUME SettingsTypes, NEW p \in Prefs, SavePreferences(p) PROVE SettingsTypes'
<1>. DEFINE what == [opened EXCEPT !.prefs = p]
<1>1. Asks("prefs", what) /\ UNCHANGED <<snapshot, rows>>
  BY CommandAsks DEF SavePreferences
<1>2. what \in Config
  BY DEF SettingsTypes, SettingsTypeOK, Config
<1>. HIDE DEF what
<1>. QED  BY <1>1, <1>2 DEF Asks, Desired, SettingsTypes, SettingsTypeOK, ItemOK, manager

LEMMA ReloadTypes == ASSUME SettingsTypes, Reload PROVE SettingsTypes'
<1>1. Asks("reload", Absent) /\ UNCHANGED <<snapshot, rows>>
  BY CommandAsks DEF Reload
<1>. QED  BY <1>1 DEF Asks, Desired, SettingsTypes, SettingsTypeOK, ItemOK, manager

LEMMA RunTypes == ASSUME SettingsTypes, NEW c \in cmds, Run(c) PROVE SettingsTypes'
<1>1. /\ cmds' = cmds \ {c} /\ UNCHANGED <<screenVars, built, registry, file, saves, strayed, overlapped, unseen>>
      /\ c.kind \in {"sources", "builtin", "prefs", "reload"} /\ ItemOK(c)
  BY DEF Run, SettingsTypes
<1>2. Unread \in Rows
  BY UnreadRows
<1>3. CASE Save(c)
  <2>1. cfg' \in Config /\ disk' = cfg'
    BY <1>3, SavedParts DEF Save
  <2>2. CASE c.kind = "prefs"
    <3>1. results' = results \cup {SuccessOf(c, Unread, 0)} /\ UNCHANGED <<version, job, reads, skipped>>
      BY <1>3, <2>2 DEF Save, Result, SuccessOf, FailureOf
    <3>2. LET r == SuccessOf(c, Unread, 0) IN ResultOK(r) /\ r.seq = 0
      BY <1>1, <1>2, <2>2, ResultFields
    <3>3. \A r \in results' : ResultOK(r) /\ r.seq \in 0..version'
      BY <3>1, <3>2 DEF SettingsTypes
    <3>4. job' \in Jobs /\ job' = Idle /\ job'.add = {}
      BY <3>1 DEF Run, Idle, SettingsTypes
    <3>. QED  BY <1>1, <2>1, <3>1, <3>3, <3>4 DEF SettingsTypes, SettingsTypeOK, ItemOK, screenVars
  <2>3. CASE c.kind # "prefs"
    <3>1. version' = version + 1 /\ Sync(c.kind, cfg') /\ reads' = reads \cup {c} /\ UNCHANGED results
      BY <1>3, <2>3 DEF Save
    <3>2. c.kind \in {"sources", "builtin"}
      BY <1>1, <1>3, <2>3 DEF Save
    <3>3. job' \in Jobs /\ job'.kind = c.kind /\ \A i \in job'.add : Desired(cfg', i) # Absent
      BY <3>1, <3>2, SyncJob
    <3>. QED  BY <1>1, <2>1, <3>1, <3>2, <3>3 DEF SettingsTypes, SettingsTypeOK, ItemOK, Jobs, screenVars
  <2>. QED  BY <2>2, <2>3
<1>4. CASE SaveFails(c)
  <2>1. c.kind # "reload" /\ results' = results \cup {FailureOf(c)} /\ UNCHANGED <<manager, job, reads>>
    BY <1>4 DEF SaveFails, Result, SuccessOf, FailureOf
  <2>2. LET r == FailureOf(c) IN ResultOK(r) /\ r.seq = 0
    BY <1>1, <1>2, <2>1, ResultFields
  <2>3. \A r \in results' : ResultOK(r) /\ r.seq \in 0..version'
    BY <2>1, <2>2 DEF SettingsTypes, manager
  <2>. QED  BY <1>1, <2>1, <2>3 DEF SettingsTypes, SettingsTypeOK, ItemOK, Desired, screenVars, manager
<1>5. CASE ReloadDefinitions(c)
  <2>1. job' \in Jobs /\ job'.kind = "reload" /\ (\A i \in job'.add : Desired(cfg', i) # Absent) /\ UNCHANGED <<manager, reads, results>>
    BY <1>5, SyncJob DEF ReloadDefinitions, manager
  <2>. QED  BY <1>1, <2>1 DEF SettingsTypes, SettingsTypeOK, Jobs, screenVars, manager
<1>. QED  BY <1>3, <1>4, <1>5 DEF Run

LEMMA UnregisterTypes == ASSUME SettingsTypes, NEW i \in Sources, UnregisterSource(i) PROVE SettingsTypes'
<1>1. job' \in Jobs /\ job'.kind = job.kind /\ job'.add = job.add /\ job.kind # "none"
  BY DEF UnregisterSource, Jobs, Idle, SettingsTypes
<1>2. registry' \in [Names -> Adapter \cup {Absent}] /\ built' \in [Sources -> Specs \cup {Bundled, Absent}]
  BY DEF UnregisterSource, SettingsTypes, SettingsTypeOK
<1>. QED  BY <1>1, <1>2 DEF UnregisterSource, Desired, SettingsTypes, SettingsTypeOK, Jobs, screenVars, manager

LEMMA RegisterTypes == ASSUME SettingsTypes, NEW i \in Sources, RegisterSource(i) PROVE SettingsTypes'
<1>1. job' \in Jobs /\ job'.kind = job.kind /\ job'.add \subseteq job.add /\ job.kind # "none" /\ i \in job.add
  BY DEF RegisterSource, Jobs, Idle, SettingsTypes
<1>2. Desired(cfg, i) \in Specs \cup {Bundled} /\ Identity(i) \in Names \cup {Absent}
  BY <1>1, DesiredType, NamesAssumption DEF Identity, SettingsTypes, SettingsTypeOK
<1>3. [owner |-> i, spec |-> Desired(cfg, i)] \in Adapter
  BY <1>2 DEF Adapter
<1>4. /\ built' \in [Sources -> Specs \cup {Bundled, Absent}]
      /\ registry' \in [Names -> Adapter \cup {Absent}] /\ strayed' \subseteq Names
  BY <1>2, <1>3, NamesAssumption DEF RegisterSource, SettingsTypes, SettingsTypeOK
<1>. QED  BY <1>1, <1>4 DEF RegisterSource, Desired, SettingsTypes, SettingsTypeOK, Jobs, screenVars, manager

LEMMA UnlockTypes == ASSUME SettingsTypes, Unlock PROVE SettingsTypes'
<1>1. job' = Idle /\ job' \in Jobs /\ searchIds' \subseteq Names
  BY DEF Unlock, Idle, Jobs, Held, SettingsTypes, SettingsTypeOK
<1>. QED  BY <1>1 DEF Unlock, Idle, SettingsTypes, SettingsTypeOK, manager, ghosts

LEMMA ReadTypes == ASSUME SettingsTypes, NEW c \in reads, ReadBuiltins(c) PROVE SettingsTypes'
<1>1. /\ results' = results \cup {SuccessOf(c, RowsOf(cfg), version)} /\ reads' = reads \ {c}
      /\ UNCHANGED <<screenVars, manager, built, registry, file, job, cmds, saves, strayed>>
  BY DEF ReadBuiltins, Result, SuccessOf, FailureOf, ghosts
<1>2. RowsOf(cfg) \in Rows /\ version \in 0..version
  BY RowsOfRows DEF SettingsTypes, SettingsTypeOK
<1>3. LET r == SuccessOf(c, RowsOf(cfg), version) IN ResultOK(r) /\ r.seq = version
  BY <1>2, ResultFields DEF SettingsTypes
<1>4. \A r \in results' : ResultOK(r) /\ r.seq \in 0..version'
  BY <1>1, <1>2, <1>3 DEF SettingsTypes, manager
<1>. QED  BY <1>1, <1>2, <1>4 DEF SettingsTypes, SettingsTypeOK, ItemOK, Desired, screenVars, manager

LEMMA DefinitionTypes == ASSUME SettingsTypes, NEW i \in Sources, DefinitionChanges(i) PROVE SettingsTypes'
  BY WrittenAssumption DEF DefinitionChanges, Desired, SettingsTypes, SettingsTypeOK, screenVars, manager, ghosts

LEMMA HandleTypes == ASSUME SettingsTypes, NEW r \in results, HandleResult(r) PROVE SettingsTypes'
<1>1. /\ results' = results \ {r} /\ UNCHANGED <<manager, built, registry, file, job, cmds, reads, strayed>>
      /\ r.kind \in {"sources", "builtin", "prefs"} /\ ItemOK(r)
      /\ r.err \in BOOLEAN /\ r.rows \in Rows /\ r.seq \in 0..version
  BY DEF HandleResult, SettingsTypes, ResultOK
<1>2. snapshot' \in Entries /\ opened' \in Config
  BY <1>1 DEF HandleResult, HandleSourcesResult, HandleBuiltinResult, HandlePrefsResult, Reverted, ItemOK, SettingsTypes, SettingsTypeOK
<1>3. rows' \in Rows
  BY <1>1 DEF HandleResult, HandleSourcesResult, HandleBuiltinResult, HandlePrefsResult, ApplyBuiltins, ItemOK, Rows, SettingsTypes,
     SettingsTypeOK
<1>4. seq' \in 0..version
  BY <1>1 DEF HandleResult, HandleSourcesResult, HandleBuiltinResult, HandlePrefsResult, ApplyBuiltins, SettingsTypes, SettingsTypeOK
<1>5. searchIds' \subseteq Names
  BY <1>1 DEF HandleResult, HandleSourcesResult, HandleBuiltinResult, HandlePrefsResult, RefreshSearch, Held, SettingsTypes,
     SettingsTypeOK
<1>. QED  BY <1>1, <1>2, <1>3, <1>4, <1>5 DEF SettingsTypes, SettingsTypeOK, ItemOK, Desired, manager

LEMMA SettingsTyped == ASSUME SettingsTypes, [SettingsNext]_settingsVars PROVE SettingsTypes'
<1>1. CASE UNCHANGED settingsVars
  BY <1>1 DEF settingsVars, screenVars, manager, ghosts, Desired, SettingsTypes, SettingsTypeOK
<1>2. CASE SettingsNext
  BY <1>2, EditTypes, ToggleTypes, PreferTypes, ReloadTypes, RunTypes, UnregisterTypes, RegisterTypes, UnlockTypes, ReadTypes,
     DefinitionTypes, HandleTypes DEF SettingsNext
<1>. QED  BY <1>1, <1>2

----------------------------------------------------------------------------
(* The steps, by what they do to the commands, reads and results. *)

Asking ==
    \/ \E all \in Entries : Asks("sources", [all |-> all, previous |-> snapshot]) /\ snapshot' = all /\ UNCHANGED rows
    \/ \E b \in Builtins :
         /\ Asks("builtin", [id |-> b, enabled |-> rows'[b] = "on"]) /\ UNCHANGED snapshot
         /\ rows[b] # "hidden" /\ rows' = [rows EXCEPT ![b] = IF @ = "on" THEN "off" ELSE "on"]
    \/ \E p \in Prefs : Asks("prefs", [opened EXCEPT !.prefs = p]) /\ UNCHANGED <<snapshot, rows>>
    \/ Asks("reload", Absent) /\ UNCHANGED <<snapshot, rows>>

Locked(c) == job = Idle /\ cmds' = cmds \ {c} /\ UNCHANGED <<screenVars, built, registry, file, saves, strayed, overlapped, unseen>>

\* The file is written, and the registry brought in step.
SaveStep(c) ==
    /\ Locked(c) /\ c.kind \in {"sources", "builtin"}
    /\ cfg' = Saved(c.kind, c.what) /\ disk' = cfg' /\ version' = version + 1
    /\ Sync(c.kind, cfg') /\ reads' = reads \cup {c} /\ UNCHANGED <<results, failed>>

PrefsStep(c) ==
    /\ Locked(c) /\ c.kind = "prefs"
    /\ cfg' = Saved(c.kind, c.what) /\ disk' = cfg'
    /\ results' = results \cup {SuccessOf(c, Unread, 0)} /\ UNCHANGED <<version, job, reads, skipped, failed>>

FailStep(c) ==
    /\ Locked(c) /\ c.kind \in {"sources", "builtin", "prefs"}
    /\ results' = results \cup {FailureOf(c)} /\ failed' = failed \cup {c.kind}
    /\ UNCHANGED <<manager, job, reads, skipped>>

ReloadStep(c) == Locked(c) /\ c.kind = "reload" /\ Sync("reload", cfg) /\ UNCHANGED <<manager, reads, results, failed>>

ReadStep(c) ==
    /\ job = Idle /\ reads' = reads \ {c}
    /\ results' = results \cup {SuccessOf(c, RowsOf(cfg), version)}
    /\ UNCHANGED <<screenVars, manager, built, registry, file, job, cmds, saves, ghosts>>

Handled(r) ==
    results' = results \ {r} /\ UNCHANGED <<manager, built, registry, file, job, cmds, reads, saves, skipped, strayed, overlapped, failed>>

\* A result that brings rows.
BringStep(r) ==
    /\ Handled(r) /\ Brings(r) /\ ApplyBuiltins(r) /\ RefreshSearch
    /\ UNCHANGED <<snapshot, opened>>

\* A failure, or the preferences' success.
EndStep(r) ==
    /\ Handled(r) /\ ~Brings(r) /\ UNCHANGED <<seq, searchIds, unseen>>
    /\ \/ r.kind = "sources" /\ r.err /\ snapshot' = r.what.previous /\ UNCHANGED <<rows, opened>>
       \/ /\ r.kind = "builtin" /\ r.err /\ UNCHANGED <<snapshot, opened>>
          /\ rows' = [rows EXCEPT ![r.what.id] = IF @ = "hidden" THEN @ ELSE IF r.what.enabled THEN "off" ELSE "on"]
       \/ r.kind = "prefs" /\ opened' = (IF r.err THEN opened ELSE r.what) /\ UNCHANGED <<snapshot, rows>>

LEMMA SettingsSteps ==
    ASSUME SettingsTypes, SettingsNext
    PROVE  \/ Asking
           \/ \E c \in cmds : SaveStep(c) \/ PrefsStep(c) \/ FailStep(c) \/ ReloadStep(c)
           \/ \E i \in Sources : UnregisterSource(i) \/ RegisterSource(i)
           \/ Unlock
           \/ \E c \in reads : ReadStep(c)
           \/ \E i \in Sources : DefinitionChanges(i)
           \/ \E r \in results : BringStep(r) \/ EndStep(r)
<1>1. ASSUME NEW all \in Entries, EditSources(all) PROVE Asking
  BY <1>1, CommandAsks DEF EditSources, Asking
<1>2. ASSUME NEW b \in Builtins, ToggleBuiltin(b) PROVE Asking
  BY <1>2, CommandAsks DEF ToggleBuiltin, Asking
<1>3. ASSUME NEW p \in Prefs, SavePreferences(p) PROVE Asking
  BY <1>3, CommandAsks DEF SavePreferences, Asking
<1>4. ASSUME Reload PROVE Asking
  BY <1>4, CommandAsks DEF Reload, Asking
<1>5. ASSUME NEW c \in cmds, Run(c) PROVE SaveStep(c) \/ PrefsStep(c) \/ FailStep(c) \/ ReloadStep(c)
  <2>1. Locked(c) /\ c.kind \in {"sources", "builtin", "prefs", "reload"}
    BY <1>5 DEF Run, Locked, SettingsTypes
  <2>2. CASE Save(c) /\ c.kind = "prefs"
    BY <2>1, <2>2 DEF Save, Result, PrefsStep, SuccessOf
  <2>3. CASE Save(c) /\ c.kind # "prefs"
    BY <2>1, <2>3 DEF Save, SaveStep
  <2>4. CASE SaveFails(c)
    BY <2>1, <2>4 DEF SaveFails, Result, FailStep, FailureOf
  <2>5. CASE ReloadDefinitions(c)
    BY <2>1, <2>5 DEF ReloadDefinitions, ReloadStep
  <2>. QED  BY <1>5, <2>2, <2>3, <2>4, <2>5 DEF Run
<1>6. ASSUME NEW c \in reads, ReadBuiltins(c) PROVE ReadStep(c)
  BY <1>6 DEF ReadBuiltins, Result, ReadStep, SuccessOf
<1>7. ASSUME NEW r \in results, HandleResult(r) PROVE BringStep(r) \/ EndStep(r)
  <2>1. Handled(r) /\ r.err \in BOOLEAN
    BY <1>7 DEF HandleResult, Handled, SettingsTypes, ResultOK
  <2>2. CASE HandleSourcesResult(r)
    BY <2>1, <2>2 DEF HandleSourcesResult, Reverted, Brings, BringStep, EndStep
  <2>3. CASE HandleBuiltinResult(r)
    BY <2>1, <2>3 DEF HandleBuiltinResult, Brings, BringStep, EndStep
  <2>4. CASE HandlePrefsResult(r)
    BY <2>1, <2>4 DEF HandlePrefsResult, Brings, BringStep, EndStep
  <2>. QED  BY <1>7, <2>2, <2>3, <2>4 DEF HandleResult
<1>. QED  BY <1>1, <1>2, <1>3, <1>4, <1>5, <1>6, <1>7 DEF SettingsNext

----------------------------------------------------------------------------
(* The registry is in step. *)

LEMMA SyncKept == ASSUME SettingsTypes, SyncInv, [SettingsNext]_settingsVars PROVE SyncInv'
<1>. DEFINE Same == UNCHANGED <<cfg, disk, built, job, skipped>>
<1>1. ASSUME Same PROVE SyncInv'
  BY <1>1 DEF SyncInv, Desired
<1>2. CASE UNCHANGED settingsVars
  BY <1>1, <1>2 DEF settingsVars, manager, ghosts
<1>3. CASE Asking
  BY <1>1, <1>3 DEF Asking, Asks, manager
<1>4. ASSUME NEW kind, Sync(kind, cfg'), UNCHANGED built, disk' = cfg' PROVE SyncInv'
  BY <1>4 DEF SyncInv, Sync, Stays, Desired, Idle
<1>5. ASSUME NEW c \in cmds, SaveStep(c) PROVE SyncInv'
  BY <1>4, <1>5 DEF SaveStep, Locked
<1>6. ASSUME NEW c \in cmds, PrefsStep(c) PROVE SyncInv'
  <2>1. cfg'.entries = cfg.entries /\ cfg'.off = cfg.off
    BY <1>6, SavedParts DEF PrefsStep
  <2>. QED  BY <1>6, <2>1 DEF PrefsStep, Locked, SyncInv, Desired
<1>7. ASSUME NEW c \in cmds, FailStep(c) PROVE SyncInv'
  BY <1>1, <1>7 DEF FailStep, Locked, manager
<1>8. ASSUME NEW c \in cmds, ReloadStep(c) PROVE SyncInv'
  BY <1>4, <1>8 DEF ReloadStep, Locked, manager, SyncInv
<1>9. ASSUME NEW i \in Sources, UnregisterSource(i) PROVE SyncInv'
  BY <1>9 DEF UnregisterSource, SyncInv, Desired, manager, SettingsTypes, SettingsTypeOK, Jobs
<1>10. ASSUME NEW i \in Sources, RegisterSource(i) PROVE SyncInv'
  BY <1>10 DEF RegisterSource, SyncInv, Desired, manager, SettingsTypes, SettingsTypeOK, Jobs
<1>11. CASE Unlock
  BY <1>11 DEF Unlock, SyncInv, Idle, Desired, manager, ghosts
<1>12. ASSUME NEW c \in reads, ReadStep(c) PROVE SyncInv'
  BY <1>1, <1>12 DEF ReadStep, manager, ghosts
<1>13. ASSUME NEW i \in Sources, DefinitionChanges(i) PROVE SyncInv'
  BY <1>1, <1>13 DEF DefinitionChanges, manager, ghosts
<1>14. ASSUME NEW r \in results, BringStep(r) \/ EndStep(r) PROVE SyncInv'
  BY <1>1, <1>14 DEF BringStep, EndStep, Handled, manager
<1>. QED
  BY <1>2, <1>3, <1>5, <1>6, <1>7, <1>8, <1>9, <1>10, <1>11, <1>12, <1>13, <1>14, SettingsSteps

\* The registry holds what was built: an id's own source comes and goes under
\* it, and another's makes it a strayed one.
LEMMA HeldKept == ASSUME SettingsTypes, SyncInv, HeldInv, [SettingsNext]_settingsVars PROVE HeldInv'
<1>1. ASSUME UNCHANGED <<built, registry, strayed>>,
             skipped' = {} \/ (skipped' = skipped /\ cfg'.entries = cfg.entries /\ cfg'.off = cfg.off)
      PROVE  HeldInv'
  BY <1>1 DEF HeldInv, Desired
<1>2. CASE UNCHANGED settingsVars
  BY <1>1, <1>2 DEF settingsVars, manager, ghosts
<1>3. CASE Asking
  BY <1>1, <1>3 DEF Asking, Asks, manager
<1>4. ASSUME NEW c \in cmds, SaveStep(c) \/ FailStep(c) \/ ReloadStep(c) PROVE HeldInv'
  BY <1>1, <1>4 DEF SaveStep, FailStep, ReloadStep, Locked, Sync, manager
<1>5. ASSUME NEW c \in cmds, PrefsStep(c) PROVE HeldInv'
  BY <1>1, <1>5, SavedParts DEF PrefsStep, Locked
<1>6. ASSUME NEW i \in Sources, UnregisterSource(i) PROVE HeldInv'
  BY <1>6 DEF UnregisterSource, HeldInv, Desired, manager, SettingsTypes, SettingsTypeOK
<1>7. ASSUME NEW i \in Sources, RegisterSource(i) PROVE HeldInv'
  <2>1. /\ built \in [Sources -> Specs \cup {Bundled, Absent}] /\ registry \in [Names -> Adapter \cup {Absent}]
        /\ Identity(i) \in Names \cup {Absent} /\ i \in Names /\ UNCHANGED cfg
    BY <1>7, NamesAssumption DEF RegisterSource, Identity, manager, SettingsTypes, SettingsTypeOK
  <2>2. built[i] = Absent
    BY <1>7 DEF RegisterSource, SyncInv
  <2>3. CASE Identity(i) = Absent \/ Identity(i) \in Held
    <3>1. skipped' = skipped \cup {i} /\ UNCHANGED <<built, registry, strayed>>
      BY <1>7, <2>3 DEF RegisterSource
    <3>2. i \notin strayed => Identity(i) # i
      BY <2>1, <2>2, <2>3, NamesAssumption DEF HeldInv, Held
    <3>3. i \notin strayed => Desired(cfg, i) \in Scrapers
      BY <3>2 DEF Identity
    <3>. QED  BY <2>1, <3>1, <3>3 DEF HeldInv, Desired
  <2>4. CASE ~(Identity(i) = Absent \/ Identity(i) \in Held)
    <3>1. /\ built' = [built EXCEPT ![i] = Desired(cfg, i)]
          /\ registry' = [registry EXCEPT ![Identity(i)] = [owner |-> i, spec |-> Desired(cfg, i)]]
          /\ strayed' = IF Identity(i) = i THEN strayed ELSE strayed \cup {i, Identity(i)}
          /\ UNCHANGED skipped
      BY <1>7, <2>4 DEF RegisterSource
    <3>2. ASSUME NEW k \in Names \ strayed'
          PROVE  registry'[k] = IF k \in Sources /\ built'[k] # Absent THEN [owner |-> k, spec |-> built'[k]] ELSE Absent
      <4>1. CASE k = i
        <5>1. Identity(i) = i /\ Desired(cfg, i) # Absent
          BY <1>7, <3>1, <3>2, <4>1 DEF RegisterSource, SettingsTypes
        <5>. QED  BY <2>1, <3>1, <4>1, <5>1
      <4>2. CASE k # i
        BY <2>1, <2>4, <3>1, <3>2, <4>2 DEF HeldInv
      <4>. QED  BY <4>1, <4>2
    <3>. QED  BY <2>1, <3>1, <3>2 DEF HeldInv, Desired
  <2>. QED  BY <2>3, <2>4
<1>8. ASSUME NEW i, Unlock \/ DefinitionChanges(i) PROVE HeldInv'
  BY <1>1, <1>8 DEF Unlock, DefinitionChanges, manager, ghosts
<1>9. ASSUME NEW c, ReadStep(c) PROVE HeldInv'
  BY <1>1, <1>9 DEF ReadStep, manager, ghosts
<1>10. ASSUME NEW r, BringStep(r) \/ EndStep(r) PROVE HeldInv'
  BY <1>1, <1>10 DEF BringStep, EndStep, Handled, manager
<1>. QED  BY <1>2, <1>3, <1>4, <1>5, <1>6, <1>7, <1>8, <1>9, <1>10, SettingsSteps

----------------------------------------------------------------------------
(* The search screen and the built-in rows are brought in step. *)

LEMMA RefreshKept == ASSUME SettingsTypes, RefreshInv, [SettingsNext]_settingsVars PROVE RefreshInv'
<1>1. ASSUME UNCHANGED <<job, unseen, reads, searchIds, registry, results>> PROVE RefreshInv'
  BY <1>1 DEF RefreshInv, Held, Brings
<1>2. CASE UNCHANGED settingsVars
  BY <1>1, <1>2 DEF settingsVars, screenVars, ghosts
<1>3. CASE Asking
  BY <1>1, <1>3 DEF Asking, Asks
<1>5. ASSUME NEW c \in cmds, SaveStep(c) PROVE RefreshInv'
  BY <1>5 DEF SaveStep, RefreshInv
<1>6. ASSUME NEW c \in cmds, PrefsStep(c) PROVE RefreshInv'
  BY <1>6 DEF PrefsStep, Locked, RefreshInv, Held, Brings, screenVars
<1>7. ASSUME NEW c \in cmds, FailStep(c) PROVE RefreshInv'
  BY <1>7 DEF FailStep, Locked, RefreshInv, Held, Brings, screenVars
<1>8. ASSUME NEW c \in cmds, ReloadStep(c) PROVE RefreshInv'
  BY <1>8 DEF ReloadStep, Locked, Sync, Idle, RefreshInv, Held, Brings, screenVars
<1>9. ASSUME NEW i \in Sources, UnregisterSource(i) \/ RegisterSource(i) PROVE RefreshInv'
  <2>1. job.kind \in {"start", "sources", "builtin", "reload"}
    BY <1>9 DEF UnregisterSource, RegisterSource, SettingsTypes, Jobs, Idle
  <2>2. UNCHANGED <<reads, results, searchIds>> /\ job'.kind = job.kind
    BY <1>9 DEF UnregisterSource, RegisterSource, screenVars, SettingsTypes, Jobs
  <2>3. (unseen' <=> unseen \/ job.kind = "reload") \/ UNCHANGED <<registry, unseen>>
    BY <1>9 DEF UnregisterSource, RegisterSource
  <2>. QED  BY <2>1, <2>2, <2>3 DEF RefreshInv, Held, Brings
<1>10. CASE Unlock
  BY <1>10 DEF Unlock, RefreshInv, Held, Brings, Idle, screenVars, ghosts
<1>11. ASSUME NEW c \in reads, ReadStep(c) PROVE RefreshInv'
  <2>1. SuccessOf(c, RowsOf(cfg), version).kind # "prefs" /\ ~SuccessOf(c, RowsOf(cfg), version).err
    BY RowsOfRows, ResultFields DEF SettingsTypes, SettingsTypeOK
  <2>. QED  BY <1>11, <2>1 DEF ReadStep, RefreshInv, Brings, Idle
<1>12. ASSUME NEW i \in Sources, DefinitionChanges(i) PROVE RefreshInv'
  BY <1>1, <1>12 DEF DefinitionChanges, screenVars, ghosts
<1>13. ASSUME NEW r \in results, BringStep(r) PROVE RefreshInv'
  BY <1>13 DEF BringStep, Handled, RefreshSearch, RefreshInv, Held
<1>14. ASSUME NEW r \in results, EndStep(r) PROVE RefreshInv'
  BY <1>14 DEF EndStep, Handled, RefreshInv, Held, Brings
<1>. QED
  BY <1>2, <1>3, <1>5, <1>6, <1>7, <1>8, <1>9, <1>10, <1>11, <1>12, <1>13, <1>14, SettingsSteps

\* The rows of a configuration depend on its entries and what is off.
LEMMA SameRows ==
    ASSUME NEW c, NEW d, c.entries = d.entries, c.off = d.off
    PROVE  RowsOf(c) = RowsOf(d)
  BY DEF RowsOf

LEMMA ReadKept == ASSUME SettingsTypes, ReadInv, [SettingsNext]_settingsVars PROVE ReadInv'
<1>1. ASSUME UNCHANGED <<version, seq, cfg, reads, results>> PROVE ReadInv'
  BY <1>1 DEF ReadInv, Brings
<1>2. CASE UNCHANGED settingsVars
  BY <1>1, <1>2 DEF settingsVars, screenVars, manager
<1>3. CASE Asking
  BY <1>1, <1>3 DEF Asking, Asks, manager
<1>5. ASSUME NEW c \in cmds, SaveStep(c) PROVE ReadInv'
  BY <1>5 DEF SaveStep, Locked, screenVars, ReadInv, Brings, SettingsTypes, SettingsTypeOK
<1>6. ASSUME NEW c \in cmds, PrefsStep(c) PROVE ReadInv'
  <2>1. RowsOf(cfg') = RowsOf(cfg)
    BY <1>6, SavedParts, SameRows DEF PrefsStep
  <2>2. SuccessOf(c, Unread, 0).kind = "prefs"
    BY <1>6, UnreadRows, ResultFields DEF PrefsStep, SettingsTypes
  <2>. QED  BY <1>6, <2>1, <2>2 DEF PrefsStep, Locked, screenVars, ReadInv, Brings
<1>7. ASSUME NEW c \in cmds, FailStep(c) PROVE ReadInv'
  <2>1. FailureOf(c).err
    BY <1>7, ResultFields DEF FailStep, SettingsTypes
  <2>. QED  BY <1>7, <2>1 DEF FailStep, Locked, screenVars, manager, ReadInv, Brings
<1>8. ASSUME NEW c \in cmds, ReloadStep(c) PROVE ReadInv'
  BY <1>1, <1>8 DEF ReloadStep, Locked, screenVars, manager
<1>9. ASSUME NEW i \in Sources, UnregisterSource(i) \/ RegisterSource(i) PROVE ReadInv'
  BY <1>1, <1>9 DEF UnregisterSource, RegisterSource, screenVars, manager
<1>10. CASE Unlock
  BY <1>1, <1>10 DEF Unlock, screenVars, manager
<1>11. ASSUME NEW c \in reads, ReadStep(c) PROVE ReadInv'
  <2>1. LET r == SuccessOf(c, RowsOf(cfg), version) IN Brings(r) /\ r.rows = RowsOf(cfg) /\ r.seq = version
    BY RowsOfRows, ResultFields DEF SettingsTypes, SettingsTypeOK, Brings
  <2>. QED  BY <1>11, <2>1 DEF ReadStep, ReadInv, Brings, manager
<1>12. ASSUME NEW i \in Sources, DefinitionChanges(i) PROVE ReadInv'
  BY <1>1, <1>12 DEF DefinitionChanges, screenVars, manager
<1>13. ASSUME NEW r \in results, BringStep(r) PROVE ReadInv'
  BY <1>13 DEF BringStep, Handled, ApplyBuiltins, ReadInv, Brings, manager, SettingsTypes, SettingsTypeOK
<1>14. ASSUME NEW r \in results, EndStep(r) PROVE ReadInv'
  BY <1>14 DEF EndStep, Handled, ReadInv, Brings, manager
<1>. QED
  BY <1>2, <1>3, <1>5, <1>6, <1>7, <1>8, <1>9, <1>10, <1>11, <1>12, <1>13, <1>14, SettingsSteps

----------------------------------------------------------------------------
(* A save that none of its kind overlapped is alone. *)

LEMMA OneMoves ==
    ASSUME NEW kind, Alone(kind), NEW x \in cmds, NEW y, y.kind = x.kind, overlapped' = overlapped,
           cmds' = cmds \ {x},
           \/ reads' = reads \cup {y} /\ results' = results
           \/ reads' = reads /\ results' = results \cup {y}
           \/ reads' = reads /\ results' = results /\ x.kind # kind
    PROVE  Alone(kind)'
  BY DEF Alone, Of

LEMMA AloneKept ==
    ASSUME SettingsTypes, [SettingsNext]_settingsVars, NEW kind \in {"sources", "builtin", "prefs"}, Alone(kind)
    PROVE  Alone(kind)'
<1>1. ASSUME UNCHANGED <<cmds, reads, results, overlapped>> PROVE Alone(kind)'
  BY <1>1 DEF Alone, Of
<1>2. CASE UNCHANGED settingsVars
  BY <1>1, <1>2 DEF settingsVars, ghosts
<1>3. ASSUME NEW k, NEW what, Asks(k, what) PROVE Alone(kind)'
  <2>1. PICK n : cmds' = cmds \cup {[n |-> n, kind |-> k, what |-> what]}
    BY <1>3 DEF Asks
  <2>. DEFINE c == [n |-> n, kind |-> k, what |-> what]
  <2>2. c.kind = k /\ cmds' = cmds \cup {c} /\ UNCHANGED <<reads, results>>
    BY <1>3, <2>1 DEF Asks
  <2>. HIDE DEF c
  <2>3. CASE k # kind
    <3>1. Of(kind, cmds') = Of(kind, cmds) /\ (kind \in overlapped' <=> kind \in overlapped)
      BY <1>3, <2>2, <2>3 DEF Of, Asks
    <3>. QED  BY <2>2, <3>1 DEF Alone
  <2>4. CASE k = kind /\ kind \in UnderWay
    BY <1>3, <2>4 DEF Asks, Alone
  <2>5. CASE k = kind /\ kind \notin UnderWay
    BY <2>2, <2>5 DEF UnderWay, Alone, Of
  <2>. QED  BY <2>3, <2>4, <2>5
<1>4. CASE Asking
  BY <1>3, <1>4 DEF Asking
<1>5. ASSUME NEW c \in cmds, SaveStep(c) PROVE Alone(kind)'
  BY <1>5, OneMoves DEF SaveStep, Locked
<1>6. ASSUME NEW c \in cmds, PrefsStep(c) PROVE Alone(kind)'
  <2>1. SuccessOf(c, Unread, 0).kind = c.kind
    BY <1>6, UnreadRows, ResultFields DEF PrefsStep, SettingsTypes
  <2>. QED  BY <1>6, <2>1, OneMoves DEF PrefsStep, Locked
<1>7. ASSUME NEW c \in cmds, FailStep(c) PROVE Alone(kind)'
  <2>1. FailureOf(c).kind = c.kind
    BY <1>7, ResultFields DEF FailStep, SettingsTypes
  <2>. QED  BY <1>7, <2>1, OneMoves DEF FailStep, Locked
<1>8. ASSUME NEW c \in cmds, ReloadStep(c) PROVE Alone(kind)'
  BY <1>8, OneMoves DEF ReloadStep, Locked
<1>9. ASSUME NEW i \in Sources, UnregisterSource(i) \/ RegisterSource(i) PROVE Alone(kind)'
  BY <1>1, <1>9 DEF UnregisterSource, RegisterSource
<1>10. CASE Unlock
  BY <1>1, <1>10 DEF Unlock, ghosts
<1>11. ASSUME NEW c \in reads, ReadStep(c) PROVE Alone(kind)'
  <2>1. SuccessOf(c, RowsOf(cfg), version).kind = c.kind
    BY RowsOfRows, ResultFields DEF SettingsTypes, SettingsTypeOK
  <2>. QED  BY <1>11, <2>1 DEF ReadStep, Alone, Of, ghosts
<1>12. ASSUME NEW i \in Sources, DefinitionChanges(i) PROVE Alone(kind)'
  BY <1>1, <1>12 DEF DefinitionChanges, ghosts
<1>13. ASSUME NEW r \in results, BringStep(r) \/ EndStep(r) PROVE Alone(kind)'
  BY <1>13 DEF BringStep, EndStep, Handled, Alone, Of
<1>. QED
  BY <1>2, <1>4, <1>5, <1>6, <1>7, <1>8, <1>9, <1>10, <1>11, <1>12, <1>13, SettingsSteps

----------------------------------------------------------------------------
(* The list of sources, the panel, and what failed. *)

LEMMA FailKept == ASSUME SettingsTypes, FailInv, [SettingsNext]_settingsVars PROVE FailInv'
<1>1. ASSUME UNCHANGED failed, results' \subseteq results PROVE FailInv'
  BY <1>1 DEF FailInv
<1>2. CASE UNCHANGED settingsVars
  BY <1>1, <1>2 DEF settingsVars, ghosts
<1>3. CASE Asking
  BY <1>1, <1>3 DEF Asking, Asks
<1>5. ASSUME NEW c \in cmds, SaveStep(c) \/ ReloadStep(c) PROVE FailInv'
  BY <1>1, <1>5 DEF SaveStep, ReloadStep
<1>6. ASSUME NEW c \in cmds, PrefsStep(c) PROVE FailInv'
  <2>1. ~SuccessOf(c, Unread, 0).err
    BY <1>6, UnreadRows, ResultFields DEF PrefsStep, SettingsTypes
  <2>. QED  BY <1>6, <2>1 DEF PrefsStep, FailInv
<1>7. ASSUME NEW c \in cmds, FailStep(c) PROVE FailInv'
  <2>1. FailureOf(c).kind = c.kind
    BY <1>7, ResultFields DEF FailStep, SettingsTypes
  <2>. QED  BY <1>7, <2>1 DEF FailStep, FailInv
<1>9. ASSUME NEW i \in Sources, UnregisterSource(i) \/ RegisterSource(i) PROVE FailInv'
  BY <1>1, <1>9 DEF UnregisterSource, RegisterSource
<1>10. CASE Unlock
  BY <1>1, <1>10 DEF Unlock, ghosts
<1>11. ASSUME NEW c \in reads, ReadStep(c) PROVE FailInv'
  <2>1. ~SuccessOf(c, RowsOf(cfg), version).err
    BY RowsOfRows, ResultFields DEF SettingsTypes, SettingsTypeOK
  <2>. QED  BY <1>11, <2>1 DEF ReadStep, FailInv, ghosts
<1>12. ASSUME NEW i \in Sources, DefinitionChanges(i) PROVE FailInv'
  BY <1>1, <1>12 DEF DefinitionChanges, ghosts
<1>13. ASSUME NEW r \in results, BringStep(r) \/ EndStep(r) PROVE FailInv'
  BY <1>1, <1>13 DEF BringStep, EndStep, Handled
<1>. QED
  BY <1>2, <1>3, <1>5, <1>6, <1>7, <1>9, <1>10, <1>11, <1>12, <1>13, SettingsSteps

\* A command given when none of its kind is under way is the only one.
LEMMA AskedAlone ==
    ASSUME NEW kind, NEW what, Asks(kind, what), kind \notin overlapped'
    PROVE  /\ kind \notin overlapped
           /\ Of(kind, cmds) = {} /\ Of(kind, reads) = {} /\ Of(kind, results) = {}
           /\ \E c : c.kind = kind /\ c.what = what /\ cmds' = cmds \cup {c}
<1>1. kind \notin UnderWay /\ kind \notin overlapped
  BY DEF Asks
<1>2. PICK n : cmds' = cmds \cup {[n |-> n, kind |-> kind, what |-> what]}
  BY DEF Asks
<1>3. [n |-> n, kind |-> kind, what |-> what].kind = kind /\ [n |-> n, kind |-> kind, what |-> what].what = what
  OBVIOUS
<1>. QED  BY <1>1, <1>2, <1>3 DEF UnderWay, Of

\* A command of another kind changes nothing for kind.
LEMMA AskedOther ==
    ASSUME NEW kind, NEW k, NEW what, Asks(k, what), kind # k
    PROVE  /\ kind \in overlapped' <=> kind \in overlapped
           /\ Of(kind, cmds') = Of(kind, cmds) /\ UNCHANGED <<manager, reads, results, opened, seq, failed>>
<1>1. PICK n : cmds' = cmds \cup {[n |-> n, kind |-> k, what |-> what]}
  BY DEF Asks
<1>2. [n |-> n, kind |-> k, what |-> what].kind = k
  OBVIOUS
<1>. QED  BY <1>1, <1>2 DEF Asks, Of

LEMMA ListKept ==
    ASSUME SettingsTypes, Alone("sources"), ListInv, [SettingsNext]_settingsVars
    PROVE  ListInv'
<1>1. ASSUME "sources" \in overlapped' <=> "sources" \in overlapped, Of("sources", cmds') = Of("sources", cmds),
             \A r \in results' : r.kind = "sources" /\ r.err => r \in results,
             \A r \in results : r.kind = "sources" /\ r.err => r \in results',
             cfg'.entries = cfg.entries, UNCHANGED snapshot
      PROVE  ListInv'
  <2>. SUFFICES ASSUME "sources" \notin overlapped PROVE ListInv'
    BY <1>1 DEF ListInv
  <2>1. \A c : c \in cmds' /\ c.kind = "sources" <=> c \in cmds /\ c.kind = "sources"
    BY <1>1 DEF Of
  <2>. QED  BY <1>1, <2>1 DEF ListInv
<1>2. CASE UNCHANGED settingsVars
  BY <1>1, <1>2 DEF settingsVars, ghosts, screenVars, manager
<1>3. ASSUME NEW all \in Entries, Asks("sources", [all |-> all, previous |-> snapshot]), snapshot' = all PROVE ListInv'
  <2>. SUFFICES ASSUME "sources" \notin overlapped' PROVE ListInv'
    BY DEF ListInv
  <2>1. PICK c : c.kind = "sources" /\ c.what = [all |-> all, previous |-> snapshot] /\ cmds' = cmds \cup {c}
    BY <1>3, AskedAlone
  <2>2. Of("sources", cmds) = {} /\ Of("sources", results) = {} /\ snapshot = cfg.entries
    BY <1>3, AskedAlone DEF ListInv, Of
  <2>3. UNCHANGED <<cfg, results>>
    BY <1>3 DEF Asks, manager
  <2>. QED  BY <1>3, <2>1, <2>2, <2>3 DEF ListInv, Of
<1>4. ASSUME NEW k, NEW what, Asks(k, what), k # "sources", UNCHANGED snapshot PROVE ListInv'
  BY <1>1, <1>4, AskedOther DEF manager
<1>5. CASE Asking
  BY <1>3, <1>4, <1>5 DEF Asking
<1>6. ASSUME NEW c \in cmds, SaveStep(c) PROVE ListInv'
  <2>1. cfg'.entries = (IF c.kind = "sources" THEN c.what.all ELSE cfg.entries) /\ UNCHANGED <<results, snapshot, overlapped>>
        /\ cmds' = cmds \ {c}
    BY <1>6, SavedParts DEF SaveStep, Locked, screenVars
  <2>2. CASE c.kind = "sources"
    BY <2>1, <2>2 DEF ListInv, Alone, Of
  <2>3. CASE c.kind # "sources"
    BY <1>1, <2>1, <2>3 DEF Of
  <2>. QED  BY <2>2, <2>3
<1>7. ASSUME NEW c \in cmds, PrefsStep(c) PROVE ListInv'
  <2>1. cfg'.entries = cfg.entries
    BY <1>7, SavedParts DEF PrefsStep
  <2>2. ~SuccessOf(c, Unread, 0).err
    BY <1>7, UnreadRows, ResultFields DEF PrefsStep, SettingsTypes
  <2>. QED  BY <1>1, <1>7, <2>1, <2>2 DEF PrefsStep, Locked, Of, screenVars
<1>8. ASSUME NEW c \in cmds, FailStep(c) PROVE ListInv'
  <2>1. FailureOf(c).err /\ FailureOf(c).kind = c.kind /\ FailureOf(c).what = c.what
    BY <1>8, ResultFields DEF FailStep, SettingsTypes
  <2>2. CASE c.kind = "sources"
    BY <1>8, <2>1, <2>2 DEF FailStep, Locked, ListInv, Alone, Of, screenVars, manager
  <2>3. CASE c.kind # "sources"
    BY <1>1, <1>8, <2>1, <2>3 DEF FailStep, Locked, Of, screenVars, manager
  <2>. QED  BY <2>2, <2>3
<1>9. ASSUME NEW c \in cmds, ReloadStep(c) PROVE ListInv'
  BY <1>1, <1>9 DEF ReloadStep, Locked, Of, screenVars, manager
<1>10. ASSUME NEW i \in Sources, UnregisterSource(i) \/ RegisterSource(i) PROVE ListInv'
  BY <1>1, <1>10 DEF UnregisterSource, RegisterSource, screenVars, manager
<1>11. CASE Unlock
  BY <1>1, <1>11 DEF Unlock, ghosts, screenVars, manager
<1>12. ASSUME NEW c \in reads, ReadStep(c) PROVE ListInv'
  <2>1. ~SuccessOf(c, RowsOf(cfg), version).err
    BY RowsOfRows, ResultFields DEF SettingsTypes, SettingsTypeOK
  <2>. QED  BY <1>1, <1>12, <2>1 DEF ReadStep, ghosts, screenVars, manager
<1>13. ASSUME NEW i \in Sources, DefinitionChanges(i) PROVE ListInv'
  BY <1>1, <1>13 DEF DefinitionChanges, ghosts, screenVars, manager
<1>14. ASSUME NEW r \in results, BringStep(r) PROVE ListInv'
  BY <1>1, <1>14 DEF BringStep, Brings, Handled, manager
<1>15. ASSUME NEW r \in results, EndStep(r) PROVE ListInv'
  <2>1. CASE r.kind = "sources" /\ r.err
    BY <1>15, <2>1 DEF EndStep, Handled, manager, ListInv, Alone, Of
  <2>2. CASE ~(r.kind = "sources" /\ r.err)
    BY <1>1, <1>15, <2>2 DEF EndStep, Handled, manager
  <2>. QED  BY <2>1, <2>2
<1>. QED
  BY <1>2, <1>5, <1>6, <1>7, <1>8, <1>9, <1>10, <1>11, <1>12, <1>13, <1>14, <1>15, SettingsSteps

LEMMA PanelKept ==
    ASSUME SettingsTypes, Alone("prefs"), PanelInv, [SettingsNext]_settingsVars
    PROVE  PanelInv'
<1>1. ASSUME "prefs" \in overlapped' <=> "prefs" \in overlapped,
             \A r \in results' : r.kind = "prefs" /\ ~r.err => r \in results,
             \A r \in results : r.kind = "prefs" /\ ~r.err => r \in results',
             cfg'.prefs = cfg.prefs, UNCHANGED opened
      PROVE  PanelInv'
  BY <1>1 DEF PanelInv
<1>2. CASE UNCHANGED settingsVars
  BY <1>1, <1>2 DEF settingsVars, ghosts, screenVars, manager
<1>3. ASSUME NEW what, Asks("prefs", what) PROVE PanelInv'
  <2>. SUFFICES ASSUME "prefs" \notin overlapped' PROVE PanelInv'
    BY DEF PanelInv
  <2>1. "prefs" \notin overlapped
    BY <1>3, AskedAlone
  <2>. QED  BY <1>1, <1>3, <2>1 DEF Asks, manager
<1>4. ASSUME NEW k, NEW what, Asks(k, what), k # "prefs" PROVE PanelInv'
  BY <1>1, <1>4, AskedOther DEF manager
<1>5. CASE Asking
  BY <1>3, <1>4, <1>5 DEF Asking
<1>6. ASSUME NEW c \in cmds, SaveStep(c) PROVE PanelInv'
  BY <1>1, <1>6, SavedParts DEF SaveStep, Locked, screenVars
<1>7. ASSUME NEW c \in cmds, PrefsStep(c) PROVE PanelInv'
  <2>1. cfg'.prefs = c.what.prefs
    BY <1>7, SavedParts DEF PrefsStep
  <2>2. LET r == SuccessOf(c, Unread, 0) IN ~r.err /\ r.kind = "prefs" /\ r.what = c.what
    BY <1>7, UnreadRows, ResultFields DEF PrefsStep, SettingsTypes
  <2>. QED  BY <1>7, <2>1, <2>2 DEF PrefsStep, Locked, PanelInv, Alone, Of
<1>8. ASSUME NEW c \in cmds, FailStep(c) PROVE PanelInv'
  <2>1. FailureOf(c).err
    BY <1>8, ResultFields DEF FailStep, SettingsTypes
  <2>. QED  BY <1>1, <1>8, <2>1 DEF FailStep, Locked, screenVars, manager
<1>9. ASSUME NEW c \in cmds, ReloadStep(c) PROVE PanelInv'
  BY <1>1, <1>9 DEF ReloadStep, Locked, screenVars, manager
<1>10. ASSUME NEW i \in Sources, UnregisterSource(i) \/ RegisterSource(i) PROVE PanelInv'
  BY <1>1, <1>10 DEF UnregisterSource, RegisterSource, screenVars, manager
<1>11. CASE Unlock
  BY <1>1, <1>11 DEF Unlock, ghosts, screenVars, manager
<1>12. ASSUME NEW c \in reads, ReadStep(c) PROVE PanelInv'
  <2>1. SuccessOf(c, RowsOf(cfg), version).kind # "prefs"
    BY RowsOfRows, ResultFields DEF SettingsTypes, SettingsTypeOK
  <2>. QED  BY <1>1, <1>12, <2>1 DEF ReadStep, ghosts, screenVars, manager
<1>13. ASSUME NEW i \in Sources, DefinitionChanges(i) PROVE PanelInv'
  BY <1>1, <1>13 DEF DefinitionChanges, ghosts, screenVars, manager
<1>14. ASSUME NEW r \in results, BringStep(r) PROVE PanelInv'
  BY <1>1, <1>14 DEF BringStep, Brings, Handled, manager
<1>15. ASSUME NEW r \in results, EndStep(r) PROVE PanelInv'
  <2>1. CASE r.kind = "prefs" /\ ~r.err
    BY <1>15, <2>1 DEF EndStep, Handled, manager, PanelInv, Alone, Of
  <2>2. CASE ~(r.kind = "prefs" /\ ~r.err)
    BY <1>1, <1>15, <2>2 DEF EndStep, Handled, manager
  <2>. QED  BY <2>1, <2>2
<1>. QED
  BY <1>2, <1>5, <1>6, <1>7, <1>8, <1>9, <1>10, <1>11, <1>12, <1>13, <1>14, <1>15, SettingsSteps

----------------------------------------------------------------------------
(* Toggles of built-in sources. *)

\* Neither what is off nor the rows nor what a toggle left on its way change.
SameToggles ==
    /\ "builtin" \in overlapped' <=> "builtin" \in overlapped
    /\ cfg'.off = cfg.off /\ UNCHANGED <<rows, seq>> /\ version' \in Nat /\ version' >= version
    /\ \A c : c \in cmds' /\ c.kind = "builtin" <=> c \in cmds /\ c.kind = "builtin"
    /\ \A c : c \in reads' /\ c.kind = "builtin" <=> c \in reads /\ c.kind = "builtin"
    /\ \A r : r \in results' /\ (r.kind = "builtin" \/ Brings(r)) <=> r \in results /\ (r.kind = "builtin" \/ Brings(r))

LEMMA SameTogglesKept == ASSUME SettingsTypes, ToggleInv, SameToggles PROVE ToggleInv'
<1>. SUFFICES ASSUME "builtin" \notin overlapped PROVE ToggleInv'
  BY DEF ToggleInv, SameToggles
<1>1. PICK v \in 0..version : OffSince(v)
  BY DEF ToggleInv
<1>2. v \in 0..version'
  BY DEF SameToggles, SettingsTypes
<1>3. \A b : Turning(b) => Turning(b)'
  BY DEF SameToggles, Turning
<1>4. OffSince(v)'
  BY <1>1, <1>3 DEF SameToggles, OffSince, Brings, Agrees, Of
<1>. QED  BY <1>2, <1>4 DEF ToggleInv, SameToggles

LEMMA AskKeepsToggles == ASSUME SettingsTypes, ToggleInv, Asking PROVE ToggleInv'
<1>1. ASSUME NEW k, NEW what, Asks(k, what), k # "builtin", UNCHANGED rows PROVE ToggleInv'
  <2>1. /\ "builtin" \in overlapped' <=> "builtin" \in overlapped
        /\ Of("builtin", cmds') = Of("builtin", cmds) /\ UNCHANGED <<manager, reads, results, seq>>
    BY <1>1, AskedOther
  <2>2. \A c : c \in cmds' /\ c.kind = "builtin" <=> c \in cmds /\ c.kind = "builtin"
    BY <2>1 DEF Of
  <2>3. SameToggles
    BY <1>1, <2>1, <2>2 DEF SameToggles, manager, SettingsTypes
  <2>. QED  BY <2>3, SameTogglesKept
<1>2. ASSUME NEW b \in Builtins, Asks("builtin", [id |-> b, enabled |-> rows'[b] = "on"]), rows[b] # "hidden",
             rows' = [rows EXCEPT ![b] = IF @ = "on" THEN "off" ELSE "on"]
      PROVE  ToggleInv'
  <2>. SUFFICES ASSUME "builtin" \notin overlapped' PROVE ToggleInv'
    BY DEF ToggleInv
  <2>1. PICK c : c.kind = "builtin" /\ c.what = [id |-> b, enabled |-> rows'[b] = "on"] /\ cmds' = cmds \cup {c}
    BY <1>2, AskedAlone
  <2>2. /\ "builtin" \notin overlapped
        /\ Of("builtin", cmds) = {} /\ Of("builtin", reads) = {} /\ Of("builtin", results) = {}
        /\ UNCHANGED <<cfg, version, reads, results, seq>>
    BY <1>2, AskedAlone DEF Asks, manager
  <2>3. PICK v \in 0..version : OffSince(v)
    BY <2>2 DEF ToggleInv
  <2>4. seq >= v /\ \A d \in Builtins : Agrees(rows, d)
    <3>1. \A d : ~Turning(d)
      BY <2>2 DEF Turning, Of
    <3>2. seq >= v
      BY <2>2, <2>3 DEF OffSince, Of
    <3>. QED  BY <2>3, <3>1, <3>2 DEF OffSince
  <2>5. rows \in Rows /\ rows[b] \in {"on", "off"} /\ rows'[b] = (IF rows[b] = "on" THEN "off" ELSE "on")
        /\ \A d \in Builtins \ {b} : rows'[d] = rows[d]
    BY <1>2 DEF Rows, SettingsTypes, SettingsTypeOK
  <2>6. c.what.id = b /\ (c.what.enabled <=> rows'[b] = "on")
    <3>1. CASE rows'[b] = "on"
      <4>1. c.what = [id |-> b, enabled |-> TRUE]
        BY <2>1, <3>1, Zenon
      <4>. QED  BY <3>1, <4>1
    <3>2. CASE rows'[b] # "on"
      <4>1. (rows'[b] = "on") = FALSE
        BY <3>2
      <4>2. c.what = [id |-> b, enabled |-> FALSE]
        BY <2>1, <4>1, Zenon
      <4>. QED  BY <3>2, <4>2
    <3>. QED  BY <3>1, <3>2
  <2>7. c.what.id \in cfg.off <=> c.what.enabled
    BY <2>4, <2>5, <2>6 DEF Agrees
  <2>8. OffSince(v)'
    <3>1. Turning(b)'
      BY <2>1, <2>6 DEF Turning
    <3>2. \A d \in Builtins : Agrees(rows, d)' \/ Turning(d)'
      BY <2>2, <2>4, <2>5, <3>1 DEF Agrees
    <3>. QED  BY <2>2, <2>3, <2>4, <3>2 DEF OffSince, Brings, Agrees, Of
  <2>. QED  BY <2>1, <2>2, <2>3, <2>7, <2>8 DEF ToggleInv, Of
<1>. QED  BY <1>1, <1>2 DEF Asking

LEMMA SaveKeepsToggles ==
    ASSUME SettingsTypes, Alone("builtin"), ToggleInv, NEW c \in cmds, SaveStep(c)
    PROVE  ToggleInv'
<1>1. /\ cmds' = cmds \ {c} /\ reads' = reads \cup {c} /\ version' = version + 1 /\ version \in Nat /\ seq \in 0..version
      /\ UNCHANGED <<rows, seq, results, overlapped>>
  BY DEF SaveStep, Locked, screenVars, SettingsTypes, SettingsTypeOK
<1>2. CASE c.kind = "sources"
  <2>1. cfg'.off = cfg.off
    BY <1>2, SavedParts DEF SaveStep
  <2>2. SameToggles
    BY <1>1, <1>2, <2>1 DEF SameToggles
  <2>. QED  BY <2>2, SameTogglesKept
<1>3. CASE c.kind = "builtin"
  <2>. SUFFICES ASSUME "builtin" \notin overlapped PROVE ToggleInv'
    BY <1>1 DEF ToggleInv
  <2>1. Of("builtin", cmds') = {} /\ Of("builtin", results) = {}
    BY <1>1, <1>3 DEF Alone, Of
  <2>2. \A r \in results : r.seq \in 0..version
    BY DEF SettingsTypes
  <2>3. PICK v : v = version + 1
    OBVIOUS
  <2>4. v \in 0..version' /\ OffSince(v)'
    BY <1>1, <1>3, <2>1, <2>2, <2>3 DEF OffSince, Of
  <2>. QED  BY <1>1, <2>1, <2>4 DEF ToggleInv, Of
<1>. QED  BY <1>2, <1>3 DEF SaveStep

LEMMA FailKeepsToggles ==
    ASSUME SettingsTypes, Alone("builtin"), ToggleInv, NEW c \in cmds, FailStep(c)
    PROVE  ToggleInv'
<1>1. /\ cmds' = cmds \ {c} /\ results' = results \cup {FailureOf(c)}
      /\ UNCHANGED <<rows, seq, reads, overlapped, cfg, version>>
  BY DEF FailStep, Locked, screenVars, manager
<1>2. FailureOf(c).err /\ FailureOf(c).kind = c.kind /\ FailureOf(c).what = c.what
  BY ResultFields DEF FailStep, SettingsTypes
<1>3. CASE c.kind # "builtin"
  <2>1. SameToggles
    BY <1>1, <1>2, <1>3 DEF SameToggles, Brings, SettingsTypes
  <2>. QED  BY <2>1, SameTogglesKept
<1>4. CASE c.kind = "builtin"
  <2>. SUFFICES ASSUME "builtin" \notin overlapped PROVE ToggleInv'
    BY <1>1 DEF ToggleInv
  <2>1. PICK v \in 0..version : OffSince(v)
    BY DEF ToggleInv
  <2>2. \A b : Turning(b) => Turning(b)'
    BY <1>1, <1>2 DEF Turning
  <2>3. OffSince(v)'
    BY <1>1, <1>2, <2>1, <2>2 DEF OffSince, Brings, Agrees, Of
  <2>. QED  BY <1>1, <1>2, <1>4, <2>1, <2>3 DEF ToggleInv
<1>. QED  BY <1>3, <1>4

LEMMA ReadKeepsToggles == ASSUME SettingsTypes, ToggleInv, NEW c \in reads, ReadStep(c) PROVE ToggleInv'
<1>. DEFINE r == SuccessOf(c, RowsOf(cfg), version)
<1>1. Brings(r) /\ r.rows = RowsOf(cfg) /\ r.seq = version /\ r.kind = c.kind /\ ~r.err /\ c.kind \in {"sources", "builtin"}
  BY RowsOfRows, ResultFields DEF SettingsTypes, SettingsTypeOK, Brings
<1>2. results' = results \cup {r} /\ reads' = reads \ {c} /\ UNCHANGED <<rows, seq, cmds, cfg, version, overlapped>>
  BY DEF ReadStep, manager, screenVars, ghosts
<1>. HIDE DEF r
<1>. SUFFICES ASSUME "builtin" \notin overlapped PROVE ToggleInv'
  BY <1>2 DEF ToggleInv
<1>3. PICK v \in 0..version : OffSince(v)
  BY DEF ToggleInv
<1>4. \A b \in Builtins : Agrees(r.rows, b)
  BY <1>1 DEF RowsOf, Agrees
<1>5. \A b : Turning(b) => Turning(b)'
  BY <1>2 DEF Turning
<1>6. version \in Nat /\ seq \in Nat
  BY DEF SettingsTypes, SettingsTypeOK
<1>7. OffSince(v)'
  <2>1. \A x \in results' : Brings(x) /\ x.seq >= v => \A b \in Builtins : Agrees(x.rows, b)
    BY <1>1, <1>2, <1>3, <1>4 DEF OffSince
  <2>2. \A x \in results' : x.kind = "builtin" /\ Brings(x) => x.seq >= v
    BY <1>1, <1>2, <1>3, <1>6 DEF OffSince
  <2>3. Of("builtin", reads') = {} /\ (\A x \in results' : ~(x.kind = "builtin" /\ Brings(x))) => seq >= v
    BY <1>1, <1>2, <1>3 DEF OffSince, Of
  <2>. QED  BY <1>2, <1>3, <1>5, <2>1, <2>2, <2>3 DEF OffSince, Brings, Agrees, Of
<1>. QED  BY <1>1, <1>2, <1>3, <1>7 DEF ToggleInv

LEMMA BringKeepsToggles == ASSUME SettingsTypes, ToggleInv, NEW r \in results, BringStep(r) PROVE ToggleInv'
<1>1. /\ results' = results \ {r} /\ UNCHANGED <<reads, cmds, cfg, version, overlapped>> /\ Brings(r) /\ ~r.err
      /\ \/ r.seq < seq /\ UNCHANGED <<rows, seq>>
         \/ ~(r.seq < seq) /\ rows' = r.rows /\ seq' = r.seq
      /\ r.seq \in Nat /\ seq \in Nat
  BY DEF BringStep, Brings, Handled, ApplyBuiltins, manager, SettingsTypes, SettingsTypeOK
<1>. SUFFICES ASSUME "builtin" \notin overlapped PROVE ToggleInv'
  BY <1>1 DEF ToggleInv
<1>2. PICK v \in 0..version : OffSince(v)
  BY DEF ToggleInv
<1>3. \A b : Turning(b) => Turning(b)'
  BY <1>1 DEF Turning
<1>4. v \in Nat
  BY <1>2 DEF SettingsTypes
<1>5. OffSince(v)'
  <2>1. \A x \in results' : /\ Brings(x) /\ x.seq >= v => \A b \in Builtins : Agrees(x.rows, b)
                            /\ x.kind = "builtin" /\ Brings(x) => x.seq >= v
    BY <1>1, <1>2 DEF OffSince
  <2>2. seq' >= v => \A b \in Builtins : Agrees(rows', b) \/ Turning(b)'
    BY <1>1, <1>2, <1>3 DEF OffSince
  <2>3. Of("builtin", reads') = {} /\ (\A x \in results' : ~(x.kind = "builtin" /\ Brings(x))) => seq' >= v
    BY <1>1, <1>2, <1>4 DEF OffSince
  <2>. QED  BY <1>1, <2>1, <2>2, <2>3 DEF OffSince, Brings, Agrees, Of
<1>. QED  BY <1>1, <1>2, <1>5 DEF ToggleInv

LEMMA EndKeepsToggles == ASSUME SettingsTypes, ToggleInv, NEW r \in results, EndStep(r) PROVE ToggleInv'
<1>1. /\ results' = results \ {r} /\ UNCHANGED <<seq, reads, cmds, cfg, version, overlapped>> /\ ~Brings(r)
  BY DEF EndStep, Handled, manager
<1>2. CASE r.kind # "builtin"
  <2>1. SameToggles
    BY <1>1, <1>2 DEF SameToggles, EndStep, SettingsTypes
  <2>. QED  BY <2>1, SameTogglesKept
<1>3. CASE r.kind = "builtin"
  <2>. SUFFICES ASSUME "builtin" \notin overlapped PROVE ToggleInv'
    BY <1>1 DEF ToggleInv
  <2>. DEFINE d == r.what.id
  <2>1. /\ r.err /\ rows \in Rows /\ d \in Builtins
        /\ rows' = [rows EXCEPT ![d] = IF @ = "hidden" THEN @ ELSE IF r.what.enabled THEN "off" ELSE "on"]
    BY <1>3 DEF EndStep, SettingsTypes, SettingsTypeOK, ResultOK, ItemOK
  <2>2. d \in cfg.off <=> r.what.enabled
    BY <1>3, <2>1 DEF ToggleInv
  <2>3. Agrees(rows', d) /\ \A b \in Builtins \ {d} : rows'[b] = rows[b]
    BY <2>1, <2>2 DEF Agrees, Rows
  <2>4. PICK v \in 0..version : OffSince(v)
    BY DEF ToggleInv
  <2>5. \A b : Turning(b) /\ b # d => Turning(b)'
    BY <1>1 DEF Turning
  <2>6. \A b \in Builtins : Agrees(rows, b) \/ Turning(b) => Agrees(rows', b) \/ Turning(b)'
    BY <2>3, <2>5 DEF Agrees
  <2>7. OffSince(v)'
    BY <1>1, <2>4, <2>6 DEF OffSince, Brings, Agrees, Of
  <2>. QED  BY <1>1, <2>4, <2>7 DEF ToggleInv
<1>. QED  BY <1>2, <1>3

LEMMA ToggleKept ==
    ASSUME SettingsTypes, Alone("builtin"), ToggleInv, [SettingsNext]_settingsVars
    PROVE  ToggleInv'
<1>1. CASE UNCHANGED settingsVars
  <2>1. SameToggles
    BY <1>1 DEF settingsVars, ghosts, screenVars, manager, SameToggles, SettingsTypes
  <2>. QED  BY <2>1, SameTogglesKept
<1>2. ASSUME NEW c \in cmds, PrefsStep(c) PROVE ToggleInv'
  <2>1. cfg'.off = cfg.off
    BY <1>2, SavedParts DEF PrefsStep
  <2>2. SuccessOf(c, Unread, 0).kind = "prefs"
    BY <1>2, UnreadRows, ResultFields DEF PrefsStep, SettingsTypes
  <2>3. SameToggles
    BY <1>2, <2>1, <2>2 DEF PrefsStep, Locked, SameToggles, Brings, screenVars, SettingsTypes
  <2>. QED  BY <2>3, SameTogglesKept
<1>3. ASSUME NEW c \in cmds, ReloadStep(c) PROVE ToggleInv'
  <2>1. SameToggles
    BY <1>3 DEF ReloadStep, Locked, SameToggles, screenVars, manager, SettingsTypes
  <2>. QED  BY <2>1, SameTogglesKept
<1>4. ASSUME NEW i, UnregisterSource(i) \/ RegisterSource(i) \/ Unlock \/ DefinitionChanges(i) PROVE ToggleInv'
  <2>1. SameToggles
    BY <1>4 DEF UnregisterSource, RegisterSource, Unlock, DefinitionChanges, SameToggles, screenVars, manager, ghosts, SettingsTypes
  <2>. QED  BY <2>1, SameTogglesKept
<1>. QED
  BY <1>1, <1>2, <1>3, <1>4, AskKeepsToggles, SaveKeepsToggles, FailKeepsToggles, ReadKeepsToggles, BringKeepsToggles,
     EndKeepsToggles, SettingsSteps

----------------------------------------------------------------------------
(* The rows of the last version. *)

\* Nothing the rows are compared with changes, and no toggle is done with.
SameTruth ==
    /\ overlapped \subseteq overlapped' /\ failed \subseteq failed'
    /\ cfg'.entries = cfg.entries /\ cfg'.off = cfg.off /\ UNCHANGED <<rows, seq, version>>
    /\ \A b : Turning(b) => Turning(b)'

LEMMA SameTruthKept == ASSUME RowsInv, SameTruth PROVE RowsInv'
<1>1. RowsOf(cfg') = RowsOf(cfg)
  BY DEF SameTruth, RowsOf
<1>. QED  BY <1>1 DEF SameTruth, RowsInv

LEMMA AskKeepsRows == ASSUME SettingsTypes, RowsInv, Asking PROVE RowsInv'
<1>1. \A k, what : Asks(k, what) =>
         /\ overlapped \subseteq overlapped' /\ UNCHANGED <<failed, cfg, seq, version, results>>
         /\ cmds \subseteq cmds' /\ \E c \in cmds' : c.kind = k /\ c.what = what
  <2>. SUFFICES ASSUME NEW k, NEW what, Asks(k, what)
                PROVE  /\ overlapped \subseteq overlapped' /\ UNCHANGED <<failed, cfg, seq, version, results>>
                       /\ cmds \subseteq cmds' /\ \E c \in cmds' : c.kind = k /\ c.what = what
    OBVIOUS
  <2>1. PICK n : cmds' = cmds \cup {[n |-> n, kind |-> k, what |-> what]}
    BY DEF Asks
  <2>. DEFINE c == [n |-> n, kind |-> k, what |-> what]
  <2>2. c \in cmds' /\ c.kind = k /\ c.what = what
    BY <2>1
  <2>3. cmds \subseteq cmds' /\ overlapped \subseteq overlapped' /\ UNCHANGED <<failed, cfg, seq, version, results>>
    BY <2>1 DEF Asks, manager
  <2>. QED  BY <2>2, <2>3
<1>2. \A k, what, b : Asks(k, what) /\ Turning(b) => Turning(b)'
  BY <1>1 DEF Turning
<1>3. ASSUME NEW k, NEW what, Asks(k, what), UNCHANGED rows PROVE RowsInv'
  <2>1. SameTruth
    BY <1>1, <1>2, <1>3 DEF SameTruth
  <2>. QED  BY <2>1, SameTruthKept
<1>4. ASSUME NEW b \in Builtins, NEW on \in BOOLEAN, Asks("builtin", [id |-> b, enabled |-> on]), rows[b] # "hidden",
             rows' = [rows EXCEPT ![b] = IF @ = "on" THEN "off" ELSE "on"]
      PROVE  RowsInv'
  <2>. SUFFICES ASSUME ~({"builtin"} \subseteq overlapped' \cap failed'), seq' = version', NEW d \in Builtins
                PROVE  \/ rows'[d] = RowsOf(cfg')[d]
                       \/ rows'[d] # "hidden" /\ RowsOf(cfg')[d] # "hidden" /\ Turning(d)'
    BY DEF RowsInv
  <2>1. ~({"builtin"} \subseteq overlapped \cap failed) /\ seq = version /\ cfg' = cfg /\ rows \in Rows
    BY <1>1, <1>4 DEF SettingsTypes, SettingsTypeOK
  <2>2. \/ rows[d] = RowsOf(cfg)[d]
        \/ rows[d] # "hidden" /\ RowsOf(cfg)[d] # "hidden" /\ Turning(d)
    BY <2>1 DEF RowsInv
  <2>3. CASE d = b
    <3>1. Turning(b)'
      BY <1>1, <1>4 DEF Turning
    <3>2. rows'[b] # "hidden" /\ RowsOf(cfg)[b] # "hidden"
      BY <1>4, <2>1, <2>2, <2>3 DEF Rows
    <3>. QED  BY <2>1, <2>3, <3>1, <3>2
  <2>4. CASE d # b
    BY <1>2, <1>4, <2>1, <2>2, <2>4 DEF Rows
  <2>. QED  BY <2>3, <2>4
<1>. QED  BY <1>3, <1>4 DEF Asking

LEMMA BringKeepsRows == ASSUME SettingsTypes, ReadInv, RowsInv, NEW r \in results, BringStep(r) PROVE RowsInv'
<1>1. /\ Brings(r) /\ ~r.err /\ results' = results \ {r} /\ UNCHANGED <<cfg, version, cmds, overlapped, failed>>
      /\ \/ UNCHANGED <<rows, seq>>
         \/ rows' = r.rows /\ seq' = r.seq
  BY DEF BringStep, Brings, Handled, ApplyBuiltins, manager
<1>2. CASE UNCHANGED <<rows, seq>>
  <2>1. SameTruth
    BY <1>1, <1>2 DEF SameTruth, Turning
  <2>. QED  BY <2>1, SameTruthKept
<1>3. CASE rows' = r.rows /\ seq' = r.seq
  BY <1>1, <1>3 DEF ReadInv, RowsInv
<1>. QED  BY <1>1, <1>2, <1>3

LEMMA EndKeepsRows == ASSUME SettingsTypes, ToggleInv, FailInv, RowsInv, NEW r \in results, EndStep(r) PROVE RowsInv'
<1>1. results' = results \ {r} /\ UNCHANGED <<cfg, version, seq, cmds, overlapped, failed>>
  BY DEF EndStep, Handled, manager
<1>2. CASE r.kind # "builtin"
  <2>1. SameTruth
    BY <1>1, <1>2 DEF SameTruth, Turning, EndStep
  <2>. QED  BY <2>1, SameTruthKept
<1>3. CASE r.kind = "builtin"
  <2>. DEFINE d == r.what.id
  <2>1. /\ r.err /\ rows \in Rows /\ d \in Builtins
        /\ rows' = [rows EXCEPT ![d] = IF @ = "hidden" THEN @ ELSE IF r.what.enabled THEN "off" ELSE "on"]
    BY <1>3 DEF EndStep, SettingsTypes, SettingsTypeOK, ResultOK, ItemOK
  <2>. SUFFICES ASSUME ~({"builtin"} \subseteq overlapped \cap failed), seq = version, NEW b \in Builtins
                PROVE  \/ rows'[b] = RowsOf(cfg)[b]
                       \/ rows'[b] # "hidden" /\ RowsOf(cfg)[b] # "hidden" /\ Turning(b)'
    BY <1>1 DEF RowsInv
  <2>2. d \in cfg.off <=> r.what.enabled
    BY <1>3, <2>1 DEF FailInv, ToggleInv
  <2>3. \/ rows[b] = RowsOf(cfg)[b]
        \/ rows[b] # "hidden" /\ RowsOf(cfg)[b] # "hidden" /\ Turning(b)
    BY DEF RowsInv
  <2>4. CASE b = d
    <3>1. rows'[d] = IF rows[d] = "hidden" THEN "hidden" ELSE IF r.what.enabled THEN "off" ELSE "on"
      BY <2>1 DEF Rows
    <3>. QED  BY <2>2, <2>3, <2>4, <3>1 DEF RowsOf
  <2>5. CASE b # d
    <3>1. rows'[b] = rows[b]
      BY <2>1, <2>5 DEF Rows
    <3>2. Turning(b) => Turning(b)'
      BY <1>1, <2>5 DEF Turning
    <3>. QED  BY <2>3, <3>1, <3>2
  <2>. QED  BY <2>4, <2>5
<1>. QED  BY <1>2, <1>3

LEMMA RowsKept ==
    ASSUME SettingsTypes, ReadInv, ToggleInv, FailInv, RowsInv, [SettingsNext]_settingsVars
    PROVE  RowsInv'
<1>1. CASE UNCHANGED settingsVars
  BY <1>1, SameTruthKept DEF settingsVars, ghosts, screenVars, manager, SameTruth, Turning
<1>2. ASSUME NEW c \in cmds, SaveStep(c) PROVE RowsInv'
  BY <1>2 DEF SaveStep, Locked, screenVars, SettingsTypes, SettingsTypeOK, RowsInv
<1>3. ASSUME NEW c \in cmds, PrefsStep(c) PROVE RowsInv'
  <2>1. cfg'.entries = cfg.entries /\ cfg'.off = cfg.off
    BY <1>3, SavedParts DEF PrefsStep
  <2>2. SameTruth
    BY <1>3, <2>1 DEF PrefsStep, Locked, SameTruth, Turning, screenVars
  <2>. QED  BY <2>2, SameTruthKept
<1>4. ASSUME NEW c \in cmds, FailStep(c) PROVE RowsInv'
  <2>1. FailureOf(c).err /\ FailureOf(c).kind = c.kind /\ FailureOf(c).what = c.what
    BY <1>4, ResultFields DEF FailStep, SettingsTypes
  <2>2. /\ cmds' = cmds \ {c} /\ results' = results \cup {FailureOf(c)} /\ failed \subseteq failed'
        /\ UNCHANGED <<rows, seq, overlapped, cfg, version>>
    BY <1>4 DEF FailStep, Locked, screenVars, manager
  <2>3. \A b : Turning(b) => Turning(b)'
    BY <2>1, <2>2 DEF Turning
  <2>4. SameTruth
    BY <2>2, <2>3 DEF SameTruth
  <2>. QED  BY <2>4, SameTruthKept
<1>5. ASSUME NEW c \in cmds, ReloadStep(c) PROVE RowsInv'
  <2>1. SameTruth
    BY <1>5 DEF ReloadStep, Locked, SameTruth, Turning, screenVars, manager
  <2>. QED  BY <2>1, SameTruthKept
<1>6. ASSUME NEW i, UnregisterSource(i) \/ RegisterSource(i) \/ Unlock \/ DefinitionChanges(i) PROVE RowsInv'
  <2>1. SameTruth
    BY <1>6 DEF UnregisterSource, RegisterSource, Unlock, DefinitionChanges, SameTruth, Turning, screenVars, manager, ghosts
  <2>. QED  BY <2>1, SameTruthKept
<1>7. ASSUME NEW c \in reads, ReadStep(c) PROVE RowsInv'
  <2>1. SameTruth
    BY <1>7 DEF ReadStep, SameTruth, Turning, screenVars, manager, ghosts
  <2>. QED  BY <2>1, SameTruthKept
<1>. QED
  BY <1>1, <1>2, <1>3, <1>4, <1>5, <1>6, <1>7, AskKeepsRows, BringKeepsRows, EndKeepsRows, SettingsSteps

----------------------------------------------------------------------------
(* The invariant and what follows from it. *)

LEMMA SettingsStarts == ASSUME SettingsInit PROVE SettingsInv
<1>1. SettingsTypes
  <2>1. rows \in Rows
    BY RowsOfRows DEF SettingsInit
  <2>. QED  BY <2>1 DEF SettingsInit, SettingsTypes, SettingsTypeOK, Config, Idle, Jobs
<1>2. SyncInv /\ HeldInv /\ RefreshInv /\ ReadInv /\ RowsInv /\ AloneInv /\ FailInv /\ ListInv /\ PanelInv
  BY NamesAssumption DEF SettingsInit, SyncInv, HeldInv, RefreshInv, ReadInv, RowsInv, AloneInv, Alone, Of, FailInv, ListInv, PanelInv, Idle
<1>3. ToggleInv
  <2>1. \A b \in Builtins : Agrees(rows, b)
    BY DEF SettingsInit, Agrees, RowsOf
  <2>2. OffSince(0)
    BY <2>1 DEF SettingsInit, OffSince
  <2>. QED  BY <2>2 DEF SettingsInit, ToggleInv
<1>. QED  BY <1>1, <1>2, <1>3 DEF SettingsInv

LEMMA SettingsInductive == ASSUME SettingsInv, [SettingsNext]_settingsVars PROVE SettingsInv'
<1>1. SettingsTypes' /\ SyncInv' /\ HeldInv' /\ RefreshInv' /\ ReadInv'
  BY SettingsTyped, SyncKept, HeldKept, RefreshKept, ReadKept DEF SettingsInv
<1>2. AloneInv' /\ FailInv' /\ ListInv' /\ PanelInv'
  BY AloneKept, FailKept, ListKept, PanelKept DEF SettingsInv, AloneInv
<1>3. ToggleInv' /\ RowsInv'
  BY ToggleKept, RowsKept DEF SettingsInv, AloneInv
<1>. QED  BY <1>1, <1>2, <1>3 DEF SettingsInv

LEMMA SettingsAlways == SettingsSpec => []SettingsInv
  BY SettingsStarts, SettingsInductive, PTL DEF SettingsSpec

\* The state of the settings is well formed, and the rows shown were never
\* read at a version the manager has yet to reach.
THEOREM SettingsTypeCorrect == SettingsSpec => []SettingsTypeOK
<1>1. SettingsInv => SettingsTypeOK
  BY DEF SettingsInv, SettingsTypes
<1>. QED  BY <1>1, SettingsAlways, PTL

\* Whenever the manager's lock is free the registry holds what config.toml
\* asks for under every id but the strayed, whatever the definition files name
\* and become; and once every result is in the search screen offers what is
\* registered, whatever order the saves ran and reported in.
THEOREM SettingsInStep == SettingsSpec => []InStep
<1>1. SettingsInv => InStep
  <2>. SUFFICES ASSUME SettingsInv PROVE InStep
    OBVIOUS
  <2>1. RegistryInStep
    <3>1. ASSUME job = Idle, NEW k \in Names \ strayed PROVE registry[k] = Asked(k)
      BY <3>1 DEF SettingsInv, SyncInv, HeldInv, Asked, Idle
    <3>. QED  BY <3>1 DEF SettingsInv, SyncInv, HeldInv, RegistryInStep
  <2>2. SearchInStep
    BY DEF SettingsInv, RefreshInv, SearchInStep, Quiet, Idle
  <2>. QED  BY <2>1, <2>2 DEF InStep
<1>. QED  BY <1>1, SettingsAlways, PTL

\* Once every result is in, every list a screen shows is the saved one, but
\* for saves of the same list that overlapped.
THEOREM ListsAreTrue == SettingsSpec => []ListsTrue
<1>1. SettingsInv => ListsTrue
  <2>. SUFFICES ASSUME SettingsInv, Quiet PROVE ListsTrue
    BY DEF ListsTrue, BuiltinsTrue, ScreensTrue
  <2>1. ScreensTrue
    BY DEF SettingsInv, ListInv, PanelInv, ScreensTrue, Quiet
  <2>2. seq = version
    BY DEF SettingsInv, ReadInv, Quiet
  <2>3. \A b : ~Turning(b)
    BY DEF Turning, Quiet
  <2>4. ~({"builtin"} \subseteq overlapped \cap failed) => \A b \in Builtins : rows[b] = RowsOf(cfg)[b]
    BY <2>2, <2>3 DEF SettingsInv, RowsInv
  <2>5. rows \in Rows /\ RowsOf(cfg) \in Rows
    BY RowsOfRows DEF SettingsInv, SettingsTypes, SettingsTypeOK
  <2>6. BuiltinsTrue
    BY <2>4, <2>5 DEF BuiltinsTrue, Rows
  <2>. QED  BY <2>1, <2>6 DEF ListsTrue
<1>. QED  BY <1>1, SettingsAlways, PTL

\* No save undoes another's part of config.toml, in whatever order they were
\* asked for, run and failed.
THEOREM PartsAreKept == SettingsSpec => PartsKept
<1>. DEFINE Changes ==
       LET ran == cmds \ cmds'
           By(kind) == \E c \in ran : c.kind = kind
       IN  /\ disk'.entries # disk.entries => By("sources")
           /\ disk'.prefs # disk.prefs => By("prefs")
           /\ \A b \in Builtins : (b \in disk.off) # (b \in disk'.off) => \E c \in ran : c.kind = "builtin" /\ c.what.id = b
<1>1. ASSUME SettingsInv, SettingsNext PROVE Changes
  <2>. SettingsTypes /\ disk = cfg
    BY <1>1 DEF SettingsInv, SyncInv
  <2>1. ASSUME UNCHANGED disk PROVE Changes
    BY <2>1
  <2>2. ASSUME NEW c \in cmds, cmds' = cmds \ {c}, c.kind # "reload", disk' = Saved(c.kind, c.what) PROVE Changes
    <3>1. c \in cmds \ cmds'
      BY <2>2
    <3>2. /\ disk'.entries = IF c.kind = "sources" THEN c.what.all ELSE disk.entries
          /\ disk'.prefs = IF c.kind = "prefs" THEN c.what.prefs ELSE disk.prefs
          /\ disk'.off = IF c.kind = "builtin" THEN (IF c.what.enabled THEN disk.off \ {c.what.id} ELSE disk.off \cup {c.what.id})
                         ELSE disk.off
      BY <2>2, SavedParts
    <3>. QED  BY <3>1, <3>2
  <2>3. ASSUME NEW c \in cmds, SaveStep(c) \/ PrefsStep(c) PROVE Changes
    BY <2>2, <2>3 DEF SaveStep, PrefsStep, Locked
  <2>4. ASSUME NEW c \in cmds, FailStep(c) \/ ReloadStep(c) PROVE Changes
    BY <2>1, <2>4 DEF FailStep, ReloadStep, manager
  <2>5. CASE Asking
    BY <2>1, <2>5 DEF Asking, Asks, manager
  <2>6. ASSUME NEW i, UnregisterSource(i) \/ RegisterSource(i) \/ Unlock \/ DefinitionChanges(i) PROVE Changes
    BY <2>1, <2>6 DEF UnregisterSource, RegisterSource, Unlock, DefinitionChanges, manager
  <2>7. ASSUME NEW c, ReadStep(c) PROVE Changes
    BY <2>1, <2>7 DEF ReadStep, manager
  <2>8. ASSUME NEW r, BringStep(r) \/ EndStep(r) PROVE Changes
    BY <2>1, <2>8 DEF BringStep, EndStep, Handled, manager
  <2>. QED  BY <1>1, <2>3, <2>4, <2>5, <2>6, <2>7, <2>8, SettingsSteps
<1>2. SettingsInv /\ [SettingsNext]_settingsVars => [Changes]_settingsVars
  BY <1>1
<1>. QED  BY <1>2, SettingsAlways, PTL DEF SettingsSpec, PartsKept
=============================================================================
