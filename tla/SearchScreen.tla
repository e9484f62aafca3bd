---------------------------- MODULE SearchScreen ----------------------------
(***************************************************************************)
(* The search screen (internal/tui/search.go) over the registry. Update    *)
(* dispatches a search with enter or L, again with R, and gives it up with *)
(* esc or for a newer one; SearchAll runs on a goroutine of its own and    *)
(* its result comes back as a message, which counts only if its generation *)
(* is still the screen's. Meanwhile the settings register and unregister   *)
(* sources.                                                                *)
(***************************************************************************)
EXTENDS Registry

VARIABLES
    inFlight,
    generation, \* the search dispatched with the generation the screen is at, or 0
    sent,       \* searches dispatched so far: those numbered 1 to sent
    search,     \* search[f]: the f-th one
    shown       \* the one whose results the screen shows, or 0

screen == <<inFlight, generation, sent, search, shown>>
allVars == <<vars, screen>>

\* Searches are numbered from 1, in the order of their dispatch.
ASSUME FansAssumption == Fans \subseteq Nat \ {0}

\* What dispatchSearchCmd closes over, its context, and how far it is.
Search == [query : Queries \cup {None}, ids : SUBSET Ids, cancelled : BOOLEAN,
           st : {"none", "sent", "called", "handled"}]

New == [query |-> None, ids |-> {}, cancelled |-> FALSE, st |-> "none"]

ScreenInit ==
    /\ Init
    /\ inFlight = FALSE
    /\ generation = 0
    /\ sent = 0
    /\ search = [f \in Fans |-> New]
    /\ shown = 0

\* The search whose cancel func the model holds.
InFlight(f) == inFlight /\ generation = f

\* Its context is over.
Cancelled == [f \in Fans |-> IF InFlight(f) THEN [search[f] EXCEPT !.cancelled = TRUE] ELSE search[f]]

\* Mutant: the search in flight goes on beside the new one.
SendBeside(q, ids) ==
    /\ sent + 1 \in Fans
    /\ sent' = sent + 1
    /\ generation' = sent'
    /\ search' = [search EXCEPT ![sent'] =
                    [query |-> q, ids |-> ids, cancelled |-> FALSE, st |-> "sent"]]
    /\ inFlight' = TRUE
    /\ UNCHANGED <<vars, shown>>

Send(q, ids) ==
    /\ sent + 1 \in Fans
    /\ sent' = sent + 1
    /\ generation' = sent'
    /\ search' = [Cancelled EXCEPT ![sent'] =
                    [query |-> q, ids |-> ids, cancelled |-> FALSE, st |-> "sent"]]
    /\ inFlight' = TRUE
    /\ UNCHANGED <<vars, shown>>

\* dispatchSearch: the selected sources that allow the mode. Without one
\* nothing is sent; what was in flight has its context cancelled all the same.
DispatchSearch(q, ids) ==
    /\ ids \subseteq Able[q]
    /\ \/ ids # {} /\ Send(q, ids)
       \/ ids = {} /\ inFlight /\ search' = Cancelled /\ UNCHANGED <<vars, inFlight, generation, sent, shown>>

\* handleRefresh: the query and the sources of the results shown.
HandleRefresh ==
    /\ shown # 0
    /\ Send(search[shown].query, search[shown].ids)

\* dispatchSearchCmd's goroutine.
Call(f) ==
    /\ search[f].st = "sent"
    /\ search' = [search EXCEPT ![f].st = "called"]
    /\ SearchAll(f, search[f].query, search[f].ids)
    /\ UNCHANGED <<inFlight, generation, sent, shown>>

\* esc.
HandleSearchCancel ==
    /\ inFlight
    /\ search' = Cancelled
    /\ inFlight' = FALSE
    /\ generation' = 0
    /\ UNCHANGED <<vars, sent, shown>>

Arrived(f) == search[f].st = "called" /\ fan[f].st = "returned"

\* Mutant: every result is applied.
HandleAnyResult(f) ==
    /\ Arrived(f)
    /\ search' = [search EXCEPT ![f].st = "handled"]
    /\ inFlight' = FALSE /\ shown' = f
    /\ UNCHANGED <<vars, generation, sent>>

\* A result of another generation is dropped.
HandleSearchResult(f) ==
    /\ Arrived(f)
    /\ search' = [search EXCEPT ![f].st = "handled"]
    /\ \/ generation = f /\ inFlight' = FALSE /\ shown' = f
       \/ generation # f /\ UNCHANGED <<inFlight, shown>>
    /\ UNCHANGED <<vars, generation, sent>>

Update ==
    \/ \E q \in Queries, ids \in SUBSET Ids : DispatchSearch(q, ids)
    \/ HandleRefresh
    \/ HandleSearchCancel
    \/ \E f \in Fans : HandleSearchResult(f)

Settings == \E i \in Ids : Register(i) \/ Unregister(i)
FanOut(f) == (\E i \in Ids : Goroutine(f, i)) \/ Return(f)

ScreenNext ==
    \/ Update
    \/ \E f \in Fans : Call(f)
    \/ (Tick \/ Settings \/ \E f \in Fans : FanOut(f)) /\ UNCHANGED screen

(***************************************************************************)
(* Goroutines are scheduled, deadlines pass and Update handles its         *)
(* messages; it is enough that some of this happens as long as some can.   *)
(* Nothing makes a source answer.                                          *)
(***************************************************************************)
Progress ==
    \E f \in Fans :
        \/ Call(f) \/ HandleSearchResult(f)
        \/ /\ Return(f) \/ \E i \in Ids : LookUp(f, i) \/ Reserve(f, i) \/ GivesUp(f, i) \/ Store(f, i)
           /\ UNCHANGED screen

ScreenSpec == ScreenInit /\ [][ScreenNext]_allVars /\ WF_allVars(Progress)

----------------------------------------------------------------------------

ScreenTypeOK ==
    /\ TypeOK
    /\ inFlight \in BOOLEAN
    /\ sent \in Fans \cup {0} /\ generation \in 0..sent /\ shown \in 0..sent
    /\ search \in [Fans -> Search]
    /\ \A f \in Fans : fan[f].st = "idle" <=> search[f].st \in {"none", "sent"}

(***************************************************************************)
(* The results shown are those of the newest search: they never go back to *)
(* an older one's, whatever order results arrive in.                       *)
(***************************************************************************)
NeverGoesBack == [][shown' # shown => shown' > shown /\ shown' = sent]_allVars

(***************************************************************************)
(* dispatchSearch, of the search it supersedes: "its eventual result is    *)
(* recognised as stale by the generation bump below".                      *)
(***************************************************************************)
CancelledIsStale == [][shown' # shown => ~search[shown'].cancelled]_allVars

(***************************************************************************)
(* Esc is "a real cancel and not just a UI state change that leaves the    *)
(* fan-out running unseen": whatever runs without having been cancelled is *)
(* the search the screen says is in flight.                                *)
(***************************************************************************)
NoneUnseen ==
    \A f \in Fans : search[f].st \in {"sent", "called"} /\ ~search[f].cancelled => InFlight(f)

(***************************************************************************)
(* The spinner stops: every source is abandoned at its deadline, whether   *)
(* it answers or not, and the search in flight always has its result come. *)
(***************************************************************************)
SearchEnds == inFlight ~> ~inFlight

=============================================================================
