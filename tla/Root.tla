--------------------------------- MODULE Root ---------------------------------
(***************************************************************************)
(* The root model (internal/tui/root.go): which of the screens, overlays   *)
(* and forms a key goes to, which of them is shown, and the messages that  *)
(* switch screens on their own while any of them is open. Composes AddFlow *)
(* and Forms; what the screens' own keys do is in SearchScreen, Downloads  *)
(* and Settings.                                                           *)
(***************************************************************************)
EXTENDS AddFlow, Forms

CONSTANTS Plans \* bound: what the user sets out to do; see Plan

VARIABLES
    over,      \* the overlays and dialogs that are open, but for dest, form, prefs and wizard
    editing,   \* search.editing # editNone
    searching, \* search.inFlight
    failed,    \* statusBar.FailedSources is not empty
    active,    \* activeDownloads > 0
    quit,      \* tea.Quit was returned
    plan

rootVars == <<over, editing, searching, failed, active, quit, plan>>
vars     == <<addVars, formVars, rootVars>>

Screens == <<"search", "results", "details", "downloads", "settings">>

\* The order of context().
Modals == <<"first-run", "quit", "remove", "clear", "destination", "form", "source-remove", "test-detail", "prefs",
            "wizard", "help", "errors">>

Open ==
    over \cup (IF dest.open THEN {"destination"} ELSE {}) \cup (IF form # Nothing THEN {"form"} ELSE {})
         \cup (IF prefs # Nothing THEN {"prefs"} ELSE {}) \cup (IF wizard # Nothing THEN {"wizard"} ELSE {})

\* context: what View draws.
Shown ==
    IF Open = {} THEN "screen"
    ELSE Modals[CHOOSE i \in DOMAIN Modals : Modals[i] \in Open /\ \A j \in 1 .. i - 1 : Modals[j] \notin Open]

\* What handleSearchTyping claims.
Typed == Letters \cup {"1", "2", "3", "4", "5", "L", " ", "enter", "esc"}

\* Mutant: they are claimed under the quit prompt too.
OnSettingsAlways == screen = "settings" /\ form = Nothing /\ over \cap {"source-remove", "test-detail", "help", "errors"} = {}

\* Whether the settings screen claims its own keys.
OnSettings == screen = "settings" /\ form = Nothing /\ over \cap {"source-remove", "test-detail", "help", "quit", "errors"} = {}

TextModal == dest.open \/ form # Nothing \/ prefs # Nothing \/ wizard # Nothing

\* handleKey: who takes the key, in the order it is offered.
Handler(key) ==
    LET prompted == "quit" \in over
    IN IF "first-run" \in over THEN "first-run"
       ELSE IF key = "ctrl+c" /\ ~prompted /\ TextModal THEN "ctrl+c"
       ELSE IF dest.open /\ ~prompted THEN "destination"
       ELSE IF form # Nothing /\ ~prompted THEN "form"
       ELSE IF key = "esc" /\ resolve.on /\ Shown = "screen" /\ ~editing THEN "resolve"
       ELSE IF prefs # Nothing /\ ~prompted THEN "prefs"
       ELSE IF wizard # Nothing /\ ~prompted THEN "wizard"
       ELSE IF screen = "search" /\ editing /\ key \in Typed THEN "typing"
       ELSE IF key \in {"esc", " ", "a"} /\ screen = "search" /\ over \cap {"quit", "clear", "help", "errors"} = {} THEN "search"
       ELSE IF key \in {"a", "e", "t", " ", "x", "r", "d", "esc", "p"} /\ OnSettings THEN "settings"
       ELSE "keymap"

----------------------------------------------------------------------------
(* Overlays. *)

Overlays(o) == over' = o /\ UNCHANGED <<addVars, formVars, editing, searching, failed, active, quit, plan>>

\* handleQuit.
HandleQuit ==
    /\ IF active /\ "quit" \notin over
       THEN over' = over \cup {"quit"} /\ UNCHANGED quit
       ELSE quit' = TRUE /\ UNCHANGED over
    /\ UNCHANGED <<addVars, formVars, editing, searching, failed, active, plan>>

\* ActionConfirmNo, ActionCancel.
CancelAction == Overlays(over \ {"quit", "help", "errors", "test-detail"})

\* The keymap of each overlay.
OverlayKey(key) == \E shown \in {Shown} :
    \/ /\ shown = "quit"
       /\ \/ key \in {"y", "enter"} /\ quit' = TRUE
             /\ UNCHANGED <<addVars, formVars, over, editing, searching, failed, active, plan>>
          \/ key \in {"n", "esc"} /\ CancelAction
    \/ shown \in {"remove", "clear", "source-remove"} /\ key \in {"enter", "esc", "n"} /\ Overlays(over \ {shown})
    \/ shown = "test-detail" /\ key \in {"esc", "d"} /\ CancelAction
    \/ shown = "help" /\ key \in {"?", "esc"} /\ CancelAction
    \/ shown = "errors" /\ key = "esc" /\ CancelAction
    \/ shown = "errors" /\ key = "tab" /\ Overlays(over \ {"errors"})

----------------------------------------------------------------------------
(* Screens. *)

Position(s) == CHOOSE i \in DOMAIN Screens : Screens[i] = s

\* The screen becomes s, and the search field is edited or not.
Goto(s, ed) ==
    /\ screen' = s /\ editing' = ed
    /\ UNCHANGED <<details, resolve, fetches, dest, checks, adds, used, tracked, roots, fsVars, asked, formVars, over, searching,
                   failed, active, quit, plan>>

\* dispatchSearch: refused without a source; the search under way is replaced.
Dispatch(ed) ==
    /\ plan = "browse"
    /\ searching' = TRUE /\ editing' = ed
    /\ UNCHANGED <<addVars, formVars, over, failed, active, quit, plan>>

InAdd(A) == A /\ UNCHANGED <<formVars, rootVars>>
InForms(A) == A /\ UNCHANGED <<addVars, rootVars>>

\* handleSearchTyping: enter in the query field runs the search.
TypingKey(key) ==
    \/ key = "enter" /\ (Goto(screen, FALSE) \/ Dispatch(FALSE))
    \/ key = "esc" /\ Goto(screen, FALSE)

\* The search screen's own keys. Whether it lists no source, and which field
\* the cursor is on, is left open.
SearchKey(key) ==
    \/ key = "esc" /\ searching /\ searching' = FALSE
       /\ UNCHANGED <<addVars, formVars, over, editing, failed, active, quit, plan>>
    \/ key = " " /\ Goto(screen, TRUE)
    \/ key = "a" /\ OpenForm(Blank) /\ screen' = "settings"
       /\ UNCHANGED <<details, resolve, fetches, dest, checks, adds, used, tracked, roots, fsVars, asked, rootVars>>

\* The settings screen's own keys; a built-in source is neither edited nor
\* removed.
SettingsKey(key) ==
    \/ key = "a" /\ InForms(OpenForm(Blank))
    \/ key = "e" /\ InForms(OpenForm(Saved("scraper")))
    \/ key = "t" /\ InForms(StartProbe)
    \/ key = "esc" /\ InForms(CancelProbe)
    \/ key = "p" /\ InForms(OpenPrefs)
    \/ key = "x" /\ Overlays(over \cup {"source-remove"})
    \/ key = "d" /\ probe.found # Nothing /\ Overlays(over \cup {"test-detail"})

\* The results and the details screen: ActionSelect, ActionDetails.
ResultKey(key) ==
    \/ /\ key = "enter" /\ Len(adds) < MaxAdds
       /\ \/ screen = "results" /\ \E r \in Listed : InAdd(StartAdd(r))
          \/ screen = "details" /\ details # None /\ InAdd(StartAdd(details))
    \/ key = "d" /\ screen = "results" /\ \E r \in Listed : InAdd(OpenDetails(r))

\* GlobalBindings, on a screen.
ScreenKey(key) ==
    LET at == Position(screen)
    IN /\ Shown = "screen"
       /\ \/ key = "/" /\ Goto("search", TRUE)
          \/ key = "L" /\ Dispatch(editing)
          \/ key = "enter" /\ screen = "search" /\ Dispatch(editing)
          \/ key = "tab" /\ Goto(Screens[(at % Len(Screens)) + 1], editing)
          \/ key = "shift+tab" /\ Goto(Screens[IF at = 1 THEN Len(Screens) ELSE at - 1], editing)
          \/ \E i \in DOMAIN Screens : key = <<"1", "2", "3", "4", "5">>[i] /\ Goto(Screens[i], editing)
          \/ ResultKey(key)
          \/ key = "x" /\ screen = "downloads" /\ Overlays(over \cup {"remove"})
          \/ key = "c" /\ screen = "search" /\ Overlays(over \cup {"clear"})
          \/ key = "?" /\ Overlays(over \cup {"help"})
          \/ key \in {"q", "ctrl+c"} /\ HandleQuit
          \/ key = "e" /\ screen # "settings" /\ failed /\ Overlays(over \cup {"errors"})

\* handleKey.
HandleKey(key) ==
    \E who \in {Handler(key)} :
        \/ who = "first-run" /\ Overlays(over \ {"first-run"})
        \/ who = "ctrl+c" /\ HandleQuit
        \/ who = "destination" /\ InAdd(DestinationKey(key))
        \/ who = "form" /\ InForms(FormKey(key))
        \/ who = "resolve" /\ InAdd(CancelResolve)
        \/ who = "prefs" /\ InForms(PrefsKey(key))
        \/ who = "wizard" /\ InForms(WizardKey(key))
        \/ who = "typing" /\ TypingKey(key)
        \/ who = "search" /\ SearchKey(key)
        \/ who = "settings" /\ SettingsKey(key)
        \/ who = "keymap" /\ (OverlayKey(key) \/ ScreenKey(key))

----------------------------------------------------------------------------
(* Messages. *)

\* engineUpdateMsg.
EngineUpdate ==
    /\ active' \in BOOLEAN
    /\ UNCHANGED <<addVars, formVars, over, editing, searching, failed, quit, plan>>

\* handleSearchResult and sourceStatusMsg: the results are shown unless the
\* whole search failed; without a failed source the panel closes.
SearchResult(some, all) ==
    /\ searching
    /\ searching' = FALSE /\ failed' = some
    /\ over' = IF some THEN over ELSE over \ {"errors"}
    /\ screen' = IF all THEN screen ELSE "results"
    /\ UNCHANGED <<details, resolve, fetches, dest, checks, adds, used, tracked, roots, fsVars, asked, formVars, editing, active,
                   quit, plan>>

----------------------------------------------------------------------------
(* Bounds: each plan explores one part of the program in depth. *)

Moving == {"esc", "enter", "up", "down", "x"}

\* Keys pressed.
Plan ==
    [add       |-> Moving \cup {"2"},
     disk      |-> Moving \cup {"2"},
     prefs     |-> Moving \cup {"5", "p", "y", "n", "ctrl+s", "ctrl+x"},
     configure |-> Moving \cup {"5", "a", "y", "n", "tab", "ctrl+s", "ctrl+t", " "},
     browse    |-> {"esc", "enter", "/", "L", "tab", "shift+tab", "1", "2", "3", "4", "d", "x", "c", "?", "q", "y", "n", "ctrl+c", "e", " "},
     settings  |-> {"esc", "enter", "1", "2", "5", "a", "e", "t", "p", "d", "x", "?", "y", "n", "ctrl+c"}]

Bounds ==
    /\ plan # "add" => Len(adds') <= 1 /\ resolve'.gen <= 1
    /\ plan # "browse" => ~searching'
    /\ plan \in {"disk", "browse", "settings"} => Cardinality(checks') <= 1
    /\ plan = "browse" => form' = Nothing
    /\ plan \in {"configure", "prefs"} => over' = {} /\ ~editing' /\ screen' = "settings"
    /\ plan = "configure" => given' <= 2
    /\ plan = "settings" => /\ adds' = <<>> /\ opened' <= 1 /\ given' <= 1
                            /\ form' # Nothing => form'.at = 1 /\ ~form'.dirty
                            /\ prefs' # Nothing => ~prefs'.dirty

Init ==
    /\ AddInit /\ FormsInit
    /\ plan \in Plans
    /\ over \in IF plan = "browse" THEN {{}, {"first-run"}} ELSE {{}}
    /\ editing = FALSE /\ searching = FALSE /\ failed = FALSE /\ active = FALSE /\ quit = FALSE

Next ==
    \/ /\ ~quit
       /\ \/ \E key \in Plan[plan] : HandleKey(key)
          \/ InAdd(AddMessage)
          \/ plan = "disk" /\ InAdd(DiskChanges)
          \/ InForms(FormMessage)
          \/ plan \in {"browse", "settings"} /\ EngineUpdate
          \/ \E some, all \in BOOLEAN : SearchResult(some, all)
       /\ Bounds
    \/ quit /\ UNCHANGED vars

Spec == Init /\ [][Next]_vars

----------------------------------------------------------------------------
(* What the root model promises. *)

\* Who may take a key while m is shown.
Owners(m) ==
    IF m = "screen" THEN {"keymap", "typing", "search", "settings", "resolve"} ELSE {m, "keymap", "ctrl+c"}

(***************************************************************************)
(* Keys go to what is shown: "a modal owns every key", and the quit prompt *)
(* opened over one "takes the keys until it is dismissed" (root.go:751).   *)
(* Two cases are excepted, where the code does otherwise: the prompt       *)
(* opened by ctrl+c while the query is typed, and the picker that a late   *)
(* resolve opens behind the remove or clear dialog.                        *)
(***************************************************************************)
KeysGoToShown ==
    \A shown \in {Shown}, key \in Plan[plan] : \A who \in {Handler(key)} :
        \/ who \in Owners(shown)
        \/ shown = "quit" /\ editing /\ who = "typing"
        \/ shown \in {"remove", "clear"} /\ dest.open /\ who \in {"destination", "ctrl+c"}

(***************************************************************************)
(* Nothing waits for an answer that will not come, on the screens or in a  *)
(* form, whatever is opened, cancelled and closed meanwhile.               *)
(***************************************************************************)
NothingHangs == ResolvingEnds /\ NoFormHangs

(***************************************************************************)
(* T-9043 and T-081, "esc cancels": the late result of a resolve the user  *)
(* cancelled, or replaced by asking for another, opens no picker and       *)
(* leaves the one that is open alone; that of a cancelled connection test  *)
(* is never shown as one.                                                  *)
(***************************************************************************)
CancelledChangesNothing ==
    [][/\ \A f \in fetches : f.cancelled /\ f \notin fetches' => UNCHANGED <<screen, dest, resolve>>
       /\ probe'.found # probe.found => probe'.found.what # "cancelled"]_vars

(***************************************************************************)
(* T-9052: an import fills in, and saves, only the form that started it,   *)
(* and its save does not finish behind the discard prompt; preferences are *)
(* saved as they were checked, folder and margin together.                 *)
(***************************************************************************)
AnswersComeHome == ImportsHome /\ SavedAsChecked
=============================================================================
