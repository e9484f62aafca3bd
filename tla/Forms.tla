-------------------------------- MODULE Forms --------------------------------
(***************************************************************************)
(* The settings screen's forms: the add/edit form of a source with its     *)
(* test, its import of a definition and the completion of its path         *)
(* (internal/tui/settings.go, pathcomplete.go), the aggregator wizard that *)
(* may take its place (aggregator_import.go), the preferences panel        *)
(* (preferences.go), and the list's own connection test. What a form asks  *)
(* for runs as a command; its answer is a message that may find another    *)
(* form open, or none. What a save changes is module Settings.             *)
(*                                                                         *)
(* A text is known by what the code asks of it: empty or good (a bad URL is *)
(* refused as an empty one is); errors shown are left out.                 *)
(***************************************************************************)
EXTENDS Integers, Sequences, FiniteSets

CONSTANTS
    Nothing,
    MaxOpened, \* bound: forms opened
    MaxJobs    \* bound: commands given, revalidations included

ASSUME FormBoundsAssumption == MaxOpened \in Nat /\ MaxJobs \in Nat

\* What a command that was not cancelled carries is not that it was.
ASSUME CancelledAssumption == Nothing # "cancelled"

VARIABLES
    form,      \* settings.form
    wizard,    \* settings.aggImport
    prefs,     \* settings.prefsForm
    probe,     \* testingID, probeGen and lastProbe of the list
    importSeq, \* settings.importSeq
    jobs,      \* commands under way; form: the instance that gave it (ghost)
    opened,    \* forms opened so far
    given      \* commands given so far

formVars == <<form, wizard, prefs, probe, importSeq, jobs, opened, given>>

FormsInit ==
    /\ form = Nothing /\ wizard = Nothing /\ prefs = Nothing
    /\ probe = [on |-> FALSE, gen |-> 0, found |-> Nothing]
    /\ importSeq = 0 /\ jobs = {} /\ opened = 0 /\ given = 0

\* A command is given.
Give(kind, gen, n, what) ==
    /\ given < MaxJobs
    /\ given' = given + 1
    /\ jobs' = jobs \cup {[id |-> given', kind |-> kind, gen |-> gen, form |-> n, what |-> what]}

Quietly == UNCHANGED <<jobs, given>>

----------------------------------------------------------------------------
(* The source form. *)

\* visibleFields, without the two that hold credentials.
Fields(f) ==
    <<"name", "type", "url">> \o (IF f.typ = "scraper" THEN <<"definition", "import">>
                                  ELSE IF f.editing THEN <<>> ELSE <<"aggregator">>) \o <<"id">>

Blank == [n |-> 0, editing |-> FALSE, typ |-> "torznab", at |-> 1, name |-> "", url |-> "", definition |-> "", import |-> "",
          dirty |-> FALSE, asking |-> FALSE, importing |-> FALSE, saveAfter |-> FALSE, importGen |-> 0,
          testing |-> FALSE, testGen |-> 0, completeGen |-> 0]

Current(f) == Fields(f)[f.at]
ClampField(f) == IF f.at > Len(Fields(f)) THEN [f EXCEPT !.at = Len(Fields(f))] ELSE f

\* validate. A scraper's URL may be empty, not bad.
Valid(f) ==
    /\ f.name # ""
    /\ f.url = "good" \/ (f.url = "" /\ f.typ = "scraper")
    /\ f.typ = "scraper" => f.definition # ""

HasUnrunImport(f) == f.typ = "scraper" /\ f.definition = "" /\ f.import # ""

\* handleSourceAdd, handleSourceEdit: a saved source has a name, a URL and, if
\* it is a scraper, a definition.
OpenForm(f) ==
    /\ opened < MaxOpened
    /\ opened' = opened + 1
    /\ form' = [f EXCEPT !.n = opened']
    /\ UNCHANGED <<wizard, prefs, probe, importSeq>> /\ Quietly
Saved(typ) == [Blank EXCEPT !.editing = TRUE, !.typ = typ, !.name = "good", !.url = "good",
                            !.definition = IF typ = "scraper" THEN "good" ELSE ""]

\* The form becomes f, and no command is given.
Formed(f) == form' = f /\ UNCHANGED <<wizard, prefs, probe, importSeq, opened>> /\ Quietly

\* Mutant: imports are numbered by the form that starts them.
StartImportOwn(f, after) ==
    /\ UNCHANGED importSeq
    /\ form' = [f EXCEPT !.importing = TRUE, !.saveAfter = @ \/ after, !.importGen = f.importGen + 1]
    /\ Give("import", f.importGen + 1, f.n, f.import)

\* importDefinitionCmd, numbered over all forms.
StartImport(f, after) ==
    /\ importSeq' = importSeq + 1
    /\ form' = [f EXCEPT !.importing = TRUE, !.saveAfter = @ \/ after, !.importGen = importSeq']
    /\ Give("import", importSeq', f.n, f.import)

\* handleSourceFormSave: refused while an import runs, finished after one that
\* is still to be run. Whether the id is taken depends on the list.
SaveForm(f) ==
    /\ ~f.importing
    /\ \/ HasUnrunImport(f) /\ StartImport(f, TRUE)
       \/ /\ ~HasUnrunImport(f)
          /\ UNCHANGED importSeq
          /\ \/ UNCHANGED form /\ Quietly
             \/ Valid(f) /\ UNCHANGED form /\ Give("save", 0, f.n, Nothing)
    /\ UNCHANGED <<wizard, prefs, probe, opened>>

\* handleSourceFormTest.
TestForm(f) ==
    /\ IF Valid(f)
       THEN /\ form' = [f EXCEPT !.testing = TRUE, !.testGen = @ + 1]
            /\ Give("test", f.testGen + 1, f.n, Nothing)
       ELSE UNCHANGED form /\ Quietly
    /\ UNCHANGED <<wizard, prefs, probe, importSeq, opened>>

AdvanceField(f) == LET g == ClampField(f) IN [g EXCEPT !.at = (@ % Len(Fields(g))) + 1]
RetreatField(f) == LET g == ClampField(f) IN [g EXCEPT !.at = IF @ = 1 THEN Len(Fields(g)) ELSE @ - 1]

\* handleImportTab: the folder is read for completions of a path. Where the
\* last read found several and one of them still stands, tab shows the next
\* instead: a path too, in a form that is edited already, so nothing changes.
StartCompletion(f) ==
    /\ form' = [f EXCEPT !.completeGen = @ + 1]
    /\ Give("complete", f.completeGen + 1, f.n, f.import)
    /\ UNCHANGED <<wizard, prefs, probe, importSeq, opened>>

\* newAggregatorForm.
NewWizard(n) == [n |-> n, phase |-> "input", url |-> "", key |-> "", fetching |-> FALSE, fetchGen |-> 0,
                 importing |-> FALSE, items |-> Nothing, chosen |-> FALSE]

\* The wizard takes the form's place.
OpenWizard ==
    /\ opened < MaxOpened
    /\ opened' = opened + 1
    /\ form' = Nothing /\ wizard' = NewWizard(opened')
    /\ UNCHANGED <<prefs, probe, importSeq>> /\ Quietly

\* setFieldValue: what typing or backspace may make of the field's text.
Texts(f) ==
    CASE Current(f) = "name"       -> {[f EXCEPT !.name = v] : v \in {"", "good"}}
      [] Current(f) = "url"        -> {[f EXCEPT !.url = v] : v \in {"", "good"}}
      [] Current(f) = "definition" -> {[f EXCEPT !.definition = v] : v \in {"", "good"}}
      [] Current(f) = "import"     -> {[f EXCEPT !.import = v] : v \in {"", "path", "url"}}
      [] OTHER -> {f}

OtherType(f) == ClampField([f EXCEPT !.typ = IF @ = "torznab" THEN "scraper" ELSE "torznab", !.dirty = TRUE])

\* handleSourceFormKey.
FormKey(key) ==
    LET f == form
    IN \/ /\ f.asking
          /\ \/ key \in {"y", "enter"} /\ Formed(Nothing)
             \/ key \in {"n", "esc"} /\ Formed([f EXCEPT !.asking = FALSE])
       \/ /\ ~f.asking
          /\ \/ key = "esc" /\ Formed(IF f.dirty THEN [f EXCEPT !.asking = TRUE] ELSE Nothing)
             \/ key = "down" /\ Formed(AdvanceField(f))
             \/ key = "tab" /\ IF Current(f) = "import" /\ f.import = "path" THEN StartCompletion(f) ELSE Formed(AdvanceField(f))
             \/ key = "up" /\ Formed(RetreatField(f))
             \/ key = "ctrl+s" /\ SaveForm(f)
             \/ key = "ctrl+t" /\ TestForm(f)
             \/ key = "enter" /\ Current(f) = "import" /\ f.import # "" /\ StartImport(f, FALSE)
                              /\ UNCHANGED <<wizard, prefs, probe, opened>>
             \/ key = "enter" /\ Current(f) = "aggregator" /\ OpenWizard
             \/ key = "enter" /\ Current(f) \notin {"import", "aggregator"} /\ SaveForm(f)
             \/ key = " " /\ Current(f) = "type" /\ Formed(OtherType(f))
             \/ key = "x" /\ Current(f) # "type" /\ \E g \in Texts(f) : Formed([g EXCEPT !.dirty = TRUE])

----------------------------------------------------------------------------
(* Its answers. *)

Answered(j) == jobs' = jobs \ {j} /\ UNCHANGED given

\* "A save that started this import must not finish while the user is
\* answering the discard prompt."
SavesAfter(f) == f.saveAfter /\ ~f.asking

\* Mutant: a failed import is still shown as running.
ImportFailedStuck(f) == [f EXCEPT !.saveAfter = FALSE]

ImportFailed(f) == [f EXCEPT !.importing = FALSE, !.saveAfter = FALSE]
Imported(f) == [f EXCEPT !.importing = FALSE, !.saveAfter = FALSE, !.definition = "good", !.name = "good",
                         !.url = IF @ = "" THEN "good" ELSE @, !.import = "", !.dirty = TRUE]

\* handleFormImportResult; a save it finishes is given at once.
ImportAnswer(j, ok) ==
    /\ j.kind = "import"
    /\ IF form = Nothing \/ j.gen # form.importGen THEN UNCHANGED form /\ Answered(j)
       ELSE IF ~ok THEN form' = ImportFailed(form) /\ Answered(j)
       ELSE LET f == Imported(form)
            IN IF SavesAfter(form) /\ Valid(f)
               THEN \/ /\ form' = f
                       /\ given' = given + 1
                       /\ jobs' = (jobs \ {j}) \cup {[id |-> given', kind |-> "save", gen |-> 0, form |-> f.n, what |-> Nothing]}
                    \/ form' = f /\ Answered(j)
               ELSE form' = f /\ Answered(j)
    /\ UNCHANGED <<wizard, prefs, probe, importSeq, opened>>

\* handleFormTestResult.
TestAnswer(j, ok) ==
    /\ j.kind = "test"
    /\ form' = IF form # Nothing /\ j.gen = form.testGen THEN [form EXCEPT !.testing = FALSE] ELSE form
    /\ Answered(j) /\ UNCHANGED <<wizard, prefs, probe, importSeq, opened>>

\* handleFormComplete: nothing to complete moves on; found: the path goes on.
CompleteAnswer(j, found) ==
    /\ j.kind = "complete"
    /\ form' = IF form = Nothing THEN form
               ELSE IF j.gen # form.completeGen \/ Current(form) # "import" \/ form.import # j.what THEN form
               ELSE IF found THEN [form EXCEPT !.dirty = TRUE] ELSE AdvanceField(form)
    /\ Answered(j) /\ UNCHANGED <<wizard, prefs, probe, importSeq, opened>>

\* handleFormSaveResult: the form that is open is closed.
SaveAnswer(j, ok) ==
    /\ j.kind = "save"
    /\ form' = IF ok THEN Nothing ELSE form
    /\ Answered(j) /\ UNCHANGED <<wizard, prefs, probe, importSeq, opened>>

----------------------------------------------------------------------------
(* The aggregator wizard. *)

Wizarded(w) == wizard' = w /\ UNCHANGED <<form, prefs, probe, importSeq, opened>> /\ Quietly

\* handleAggregatorFetch.
MayFetch(w) == ~w.fetching /\ w.url = "good" /\ w.key # ""

\* handleAggregatorInputKey, handleAggregatorListKey, handleAggregatorImport.
WizardKey(key) ==
    LET w == wizard
    IN \/ /\ w.phase = "input"
          /\ \/ key = "esc" /\ Wizarded(Nothing)
             \/ key = "x" /\ \E v \in {"", "good"} : Wizarded([w EXCEPT !.url = v])
             \/ key = "x" /\ \E v \in {"", "k1", "k2"} : Wizarded([w EXCEPT !.key = v])
             \/ /\ key = "enter" /\ MayFetch(w)
                /\ wizard' = [w EXCEPT !.fetching = TRUE, !.fetchGen = @ + 1]
                /\ Give("fetch", w.fetchGen + 1, w.n, w.key)
                /\ UNCHANGED <<form, prefs, probe, importSeq, opened>>
       \/ /\ w.phase = "list"
          /\ \/ key = "esc" /\ Wizarded([w EXCEPT !.phase = "input"])
             \/ key = " " /\ Wizarded([w EXCEPT !.chosen = ~@])
             \/ /\ key \in {"enter", "ctrl+s"} /\ w.chosen /\ ~w.importing
                /\ wizard' = [w EXCEPT !.importing = TRUE]
                /\ Give("bulk", 0, w.n, w.key)
                /\ UNCHANGED <<form, prefs, probe, importSeq, opened>>

\* handleAggregatorFetchResult: the items found with the key j was sent with.
FetchAnswer(j, ok) ==
    /\ j.kind = "fetch"
    /\ wizard' = IF wizard = Nothing \/ j.gen # wizard.fetchGen THEN wizard
                 ELSE IF ok THEN [wizard EXCEPT !.fetching = FALSE, !.items = j.what, !.chosen = FALSE, !.phase = "list"]
                 ELSE [wizard EXCEPT !.fetching = FALSE]
    /\ Answered(j) /\ UNCHANGED <<form, prefs, probe, importSeq, opened>>

\* handleAggregatorImportResult.
BulkAnswer(j, ok) ==
    /\ j.kind = "bulk"
    /\ wizard' = IF wizard = Nothing \/ ok THEN Nothing ELSE [wizard EXCEPT !.importing = FALSE]
    /\ Answered(j) /\ UNCHANGED <<form, prefs, probe, importSeq, opened>>

----------------------------------------------------------------------------
(* The preferences panel: its download folder and its free-space margin are *)
(* checked on disk together.                                                *)

Dirs == {"root", "d1", "d2"}
Margins == {1, 2}
Unchecked == [dir |-> "", margin |-> 0, ok |-> FALSE]

\* revalidates: an edit of either.
Revalidates(p, q) == p.dir # q.dir \/ p.margin # q.margin

\* revalidatePrefsDownloadDir: a folder that cannot be a root has no check.
WithCheck(p) == p.dir # "root"
CheckPrefs(p) == IF WithCheck(p) THEN Give("dircheck", 0, p.n, [dir |-> p.dir, margin |-> p.margin]) ELSE Quietly

\* fieldIssue of the download folder.
DirOk(p) == p.dir # "root" /\ p.check.dir = p.dir /\ p.check.margin = p.margin /\ p.check.ok

\* handlePreferencesOpen.
OpenPrefs ==
    /\ opened < MaxOpened
    /\ opened' = opened + 1
    /\ prefs' = [n |-> opened', dir |-> "d1", margin |-> 1, dests |-> 1, dirty |-> FALSE, asking |-> FALSE, removing |-> FALSE,
                 check |-> Unchecked]
    /\ CheckPrefs(prefs')
    /\ UNCHANGED <<form, wizard, probe, importSeq>>

Preferred(p) == prefs' = p /\ UNCHANGED <<form, wizard, probe, importSeq, opened>> /\ Quietly

\* handlePreferencesKey and handlePrefsSave.
PrefsKey(key) ==
    LET p == prefs
    IN \/ /\ p.asking
          /\ \/ key \in {"y", "enter"} /\ Preferred(Nothing)
             \/ key \in {"n", "esc"} /\ Preferred([p EXCEPT !.asking = FALSE])
       \/ /\ ~p.asking /\ p.removing
          /\ \/ key \in {"esc", "n", "enter"} /\ Preferred([p EXCEPT !.removing = FALSE])
             \/ key = "enter" /\ p.dests > 0 /\ Preferred([p EXCEPT !.removing = FALSE, !.dests = @ - 1, !.dirty = TRUE])
       \/ /\ ~p.asking /\ ~p.removing
          /\ \/ key = "esc" /\ Preferred(IF p.dirty THEN [p EXCEPT !.asking = TRUE] ELSE Nothing)
             \/ key = "ctrl+x" /\ p.dests > 0 /\ Preferred([p EXCEPT !.removing = TRUE])
             \/ key = "enter" /\ p.dests < 1 /\ Preferred([p EXCEPT !.dests = @ + 1, !.dirty = TRUE])
             \/ /\ key \in {"enter", "ctrl+s"} /\ DirOk(p)
                /\ UNCHANGED prefs
                /\ Give("prefs", 0, p.n, [dir |-> p.dir, margin |-> p.margin])
                /\ UNCHANGED <<form, wizard, probe, importSeq, opened>>
             \/ /\ key = "x"
                /\ \E d \in Dirs, m \in Margins :
                    /\ d = p.dir \/ m = p.margin
                    /\ prefs' = [p EXCEPT !.dir = d, !.margin = m, !.dirty = TRUE]
                    /\ IF Revalidates(p, prefs') THEN CheckPrefs(prefs') ELSE Quietly
                /\ UNCHANGED <<form, wizard, probe, importSeq, opened>>

\* handlePrefsDownloadDirCheck: for what is typed now.
DirCheckAnswer(j, ok) ==
    /\ j.kind = "dircheck"
    /\ prefs' = IF prefs = Nothing THEN prefs
                ELSE IF prefs.dir = j.what.dir /\ prefs.margin = j.what.margin
                THEN [prefs EXCEPT !.check = [dir |-> j.what.dir, margin |-> j.what.margin, ok |-> ok]] ELSE prefs
    /\ Answered(j) /\ UNCHANGED <<form, wizard, probe, importSeq, opened>>

\* handlePrefsSaveResult.
PrefsAnswer(j, ok) ==
    /\ j.kind = "prefs"
    /\ prefs' = IF ok THEN Nothing ELSE prefs
    /\ Answered(j) /\ UNCHANGED <<form, wizard, probe, importSeq, opened>>

----------------------------------------------------------------------------
(* The list's connection test, of one source. *)

\* handleSourceTest: one at a time.
StartProbe ==
    /\ ~probe.on
    /\ probe' = [probe EXCEPT !.on = TRUE, !.gen = @ + 1]
    /\ Give("probe", probe.gen + 1, 0, Nothing)
    /\ UNCHANGED <<form, wizard, prefs, importSeq, opened>>

\* handleSourceTestCancel: its context is cancelled, its generation stays.
CancelProbe ==
    /\ probe.on
    /\ probe' = [probe EXCEPT !.on = FALSE]
    /\ jobs' = {IF j.kind = "probe" /\ j.gen = probe.gen THEN [j EXCEPT !.what = "cancelled"] ELSE j : j \in jobs}
    /\ UNCHANGED <<form, wizard, prefs, importSeq, opened, given>>

ProbeCounts(j) == j.gen = probe.gen /\ probe.on

\* handleSourceProbeResult: found is the job whose outcome is shown.
ProbeAnswer(j) ==
    /\ j.kind = "probe"
    /\ probe' = IF ProbeCounts(j) THEN [probe EXCEPT !.on = FALSE, !.found = j] ELSE probe
    /\ Answered(j) /\ UNCHANGED <<form, wizard, prefs, importSeq, opened>>

FormMessage ==
    \E j \in jobs :
        \/ \E ok \in BOOLEAN : ImportAnswer(j, ok) \/ TestAnswer(j, ok) \/ CompleteAnswer(j, ok) \/ SaveAnswer(j, ok)
                               \/ FetchAnswer(j, ok) \/ BulkAnswer(j, ok) \/ DirCheckAnswer(j, ok) \/ PrefsAnswer(j, ok)
        \/ ProbeAnswer(j)

----------------------------------------------------------------------------
(* What the forms promise. *)

Waited(kind, gen) == \E j \in jobs : j.kind = kind /\ j.gen = gen

(***************************************************************************)
(* No form waits for an answer that will not come: "importing", "testing", *)
(* "fetching" and "checking" each stand for a command under way, however   *)
(* forms were closed, opened and edited meanwhile. (A save is refused, or  *)
(* a second fetch, for as long as they stand.)                             *)
(***************************************************************************)
NoFormHangs ==
    /\ form # Nothing /\ form.importing => Waited("import", form.importGen)
    /\ form # Nothing /\ form.testing => Waited("test", form.testGen)
    /\ wizard # Nothing /\ wizard.fetching => Waited("fetch", wizard.fetchGen)
    /\ wizard # Nothing /\ wizard.importing => Waited("bulk", 0)
    /\ prefs # Nothing /\ prefs.dir # "root" /\ <<prefs.check.dir, prefs.check.margin>> # <<prefs.dir, prefs.margin>> =>
            \E j \in jobs : j.kind = "dircheck" /\ j.what = [dir |-> prefs.dir, margin |-> prefs.margin]
    /\ probe.on => Waited("probe", probe.gen)

(***************************************************************************)
(* T-9052: an import fills in, and saves, only the form that started it,   *)
(* and its save does not finish behind the discard prompt.                 *)
(***************************************************************************)
ImportsHome ==
    [][\A j \in jobs \ jobs' : j.kind = "import" /\ form' # form =>
            /\ form.n = j.form
            /\ form.asking => \A k \in jobs' \ jobs : k.kind # "save"]_formVars

(***************************************************************************)
(* handleFormTestResult: "stale (superseded) results are dropped". The     *)
(* outcome of a test is shown in the form that was tested - which the      *)
(* numbers do not see to, as each form counts its tests from 1.            *)
(***************************************************************************)
TestsHome ==
    [][\A j \in jobs \ jobs' : j.kind = "test" /\ form' # form => form.n = j.form]_formVars

(***************************************************************************)
(* handlePrefsSave: ctrl+s "can never race ahead of" the check. What is    *)
(* saved was checked as it is saved, folder and margin together.           *)
(***************************************************************************)
SavedAsChecked ==
    [][\A j \in jobs' \ jobs : j.kind = "prefs" =>
            prefs.check = [dir |-> j.what.dir, margin |-> j.what.margin, ok |-> TRUE]]_formVars

(***************************************************************************)
(* T-080, "confirm before discarding a dirty form": a form with unsaved    *)
(* edits goes only when the user says so, or when its own save took.       *)
(***************************************************************************)
EditsAreAskedFor ==
    [][form # Nothing /\ form.dirty /\ ~form.asking /\ form' = Nothing =>
            \E j \in jobs \ jobs' : j.kind = "save" /\ j.form = form.n]_formVars

(***************************************************************************)
(* handleAggregatorFetch: the sources saved have "the same value that was  *)
(* actually sent to the aggregator" as their key.                          *)
(***************************************************************************)
KeySentIsKeySaved ==
    [][\A j \in jobs' \ jobs : j.kind = "bulk" => j.what = wizard.items]_formVars
=============================================================================
