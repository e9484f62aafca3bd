--------------------------- MODULE ScreensProofs ---------------------------
(***************************************************************************)
(* Proofs about the screens: the downloads screen, for any torrents, calls *)
(* and snapshots, and the root model with the add flow and the forms, for  *)
(* any keys, results, folders and commands.                                *)
(***************************************************************************)
EXTENDS Root, Downloads, SequenceTheorems, TLAPS

----------------------------------------------------------------------------
(* The downloads screen: its invariant. *)

Toggles == {"pause", "resume"}
Removes == {"remove", "delete"}
Call    == [kind : Toggles \cup Removes, id : Ids, at : {"run", "ok", "failed"}] \cup {Over}
Dialog  == [open : BOOLEAN, option : {"keep", "delete", "cancel"}, target : Ids \cup {Unset}, named : Ids \cup {Unset}]

TypeOK ==
    /\ engine \in Seq(Status) /\ shown \in Seq(Status)
    /\ mail # Unset => mail \in Seq(Status)
    /\ call \in Seq(Call) /\ pending \in [Ids -> Guess \cup {Unset}]
    /\ dialog \in Dialog

\* The engine loses torrents and gains none: what it has, a snapshot on its way has.
Behind == mail # Unset => \A i \in Ids : Has(engine, i) => Has(mail, i)

\* A remove that took has left nothing of its torrent.
Gone == \A k \in DOMAIN call : call[k].kind \in Removes /\ call[k].at = "ok" => ~Has(engine, call[k].id)

\* While the engine has a torrent, a pause or resume of it is one the row waits
\* for, and the only one.
Waiting ==
    \A k \in DOMAIN call : Toggle(call[k]) /\ Has(engine, call[k].id) =>
        /\ InFlight(pending[call[k].id])
        /\ \A j \in DOMAIN call : Toggle(call[j]) /\ call[j].id = call[k].id => j = k

\* A row's guess has its call, or has had it answered.
Owed == \A i \in Ids : InFlight(pending[i]) => \E k \in DOMAIN call : Toggle(call[k]) /\ call[k].id = i

\* The dialog is about the torrent it names.
Named == dialog.open => dialog.target = dialog.named

IInv == TypeOK /\ Once(engine) /\ Behind /\ Gone /\ Waiting /\ Owed /\ Named

----------------------------------------------------------------------------
(* Lists of torrents. *)

LEMMA AtIs ==
    ASSUME NEW s, NEW i, Has(s, i)
    PROVE  At(s, i) \in DOMAIN s /\ s[At(s, i)].id = i
BY DEF Has, At

\* Without takes out one torrent, where it is.
LEMMA WithoutIs ==
    ASSUME NEW s \in Seq(Status), Once(s), NEW i, Has(s, i)
    PROVE  /\ Without(s, i) \in Seq(Status) /\ Once(Without(s, i))
           /\ ~Has(Without(s, i), i)
           /\ \A j : Has(Without(s, i), j) => Has(s, j)
<1> DEFINE a == At(s, i)
           w == Without(s, i)
<1>1. a \in 1..Len(s) /\ s[a].id = i
  BY AtIs
<1> HIDE DEF a
<1>2. /\ w \in Seq(Status) /\ Len(w) = Len(s) - 1
      /\ \A n \in 1..Len(s) - 1 : w[n] = IF n < a THEN s[n] ELSE s[n + 1]
  <2>1. w = SubSeq(s, 1, a - 1) \o SubSeq(s, a + 1, Len(s))
    BY DEF Without, a
  <2> DEFINE x == SubSeq(s, 1, a - 1)
             y == SubSeq(s, a + 1, Len(s))
  <2>2. x \in Seq(Status) /\ Len(x) = a - 1 /\ \A n \in 1..a - 1 : x[n] = s[n]
    BY <1>1
  <2>3. y \in Seq(Status) /\ Len(y) = Len(s) - a /\ \A n \in 1..Len(s) - a : y[n] = s[a + n]
    BY <1>1
  <2> HIDE DEF x, y, w
  <2>4. /\ x \o y \in Seq(Status) /\ Len(x \o y) = Len(x) + Len(y)
        /\ \A n \in 1..Len(x) + Len(y) : (x \o y)[n] = IF n <= Len(x) THEN x[n] ELSE y[n - Len(x)]
    BY <2>2, <2>3, ConcatProperties
  <2>5. w = x \o y
    BY <2>1 DEF x, y
  <2>6. Len(x) + Len(y) = Len(s) - 1 /\ Len(s) \in Nat
    BY <1>1, <2>2, <2>3
  <2>7. ASSUME NEW n \in 1..Len(s) - 1 PROVE w[n] = IF n < a THEN s[n] ELSE s[n + 1]
    <3>1. CASE n < a
      BY <1>1, <2>2, <2>4, <2>5, <2>6, <3>1
    <3>2. CASE n >= a
      <4>1. w[n] = y[n - (a - 1)]
        BY <1>1, <2>2, <2>4, <2>5, <2>6, <3>2
      <4>2. n - (a - 1) \in 1..Len(s) - a /\ a + (n - (a - 1)) = n + 1
        BY <1>1, <2>6, <3>2
      <4> QED
        BY <1>1, <2>3, <3>2, <4>1, <4>2
    <3> QED
      BY <1>1, <3>1, <3>2
  <2> QED
    BY <2>4, <2>5, <2>6, <2>7
<1> HIDE DEF w
<1>3. \A n \in DOMAIN w : \E m \in DOMAIN s : w[n] = s[m] /\ m # a /\ m = IF n < a THEN n ELSE n + 1
  BY <1>1, <1>2
<1>4. Once(w)
  BY <1>1, <1>2, <1>3 DEF Once
<1>5. ~Has(w, i)
  BY <1>1, <1>3 DEF Has, Once
<1>6. \A j : Has(w, j) => Has(s, j)
  BY <1>3 DEF Has
<1> QED
  BY <1>2, <1>4, <1>5, <1>6 DEF w

\* A list in which only what is said of each torrent changes.
LEMMA SameRows ==
    ASSUME NEW s \in Seq(Status), NEW t \in Seq(Status), Len(t) = Len(s), \A n \in 1..Len(s) : t[n].id = s[n].id
    PROVE  /\ Once(s) => Once(t)
           /\ \A i : Has(t, i) <=> Has(s, i)
BY DEF Once, Has

LEMMA WithStateIs ==
    ASSUME NEW s \in Seq(Status), NEW i, NEW st \in States
    PROVE  /\ WithState(s, i, st) \in Seq(Status) /\ Len(WithState(s, i, st)) = Len(s)
           /\ \A n \in 1..Len(s) : WithState(s, i, st)[n].id = s[n].id
<1> DEFINE t == WithState(s, i, st)
<1>1. DOMAIN s = 1..Len(s) /\ Len(s) \in Nat /\ \A n \in 1..Len(s) : s[n] \in Status
  OBVIOUS
<1>2. t = [n \in 1..Len(s) |-> IF s[n].id = i THEN [s[n] EXCEPT !.state = st] ELSE s[n]]
  BY <1>1 DEF WithState
<1>3. ASSUME NEW n \in 1..Len(s) PROVE t[n] \in Status /\ t[n].id = s[n].id
  BY <1>1, <1>2 DEF Status
<1> HIDE DEF t
<1> QED
  BY <1>1, <1>2, <1>3 DEF t

LEMMA OneMoreCall ==
    ASSUME call \in Seq(Call), NEW r \in Call, call' = Append(call, r)
    PROVE  /\ call' \in Seq(Call) /\ DOMAIN call' = DOMAIN call \cup {Len(call) + 1}
           /\ Len(call) + 1 \notin DOMAIN call /\ call'[Len(call) + 1] = r
           /\ \A k \in DOMAIN call : call'[k] = call[k]
OBVIOUS

LEMMA OneCallChanged ==
    ASSUME call \in Seq(Call), NEW k \in DOMAIN call, NEW r \in Call, call' = [call EXCEPT ![k] = r]
    PROVE  /\ call' \in Seq(Call) /\ DOMAIN call' = DOMAIN call
           /\ \A j \in DOMAIN call : call'[j] = IF j = k THEN r ELSE call[j]
BY ExceptSeq

LEMMA ShownIs ==
    ASSUME TypeOK, NEW n \in DOMAIN shown
    PROVE  shown[n] \in Status /\ shown[n].id \in Ids /\ shown[n].state \in States
<1>1. shown \in Seq(Status)
  BY DEF TypeOK
<1>2. shown[n] \in Status
  BY <1>1
<1> QED
  BY <1>2 DEF Status

\* A call that is not over is about a torrent.
LEMMA CallIs ==
    ASSUME call \in Seq(Call), NEW k \in DOMAIN call
    PROVE  /\ call[k] = Over \/ call[k] \in [kind : Toggles \cup Removes, id : Ids, at : {"run", "ok", "failed"}]
           /\ call[k].kind \in Toggles \cup Removes => call[k].id \in Ids /\ call[k] # Over
BY DEF Call, Over, Toggles, Removes

----------------------------------------------------------------------------
(* Every step. *)

LEMMA InitOK == DownloadsInit => IInv
BY StartsAssumption DEF DownloadsInit, IInv, TypeOK, Closed, Dialog, Behind, Gone, Waiting, Owed, Named, InFlight, Call

\* The engine changes or loses torrents, and a call may have been made.
LEMMA EngineSteps ==
    ASSUME IInv, UNCHANGED <<mail, shown, pending, dialog>>,
           engine' \in Seq(Status), Once(engine'), \A i : Has(engine', i) => Has(engine, i),
           call' \in Seq(Call), DOMAIN call' = DOMAIN call,
           \A k \in DOMAIN call : call'[k].kind = call[k].kind /\ call'[k].id = call[k].id,
           Gone'
    PROVE  IInv'
<1>1. TypeOK'
  BY DEF IInv, TypeOK
<1>2. Behind'
  <2> SUFFICES ASSUME mail' # Unset, NEW i \in Ids, Has(engine', i) PROVE Has(mail', i)
    BY DEF Behind
  <2>1. Has(engine, i)
    OBVIOUS
  <2>2. Has(mail, i)
    BY <2>1 DEF IInv, Behind
  <2> QED
    BY <2>2
<1>3. Waiting'
  <2> SUFFICES ASSUME NEW k \in DOMAIN call', Toggle(call'[k]), Has(engine', call'[k].id)
               PROVE  /\ InFlight(pending'[call'[k].id])
                      /\ \A j \in DOMAIN call' : Toggle(call'[j]) /\ call'[j].id = call'[k].id => j = k
    BY DEF Waiting
  <2>1. k \in DOMAIN call /\ Toggle(call[k]) /\ call'[k].id = call[k].id /\ Has(engine, call[k].id)
    BY DEF Toggle
  <2>2. InFlight(pending[call[k].id]) /\ \A j \in DOMAIN call : Toggle(call[j]) /\ call[j].id = call[k].id => j = k
    BY <2>1 DEF IInv, Waiting
  <2> QED
    BY <2>1, <2>2 DEF Toggle
<1>4. Owed'
  BY DEF IInv, Owed, Toggle
<1>5. Named'
  BY DEF IInv, Named
<1> QED
  BY <1>1, <1>2, <1>3, <1>4, <1>5 DEF IInv, Once

LEMMA WorksOK == IInv /\ Works => IInv'
<1> SUFFICES ASSUME IInv, Works PROVE IInv'
  OBVIOUS
<1>1. PICK n \in DOMAIN engine :
        \/ engine' = [engine EXCEPT ![n].state = "seeding", ![n].done = TRUE]
        \/ engine' = [engine EXCEPT ![n].state = "errored"]
        \/ engine' = [engine EXCEPT ![n].state = "paused"]
  BY DEF Works
<1>2. engine \in Seq(Status) /\ n \in 1..Len(engine) /\ engine[n] \in Status
  BY DEF IInv, TypeOK
<1>3. PICK e \in Status : engine' = [engine EXCEPT ![n] = e] /\ e.id = engine[n].id
  <2> DEFINE e1 == [engine[n] EXCEPT !.state = "seeding", !.done = TRUE]
             e2 == [engine[n] EXCEPT !.state = "errored"]
             e3 == [engine[n] EXCEPT !.state = "paused"]
  <2>1. e1 \in Status /\ e1.id = engine[n].id
    BY <1>2 DEF Status, States
  <2>2. e2 \in Status /\ e2.id = engine[n].id
    BY <1>2 DEF Status, States
  <2>3. e3 \in Status /\ e3.id = engine[n].id
    BY <1>2 DEF Status, States
  <2>4. engine' = [engine EXCEPT ![n] = e1] \/ engine' = [engine EXCEPT ![n] = e2] \/ engine' = [engine EXCEPT ![n] = e3]
    BY <1>1
  <2> QED
    BY <2>1, <2>2, <2>3, <2>4
<1>4. engine' \in Seq(Status) /\ Len(engine') = Len(engine) /\ \A m \in 1..Len(engine) : engine'[m].id = engine[m].id
  BY <1>2, <1>3, ExceptSeq
<1>5. Once(engine') /\ \A i : Has(engine', i) <=> Has(engine, i)
  BY <1>2, <1>4, SameRows DEF IInv
<1>6. UNCHANGED <<mail, shown, pending, dialog, call>>
  BY DEF Works, viewVars
<1>7. Gone'
  BY <1>5, <1>6 DEF IInv, Gone, Has
<1> QED
  BY <1>4, <1>5, <1>6, <1>7, EngineSteps DEF IInv, TypeOK

LEMMA CalledOK == ASSUME IInv, NEW k \in DOMAIN call, Called(k) PROVE IInv'
<1>1. call[k].at = "run" /\ call[k] \in [kind : Toggles \cup Removes, id : Ids, at : {"run", "ok", "failed"}]
  BY CallIs DEF Called, IInv, TypeOK, Over
<1>2. UNCHANGED <<mail, shown, pending, dialog>>
  BY DEF Called, viewVars
<1>3. ASSUME NEW at \in {"ok", "failed"}, call' = [call EXCEPT ![k].at = at]
      PROVE  /\ call' \in Seq(Call) /\ DOMAIN call' = DOMAIN call
             /\ \A j \in DOMAIN call : call'[j].kind = call[j].kind /\ call'[j].id = call[j].id
             /\ \A j \in DOMAIN call : call'[j].at = IF j = k THEN at ELSE call[j].at
  <2> DEFINE r == [call[k] EXCEPT !.at = at]
  <2>1. r \in Call /\ r.kind = call[k].kind /\ r.id = call[k].id /\ r.at = at
    BY <1>1 DEF Call
  <2>2. call' = [call EXCEPT ![k] = r]
    BY <1>3
  <2> HIDE DEF r
  <2> QED
    BY <2>1, <2>2, OneCallChanged DEF IInv, TypeOK
<1>4. CASE Has(engine, call[k].id) /\ engine' = Effect(k) /\ call' = [call EXCEPT ![k].at = "ok"]
  <2> DEFINE i == call[k].id
             s == Of(engine, i)
  <2>1. s \in Status /\ engine \in Seq(Status) /\ Once(engine)
    BY <1>4, AtIs DEF Of, IInv, TypeOK
  <2>2. \/ engine' = engine /\ call[k].kind \in Toggles
        \/ \E st \in States : engine' = WithState(engine, i, st) /\ call[k].kind \in Toggles
        \/ engine' = Without(engine, i)
    <3>1. CASE call[k].kind = "pause"
      <4>1. engine' = engine \/ engine' = WithState(engine, i, "paused")
        BY <1>4, <3>1 DEF Effect
      <4> QED
        BY <3>1, <4>1 DEF Toggles, States
    <3>2. CASE call[k].kind = "resume"
      <4>1. engine' = engine \/ engine' = WithState(engine, i, Resumed(s))
        BY <1>4, <3>2 DEF Effect
      <4>2. Resumed(s) \in States
        BY DEF Resumed, States
      <4> QED
        BY <3>2, <4>1, <4>2 DEF Toggles
    <3>3. CASE call[k].kind \in Removes
      BY <1>4, <3>3 DEF Effect, Removes
    <3> QED
      BY <1>1, <3>1, <3>2, <3>3 DEF Toggles
  <2>3. engine' \in Seq(Status) /\ Once(engine') /\ \A j : Has(engine', j) => Has(engine, j)
    <3>1. ASSUME NEW st \in States, engine' = WithState(engine, i, st)
          PROVE  engine' \in Seq(Status) /\ Once(engine') /\ \A j : Has(engine', j) => Has(engine, j)
      <4> DEFINE w == WithState(engine, i, st)
      <4>1. w \in Seq(Status) /\ Len(w) = Len(engine) /\ \A n \in 1..Len(engine) : w[n].id = engine[n].id
        BY <2>1, WithStateIs
      <4> HIDE DEF w
      <4>2. Once(w) /\ \A j : Has(w, j) <=> Has(engine, j)
        BY <2>1, <4>1, SameRows
      <4>3. engine' = w
        BY <3>1 DEF w
      <4> QED
        BY <4>1, <4>2, <4>3
    <3>2. CASE engine' = engine
      BY <2>1, <3>2
    <3>3. CASE engine' = Without(engine, i)
      BY <1>4, <2>1, <3>3, WithoutIs
    <3> QED
      BY <2>2, <3>1, <3>2, <3>3
  <2>4. call[k].kind \in Removes => ~Has(engine', i)
    BY <1>4, <2>1, <2>2, WithoutIs DEF Toggles, Removes
  <2>5. Gone'
    <3> SUFFICES ASSUME NEW j \in DOMAIN call', call'[j].kind \in Removes, call'[j].at = "ok"
                 PROVE  ~Has(engine', call'[j].id)
      BY DEF Gone
    <3>1. j \in DOMAIN call /\ call'[j].kind = call[j].kind /\ call'[j].id = call[j].id
      BY <1>3, <1>4
    <3>2. CASE j = k
      BY <2>4, <3>1, <3>2
    <3>3. CASE j # k
      <4>1. ~Has(engine, call[j].id)
        BY <1>3, <1>4, <3>1, <3>3 DEF IInv, Gone
      <4> QED
        BY <2>3, <3>1, <4>1
    <3> QED
      BY <3>2, <3>3
  <2> QED
    BY <1>2, <1>3, <1>4, <2>3, <2>5, EngineSteps
<1>5. CASE UNCHANGED engine /\ call' = [call EXCEPT ![k].at = "failed"]
  <2>1. Gone'
    BY <1>3, <1>5 DEF IInv, Gone, Has
  <2> QED
    BY <1>2, <1>3, <1>5, <2>1, EngineSteps DEF IInv, TypeOK
<1> QED
  BY <1>4, <1>5 DEF Called

LEMMA ReceiveOK == IInv /\ Receive => IInv'
BY DEF Receive, engineVars, viewVars, IInv, TypeOK, Once, Behind, Gone, Waiting, Owed, Named, Has, Toggle

\* reconcilePending keeps every guess whose torrent the engine may still have.
LEMMA SnapshotOK == IInv /\ Snapshot => IInv'
<1> SUFFICES ASSUME IInv, Snapshot PROVE IInv'
  OBVIOUS
<1>1. /\ mail # Unset /\ mail \in Seq(Status) /\ mail' = Unset /\ UNCHANGED <<engine, call, dialog>>
      /\ pending \in [Ids -> Guess \cup {Unset}]
  BY DEF IInv, TypeOK, Snapshot, engineVars
<1>2. pending' = [i \in Ids |-> IF Kept(pending[i], mail, i) THEN pending[i] ELSE Unset]
  BY DEF Snapshot
<1>3. pending' \in [Ids -> Guess \cup {Unset}]
  BY <1>1, <1>2
<1>4. shown' \in Seq(Status)
  <2>1. DOMAIN mail = 1..Len(mail) /\ Len(mail) \in Nat /\ \A n \in 1..Len(mail) : mail[n] \in Status
    BY <1>1
  <2>2. shown' = [n \in 1..Len(mail) |-> IF pending'[mail[n].id] = Unset THEN mail[n]
                                         ELSE [mail[n] EXCEPT !.state = pending'[mail[n].id].optimistic]]
    BY <2>1 DEF Snapshot
  <2>3. ASSUME NEW n \in 1..Len(mail) PROVE shown'[n] \in Status
    <3>1. mail[n] \in Status /\ mail[n].id \in Ids /\ pending'[mail[n].id] \in Guess \cup {Unset}
      BY <1>3, <2>1 DEF Status
    <3>2. pending'[mail[n].id] # Unset => [mail[n] EXCEPT !.state = pending'[mail[n].id].optimistic] \in Status
      BY <3>1 DEF Status, Guess
    <3> QED
      BY <2>2, <3>1, <3>2
  <2> QED
    BY <2>1, <2>2, <2>3
<1>5. TypeOK'
  BY <1>1, <1>3, <1>4 DEF IInv, TypeOK
<1>6. Waiting'
  <2> SUFFICES ASSUME NEW k \in DOMAIN call, Toggle(call[k]), Has(engine, call[k].id)
               PROVE  /\ InFlight(pending'[call[k].id])
                      /\ \A j \in DOMAIN call : Toggle(call[j]) /\ call[j].id = call[k].id => j = k
    BY <1>1 DEF Waiting, Toggle
  <2>1. call[k].id \in Ids
    BY CallIs DEF IInv, TypeOK, Toggle, Toggles
  <2>2. InFlight(pending[call[k].id]) /\ \A j \in DOMAIN call : Toggle(call[j]) /\ call[j].id = call[k].id => j = k
    BY DEF IInv, Waiting
  <2>3. Has(mail, call[k].id)
    BY <1>1, <2>1 DEF IInv, Behind
  <2>4. Kept(pending[call[k].id], mail, call[k].id)
    BY <2>2, <2>3 DEF Kept, InFlight
  <2> QED
    BY <1>2, <2>1, <2>2, <2>4
<1>7. Owed'
  BY <1>1, <1>2 DEF IInv, Owed, Toggle, InFlight
<1> QED
  BY <1>1, <1>5, <1>6, <1>7 DEF IInv, Once, Behind, Gone, Named, Has

\* A step of the screen that leaves the lists, the calls and the guesses alone.
LEMMA Quiet ==
    ASSUME IInv, UNCHANGED <<engine, mail, call, shown, pending>>, dialog' \in Dialog,
           dialog'.open => dialog'.target = dialog'.named
    PROVE  IInv'
BY DEF IInv, TypeOK, Once, Behind, Gone, Waiting, Owed, Named, Has, Toggle

LEMMA PauseResumeOK == ASSUME IInv, NEW n \in DOMAIN shown, PauseResume(n) PROVE IInv'
<1> DEFINE s == shown[n]
           optimistic == IF s.state = "paused" THEN Resumed(s) ELSE "paused"
           guess == [optimistic |-> optimistic, prev |-> s.state, settled |-> FALSE]
           r == [kind |-> IF s.state = "paused" THEN "resume" ELSE "pause", id |-> s.id, at |-> "run"]
           last == Len(call) + 1
<1>1. /\ UNCHANGED <<engine, mail, dialog>> /\ ~InFlight(pending[s.id])
      /\ call' = Append(call, r) /\ pending' = [pending EXCEPT ![s.id] = guess]
      /\ shown' = WithState(shown, s.id, optimistic)
  BY DEF PauseResume, engineVars, Issue
<1>2. s \in Status /\ s.id \in Ids /\ s.state \in States /\ shown \in Seq(Status)
  BY ShownIs DEF IInv, TypeOK
<1>3. optimistic \in States
  BY DEF Resumed, States
<1>4. guess \in Guess /\ InFlight(guess)
  <2>1. guess \in Guess
    BY <1>2, <1>3 DEF Guess
  <2> QED
    BY <2>1, UnsetAssumption DEF InFlight
<1>5. r \in Call /\ r.id = s.id /\ Toggle(r) /\ r.kind \notin Removes
  BY <1>2 DEF Call, Toggles, Removes, Toggle
<1> HIDE DEF s, optimistic, guess, r, last
<1>6. /\ call' \in Seq(Call) /\ DOMAIN call' = DOMAIN call \cup {last}
      /\ last \notin DOMAIN call /\ call'[last] = r /\ \A k \in DOMAIN call : call'[k] = call[k]
  BY <1>1, <1>5, OneMoreCall DEF IInv, TypeOK, last
<1>7. /\ pending' \in [Ids -> Guess \cup {Unset}] /\ pending'[s.id] = guess
      /\ \A i \in Ids : i # s.id => pending'[i] = pending[i]
  BY <1>1, <1>2, <1>4 DEF IInv, TypeOK
<1>8. TypeOK'
  BY <1>1, <1>2, <1>3, <1>6, <1>7, WithStateIs DEF IInv, TypeOK
<1>9. Gone'
  <2> SUFFICES ASSUME NEW k \in DOMAIN call', call'[k].kind \in Removes, call'[k].at = "ok"
               PROVE  ~Has(engine', call'[k].id)
    BY DEF Gone
  <2>1. k \in DOMAIN call /\ call'[k] = call[k]
    BY <1>5, <1>6
  <2> QED
    BY <1>1, <2>1 DEF IInv, Gone
<1>10. Waiting'
  <2> SUFFICES ASSUME NEW k \in DOMAIN call', Toggle(call'[k]), Has(engine', call'[k].id)
               PROVE  /\ InFlight(pending'[call'[k].id])
                      /\ \A j \in DOMAIN call' : Toggle(call'[j]) /\ call'[j].id = call'[k].id => j = k
    BY DEF Waiting
  <2>1. ASSUME NEW j \in DOMAIN call, Toggle(call[j]), Has(engine, call[j].id)
        PROVE  call[j].id \in Ids /\ call[j].id # s.id
    BY <1>1, <2>1, CallIs DEF IInv, TypeOK, Waiting, Toggle, Toggles
  <2>2. CASE k = last
    BY <1>1, <1>4, <1>5, <1>6, <1>7, <2>1, <2>2
  <2>3. CASE k # last
    <3>1. k \in DOMAIN call /\ call'[k] = call[k] /\ Toggle(call[k]) /\ Has(engine, call[k].id)
      BY <1>1, <1>6, <2>3
    <3>2. call[k].id \in Ids /\ call[k].id # s.id
      BY <2>1, <3>1
    <3>3. InFlight(pending[call[k].id]) /\ \A j \in DOMAIN call : Toggle(call[j]) /\ call[j].id = call[k].id => j = k
      BY <3>1 DEF IInv, Waiting
    <3> QED
      BY <1>5, <1>6, <1>7, <3>1, <3>2, <3>3
  <2> QED
    BY <2>2, <2>3
<1>11. Owed'
  BY <1>5, <1>6, <1>7 DEF IInv, Owed
<1> QED
  BY <1>1, <1>8, <1>9, <1>10, <1>11 DEF IInv, Once, Behind, Named, Has

\* Its answer settles the guess or takes it back; no other call waits for it.
LEMMA PauseResumeResultOK == ASSUME IInv, NEW k \in DOMAIN call, PauseResumeResult(k) PROVE IInv'
<1> DEFINE i == call[k].id
           p == pending[i]
<1>1. /\ call[k].kind \in Toggles /\ Toggle(call[k]) /\ call' = [call EXCEPT ![k] = Over]
      /\ UNCHANGED <<engine, mail, dialog>> /\ call \in Seq(Call) /\ i \in Ids
  BY CallIs DEF PauseResumeResult, engineVars, Toggles, Toggle, IInv, TypeOK
<1>2. p \in Guess \cup {Unset}
  BY <1>1 DEF IInv, TypeOK
<1>3. /\ call' \in Seq(Call) /\ DOMAIN call' = DOMAIN call
      /\ \A j \in DOMAIN call : call'[j] = IF j = k THEN Over ELSE call[j]
  BY <1>1, OneCallChanged DEF Call
<1>4. ~Toggle(Over) /\ Over.kind \notin Removes
  BY DEF Toggle, Over, Removes
<1>5. /\ pending' \in [Ids -> Guess \cup {Unset}] /\ ~InFlight(pending'[i])
      /\ \A j \in Ids : j # i => pending'[j] = pending[j]
  <2>1. CASE pending' = [pending EXCEPT ![i] = Unset]
    BY <1>1, <2>1 DEF IInv, TypeOK, InFlight
  <2>2. CASE pending' = [pending EXCEPT ![i] = IF @ = Unset THEN Unset ELSE [@ EXCEPT !.settled = TRUE]]
    <3> DEFINE q == IF p = Unset THEN Unset ELSE [p EXCEPT !.settled = TRUE]
    <3>1. q \in Guess \cup {Unset} /\ ~InFlight(q)
      BY <1>2 DEF Guess, InFlight
    <3>2. pending' = [pending EXCEPT ![i] = q]
      BY <2>2
    <3> HIDE DEF q
    <3> QED
      BY <1>1, <3>1, <3>2 DEF IInv, TypeOK
  <2> QED
    BY <2>1, <2>2 DEF PauseResumeResult
<1>6. shown' \in Seq(Status)
  <2>1. shown \in Seq(Status) /\ (p # Unset => p.prev \in States)
    BY <1>2 DEF IInv, TypeOK, Guess
  <2>2. shown' = shown \/ (p # Unset /\ shown' = WithState(shown, i, p.prev))
    BY DEF PauseResumeResult
  <2> HIDE DEF p
  <2> QED
    BY <2>1, <2>2, WithStateIs
<1> HIDE DEF p
<1>7. TypeOK'
  BY <1>1, <1>3, <1>5, <1>6 DEF IInv, TypeOK
<1>8. Gone'
  BY <1>1, <1>3, <1>4 DEF IInv, Gone, Has
<1>9. Waiting'
  <2> SUFFICES ASSUME NEW l \in DOMAIN call', Toggle(call'[l]), Has(engine', call'[l].id)
               PROVE  /\ InFlight(pending'[call'[l].id])
                      /\ \A j \in DOMAIN call' : Toggle(call'[j]) /\ call'[j].id = call'[l].id => j = l
    BY DEF Waiting
  <2>1. l \in DOMAIN call /\ l # k /\ call'[l] = call[l] /\ Toggle(call[l]) /\ Has(engine, call[l].id)
    BY <1>1, <1>3, <1>4
  <2>2. InFlight(pending[call[l].id]) /\ \A j \in DOMAIN call : Toggle(call[j]) /\ call[j].id = call[l].id => j = l
    BY <2>1 DEF IInv, Waiting
  <2>3. call[l].id # i /\ call[l].id \in Ids
    BY <1>1, <2>1, <2>2, CallIs DEF Toggle, Toggles
  <2> QED
    BY <1>3, <1>4, <1>5, <2>1, <2>2, <2>3
<1>10. Owed'
  BY <1>1, <1>3, <1>5 DEF IInv, Owed
<1> QED
  BY <1>1, <1>7, <1>8, <1>9, <1>10 DEF IInv, Once, Behind, Named, Has

LEMMA RemoveResultOK == ASSUME IInv, NEW k \in DOMAIN call, RemoveResult(k) PROVE IInv'
<1> DEFINE i == call[k].id
<1>1. /\ call[k].kind \in Removes /\ call' = [call EXCEPT ![k] = Over] /\ call \in Seq(Call) /\ i \in Ids
      /\ UNCHANGED <<engine, mail, dialog, shown>>
      /\ \/ call[k].at = "ok" /\ pending' = [pending EXCEPT ![i] = Unset]
         \/ UNCHANGED pending
  BY CallIs DEF RemoveResult, engineVars, Removes, IInv, TypeOK
<1>2. /\ call' \in Seq(Call) /\ DOMAIN call' = DOMAIN call
      /\ \A j \in DOMAIN call : call'[j] = IF j = k THEN Over ELSE call[j]
  BY <1>1, OneCallChanged DEF Call
<1>3. ~Toggle(Over) /\ Over.kind \notin Removes /\ ~Toggle(call[k])
  BY <1>1 DEF Toggle, Over, Removes
<1>4. /\ pending' \in [Ids -> Guess \cup {Unset}]
      /\ \A j \in Ids : pending'[j] = pending[j] \/ (j = i /\ pending'[j] = Unset /\ ~Has(engine, i))
  BY <1>1 DEF IInv, TypeOK, Gone
<1>5. TypeOK'
  BY <1>1, <1>2, <1>4 DEF IInv, TypeOK
<1>6. Gone'
  BY <1>1, <1>2, <1>3 DEF IInv, Gone, Has
<1>7. Waiting'
  <2> SUFFICES ASSUME NEW l \in DOMAIN call', Toggle(call'[l]), Has(engine', call'[l].id)
               PROVE  /\ InFlight(pending'[call'[l].id])
                      /\ \A j \in DOMAIN call' : Toggle(call'[j]) /\ call'[j].id = call'[l].id => j = l
    BY DEF Waiting
  <2>1. l \in DOMAIN call /\ l # k /\ call'[l] = call[l] /\ Toggle(call[l]) /\ Has(engine, call[l].id)
    BY <1>1, <1>2, <1>3
  <2>2. InFlight(pending[call[l].id]) /\ \A j \in DOMAIN call : Toggle(call[j]) /\ call[j].id = call[l].id => j = l
    BY <2>1 DEF IInv, Waiting
  <2>3. call[l].id \in Ids
    BY <1>1, <2>1, CallIs DEF Toggle, Toggles
  <2>4. pending'[call[l].id] = pending[call[l].id]
    BY <1>4, <2>1, <2>3
  <2> QED
    BY <1>2, <1>3, <2>1, <2>2, <2>4
<1>8. Owed'
  BY <1>2, <1>3, <1>4 DEF IInv, Owed, InFlight
<1> QED
  BY <1>1, <1>5, <1>6, <1>7, <1>8 DEF IInv, Once, Behind, Named, Has

LEMMA ClosedIs == Closed \in Dialog /\ ~Closed.open
BY DEF Closed, Dialog

LEMMA DialogConfirmOK == IInv /\ DialogConfirm => IInv'
<1> SUFFICES ASSUME IInv, DialogConfirm PROVE IInv'
  OBVIOUS
<1>1. UNCHANGED <<engine, mail, shown, pending>> /\ dialog' = Closed
  BY DEF DialogConfirm, engineVars
<1>2. CASE UNCHANGED call
  BY <1>1, <1>2, ClosedIs, Quiet
<1>3. ASSUME NEW kind \in Removes, Has(shown, dialog.target),
             call' = Append(call, [kind |-> kind, id |-> dialog.target, at |-> "run"])
      PROVE  IInv'
  <2> DEFINE r == [kind |-> kind, id |-> dialog.target, at |-> "run"]
             last == Len(call) + 1
  <2>1. dialog.target \in Ids
    BY <1>3, ShownIs DEF Has, IInv
  <2>2. r \in Call /\ ~Toggle(r) /\ r.at = "run"
    BY <2>1 DEF Call, Toggle, Removes
  <2> HIDE DEF r, last
  <2>3. /\ call' \in Seq(Call) /\ DOMAIN call' = DOMAIN call \cup {last}
        /\ last \notin DOMAIN call /\ call'[last] = r /\ \A k \in DOMAIN call : call'[k] = call[k]
    BY <1>3, <2>2, OneMoreCall DEF IInv, TypeOK, last, r
  <2>4. TypeOK'
    BY <1>1, <2>3, ClosedIs DEF IInv, TypeOK
  <2>5. Gone'
    BY <1>1, <2>2, <2>3 DEF IInv, Gone, Has
  <2>6. Waiting'
    <3> SUFFICES ASSUME NEW k \in DOMAIN call', Toggle(call'[k]), Has(engine', call'[k].id)
                 PROVE  /\ InFlight(pending'[call'[k].id])
                        /\ \A j \in DOMAIN call' : Toggle(call'[j]) /\ call'[j].id = call'[k].id => j = k
      BY DEF Waiting
    <3>1. k \in DOMAIN call /\ call'[k] = call[k] /\ Toggle(call[k]) /\ Has(engine, call[k].id)
      BY <1>1, <2>2, <2>3
    <3> QED
      BY <1>1, <2>2, <2>3, <3>1 DEF IInv, Waiting
  <2>7. Owed'
    BY <1>1, <2>3 DEF IInv, Owed
  <2> QED
    BY <1>1, <2>4, <2>5, <2>6, <2>7, ClosedIs DEF IInv, Once, Behind, Named, Has
<1> QED
  BY <1>2, <1>3 DEF DialogConfirm, Issue, Removes

LEMMA HandleRemoveOK == ASSUME IInv, NEW n \in DOMAIN shown, HandleRemove(n) PROVE IInv'
<1>1. shown[n].id \in Ids
  BY ShownIs DEF IInv
<1>2. dialog' \in Dialog /\ dialog'.target = dialog'.named
  BY <1>1 DEF HandleRemove, Dialog
<1> QED
  BY <1>2, Quiet DEF HandleRemove, engineVars

LEMMA DialogMoveOK == ASSUME IInv, NEW delta \in {-1, 1}, DialogMove(delta) PROVE IInv'
<1>1. OptionAt(dialog.option) \in 1..3
  <2>1. \E n \in DOMAIN Options : Options[n] = dialog.option
    BY DEF Options, IInv, TypeOK, Dialog
  <2> QED
    BY <2>1 DEF OptionAt, Options
<1>2. Options[((OptionAt(dialog.option) - 1 + delta) % Len(Options)) + 1] \in {"keep", "delete", "cancel"}
  <2>1. ((OptionAt(dialog.option) - 1 + delta) % 3) + 1 \in 1..3
    BY <1>1
  <2> QED
    BY <2>1 DEF Options
<1>3. dialog' \in Dialog /\ dialog'.target = dialog.target /\ dialog'.named = dialog.named /\ dialog'.open = dialog.open
  BY <1>2 DEF DialogMove, IInv, TypeOK, Dialog
<1> QED
  BY <1>3, Quiet DEF DialogMove, engineVars, IInv, Named

LEMMA NextOK == IInv /\ [DownloadsNext]_downloadsVars => IInv'
<1> SUFFICES ASSUME IInv, [DownloadsNext]_downloadsVars PROVE IInv'
  OBVIOUS
<1>1. CASE Works
  BY <1>1, WorksOK
<1>2. CASE Receive
  BY <1>2, ReceiveOK
<1>3. CASE Snapshot
  BY <1>3, SnapshotOK
<1>4. ASSUME NEW k \in DOMAIN call, Called(k) PROVE IInv'
  BY <1>4, CalledOK
<1>5. ASSUME NEW k \in DOMAIN call, PauseResumeResult(k) \/ RemoveResult(k) PROVE IInv'
  BY <1>5, PauseResumeResultOK, RemoveResultOK
<1>6. CASE User
  <2>1. ASSUME NEW d \in {-1, 1}, MoveCursor(d) PROVE IInv'
    BY <2>1, Quiet DEF MoveCursor, engineVars, IInv, TypeOK, Named
  <2>2. ASSUME NEW d \in {-1, 1}, DialogMove(d) PROVE IInv'
    BY <2>2, DialogMoveOK
  <2>3. ASSUME NEW n \in DOMAIN shown, PauseResume(n) PROVE IInv'
    BY <2>3, PauseResumeOK
  <2>4. ASSUME NEW n \in DOMAIN shown, HandleRemove(n) PROVE IInv'
    BY <2>4, HandleRemoveOK
  <2>5. CASE DialogCancel
    BY <2>5, ClosedIs, Quiet DEF DialogCancel, engineVars
  <2>6. CASE DialogConfirm
    BY <2>6, DialogConfirmOK
  <2>7. CASE SwitchScreen
    BY <2>7, Quiet DEF SwitchScreen, engineVars, IInv, TypeOK, Named
  <2>8. ASSUME NEW h \in Windows, Resize(h) PROVE IInv'
    BY <2>8, Quiet DEF Resize, engineVars, IInv, TypeOK, Named
  <2> QED
    BY <1>6, <2>1, <2>2, <2>3, <2>4, <2>5, <2>6, <2>7, <2>8 DEF User
<1>7. CASE UNCHANGED downloadsVars
  BY <1>7, Quiet DEF downloadsVars, engineVars, IInv, TypeOK, Named
<1> QED
  BY <1>1, <1>2, <1>3, <1>4, <1>5, <1>6, <1>7 DEF DownloadsNext, Results

\* However many torrents, calls and snapshots there are: the lists are of their
\* types, and every pause or resume of a torrent the engine has is waited for.
THEOREM ScreenInv == DownloadsSpec => []IInv
BY InitOK, NextOK, PTL DEF DownloadsSpec

\* Two presses about a torrent the engine has never leave two calls with no
\* order between them, however many there are.
THEOREM PressesInOrder == DownloadsSpec => []InOrder
<1>1. IInv => InOrder
  <2> SUFFICES ASSUME IInv, NEW j \in DOMAIN call, NEW k \in j + 1..Len(call),
                      Toggle(call[j]), Toggle(call[k]), call[j].id = call[k].id, Has(engine, call[j].id)
               PROVE  FALSE
    BY DEF InOrder
  <2>1. k \in DOMAIN call /\ k # j
    BY DEF IInv, TypeOK
  <2> QED
    BY <2>1 DEF IInv, Waiting
<1> QED
  BY <1>1, ScreenInv, PTL

\* Whatever the user and the engine do while the dialog is open, what is removed
\* is what it named, and its data goes only if that was chosen.
THEOREM RemovesOnlyNamed == DownloadsSpec => RemovesWhatItNamed
<1> DEFINE NamedOnly == \A k \in DOMAIN call' \ DOMAIN call :
        call'[k].kind \in {"remove", "delete"} =>
            /\ dialog.open /\ call'[k].id = dialog.named
            /\ dialog.option = IF call'[k].kind = "delete" THEN "delete" ELSE "keep"
<1>1. IInv /\ [DownloadsNext]_downloadsVars => [NamedOnly]_downloadsVars
  <2> SUFFICES ASSUME IInv, DownloadsNext, NEW k \in DOMAIN call' \ DOMAIN call, call'[k].kind \in {"remove", "delete"}
               PROVE  /\ dialog.open /\ call'[k].id = dialog.named
                      /\ dialog.option = IF call'[k].kind = "delete" THEN "delete" ELSE "keep"
    OBVIOUS
  <2>1. CASE DialogConfirm
    <3>1. /\ dialog.option # "cancel"
          /\ call' = Append(call, [kind |-> IF dialog.option = "keep" THEN "remove" ELSE "delete",
                                   id |-> dialog.target, at |-> "run"])
      BY <2>1 DEF DialogConfirm, Issue
    <3>2. k = Len(call) + 1 /\ call'[k] = [kind |-> IF dialog.option = "keep" THEN "remove" ELSE "delete",
                                         id |-> dialog.target, at |-> "run"]
      BY <3>1 DEF IInv, TypeOK
    <3>3. dialog.option \in {"keep", "delete", "cancel"} /\ dialog.open
      BY <2>1 DEF IInv, TypeOK, Dialog, DialogConfirm
    <3> QED
      BY <3>1, <3>2, <3>3 DEF IInv, Named
  <2>2. ASSUME NEW n \in DOMAIN shown, PauseResume(n) PROVE FALSE
    <3>1. PICK kind \in {"resume", "pause"} : call' = Append(call, [kind |-> kind, id |-> shown[n].id, at |-> "run"])
      BY <2>2 DEF PauseResume, Issue
    <3>2. call'[k].kind = kind
      BY <3>1 DEF IInv, TypeOK
    <3> QED
      BY <3>1, <3>2
  <2>3. ASSUME DOMAIN call' = DOMAIN call PROVE FALSE
    BY <2>3
  <2>4. ASSUME NEW j \in DOMAIN call, Called(j) \/ PauseResumeResult(j) \/ RemoveResult(j) PROVE FALSE
    <3>1. DOMAIN call' = DOMAIN call
      BY <2>4 DEF Called, PauseResumeResult, RemoveResult, IInv, TypeOK
    <3> QED
      BY <3>1
  <2>5. ASSUME UNCHANGED call PROVE FALSE
    BY <2>5
  <2>6. Works \/ Receive \/ Snapshot => UNCHANGED call
    BY DEF Works, Receive, Snapshot
  <2>7. ASSUME NEW d \in {-1, 1}, MoveCursor(d) \/ DialogMove(d) PROVE UNCHANGED call
    BY <2>7 DEF MoveCursor, DialogMove
  <2>8. ASSUME NEW n \in DOMAIN shown, HandleRemove(n) PROVE UNCHANGED call
    BY <2>8 DEF HandleRemove
  <2>9. DialogCancel \/ SwitchScreen => UNCHANGED call
    BY DEF DialogCancel, SwitchScreen
  <2>10. ASSUME NEW h \in Windows, Resize(h) PROVE UNCHANGED call
    BY <2>10 DEF Resize
  <2> QED
    BY <2>1, <2>2, <2>4, <2>5, <2>6, <2>7, <2>8, <2>9, <2>10 DEF DownloadsNext, User, Results
<1> QED
  BY <1>1, ScreenInv, PTL DEF DownloadsSpec, RemovesWhatItNamed

\* Once the calls about a torrent are answered, the next snapshot is what its
\* row shows: no guess outlives its call, in any order of answers and snapshots.
THEOREM GuessesEnd == DownloadsSpec => NoGuessOutlivesItsCall
<1> DEFINE Ends == mail # Unset /\ mail' = Unset =>
        \A n \in DOMAIN mail :
            (\A k \in DOMAIN call : call[k].id = mail[n].id => call[k].kind \notin {"pause", "resume"})
                => shown'[n] = mail[n]
<1>1. IInv /\ [DownloadsNext]_downloadsVars => [Ends]_downloadsVars
  <2> SUFFICES ASSUME IInv, DownloadsNext, mail # Unset, mail' = Unset, NEW n \in DOMAIN mail,
                      \A k \in DOMAIN call : call[k].id = mail[n].id => call[k].kind \notin {"pause", "resume"}
               PROVE  shown'[n] = mail[n]
    OBVIOUS
  <2>1. Snapshot
    <3>1. Works \/ Receive => UNCHANGED mail \/ mail = Unset
      BY DEF Works, Receive
    <3>2. ASSUME NEW d \in {-1, 1}, MoveCursor(d) \/ DialogMove(d) PROVE UNCHANGED mail
      BY <3>2 DEF MoveCursor, DialogMove
    <3>3. ASSUME NEW m \in DOMAIN shown, PauseResume(m) \/ HandleRemove(m) PROVE UNCHANGED mail
      BY <3>3 DEF PauseResume, HandleRemove
    <3>4. DialogCancel \/ DialogConfirm \/ SwitchScreen => UNCHANGED mail
      BY DEF DialogCancel, DialogConfirm, SwitchScreen
    <3>5. ASSUME NEW h \in Windows, Resize(h) PROVE UNCHANGED mail
      BY <3>5 DEF Resize
    <3>6. ASSUME NEW k \in DOMAIN call, PauseResumeResult(k) \/ RemoveResult(k) \/ Called(k) PROVE UNCHANGED mail
      BY <3>6 DEF PauseResumeResult, RemoveResult, Called
    <3> QED
      BY <3>1, <3>2, <3>3, <3>4, <3>5, <3>6 DEF DownloadsNext, User, Results
  <2>2. mail[n].id \in Ids
    <3>1. mail \in Seq(Status)
      BY DEF IInv, TypeOK
    <3>2. mail[n] \in Status
      BY <3>1
    <3> QED
      BY <3>2 DEF Status
  <2>3. ~InFlight(pending[mail[n].id])
    BY <2>2 DEF IInv, Owed, Toggle
  <2>4. pending'[mail[n].id] = Unset
    BY <2>1, <2>2, <2>3 DEF Snapshot, Kept, InFlight
  <2> QED
    BY <2>1, <2>4 DEF Snapshot
<1> QED
  BY <1>1, ScreenInv, PTL DEF DownloadsSpec, NoGuessOutlivesItsCall
----------------------------------------------------------------------------
(* The root model: who the keys go to. *)

Overs == {"first-run", "quit", "remove", "clear", "source-remove", "test-detail", "help", "errors"}
Dialogs == {"remove", "clear", "source-remove", "test-detail"}
Panel == form # Nothing \/ prefs # Nothing \/ wizard # Nothing

\* A dialog is open on the screen it was opened on, or on one that a result or
\* an add has switched to; neither a panel nor the query field opens behind it.
KeysInv ==
    /\ over \subseteq Overs
    /\ "remove" \in over => screen \in {"downloads", "results"}
    /\ "clear" \in over => screen \in {"search", "downloads", "results"}
    /\ over \cap {"source-remove", "test-detail"} # {} => screen \in {"settings", "downloads", "results"}
    /\ Panel => over \cap Dialogs = {}
    /\ editing /\ screen = "search" => over \subseteq {"first-run", "quit"}

----------------------------------------------------------------------------
(* The add flow. *)

IsFetch(f) == f = [gen |-> f.gen, of |-> f.of, cancelled |-> f.cancelled] /\ f.gen \in Nat /\ f.cancelled \in BOOLEAN

\* A resolve that was cancelled has a generation that has passed, and one that
\* is waited for is under way.
ResolveInv ==
    /\ resolve \in [on : BOOLEAN, gen : Nat]
    /\ \A f \in fetches : IsFetch(f) /\ f.gen <= resolve.gen /\ (f.cancelled => f.gen # resolve.gen)
    /\ ResolvingEnds

IsPicker(d) ==
    /\ d = [open |-> d.open, result |-> d.result, entries |-> d.entries, cursor |-> d.cursor, input |-> d.input,
            check |-> d.check, creating |-> d.creating]
    /\ d.creating \in BOOLEAN

\* A sequence is one of what it holds.
Held(s) == s \in Seq({s[k] : k \in DOMAIN s})

\* What the user is asked to create is the candidate for the result shown.
AskedInv ==
    /\ IsPicker(dest)
    /\ dest.creating => asked = [path |-> Candidate(dest), result |-> dest.result]
    /\ Held(adds)

----------------------------------------------------------------------------
(* The forms. *)

IsForm(f) ==
    f = [n |-> f.n, editing |-> f.editing, typ |-> f.typ, at |-> f.at, name |-> f.name, url |-> f.url,
         definition |-> f.definition, import |-> f.import, dirty |-> f.dirty, asking |-> f.asking,
         importing |-> f.importing, saveAfter |-> f.saveAfter, importGen |-> f.importGen,
         testing |-> f.testing, testGen |-> f.testGen, completeGen |-> f.completeGen]

IsWizard(w) ==
    w = [n |-> w.n, phase |-> w.phase, url |-> w.url, key |-> w.key, fetching |-> w.fetching, fetchGen |-> w.fetchGen,
         importing |-> w.importing, items |-> w.items, chosen |-> w.chosen]

IsCheck(c) == c = [dir |-> c.dir, margin |-> c.margin, ok |-> c.ok] /\ c.ok \in BOOLEAN

IsPrefs(p) ==
    /\ p = [n |-> p.n, dir |-> p.dir, margin |-> p.margin, dests |-> p.dests, dirty |-> p.dirty, asking |-> p.asking,
            removing |-> p.removing, check |-> p.check]
    /\ IsCheck(p.check)

IsJob(j) == j = [id |-> j.id, kind |-> j.kind, gen |-> j.gen, form |-> j.form, what |-> j.what]

\* Commands are records, and imports are numbered.
JobsInv ==
    /\ importSeq \in Nat
    /\ \A j \in jobs : IsJob(j) /\ (j.kind = "import" => j.gen \in 1 .. importSeq)

\* What the form waits for is under way, and an import of the number it waits
\* for is its own.
FormInv == form # Nothing =>
    /\ IsForm(form) /\ form.importGen \in 0 .. importSeq
    /\ form.importing => Waited("import", form.importGen)
    /\ form.testing => Waited("test", form.testGen)
    /\ \A j \in jobs : j.kind = "import" /\ j.gen = form.importGen => j.form = form.n

WizardInv == wizard # Nothing =>
    /\ IsWizard(wizard)
    /\ wizard.fetching => Waited("fetch", wizard.fetchGen)
    /\ wizard.importing => Waited("bulk", 0)

\* A folder and margin other than those checked are being checked.
PrefsInv == prefs # Nothing =>
    /\ IsPrefs(prefs)
    /\ prefs.dir = "root" \/ (prefs.check.dir = prefs.dir /\ prefs.check.margin = prefs.margin)
       \/ \E j \in jobs : j.kind = "dircheck" /\ j.what = [dir |-> prefs.dir, margin |-> prefs.margin]

\* A test that was cancelled is not the one under way.
ProbeInv ==
    /\ probe = [on |-> probe.on, gen |-> probe.gen, found |-> probe.found] /\ probe.on \in BOOLEAN /\ probe.gen \in Nat
    /\ probe.on => Waited("probe", probe.gen)
    /\ \A j \in jobs : j.kind = "probe" =>
         /\ j.gen \in 0 .. probe.gen
         /\ probe.on /\ j.gen = probe.gen => j.what # "cancelled"

FormsInv == JobsInv /\ FormInv /\ WizardInv /\ PrefsInv /\ ProbeInv

RootInv == KeysInv /\ ResolveInv /\ AskedInv /\ FormsInv
----------------------------------------------------------------------------
(* Keys go to what is shown. *)

LEMMA ModalNames ==
    /\ DOMAIN Modals = 1 .. 12
    /\ Modals[1] = "first-run" /\ Modals[2] = "quit" /\ Modals[3] = "remove"
    /\ Modals[4] = "clear" /\ Modals[5] = "destination" /\ Modals[6] = "form"
    /\ Modals[7] = "source-remove" /\ Modals[8] = "test-detail" /\ Modals[9] = "prefs"
    /\ Modals[10] = "wizard" /\ Modals[11] = "help" /\ Modals[12] = "errors"
    /\ \A i \in 1 .. 12 : i \in {1, 2, 3, 4, 5, 6, 7, 8, 9, 10, 11, 12}
  BY DEF Modals

\* What is open, by its place in Modals.
LEMMA WhatIsOpen ==
    ASSUME over \subseteq Overs
    PROVE  /\ Open \subseteq {Modals[i] : i \in 1 .. 12}
           /\ Modals[1] \in Open <=> "first-run" \in over
           /\ Modals[2] \in Open <=> "quit" \in over
           /\ Modals[3] \in Open <=> "remove" \in over
           /\ Modals[4] \in Open <=> "clear" \in over
           /\ Modals[5] \in Open <=> dest.open
           /\ Modals[6] \in Open <=> form # Nothing
           /\ Modals[7] \in Open <=> "source-remove" \in over
           /\ Modals[8] \in Open <=> "test-detail" \in over
           /\ Modals[9] \in Open <=> prefs # Nothing
           /\ Modals[10] \in Open <=> wizard # Nothing
           /\ Modals[11] \in Open <=> "help" \in over
           /\ Modals[12] \in Open <=> "errors" \in over
<1>1. Open \subseteq {Modals[i] : i \in 1 .. 12}
  <2>. SUFFICES ASSUME NEW m \in Open PROVE \E i \in 1 .. 12 : m = Modals[i]
    OBVIOUS
  <2>1. m \in {"first-run", "quit", "remove", "clear", "destination", "form", "source-remove", "test-detail", "prefs",
               "wizard", "help", "errors"}
    BY DEF Open, Overs
  <2>. QED  BY <2>1, ModalNames
<1>. QED  BY <1>1, ModalNames DEF Open, Overs

LEMMA FirstIsShown ==
    ASSUME over \subseteq Overs
    PROVE  \/ Open = {} /\ Shown = "screen"
           \/ \E i \in 1 .. 12 : Modals[i] \in Open /\ Shown = Modals[i] /\ \A j \in 1 .. i - 1 : Modals[j] \notin Open
<1>. DEFINE First(i) == Modals[i] \in Open /\ \A j \in 1 .. i - 1 : Modals[j] \notin Open
<1>1. DOMAIN Modals = 1 .. 12
  BY ModalNames
<1>2. CASE Open = {}
  BY <1>2 DEF Shown
<1>3. CASE Open # {}
  <2>1. \E i \in 1 .. 12 : Modals[i] \in Open
    BY <1>3, WhatIsOpen
  <2>2. \E i \in 1 .. 12 : First(i)
    <3>. SUFFICES ASSUME \A i \in 1 .. 12 : ~First(i) PROVE FALSE
      OBVIOUS
    <3>1. Modals[1] \notin Open
      OBVIOUS
    <3>2. Modals[2] \notin Open
      BY <3>1
    <3>3. Modals[3] \notin Open
      BY <3>1, <3>2
    <3>4. Modals[4] \notin Open
      BY <3>1, <3>2, <3>3
    <3>5. Modals[5] \notin Open
      BY <3>1, <3>2, <3>3, <3>4
    <3>6. Modals[6] \notin Open
      BY <3>1, <3>2, <3>3, <3>4, <3>5
    <3>7. Modals[7] \notin Open
      BY <3>1, <3>2, <3>3, <3>4, <3>5, <3>6
    <3>8. Modals[8] \notin Open
      BY <3>1, <3>2, <3>3, <3>4, <3>5, <3>6, <3>7
    <3>9. Modals[9] \notin Open
      BY <3>1, <3>2, <3>3, <3>4, <3>5, <3>6, <3>7, <3>8
    <3>10. Modals[10] \notin Open
      BY <3>1, <3>2, <3>3, <3>4, <3>5, <3>6, <3>7, <3>8, <3>9
    <3>11. Modals[11] \notin Open
      BY <3>1, <3>2, <3>3, <3>4, <3>5, <3>6, <3>7, <3>8, <3>9, <3>10
    <3>12. Modals[12] \notin Open
      BY <3>1, <3>2, <3>3, <3>4, <3>5, <3>6, <3>7, <3>8, <3>9, <3>10, <3>11
    <3>. QED  BY <2>1, <3>1, <3>2, <3>3, <3>4, <3>5, <3>6, <3>7, <3>8, <3>9, <3>10, <3>11, <3>12
  <2>. DEFINE k == CHOOSE i \in DOMAIN Modals : Modals[i] \in Open /\ \A j \in 1 .. i - 1 : Modals[j] \notin Open
  <2>3. k \in 1 .. 12 /\ First(k)
    BY <1>1, <2>2
  <2>4. Shown = Modals[k]
    BY <1>3 DEF Shown
  <2>. QED  BY <2>3, <2>4
<1>. QED  BY <1>2, <1>3

\* With nothing open the screen is shown, and otherwise the first of Modals.
LEMMA WhatIsShown ==
    ASSUME over \subseteq Overs
    PROVE  /\ Open = {} <=> Shown = "screen"
           /\ "first-run" \in over => Shown = "first-run"
           /\ "first-run" \notin over /\ "quit" \in over => Shown = "quit"
           /\ over \cap {"first-run", "quit", "remove", "clear"} = {} /\ dest.open => Shown = "destination"
           /\ over \cap {"first-run", "quit"} = {} /\ dest.open => Shown \in {"remove", "clear", "destination"}
           /\ over \cap ({"first-run", "quit"} \cup Dialogs) = {} /\ ~dest.open =>
                /\ form # Nothing => Shown = "form"
                /\ form = Nothing /\ prefs # Nothing => Shown = "prefs"
                /\ form = Nothing /\ prefs = Nothing /\ wizard # Nothing => Shown = "wizard"
<1>1. CASE Open = {}
  BY <1>1, FirstIsShown, WhatIsOpen, ModalNames
<1>2. ASSUME NEW i \in 1 .. 12, Modals[i] \in Open, Shown = Modals[i], \A j \in 1 .. i - 1 : Modals[j] \notin Open
      PROVE  /\ Shown # "screen" /\ Open # {}
             /\ "first-run" \in over => i = 1
             /\ "first-run" \notin over /\ "quit" \in over => i = 2
             /\ over \cap {"first-run", "quit", "remove", "clear"} = {} /\ dest.open => i = 5
             /\ over \cap {"first-run", "quit"} = {} /\ dest.open => i \in {3, 4, 5}
             /\ over \cap ({"first-run", "quit"} \cup Dialogs) = {} /\ ~dest.open =>
                  /\ form # Nothing => i = 6
                  /\ form = Nothing /\ prefs # Nothing => i = 9
                  /\ form = Nothing /\ prefs = Nothing /\ wizard # Nothing => i = 10
  <2>1. Shown # "screen" /\ Open # {}
    BY <1>2, ModalNames
  <2>2. "first-run" \in over => i = 1
    BY <1>2, WhatIsOpen
  <2>3. "first-run" \notin over /\ "quit" \in over => i = 2
    BY <1>2, WhatIsOpen
  <2>4. over \cap {"first-run", "quit"} = {} /\ dest.open => i \in {3, 4, 5}
    BY <1>2, WhatIsOpen, ModalNames
  <2>5. over \cap {"first-run", "quit", "remove", "clear"} = {} /\ dest.open => i = 5
    BY <1>2, <2>4, WhatIsOpen
  <2>6. ASSUME over \cap ({"first-run", "quit"} \cup Dialogs) = {}, ~dest.open
        PROVE  /\ i \notin {1, 2, 3, 4, 5, 7, 8}
               /\ form # Nothing => i = 6
               /\ form = Nothing /\ prefs # Nothing => i = 9
               /\ form = Nothing /\ prefs = Nothing /\ wizard # Nothing => i = 10
    <3>1. i \notin {1, 2, 3, 4, 5, 7, 8}
      BY <1>2, <2>6, WhatIsOpen DEF Dialogs
    <3>. QED  BY <1>2, <3>1, WhatIsOpen
  <2>. QED  BY <2>1, <2>2, <2>3, <2>4, <2>5, <2>6
<1>3. CASE Open # {}
  <2>1. PICK i \in 1 .. 12 : Modals[i] \in Open /\ Shown = Modals[i] /\ \A j \in 1 .. i - 1 : Modals[j] \notin Open
    BY <1>3, FirstIsShown
  <2>. QED  BY <1>2, <2>1, ModalNames
<1>. QED  BY <1>1, <1>3

\* Keys go to what is shown, whatever the key.
LEMMA KeysGo ==
    ASSUME KeysInv, NEW key
    PROVE  \/ Handler(key) \in Owners(Shown)
           \/ Shown = "quit" /\ editing /\ Handler(key) = "typing"
           \/ Shown \in {"remove", "clear"} /\ dest.open /\ Handler(key) \in {"destination", "ctrl+c"}
<1>. over \subseteq Overs
  BY DEF KeysInv
<1>1. CASE "first-run" \in over
  BY <1>1, WhatIsShown DEF Handler, Owners
<1>2. CASE "first-run" \notin over /\ "quit" \in over
  <2>1. Shown = "quit"
    BY <1>2, WhatIsShown
  <2>2. ~(Shown = "screen")
    BY <2>1
  <2>3. Handler(key) = "keymap" \/ (Handler(key) = "typing" /\ editing)
    BY <1>2, <2>2 DEF Handler, OnSettings
  <2>. QED  BY <2>1, <2>3 DEF Owners
<1>3. CASE "first-run" \notin over /\ "quit" \notin over
  <2>1. CASE dest.open
    <3>1. Handler(key) \in {"destination", "ctrl+c"}
      BY <1>3, <2>1 DEF Handler, TextModal
    <3>2. Shown \in {"remove", "clear", "destination"}
      BY <1>3, <2>1, WhatIsShown
    <3>. QED  BY <2>1, <3>1, <3>2 DEF Owners
  <2>2. CASE ~dest.open /\ Panel
    <3>1. over \cap ({"first-run", "quit"} \cup Dialogs) = {}
      BY <1>3, <2>2 DEF KeysInv
    <3>2. Shown # "screen"
      BY <1>3, <2>2, WhatIsOpen, WhatIsShown DEF Panel
    <3>3. \/ Handler(key) = "ctrl+c"
          \/ Handler(key) = (IF form # Nothing THEN "form" ELSE IF prefs # Nothing THEN "prefs" ELSE "wizard")
      BY <1>3, <2>2, <3>2 DEF Handler, Panel
    <3>4. Shown = (IF form # Nothing THEN "form" ELSE IF prefs # Nothing THEN "prefs" ELSE "wizard")
      BY <2>2, <3>1, WhatIsShown DEF Panel
    <3>. QED  BY <3>3, <3>4 DEF Owners
  <2>3. CASE ~dest.open /\ ~Panel
    <3>1. ~TextModal
      BY <2>3 DEF TextModal, Panel
    <3>2. Handler(key) \in {"resolve", "typing", "search", "settings", "keymap"}
      BY <1>3, <2>3, <3>1 DEF Handler, Panel
    <3>3. CASE Handler(key) = "keymap"
      BY <3>3 DEF Owners
    <3>4. CASE Handler(key) = "resolve"
      BY <1>3, <3>4 DEF Handler, Owners
    <3>5. CASE Handler(key) = "typing"
      <4>1. screen = "search" /\ editing
        BY <1>3, <3>5 DEF Handler
      <4>2. over = {}
        BY <1>3, <4>1 DEF KeysInv
      <4>3. Shown = "screen"
        BY <2>3, <4>2, WhatIsShown DEF Open, Panel
      <4>. QED  BY <3>5, <4>3 DEF Owners
    <3>6. CASE Handler(key) = "search"
      <4>1. screen = "search" /\ over \cap {"quit", "clear", "help", "errors"} = {}
        BY <1>3, <3>6 DEF Handler
      <4>2. over = {}
        BY <1>3, <4>1 DEF KeysInv, Overs
      <4>3. Shown = "screen"
        BY <2>3, <4>2, WhatIsShown DEF Open, Panel
      <4>. QED  BY <3>6, <4>3 DEF Owners
    <3>7. CASE Handler(key) = "settings"
      <4>1. OnSettings
        BY <1>3, <3>7 DEF Handler
      <4>2. over = {}
        BY <1>3, <4>1 DEF KeysInv, Overs, OnSettings
      <4>3. Shown = "screen"
        BY <2>3, <4>2, WhatIsShown DEF Open, Panel
      <4>. QED  BY <3>7, <4>3 DEF Owners
    <3>. QED  BY <3>2, <3>3, <3>4, <3>5, <3>6, <3>7
  <2>. QED  BY <2>1, <2>2, <2>3
<1>. QED  BY <1>1, <1>2, <1>3

LEMMA KeysShrink ==
    ASSUME KeysInv, over' \subseteq over \cup {"quit"}, screen' \in {screen, "downloads", "results"},
           editing' => editing, Panel' => Panel
    PROVE  KeysInv'
  BY DEF KeysInv, Overs, Dialogs

LEMMA KeysClear == ASSUME over' \subseteq {"quit"} PROVE KeysInv'
  BY DEF KeysInv, Overs, Dialogs

\* What the order of handleKey says of who takes a key.
LEMMA HandlerIs ==
    ASSUME KeysInv, NEW key
    PROVE  /\ Handler(key) = "form" => form # Nothing
           /\ Handler(key) = "prefs" => prefs # Nothing
           /\ Handler(key) = "wizard" => wizard # Nothing
           /\ Handler(key) \in {"search", "settings"} => over = {} /\ ~Panel
           /\ Handler(key) = "settings" => screen = "settings"
           /\ Handler(key) = "keymap" /\ Shown = "screen" => over = {} /\ ~Panel
           /\ Handler(key) = "keymap" /\ Shown = "screen" /\ key \in Typed => ~(screen = "search" /\ editing)
<1>1. /\ Handler(key) = "form" => form # Nothing
      /\ Handler(key) = "prefs" => prefs # Nothing
      /\ Handler(key) = "wizard" => wizard # Nothing
  BY DEF Handler
<1>2. ASSUME Handler(key) = "search" PROVE over = {} /\ ~Panel
  <2>1. screen = "search" /\ over \cap {"first-run", "quit", "clear", "help", "errors"} = {}
    BY <1>2 DEF Handler
  <2>2. over = {}
    BY <2>1 DEF KeysInv, Overs
  <2>. QED  BY <1>2, <2>2 DEF Handler, Panel
<1>3. ASSUME Handler(key) = "settings" PROVE over = {} /\ ~Panel /\ screen = "settings"
  <2>1. OnSettings /\ "first-run" \notin over
    BY <1>3 DEF Handler
  <2>2. over = {}
    BY <2>1 DEF KeysInv, Overs, OnSettings
  <2>. QED  BY <1>3, <2>1, <2>2 DEF Handler, Panel, OnSettings
<1>4. ASSUME Shown = "screen" PROVE over = {} /\ ~Panel
  BY <1>4, WhatIsShown DEF KeysInv, Open, Panel
<1>5. ASSUME Handler(key) = "keymap", Shown = "screen", key \in Typed PROVE ~(screen = "search" /\ editing)
  BY <1>4, <1>5 DEF Handler
<1>. QED  BY <1>1, <1>2, <1>3, <1>4, <1>5

\* An add, answered or not, shows the downloads or stays on the screen.
LEMMA AddScreens ==
    ASSUME (\E r : StartAdd(r)) \/ CancelResolve \/ (\E key : DestinationKey(key)) \/ AddMessage \/ DiskChanges
    PROVE  screen' \in {screen, "downloads"}
<1>1. ASSUME NEW r, StartAdd(r) PROVE screen' \in {screen, "downloads"}
  BY <1>1 DEF StartAdd, FinishAdd
<1>2. ASSUME NEW key, DestinationKey(key) PROVE UNCHANGED screen
  BY <1>2 DEF DestinationKey, ConfirmDestination, Picker, Picked
<1>3. ASSUME NEW f, NEW r, ResolveResult(f, r) PROVE screen' \in {screen, "downloads"}
  BY <1>3 DEF ResolveResult, FinishAdd
<1>4. ASSUME NEW k, RunAdd(k) \/ AddResult(k) PROVE screen' \in {screen, "downloads"}
  BY <1>4 DEF RunAdd, AddResult
<1>5. ASSUME NEW c, RunCheck(c) \/ DestCheck(c) PROVE UNCHANGED screen
  BY <1>5 DEF RunCheck, DestCheck
<1>. QED  BY <1>1, <1>2, <1>3, <1>4, <1>5 DEF AddMessage, CancelResolve, DiskChanges

\* No answer opens a panel.
LEMMA MessageOpensNothing == ASSUME FormMessage, Panel' PROVE Panel
<1>1. ASSUME NEW j, NEW ok, ImportAnswer(j, ok) \/ TestAnswer(j, ok) \/ CompleteAnswer(j, ok) \/ SaveAnswer(j, ok)
      PROVE  Panel
  BY <1>1 DEF Panel, ImportAnswer, TestAnswer, CompleteAnswer, SaveAnswer
<1>2. ASSUME NEW j, NEW ok, FetchAnswer(j, ok) \/ BulkAnswer(j, ok) \/ DirCheckAnswer(j, ok) \/ PrefsAnswer(j, ok)
      PROVE  Panel
  BY <1>2 DEF Panel, FetchAnswer, BulkAnswer, DirCheckAnswer, PrefsAnswer
<1>3. ASSUME NEW j, ProbeAnswer(j) PROVE Panel
  BY <1>3 DEF Panel, ProbeAnswer
<1>. QED  BY <1>1, <1>2, <1>3 DEF FormMessage

LEMMA KeyKept == ASSUME KeysInv, NEW key, HandleKey(key) PROVE KeysInv'
<1>. USE DEF rootVars, InAdd, InForms, Overlays, Panel
<1>1. CASE Handler(key) \in {"first-run", "ctrl+c"} /\ (Overlays(over \ {"first-run"}) \/ HandleQuit)
  BY <1>1, KeysShrink DEF HandleQuit, addVars, formVars
<1>2. CASE (Handler(key) = "destination" /\ InAdd(DestinationKey(key))) \/ (Handler(key) = "resolve" /\ InAdd(CancelResolve))
  BY <1>2, KeysShrink, AddScreens DEF formVars
<1>3. CASE \/ Handler(key) = "form" /\ InForms(FormKey(key))
           \/ Handler(key) = "prefs" /\ InForms(PrefsKey(key))
           \/ Handler(key) = "wizard" /\ InForms(WizardKey(key))
  BY <1>3, KeysShrink, HandlerIs DEF addVars
<1>4. CASE TypingKey(key)
  BY <1>4, KeysShrink DEF TypingKey, Goto, Dispatch, addVars, formVars
<1>5. CASE Handler(key) = "search" /\ SearchKey(key)
  BY <1>5, KeysClear, HandlerIs DEF SearchKey, Goto
<1>6. CASE Handler(key) = "settings" /\ SettingsKey(key)
  <2>1. over = {} /\ ~Panel /\ screen = "settings"
    BY <1>6, HandlerIs
  <2>2. CASE over' = {}
    BY <2>2, KeysClear
  <2>3. CASE over' \in {{"source-remove"}, {"test-detail"}} /\ UNCHANGED <<screen, form, prefs, wizard>>
    BY <2>1, <2>3 DEF KeysInv, Overs, Dialogs
  <2>. QED  BY <1>6, <2>1, <2>2, <2>3 DEF SettingsKey, addVars, formVars
<1>7. CASE OverlayKey(key)
  BY <1>7, KeysShrink DEF OverlayKey, CancelAction, addVars, formVars
<1>8. CASE Handler(key) = "keymap" /\ ScreenKey(key)
  <2>1. Shown = "screen" /\ over = {} /\ ~Panel
    BY <1>8, HandlerIs DEF ScreenKey
  <2>2. CASE over' \subseteq {"quit"}
    BY <2>2, KeysClear
  <2>3. CASE over' = {"remove"} /\ screen = "downloads" /\ UNCHANGED <<screen, form, prefs, wizard>>
    BY <2>1, <2>3 DEF KeysInv, Overs, Dialogs
  <2>4. CASE over' = {"clear"} /\ screen = "search" /\ key = "c" /\ UNCHANGED <<screen, form, prefs, wizard, editing>>
    BY <1>8, <2>1, <2>4, HandlerIs DEF KeysInv, Overs, Dialogs, Typed, Letters
  <2>5. CASE over' \in {{"help"}, {"errors"}} /\ key \in {"?", "e"} /\ UNCHANGED <<screen, form, prefs, wizard, editing>>
    BY <1>8, <2>1, <2>5, HandlerIs DEF KeysInv, Overs, Dialogs, Typed, Letters
  <2>. QED
    BY <1>8, <2>1, <2>2, <2>3, <2>4, <2>5 DEF ScreenKey, Goto, Dispatch, ResultKey, HandleQuit, addVars, formVars
<1>. QED  BY <1>1, <1>2, <1>3, <1>4, <1>5, <1>6, <1>7, <1>8 DEF HandleKey

LEMMA KeysKept == ASSUME KeysInv, [Next]_vars PROVE KeysInv'
<1>. USE DEF rootVars, InAdd, InForms, Panel
<1>1. ASSUME NEW key, HandleKey(key) PROVE KeysInv'
  BY <1>1, KeyKept
<1>2. CASE InAdd(AddMessage) \/ InAdd(DiskChanges)
  BY <1>2, KeysShrink, AddScreens DEF formVars
<1>3. CASE InForms(FormMessage)
  BY <1>3, KeysShrink, MessageOpensNothing DEF addVars
<1>4. CASE EngineUpdate
  BY <1>4, KeysShrink DEF EngineUpdate, addVars, formVars
<1>5. ASSUME NEW some, NEW all, SearchResult(some, all) PROVE KeysInv'
  BY <1>5, KeysShrink DEF SearchResult, formVars
<1>6. CASE UNCHANGED vars
  BY <1>6, KeysShrink DEF vars, addVars, formVars
<1>. QED  BY <1>1, <1>2, <1>3, <1>4, <1>5, <1>6 DEF Next
----------------------------------------------------------------------------
(* The root model: its steps, by what they leave alone. *)

addBut == <<details, resolve, fetches, dest, checks, adds, used, tracked, roots, fsVars, asked>>

AddStep ==
    \/ \E r : StartAdd(r) \/ OpenDetails(r)
    \/ CancelResolve
    \/ \E key : DestinationKey(key)
    \/ AddMessage
    \/ DiskChanges

FormStep ==
    \/ OpenForm(Blank) \/ OpenForm(Saved("scraper"))
    \/ StartProbe \/ CancelProbe \/ OpenPrefs
    \/ form # Nothing /\ \E key : FormKey(key)
    \/ prefs # Nothing /\ \E key : PrefsKey(key)
    \/ wizard # Nothing /\ \E key : WizardKey(key)
    \/ FormMessage

LEMMA RootSteps ==
    ASSUME KeysInv, [Next]_vars
    PROVE  \/ AddStep /\ UNCHANGED formVars
           \/ FormStep /\ UNCHANGED addBut
           \/ UNCHANGED <<formVars, addBut>>
<1>. DEFINE Goal == \/ AddStep /\ UNCHANGED formVars
                    \/ FormStep /\ UNCHANGED addBut
                    \/ UNCHANGED <<formVars, addBut>>
<1>1. ASSUME UNCHANGED <<addVars, formVars>> PROVE Goal
  BY <1>1 DEF addVars, addBut
<1>2. ASSUME NEW o, Overlays(o) PROVE Goal
  BY <1>1, <1>2 DEF Overlays
<1>3. ASSUME NEW s, NEW ed, Goto(s, ed) PROVE Goal
  BY <1>3 DEF Goto, addBut
<1>4. ASSUME HandleQuit \/ EngineUpdate \/ (\E ed : Dispatch(ed)) PROVE Goal
  BY <1>1, <1>4 DEF HandleQuit, EngineUpdate, Dispatch
<1>5. ASSUME NEW some, NEW all, SearchResult(some, all) PROVE Goal
  BY <1>5 DEF SearchResult, addBut
<1>6. ASSUME NEW key, HandleKey(key) PROVE Goal
  <2>1. CASE Handler(key) = "form" /\ InForms(FormKey(key))
    BY <2>1, HandlerIs DEF InForms, FormStep, addVars, addBut
  <2>2. CASE Handler(key) = "prefs" /\ InForms(PrefsKey(key))
    BY <2>2, HandlerIs DEF InForms, FormStep, addVars, addBut
  <2>3. CASE Handler(key) = "wizard" /\ InForms(WizardKey(key))
    BY <2>3, HandlerIs DEF InForms, FormStep, addVars, addBut
  <2>4. CASE InAdd(DestinationKey(key)) \/ InAdd(CancelResolve)
    BY <2>4 DEF InAdd, AddStep
  <2>5. CASE TypingKey(key)
    BY <1>3, <1>4, <2>5 DEF TypingKey
  <2>6. CASE SearchKey(key)
    BY <1>1, <1>3, <2>6 DEF SearchKey, FormStep, addBut
  <2>7. CASE SettingsKey(key)
    BY <1>2, <2>7 DEF SettingsKey, InForms, FormStep, addVars, addBut
  <2>8. CASE OverlayKey(key)
    BY <1>1, <1>2, <2>8 DEF OverlayKey, CancelAction
  <2>9. CASE ScreenKey(key)
    <3>1. ResultKey(key) => Goal
      BY DEF ResultKey, InAdd, AddStep
    <3>. QED  BY <1>2, <1>3, <1>4, <2>9, <3>1 DEF ScreenKey
  <2>. QED  BY <1>2, <1>4, <1>6, <2>1, <2>2, <2>3, <2>4, <2>5, <2>6, <2>7, <2>8, <2>9 DEF HandleKey
<1>7. CASE InAdd(AddMessage) \/ InAdd(DiskChanges)
  BY <1>7 DEF InAdd, AddStep
<1>8. CASE InForms(FormMessage)
  BY <1>8 DEF InForms, FormStep, addVars, addBut
<1>9. CASE UNCHANGED vars
  BY <1>1, <1>9 DEF vars
<1>. QED  BY <1>4, <1>5, <1>6, <1>7, <1>8, <1>9 DEF Next

----------------------------------------------------------------------------
(* The add flow: resolves. *)

LEMMA CancelledIs ==
    ASSUME ResolveInv
    PROVE  /\ \A f \in fetches : f.cancelled => f \in Cancelled(fetches)
           /\ \A f \in Cancelled(fetches) :
                IsFetch(f) /\ f.gen <= resolve.gen /\ (f.cancelled /\ ~resolve.on => f.gen # resolve.gen)
<1>. DEFINE After(f) == [f EXCEPT !.cancelled = @ \/ (resolve.on /\ f.gen = resolve.gen)]
<1>1. ASSUME NEW f \in fetches
      PROVE  After(f) = [gen |-> f.gen, of |-> f.of, cancelled |-> f.cancelled \/ (resolve.on /\ f.gen = resolve.gen)]
  BY DEF ResolveInv, IsFetch
<1>2. ASSUME NEW f \in fetches, f.cancelled PROVE f \in Cancelled(fetches)
  <2>1. (f.cancelled \/ (resolve.on /\ f.gen = resolve.gen)) = TRUE /\ f.cancelled = TRUE
    BY <1>2 DEF ResolveInv, IsFetch
  <2>2. After(f) = f
    BY <1>1, <2>1 DEF ResolveInv, IsFetch
  <2>. QED  BY <2>2 DEF Cancelled
<1>3. ASSUME NEW g \in Cancelled(fetches)
      PROVE  IsFetch(g) /\ g.gen <= resolve.gen /\ (g.cancelled /\ ~resolve.on => g.gen # resolve.gen)
  <2>1. PICK f \in fetches : g = After(f)
    BY DEF Cancelled
  <2>2. /\ g.gen = f.gen /\ g.of = f.of /\ g.cancelled \in BOOLEAN
        /\ g.cancelled <=> f.cancelled \/ (resolve.on /\ f.gen = resolve.gen)
    BY <1>1, <2>1
  <2>3. IsFetch(g)
    BY <1>1, <2>1, <2>2 DEF ResolveInv, IsFetch
  <2>. QED  BY <2>2, <2>3 DEF ResolveInv
<1>. QED  BY <1>2, <1>3

LEMMA AddKeepsResolve ==
    ASSUME ResolveInv, AddStep
    PROVE  /\ ResolveInv'
           /\ \A f \in fetches : f.cancelled /\ f \notin fetches' => UNCHANGED <<screen, dest, resolve>>
<1>. resolve \in [on : BOOLEAN, gen : Nat]
  BY DEF ResolveInv
<1>1. ASSUME UNCHANGED <<resolve, fetches>>
      PROVE  ResolveInv' /\ \A f \in fetches : f.cancelled => f \in fetches'
  BY <1>1 DEF ResolveInv, ResolvingEnds
<1>2. ASSUME NEW r, StartAdd(r), resolve' # resolve PROVE ResolveInv' /\ \A f \in fetches : f.cancelled => f \in fetches'
  <2>. DEFINE new == [gen |-> resolve'.gen, of |-> r, cancelled |-> FALSE]
  <2>1. resolve' = [on |-> TRUE, gen |-> resolve.gen + 1] /\ fetches' = Cancelled(fetches) \cup {new}
    BY <1>2 DEF StartAdd
  <2>2. resolve'.on /\ resolve'.gen = resolve.gen + 1 /\ resolve' \in [on : BOOLEAN, gen : Nat]
    BY <2>1
  <2>3. IsFetch(new) /\ new.gen = resolve'.gen /\ ~new.cancelled
    BY <2>2 DEF IsFetch
  <2>. HIDE DEF new
  <2>4. \A f \in fetches' : IsFetch(f) /\ f.gen <= resolve'.gen /\ (f.cancelled => f.gen # resolve'.gen)
    BY <2>1, <2>2, <2>3, CancelledIs DEF IsFetch
  <2>5. ResolvingEnds'
    BY <2>1, <2>3 DEF ResolvingEnds
  <2>. QED  BY <2>1, <2>2, <2>4, <2>5, CancelledIs DEF ResolveInv, IsFetch
<1>3. CASE CancelResolve
  <2>1. resolve' = [on |-> FALSE, gen |-> resolve.gen + 1] /\ fetches' = Cancelled(fetches)
    BY <1>3 DEF CancelResolve
  <2>2. ~resolve'.on /\ resolve'.gen = resolve.gen + 1 /\ resolve' \in [on : BOOLEAN, gen : Nat]
    BY <2>1
  <2>3. \A f \in fetches' : IsFetch(f) /\ f.gen <= resolve'.gen /\ (f.cancelled => f.gen # resolve'.gen)
    BY <2>1, <2>2, CancelledIs DEF IsFetch
  <2>. QED  BY <2>1, <2>2, <2>3, CancelledIs DEF ResolveInv, IsFetch, ResolvingEnds
<1>4. ASSUME NEW f, NEW r, ResolveResult(f, r)
      PROVE  ResolveInv' /\ \A g \in fetches : g.cancelled /\ g \notin fetches' => UNCHANGED <<screen, dest, resolve>>
  <2>1. f \in fetches /\ fetches' = fetches \ {f} /\ IsFetch(f)
    BY <1>4 DEF ResolveResult, ResolveInv
  <2>2. CASE f.gen # resolve.gen
    <3>1. UNCHANGED <<screen, dest, resolve>>
      BY <1>4, <2>2 DEF ResolveResult
    <3>2. ResolvingEnds'
      BY <2>1, <2>2, <3>1 DEF ResolveInv, ResolvingEnds
    <3>. QED  BY <2>1, <3>1, <3>2 DEF ResolveInv, IsFetch
  <2>3. CASE f.gen = resolve.gen
    <3>1. resolve' = [resolve EXCEPT !.on = FALSE]
      BY <1>4, <2>3 DEF ResolveResult
    <3>2. ~resolve'.on /\ resolve'.gen = resolve.gen /\ resolve' \in [on : BOOLEAN, gen : Nat]
      BY <3>1
    <3>3. ~f.cancelled
      BY <2>1, <2>3 DEF ResolveInv
    <3>. QED  BY <2>1, <3>2, <3>3 DEF ResolveInv, ResolvingEnds, IsFetch
  <2>. QED  BY <2>2, <2>3
<1>5. ASSUME NEW r, StartAdd(r) PROVE ResolveInv' /\ \A f \in fetches : f.cancelled => f \in fetches'
  BY <1>1, <1>2, <1>5 DEF StartAdd
<1>6. ASSUME NEW key, DestinationKey(key) PROVE UNCHANGED <<resolve, fetches>>
  BY <1>6 DEF DestinationKey, ConfirmDestination, Picker, Picked
<1>7. ASSUME NEW x, OpenDetails(x) \/ RunCheck(x) \/ DestCheck(x) \/ RunAdd(x) \/ AddResult(x) \/ DiskChanges
      PROVE  UNCHANGED <<resolve, fetches>>
  BY <1>7 DEF OpenDetails, RunCheck, DestCheck, RunAdd, AddResult, DiskChanges
<1>. QED  BY <1>1, <1>3, <1>4, <1>5, <1>6, <1>7 DEF AddStep, AddMessage

----------------------------------------------------------------------------
(* The add flow: what the user is asked to create. *)

LEMMA SameCandidate ==
    ASSUME NEW d, IsPicker(d), NEW c, NEW e, e = [d EXCEPT !.creating = TRUE] \/ e = [d EXCEPT !.check = c]
    PROVE  /\ IsPicker(e) /\ e.result = d.result /\ Candidate(e) = Candidate(d)
           /\ e = [d EXCEPT !.check = c] => (e.creating <=> d.creating)
<1>1. CASE e = [d EXCEPT !.creating = TRUE]
  <2>1. e = [open |-> d.open, result |-> d.result, entries |-> d.entries, cursor |-> d.cursor, input |-> d.input,
             check |-> d.check, creating |-> TRUE]
    BY <1>1 DEF IsPicker
  <2>2. IsPicker(e) /\ e.result = d.result /\ Candidate(e) = Candidate(d) /\ e.creating
    BY <2>1 DEF IsPicker, Candidate, OnField
  <2>3. ASSUME e = [d EXCEPT !.check = c] PROVE d.creating
    BY <2>2, <2>3 DEF IsPicker
  <2>. QED  BY <2>2, <2>3
<1>2. CASE e = [d EXCEPT !.check = c]
  <2>1. e = [open |-> d.open, result |-> d.result, entries |-> d.entries, cursor |-> d.cursor, input |-> d.input,
             check |-> c, creating |-> d.creating]
    BY <1>2 DEF IsPicker
  <2>. QED  BY <2>1 DEF IsPicker, Candidate, OnField
<1>. QED  BY <1>1, <1>2

LEMMA NoMoreCreating ==
    ASSUME NEW d, IsPicker(d), NEW e, e = [d EXCEPT !.creating = FALSE] PROVE IsPicker(e) /\ ~e.creating
<1>1. e = [open |-> d.open, result |-> d.result, entries |-> d.entries, cursor |-> d.cursor, input |-> d.input,
           check |-> d.check, creating |-> FALSE]
  BY DEF IsPicker
<1>. QED  BY <1>1 DEF IsPicker

LEMMA NoPickerIs == IsPicker(NoPicker) /\ ~NoPicker.creating
  BY DEF NoPicker, IsPicker

\* A picker whose cursor, path or result changes asks no more.
LEMMA RevalidateAsks ==
    ASSUME NEW d, d = [open |-> d.open, result |-> d.result, entries |-> d.entries, cursor |-> d.cursor, input |-> d.input,
                       check |-> d.check, creating |-> d.creating], Revalidate(d)
    PROVE  IsPicker(dest') /\ ~dest'.creating
<1>1. dest' = [open |-> d.open, result |-> d.result, entries |-> d.entries, cursor |-> d.cursor, input |-> d.input,
               check |-> d.check, creating |-> FALSE]
  BY DEF Revalidate
<1>. QED  BY <1>1 DEF IsPicker

LEMMA PickerOf ==
    ASSUME NEW d, IsPicker(d), NEW r, NEW es, NEW e, e = [d EXCEPT !.open = TRUE, !.result = r, !.entries = es]
    PROVE  e = [open |-> TRUE, result |-> r, entries |-> es, cursor |-> d.cursor, input |-> d.input,
                check |-> d.check, creating |-> d.creating]
<1>1. PICK f : f = [d EXCEPT !.open = TRUE]
  OBVIOUS
<1>2. f = [open |-> TRUE, result |-> d.result, entries |-> d.entries, cursor |-> d.cursor, input |-> d.input,
           check |-> d.check, creating |-> d.creating]
  BY <1>1 DEF IsPicker
<1>3. PICK g : g = [f EXCEPT !.result = r]
  OBVIOUS
<1>4. g = [open |-> TRUE, result |-> r, entries |-> d.entries, cursor |-> d.cursor, input |-> d.input,
           check |-> d.check, creating |-> d.creating]
  BY <1>2, <1>3
<1>5. e = [g EXCEPT !.entries = es]
  BY <1>1, <1>3
<1>. QED  BY <1>4, <1>5

LEMMA FinishAsks == ASSUME NEW r, FinishAdd(r) PROVE UNCHANGED dest \/ (IsPicker(dest') /\ ~dest'.creating)
<1>1. ASSUME OpenPicker(r) PROVE IsPicker(dest') /\ ~dest'.creating
  <2>. DEFINE d == [NoPicker EXCEPT !.open = TRUE, !.result = r, !.entries = Entries]
  <2>1. d = [open |-> TRUE, result |-> r, entries |-> Entries, cursor |-> NoPicker.cursor, input |-> NoPicker.input,
             check |-> NoPicker.check, creating |-> NoPicker.creating]
    BY NoPickerIs, PickerOf
  <2>2. Revalidate(d)
    BY <1>1 DEF OpenPicker
  <2>. HIDE DEF d
  <2>3. d = [open |-> d.open, result |-> d.result, entries |-> d.entries, cursor |-> d.cursor, input |-> d.input,
             check |-> d.check, creating |-> d.creating]
    BY <2>1
  <2>. QED  BY <2>2, <2>3, RevalidateAsks
<1>. QED  BY <1>1 DEF FinishAdd

\* It stays one when it is extended or changed.
LEMMA HeldBy == ASSUME NEW S, NEW s \in Seq(S) PROVE Held(s)
  BY ElementOfSeq, LenProperties DEF Held

LEMMA Extended ==
    ASSUME NEW s, Held(s), NEW e, NEW t, t = Append(s, e)
    PROVE  Held(t) /\ DOMAIN t \ DOMAIN s = {Len(s) + 1} /\ t[Len(s) + 1] = e
<1>. DEFINE S == {s[k] : k \in DOMAIN s} \cup {e}
<1>1. s \in Seq(S) /\ e \in S
  BY ElementOfSeq, LenProperties DEF Held
<1>. HIDE DEF S
<1>2. t \in Seq(S) /\ Len(t) = Len(s) + 1 /\ t[Len(s) + 1] = e
  BY <1>1, AppendProperties
<1>3. DOMAIN s = 1 .. Len(s) /\ DOMAIN t = 1 .. Len(s) + 1 /\ Len(s) \in Nat
  BY <1>1, <1>2, LenProperties
<1>4. Held(t)
  BY <1>2, HeldBy
<1>. QED  BY <1>2, <1>3, <1>4

LEMMA Changed ==
    ASSUME NEW s, Held(s), NEW k \in DOMAIN s, NEW e, NEW t, t = [s EXCEPT ![k] = e]
    PROVE  Held(t) /\ DOMAIN t = DOMAIN s
<1>. DEFINE S == {s[n] : n \in DOMAIN s} \cup {e}
<1>1. s \in Seq(S) /\ e \in S
  BY ElementOfSeq, LenProperties DEF Held
<1>. HIDE DEF S
<1>2. DOMAIN s = 1 .. Len(s) /\ Len(s) \in Nat
  BY <1>1, LenProperties
<1>3. t \in Seq(S) /\ DOMAIN t = DOMAIN s
  BY <1>1, <1>2, ExceptSeq
<1>. QED  BY <1>3, HeldBy

\* An add that creates a folder creates the one asked about.
Creates ==
    \A k \in DOMAIN adds' \ DOMAIN adds : adds'[k].create =>
        asked = [path |-> adds'[k].path, result |-> adds'[k].result]

LEMMA SameAsked == ASSUME AskedInv, UNCHANGED <<dest, asked, adds>> PROVE AskedInv' /\ Creates
  BY DEF AskedInv, IsPicker, Candidate, OnField, Creates

\* The picker asks no more.
LEMMA AsksNoMore == ASSUME AskedInv, IsPicker(dest'), ~dest'.creating, UNCHANGED adds PROVE AskedInv' /\ Creates
  BY DEF AskedInv, IsPicker, Creates

LEMMA ConfirmKeepsAsked ==
    ASSUME AskedInv, NEW create \in BOOLEAN, create => dest.creating, ConfirmDestination(create)
    PROVE  AskedInv' /\ Creates
<1>. DEFINE c == dest.check
            path == Candidate(dest)
            new == [result |-> dest.result, path |-> path, create |-> ~c.exists, at |-> "run"]
<1>1. CASE UNCHANGED <<dest, adds, asked>>
  BY <1>1, SameAsked
<1>2. CASE dest' = [dest EXCEPT !.creating = TRUE] /\ asked' = [path |-> path, result |-> dest.result] /\ UNCHANGED adds
  <2>1. IsPicker(dest') /\ dest'.result = dest.result /\ Candidate(dest') = Candidate(dest)
    BY <1>2, SameCandidate DEF AskedInv
  <2>2. Candidate(dest)' = Candidate(dest')
    BY DEF Candidate, OnField
  <2>3. IsPicker(dest)'
    BY <2>1 DEF IsPicker
  <2>. QED  BY <1>2, <2>1, <2>2, <2>3 DEF AskedInv, Creates
<1>3. CASE dest' = NoPicker /\ adds' = Append(adds, new) /\ (c.exists \/ create)
  <2>1. AskedInv'
    <3>1. Held(adds') /\ IsPicker(dest') /\ ~dest'.creating
      BY <1>3, Extended, NoPickerIs DEF AskedInv
    <3>. QED  BY <3>1 DEF AskedInv, Held, IsPicker
  <2>2. Creates
    <3>. SUFFICES ASSUME NEW k \in DOMAIN adds' \ DOMAIN adds, adds'[k].create
                  PROVE  asked = [path |-> adds'[k].path, result |-> adds'[k].result]
      BY DEF Creates
    <3>1. adds'[k] = new
      BY <1>3, Extended DEF AskedInv
    <3>2. new.path = path /\ new.result = dest.result /\ new.create = ~c.exists
      OBVIOUS
    <3>3. new.create
      BY <3>1
    <3>4. ~c.exists
      BY <3>2, <3>3, Zenon
    <3>. QED  BY <1>3, <3>1, <3>2, <3>4 DEF AskedInv
  <2>. QED  BY <2>1, <2>2
<1>. QED  BY <1>1, <1>2, <1>3 DEF ConfirmDestination

LEMMA KeyKeepsAsked == ASSUME AskedInv, NEW key, DestinationKey(key) PROVE AskedInv' /\ Creates
<1>1. ASSUME NEW d, d.creating = dest.creating, Picked(d),
             d = [open |-> d.open, result |-> d.result, entries |-> d.entries, cursor |-> d.cursor, input |-> d.input,
                  check |-> d.check, creating |-> d.creating]
      PROVE  AskedInv' /\ Creates
  BY <1>1, RevalidateAsks, AsksNoMore DEF Picked
<1>2. ASSUME NEW i, Picked([dest EXCEPT !.cursor = i]) \/ Picked([dest EXCEPT !.input = i]) PROVE AskedInv' /\ Creates
  <2>1. /\ [dest EXCEPT !.cursor = i] = [open |-> dest.open, result |-> dest.result, entries |-> dest.entries, cursor |-> i,
                                         input |-> dest.input, check |-> dest.check, creating |-> dest.creating]
        /\ [dest EXCEPT !.input = i] = [open |-> dest.open, result |-> dest.result, entries |-> dest.entries,
                                        cursor |-> dest.cursor, input |-> i, check |-> dest.check, creating |-> dest.creating]
    BY DEF AskedInv, IsPicker
  <2>. QED  BY <1>1, <1>2, <2>1
<1>3. ASSUME Picker([dest EXCEPT !.creating = FALSE]) \/ Picker(NoPicker) PROVE AskedInv' /\ Creates
  <2>1. IsPicker(dest') /\ ~dest'.creating /\ UNCHANGED adds
    BY <1>3, NoPickerIs, NoMoreCreating DEF Picker, AskedInv
  <2>. QED  BY <2>1, AsksNoMore
<1>4. ASSUME (dest.creating /\ ConfirmDestination(TRUE)) \/ ConfirmDestination(FALSE) PROVE AskedInv' /\ Creates
  BY <1>4, ConfirmKeepsAsked
<1>. QED  BY <1>2, <1>3, <1>4 DEF DestinationKey

LEMMA AddKeepsAsked == ASSUME AskedInv, AddStep PROVE AskedInv' /\ Creates
<1>1. ASSUME NEW r, FinishAdd(r), UNCHANGED <<asked, adds>> PROVE AskedInv' /\ Creates
  BY <1>1, FinishAsks, SameAsked, AsksNoMore
<1>2. ASSUME NEW r, StartAdd(r) PROVE AskedInv' /\ Creates
  BY <1>1, <1>2, SameAsked DEF StartAdd
<1>3. ASSUME NEW f, NEW r, ResolveResult(f, r) PROVE AskedInv' /\ Creates
  BY <1>1, <1>3, SameAsked DEF ResolveResult
<1>4. ASSUME NEW c, DestCheck(c) PROVE AskedInv' /\ Creates
  <2>1. CASE UNCHANGED dest
    BY <1>4, <2>1, SameAsked DEF DestCheck
  <2>2. CASE dest' = [dest EXCEPT !.check = c.check]
    <3>1. /\ IsPicker(dest') /\ (dest'.creating <=> dest.creating)
          /\ dest'.result = dest.result /\ Candidate(dest') = Candidate(dest)
      BY <2>2, SameCandidate DEF AskedInv
    <3>2. Candidate(dest)' = Candidate(dest') /\ IsPicker(dest)'
      BY <3>1 DEF Candidate, OnField, IsPicker
    <3>. QED  BY <1>4, <3>1, <3>2 DEF AskedInv, Creates, DestCheck
  <2>. QED  BY <1>4, <2>1, <2>2 DEF DestCheck
<1>5. ASSUME NEW k \in DOMAIN adds, NEW a, adds' = [adds EXCEPT ![k] = a], UNCHANGED <<dest, asked>>
      PROVE  AskedInv' /\ Creates
  <2>1. Held(adds') /\ DOMAIN adds' = DOMAIN adds
    BY <1>5, Changed DEF AskedInv
  <2>. QED  BY <1>5, <2>1 DEF AskedInv, Held, IsPicker, Candidate, OnField, Creates
<1>6. ASSUME NEW k \in DOMAIN adds, RunAdd(k) \/ AddResult(k) PROVE AskedInv' /\ Creates
  <2>1. \E at : adds' = [adds EXCEPT ![k].at = at]
    BY <1>6 DEF RunAdd, AddResult
  <2>2. PICK at : adds' = [adds EXCEPT ![k] = [adds[k] EXCEPT !.at = at]]
    BY <2>1
  <2>. QED  BY <1>5, <1>6, <2>2 DEF RunAdd, AddResult
<1>7. ASSUME NEW x, OpenDetails(x) \/ CancelResolve \/ RunCheck(x) \/ DiskChanges PROVE AskedInv' /\ Creates
  BY <1>7, SameAsked DEF OpenDetails, CancelResolve, RunCheck, DiskChanges
<1>. QED  BY <1>2, <1>3, <1>4, <1>6, <1>7, KeyKeepsAsked DEF AddStep, AddMessage

----------------------------------------------------------------------------
(* The forms: what editing one leaves alone. *)

\* g is f with other texts, cursor or prompt.
SameForm(f, g) ==
    /\ IsForm(g) /\ g.n = f.n
    /\ g.importing = f.importing /\ g.importGen = f.importGen /\ g.testing = f.testing /\ g.testGen = f.testGen

LEMMA SameFormTrans == ASSUME NEW f, NEW g, NEW h, SameForm(f, g), SameForm(g, h) PROVE SameForm(f, h)
  BY DEF SameForm

LEMMA FieldEdit ==
    ASSUME NEW f, IsForm(f), NEW v, NEW g,
           \/ g = [f EXCEPT !.asking = v] \/ g = [f EXCEPT !.dirty = v] \/ g = [f EXCEPT !.at = v]
           \/ g = [f EXCEPT !.typ = v] \/ g = [f EXCEPT !.name = v] \/ g = [f EXCEPT !.url = v]
           \/ g = [f EXCEPT !.definition = v] \/ g = [f EXCEPT !.import = v] \/ g = [f EXCEPT !.saveAfter = v]
           \/ g = [f EXCEPT !.completeGen = v] \/ g = [f EXCEPT !.editing = v]
    PROVE  SameForm(f, g)
<1>1. CASE g = [f EXCEPT !.asking = v]
  BY <1>1 DEF SameForm, IsForm
<1>2. CASE g = [f EXCEPT !.dirty = v]
  BY <1>2 DEF SameForm, IsForm
<1>3. CASE g = [f EXCEPT !.at = v]
  BY <1>3 DEF SameForm, IsForm
<1>4. CASE g = [f EXCEPT !.typ = v]
  BY <1>4 DEF SameForm, IsForm
<1>5. CASE g = [f EXCEPT !.name = v]
  BY <1>5 DEF SameForm, IsForm
<1>6. CASE g = [f EXCEPT !.url = v]
  BY <1>6 DEF SameForm, IsForm
<1>7. CASE g = [f EXCEPT !.definition = v]
  BY <1>7 DEF SameForm, IsForm
<1>8. CASE g = [f EXCEPT !.import = v]
  BY <1>8 DEF SameForm, IsForm
<1>9. CASE g = [f EXCEPT !.saveAfter = v]
  BY <1>9 DEF SameForm, IsForm
<1>10. CASE g = [f EXCEPT !.completeGen = v]
  BY <1>10 DEF SameForm, IsForm
<1>11. CASE g = [f EXCEPT !.editing = v]
  BY <1>11 DEF SameForm, IsForm
<1>. QED  BY <1>1, <1>2, <1>3, <1>4, <1>5, <1>6, <1>7, <1>8, <1>9, <1>10, <1>11

LEMMA ClampEdit == ASSUME NEW f, IsForm(f), NEW g, g = ClampField(f) PROVE SameForm(f, g)
<1>1. CASE g = f
  BY <1>1 DEF SameForm
<1>2. CASE g = [f EXCEPT !.at = Len(Fields(f))]
  BY <1>2, FieldEdit
<1>. QED  BY <1>1, <1>2 DEF ClampField

LEMMA MoveEdit == ASSUME NEW f, IsForm(f), NEW g, g = AdvanceField(f) \/ g = RetreatField(f) PROVE SameForm(f, g)
<1>1. PICK h : h = ClampField(f)
  OBVIOUS
<1>2. SameForm(f, h) /\ IsForm(h)
  BY <1>1, ClampEdit DEF SameForm
<1>3. PICK v : g = [h EXCEPT !.at = v]
  <2>1. CASE g = AdvanceField(f)
    BY <1>1, <2>1 DEF AdvanceField
  <2>2. CASE g = RetreatField(f)
    BY <1>1, <2>2 DEF RetreatField
  <2>. QED  BY <2>1, <2>2
<1>4. SameForm(h, g)
  BY <1>2, <1>3, FieldEdit
<1>. QED  BY <1>2, <1>4, SameFormTrans

LEMMA TypeEdit == ASSUME NEW f, IsForm(f), NEW g, g = OtherType(f) PROVE SameForm(f, g)
<1>1. PICK v : v = IF f.typ = "torznab" THEN "scraper" ELSE "torznab"
  OBVIOUS
<1>2. PICK h : h = [f EXCEPT !.typ = v]
  OBVIOUS
<1>3. PICK k : k = [h EXCEPT !.dirty = TRUE]
  OBVIOUS
<1>4. g = ClampField(k)
  BY <1>1, <1>2, <1>3 DEF OtherType
<1>5. SameForm(f, h) /\ IsForm(h)
  BY <1>2, FieldEdit DEF SameForm
<1>6. SameForm(h, k) /\ IsForm(k)
  BY <1>3, <1>5, FieldEdit DEF SameForm
<1>7. SameForm(k, g)
  BY <1>4, <1>6, ClampEdit
<1>. QED  BY <1>5, <1>6, <1>7, SameFormTrans

LEMMA TextEdit == ASSUME NEW f, IsForm(f), NEW h \in Texts(f), NEW g, g = [h EXCEPT !.dirty = TRUE] PROVE SameForm(f, g)
<1>1. \/ h = f
      \/ \E v : \/ h = [f EXCEPT !.name = v] \/ h = [f EXCEPT !.url = v]
                \/ h = [f EXCEPT !.definition = v] \/ h = [f EXCEPT !.import = v]
  <2>1. CASE Current(f) = "name"
    BY <2>1 DEF Texts
  <2>2. CASE Current(f) = "url"
    BY <2>2 DEF Texts
  <2>3. CASE Current(f) = "definition"
    BY <2>3 DEF Texts
  <2>4. CASE Current(f) = "import"
    BY <2>4 DEF Texts
  <2>5. CASE Current(f) \notin {"name", "url", "definition", "import"}
    BY <2>5 DEF Texts
  <2>. QED  BY <2>1, <2>2, <2>3, <2>4, <2>5
<1>2. SameForm(f, h) /\ IsForm(h)
  BY <1>1, FieldEdit DEF SameForm
<1>3. SameForm(h, g)
  BY <1>2, FieldEdit
<1>. QED  BY <1>2, <1>3, SameFormTrans

\* A form that has just been opened waits for nothing.
NewForm(f) == IsForm(f) /\ f.importGen = 0 /\ ~f.importing /\ ~f.testing

LEMMA OpenedForm ==
    ASSUME NEW f, f = Blank \/ f = Saved("scraper"), NEW n, NEW g, g = [f EXCEPT !.n = n]
    PROVE  NewForm(g)
<1>1. IsForm(Blank) /\ Blank.importGen = 0 /\ ~Blank.importing /\ ~Blank.testing
  BY DEF Blank, IsForm
<1>2. IsForm(f) /\ f.importGen = 0 /\ ~f.importing /\ ~f.testing
  <2>1. PICK b : b = [Blank EXCEPT !.editing = TRUE]
    OBVIOUS
  <2>2. PICK c : c = [b EXCEPT !.typ = "scraper"]
    OBVIOUS
  <2>3. PICK d : d = [c EXCEPT !.name = "good"]
    OBVIOUS
  <2>4. PICK e : e = [d EXCEPT !.url = "good"]
    OBVIOUS
  <2>5. Saved("scraper") = [e EXCEPT !.definition = "good"]
    BY <2>1, <2>2, <2>3, <2>4 DEF Saved
  <2>6. SameForm(Blank, b)
    BY <1>1, <2>1, FieldEdit
  <2>7. SameForm(b, c)
    BY <2>2, <2>6, FieldEdit DEF SameForm
  <2>8. SameForm(c, d)
    BY <2>3, <2>7, FieldEdit DEF SameForm
  <2>9. SameForm(d, e)
    BY <2>4, <2>8, FieldEdit DEF SameForm
  <2>10. SameForm(e, Saved("scraper"))
    BY <2>5, <2>9, FieldEdit DEF SameForm
  <2>. QED  BY <1>1, <2>6, <2>7, <2>8, <2>9, <2>10 DEF SameForm
<1>3. g.importing = f.importing /\ g.importGen = f.importGen /\ g.testing = f.testing /\ IsForm(g)
  BY <1>2 DEF IsForm
<1>. QED  BY <1>2, <1>3 DEF NewForm

\* x is w with other texts, items or phase.
SameWizard(w, x) ==
    IsWizard(x) /\ x.fetching = w.fetching /\ x.fetchGen = w.fetchGen /\ x.importing = w.importing

LEMMA WizardEdit ==
    ASSUME NEW w, IsWizard(w), NEW v, NEW x,
           x = [w EXCEPT !.url = v] \/ x = [w EXCEPT !.key = v] \/ x = [w EXCEPT !.phase = v]
           \/ x = [w EXCEPT !.chosen = v] \/ x = [w EXCEPT !.items = v]
    PROVE  SameWizard(w, x)
<1>1. CASE x = [w EXCEPT !.url = v]
  BY <1>1 DEF SameWizard, IsWizard
<1>2. CASE x = [w EXCEPT !.key = v]
  BY <1>2 DEF SameWizard, IsWizard
<1>3. CASE x = [w EXCEPT !.phase = v]
  BY <1>3 DEF SameWizard, IsWizard
<1>4. CASE x = [w EXCEPT !.chosen = v]
  BY <1>4 DEF SameWizard, IsWizard
<1>5. CASE x = [w EXCEPT !.items = v]
  BY <1>5 DEF SameWizard, IsWizard
<1>. QED  BY <1>1, <1>2, <1>3, <1>4, <1>5

LEMMA OpenedWizard == ASSUME NEW n, NEW w, w = NewWizard(n) PROVE IsWizard(w) /\ ~w.fetching /\ ~w.importing
  BY DEF NewWizard, IsWizard

\* q is p but for its list of destinations and its prompts.
SamePrefs(p, q) == IsPrefs(q) /\ q.dir = p.dir /\ q.margin = p.margin /\ q.check = p.check

LEMMA PrefsEdit ==
    ASSUME NEW p, IsPrefs(p), NEW v, NEW q,
           \/ q = [p EXCEPT !.asking = v] \/ q = [p EXCEPT !.removing = v]
           \/ q = [p EXCEPT !.dests = v] \/ q = [p EXCEPT !.dirty = v]
    PROVE  SamePrefs(p, q)
<1>1. CASE q = [p EXCEPT !.asking = v]
  BY <1>1 DEF SamePrefs, IsPrefs
<1>2. CASE q = [p EXCEPT !.removing = v]
  BY <1>2 DEF SamePrefs, IsPrefs
<1>3. CASE q = [p EXCEPT !.dests = v]
  BY <1>3 DEF SamePrefs, IsPrefs
<1>4. CASE q = [p EXCEPT !.dirty = v]
  BY <1>4 DEF SamePrefs, IsPrefs
<1>. QED  BY <1>1, <1>2, <1>3, <1>4

----------------------------------------------------------------------------
(* The forms: what the other steps leave of each part. *)

\* Only commands of that kind are given, changed or answered.
MovesOnly(kind) ==
    /\ \A j : j.kind # kind => (j \in jobs <=> j \in jobs')
    /\ \A j \in jobs' : j \in jobs \/ IsJob(j)

LEMMA GiveIs ==
    ASSUME NEW kind, NEW gen, NEW n, NEW what, Give(kind, gen, n, what)
    PROVE  /\ MovesOnly(kind)
           /\ \E j : /\ j.kind = kind /\ j.gen = gen /\ j.form = n /\ j.what = what /\ IsJob(j)
                     /\ jobs' = jobs \cup {j}
<1>1. PICK j : j = [id |-> given', kind |-> kind, gen |-> gen, form |-> n, what |-> what]
  OBVIOUS
<1>2. j.kind = kind /\ j.gen = gen /\ j.form = n /\ j.what = what /\ IsJob(j) /\ jobs' = jobs \cup {j}
  BY <1>1 DEF Give, IsJob
<1>3. MovesOnly(kind)
  BY <1>2 DEF MovesOnly
<1>. QED  BY <1>2, <1>3

LEMMA AnsweredIs == ASSUME NEW j \in jobs, Answered(j) PROVE MovesOnly(j.kind)
  BY DEF MovesOnly, Answered

LEMMA QuietlyIs == ASSUME Quietly PROVE MovesOnly("none")
  BY DEF MovesOnly, Quietly

FormKept == form' = Nothing \/ form' = form \/ NewForm(form') \/ (form # Nothing /\ SameForm(form, form'))
WizardKept ==
    \/ wizard' = Nothing \/ wizard' = wizard \/ (wizard # Nothing /\ SameWizard(wizard, wizard'))
    \/ IsWizard(wizard') /\ ~wizard'.fetching /\ ~wizard'.importing
PrefsKept == prefs' = Nothing \/ prefs' = prefs \/ (prefs # Nothing /\ SamePrefs(prefs, prefs'))

\* The bodies of ImportsHome, SavedAsChecked and CancelledChangesNothing.
ImportedHome ==
    \A j \in jobs \ jobs' : j.kind = "import" /\ form' # form =>
        /\ form.n = j.form
        /\ form.asking => \A k \in jobs' \ jobs : k.kind # "save"
SavedChecked ==
    \A j \in jobs' \ jobs : j.kind = "prefs" => prefs.check = [dir |-> j.what.dir, margin |-> j.what.margin, ok |-> TRUE]
FoundCounts == probe'.found # probe.found => probe'.found.what # "cancelled"

FormStepKeeps == FormsInv' /\ ImportedHome /\ SavedChecked /\ FoundCounts

LEMMA OthersStay ==
    ASSUME FormsInv, NEW kind, MovesOnly(kind), kind # "import", importSeq' = importSeq
    PROVE  /\ JobsInv' /\ ImportedHome
           /\ kind # "prefs" => SavedChecked
           /\ kind # "test" /\ FormKept => FormInv'
           /\ kind # "fetch" /\ kind # "bulk" /\ WizardKept => WizardInv'
           /\ kind # "dircheck" /\ PrefsKept => PrefsInv'
           /\ kind # "probe" /\ UNCHANGED probe => ProbeInv' /\ FoundCounts
<1>1. JobsInv' /\ ImportedHome
  BY DEF FormsInv, JobsInv, MovesOnly, ImportedHome
<1>2. kind # "prefs" => SavedChecked
  BY DEF MovesOnly, SavedChecked
<1>3. ASSUME kind # "test", FormKept PROVE FormInv'
  <2>1. \A j : j.kind \in {"import", "test"} => (j \in jobs <=> j \in jobs')
    BY <1>3 DEF MovesOnly
  <2>2. CASE form' = Nothing
    BY <2>2 DEF FormInv
  <2>3. CASE form' = form
    BY <2>1, <2>3 DEF FormsInv, FormInv, Waited, IsForm
  <2>4. CASE NewForm(form')
    BY <2>1, <2>4 DEF FormsInv, FormInv, JobsInv, NewForm, Waited, IsForm
  <2>5. CASE form # Nothing /\ SameForm(form, form')
    BY <2>1, <2>5 DEF FormsInv, FormInv, SameForm, Waited, IsForm
  <2>. QED  BY <1>3, <2>2, <2>3, <2>4, <2>5 DEF FormKept
<1>4. ASSUME kind # "fetch", kind # "bulk", WizardKept PROVE WizardInv'
  <2>1. \A j : j.kind \in {"fetch", "bulk"} => (j \in jobs <=> j \in jobs')
    BY <1>4 DEF MovesOnly
  <2>. QED  BY <1>4, <2>1 DEF FormsInv, WizardInv, WizardKept, SameWizard, Waited, IsWizard
<1>5. ASSUME kind # "dircheck", PrefsKept PROVE PrefsInv'
  <2>1. \A j : j.kind = "dircheck" => (j \in jobs <=> j \in jobs')
    BY <1>5 DEF MovesOnly
  <2>2. CASE prefs' = Nothing
    BY <2>2 DEF PrefsInv
  <2>3. CASE prefs' = prefs
    BY <2>1, <2>3 DEF FormsInv, PrefsInv, IsPrefs, IsCheck
  <2>4. CASE prefs # Nothing /\ SamePrefs(prefs, prefs')
    BY <2>1, <2>4 DEF FormsInv, PrefsInv, SamePrefs, IsPrefs, IsCheck
  <2>. QED  BY <1>5, <2>2, <2>3, <2>4 DEF PrefsKept
<1>6. ASSUME kind # "probe", UNCHANGED probe PROVE ProbeInv' /\ FoundCounts
  <2>1. \A j : j.kind = "probe" => (j \in jobs <=> j \in jobs')
    BY <1>6 DEF MovesOnly
  <2>. QED  BY <1>6, <2>1 DEF FormsInv, ProbeInv, Waited, FoundCounts
<1>. QED  BY <1>1, <1>2, <1>3, <1>4, <1>5, <1>6

----------------------------------------------------------------------------
(* The source form. *)

\* A step that gives no command and leaves the probe alone.
LEMMA QuietStep ==
    ASSUME FormsInv, Quietly, UNCHANGED <<probe, importSeq>>, FormKept, WizardKept, PrefsKept PROVE FormStepKeeps
  BY OthersStay, QuietlyIs DEF FormStepKeeps, FormsInv

LEMMA FormedKeeps ==
    ASSUME FormsInv, NEW g, Formed(g), g = Nothing \/ (form # Nothing /\ SameForm(form, g)) PROVE FormStepKeeps
  BY QuietStep DEF Formed, FormKept, WizardKept, PrefsKept

LEMMA OpenFormKeeps ==
    ASSUME FormsInv, NEW f, f = Blank \/ f = Saved("scraper"), OpenForm(f) PROVE FormStepKeeps
<1>1. PICK g : g = [f EXCEPT !.n = opened']
  OBVIOUS
<1>2. NewForm(g) /\ form' = g
  BY <1>1, OpenedForm DEF OpenForm
<1>. QED  BY <1>2, QuietStep DEF OpenForm, FormKept, WizardKept, PrefsKept

\* An import is given the next number.
LEMMA ImportKeeps ==
    ASSUME FormsInv, form # Nothing, NEW after, StartImport(form, after), UNCHANGED <<wizard, prefs, probe>>
    PROVE  FormStepKeeps
<1>1. importSeq' = importSeq + 1 /\ importSeq \in Nat
  BY DEF StartImport, FormsInv, JobsInv
<1>2. PICK j : j.kind = "import" /\ j.gen = importSeq' /\ j.form = form.n /\ IsJob(j) /\ jobs' = jobs \cup {j}
  BY GiveIs DEF StartImport
<1>3. MovesOnly("import")
  BY GiveIs DEF StartImport
<1>4. JobsInv'
  BY <1>1, <1>2 DEF FormsInv, JobsInv
<1>5. IsForm(form)
  BY DEF FormsInv, FormInv
<1>6. PICK a : a = [form EXCEPT !.importing = TRUE]
  OBVIOUS
<1>7. PICK v : v = (a.saveAfter \/ after)
  OBVIOUS
<1>8. PICK b : b = [a EXCEPT !.saveAfter = v]
  OBVIOUS
<1>9. form' = [b EXCEPT !.importGen = importSeq']
  BY <1>5, <1>6, <1>7, <1>8 DEF StartImport, IsForm
<1>10. IsForm(a) /\ a.n = form.n /\ a.testing = form.testing /\ a.testGen = form.testGen
  BY <1>5, <1>6 DEF IsForm
<1>11. SameForm(a, b)
  BY <1>8, <1>10, FieldEdit
<1>12. /\ IsForm(form') /\ form'.n = form.n /\ form'.importGen = importSeq'
       /\ form'.testing = form.testing /\ form'.testGen = form.testGen
  BY <1>9, <1>10, <1>11 DEF SameForm, IsForm
<1>13. FormInv'
  BY <1>1, <1>2, <1>12 DEF FormsInv, JobsInv, FormInv, Waited
<1>14. WizardInv' /\ PrefsInv' /\ ProbeInv'
  BY <1>2 DEF FormsInv, WizardInv, PrefsInv, ProbeInv, Waited
<1>15. ImportedHome /\ SavedChecked /\ FoundCounts
  BY <1>2 DEF ImportedHome, SavedChecked, FoundCounts
<1>. QED  BY <1>4, <1>13, <1>14, <1>15 DEF FormStepKeeps, FormsInv

LEMMA TestKeeps == ASSUME FormsInv, form # Nothing, TestForm(form) PROVE FormStepKeeps
<1>1. CASE UNCHANGED form /\ Quietly
  BY <1>1, QuietStep DEF TestForm, FormKept, WizardKept, PrefsKept
<1>2. CASE Give("test", form.testGen + 1, form.n, Nothing) /\ form' = [form EXCEPT !.testing = TRUE, !.testGen = @ + 1]
  <2>1. IsForm(form)
    BY DEF FormsInv, FormInv
  <2>2. PICK a : a = [form EXCEPT !.testing = TRUE]
    OBVIOUS
  <2>3. form' = [a EXCEPT !.testGen = form.testGen + 1]
    BY <1>2, <2>1, <2>2 DEF IsForm
  <2>4. IsForm(a) /\ a.n = form.n /\ a.importing = form.importing /\ a.importGen = form.importGen /\ a.asking = form.asking
    BY <2>1, <2>2 DEF IsForm
  <2>5. /\ IsForm(form') /\ form'.n = form.n /\ form'.importing = form.importing /\ form'.importGen = form.importGen
        /\ form'.testGen = form.testGen + 1
    BY <2>3, <2>4 DEF IsForm
  <2>6. PICK j : j.kind = "test" /\ j.gen = form.testGen + 1 /\ jobs' = jobs \cup {j}
    BY <1>2, GiveIs
  <2>7. FormInv'
    BY <2>5, <2>6 DEF TestForm, FormsInv, FormInv, Waited
  <2>8. MovesOnly("test") /\ UNCHANGED <<wizard, prefs, probe, importSeq>>
    BY <1>2, GiveIs DEF TestForm
  <2>. QED  BY <2>7, <2>8, OthersStay DEF FormStepKeeps, FormsInv, WizardKept, PrefsKept
<1>. QED  BY <1>1, <1>2 DEF TestForm

LEMMA SaveKeeps == ASSUME FormsInv, form # Nothing, SaveForm(form) PROVE FormStepKeeps
<1>1. CASE StartImport(form, TRUE)
  BY <1>1, ImportKeeps DEF SaveForm
<1>2. CASE UNCHANGED <<importSeq, form>> /\ Quietly
  BY <1>2, QuietStep DEF SaveForm, FormKept, WizardKept, PrefsKept
<1>3. CASE UNCHANGED <<importSeq, form>> /\ Give("save", 0, form.n, Nothing)
  <2>1. MovesOnly("save") /\ UNCHANGED <<wizard, prefs, probe, importSeq, form>>
    BY <1>3, GiveIs DEF SaveForm
  <2>. QED  BY <2>1, OthersStay DEF FormStepKeeps, FormsInv, FormKept, WizardKept, PrefsKept
<1>. QED  BY <1>1, <1>2, <1>3 DEF SaveForm

LEMMA CompletionKeeps == ASSUME FormsInv, form # Nothing, StartCompletion(form) PROVE FormStepKeeps
<1>1. MovesOnly("complete") /\ UNCHANGED <<wizard, prefs, probe, importSeq>>
  BY GiveIs DEF StartCompletion
<1>2. PICK v : v = form.completeGen + 1
  OBVIOUS
<1>3. IsForm(form) /\ form' = [form EXCEPT !.completeGen = v]
  BY <1>2 DEF StartCompletion, FormsInv, FormInv
<1>4. SameForm(form, form')
  BY <1>3, FieldEdit
<1>. QED  BY <1>1, <1>4, OthersStay DEF FormStepKeeps, FormsInv, FormKept, WizardKept, PrefsKept

LEMMA OpenWizardKeeps == ASSUME FormsInv, OpenWizard PROVE FormStepKeeps
  BY QuietStep, OpenedWizard DEF OpenWizard, FormKept, WizardKept, PrefsKept

LEMMA FormKeyKeeps == ASSUME FormsInv, form # Nothing, NEW key, FormKey(key) PROVE FormStepKeeps
<1>1. IsForm(form)
  BY DEF FormsInv, FormInv
<1>2. ASSUME Formed(Nothing) PROVE FormStepKeeps
  BY <1>2, FormedKeeps
<1>3. ASSUME NEW v, Formed([form EXCEPT !.asking = v]) PROVE FormStepKeeps
  <2>1. PICK g : g = [form EXCEPT !.asking = v]
    OBVIOUS
  <2>. QED  BY <1>1, <1>3, <2>1, FieldEdit, FormedKeeps
<1>4. ASSUME Formed(AdvanceField(form)) \/ Formed(RetreatField(form)) PROVE FormStepKeeps
  BY <1>1, <1>4, MoveEdit, FormedKeeps
<1>5. ASSUME Formed(OtherType(form)) PROVE FormStepKeeps
  BY <1>1, <1>5, TypeEdit, FormedKeeps
<1>6. ASSUME NEW h \in Texts(form), Formed([h EXCEPT !.dirty = TRUE]) PROVE FormStepKeeps
  <2>1. PICK g : g = [h EXCEPT !.dirty = TRUE]
    OBVIOUS
  <2>. QED  BY <1>1, <1>6, <2>1, TextEdit, FormedKeeps
<1>7. ASSUME StartImport(form, FALSE), UNCHANGED <<wizard, prefs, probe, opened>> PROVE FormStepKeeps
  BY <1>7, ImportKeeps
<1>8. CASE form.asking
  BY <1>2, <1>3, <1>8 DEF FormKey
<1>9. CASE ~form.asking
  BY <1>2, <1>3, <1>4, <1>5, <1>6, <1>7, <1>9, SaveKeeps, TestKeeps, CompletionKeeps, OpenWizardKeeps DEF FormKey
<1>. QED  BY <1>8, <1>9

----------------------------------------------------------------------------
(* Its answers. *)

\* A definition that was imported is filled in.
LEMMA ImportEdit ==
    ASSUME NEW f, IsForm(f), NEW g, g = ImportFailed(f) \/ g = Imported(f)
    PROVE  /\ IsForm(g) /\ g.n = f.n /\ ~g.importing /\ g.importGen = f.importGen
           /\ g.testing = f.testing /\ g.testGen = f.testGen
<1>1. PICK a : a = [f EXCEPT !.importing = FALSE]
  OBVIOUS
<1>2. IsForm(a) /\ a.n = f.n /\ ~a.importing /\ a.importGen = f.importGen /\ a.testing = f.testing /\ a.testGen = f.testGen
  BY <1>1 DEF IsForm
<1>3. PICK b : b = [a EXCEPT !.saveAfter = FALSE]
  OBVIOUS
<1>4. SameForm(a, b)
  BY <1>2, <1>3, FieldEdit
<1>5. CASE g = ImportFailed(f)
  BY <1>1, <1>2, <1>3, <1>4, <1>5 DEF ImportFailed, SameForm
<1>6. CASE g = Imported(f)
  <2>1. PICK c : c = [b EXCEPT !.definition = "good"]
    OBVIOUS
  <2>2. PICK d : d = [c EXCEPT !.name = "good"]
    OBVIOUS
  <2>3. PICK u : u = IF d.url = "" THEN "good" ELSE d.url
    OBVIOUS
  <2>4. PICK e : e = [d EXCEPT !.url = u]
    OBVIOUS
  <2>5. PICK h : h = [e EXCEPT !.import = ""]
    OBVIOUS
  <2>6. g = [h EXCEPT !.dirty = TRUE]
    BY <1>1, <1>3, <1>6, <2>1, <2>2, <2>3, <2>4, <2>5 DEF Imported
  <2>7. SameForm(b, c)
    BY <1>4, <2>1, FieldEdit DEF SameForm
  <2>8. SameForm(c, d)
    BY <2>2, <2>7, FieldEdit DEF SameForm
  <2>9. SameForm(d, e)
    BY <2>4, <2>8, FieldEdit DEF SameForm
  <2>10. SameForm(e, h)
    <3>1. IsForm(e)
      BY <2>9 DEF SameForm
    <3>. QED  BY <2>5, <3>1, FieldEdit
  <2>11. SameForm(h, g)
    BY <2>6, <2>10, FieldEdit DEF SameForm
  <2>. QED  BY <1>2, <1>4, <2>7, <2>8, <2>9, <2>10, <2>11 DEF SameForm
<1>. QED  BY <1>5, <1>6

LEMMA ImportAnswerKeeps == ASSUME FormsInv, NEW j \in jobs, NEW ok, ImportAnswer(j, ok) PROVE FormStepKeeps
<1>. USE DEF FormsInv
<1>1. j.kind = "import" /\ UNCHANGED <<wizard, prefs, probe, importSeq>>
  BY DEF ImportAnswer
<1>2. \E new : /\ jobs' = (jobs \ {j}) \cup new /\ \A k \in new : k.kind = "save" /\ IsJob(k)
               /\ \/ new = {} /\ form' = form /\ (form = Nothing \/ j.gen # form.importGen)
                  \/ /\ form # Nothing /\ j.gen = form.importGen /\ (form' = ImportFailed(form) \/ form' = Imported(form))
                     /\ form.asking => new = {}
  <2>1. CASE Answered(j) /\ UNCHANGED form /\ (form = Nothing \/ j.gen # form.importGen)
    <3>1. jobs' = (jobs \ {j}) \cup {}
      BY <2>1 DEF Answered
    <3>. QED  BY <2>1, <3>1
  <2>2. CASE /\ Answered(j) /\ form # Nothing /\ j.gen = form.importGen
             /\ form' = ImportFailed(form) \/ form' = Imported(form)
    <3>1. jobs' = (jobs \ {j}) \cup {}
      BY <2>2 DEF Answered
    <3>. QED  BY <2>2, <3>1
  <2>3. CASE /\ form # Nothing /\ j.gen = form.importGen /\ form' = Imported(form) /\ SavesAfter(form)
             /\ jobs' = (jobs \ {j}) \cup
                  {[id |-> given', kind |-> "save", gen |-> 0, form |-> Imported(form).n, what |-> Nothing]}
    <3>1. PICK k : k = [id |-> given', kind |-> "save", gen |-> 0, form |-> Imported(form).n, what |-> Nothing]
      OBVIOUS
    <3>2. k.kind = "save" /\ IsJob(k)
      BY <3>1 DEF IsJob
    <3>3. jobs' = (jobs \ {j}) \cup {k}
      BY <2>3, <3>1
    <3>. QED  BY <2>3, <3>2, <3>3 DEF SavesAfter
  <2>. QED  BY <2>1, <2>2, <2>3 DEF ImportAnswer
<1>3. PICK new : /\ jobs' = (jobs \ {j}) \cup new /\ \A k \in new : k.kind = "save" /\ IsJob(k)
                 /\ \/ new = {} /\ form' = form /\ (form = Nothing \/ j.gen # form.importGen)
                    \/ /\ form # Nothing /\ j.gen = form.importGen /\ (form' = ImportFailed(form) \/ form' = Imported(form))
                       /\ form.asking => new = {}
  BY <1>2
<1>4. \A k : k.kind \notin {"import", "save"} => (k \in jobs <=> k \in jobs')
  BY <1>1, <1>3
<1>5. JobsInv'
  BY <1>1, <1>3 DEF JobsInv
<1>6. FormInv' /\ ImportedHome
  <2>1. CASE form' = form /\ new = {} /\ (form = Nothing \/ j.gen # form.importGen)
    BY <1>1, <1>3, <2>1 DEF FormInv, Waited, ImportedHome, IsForm
  <2>2. CASE /\ form # Nothing /\ j.gen = form.importGen /\ (form' = ImportFailed(form) \/ form' = Imported(form))
             /\ form.asking => new = {}
    <3>1. /\ IsForm(form') /\ form'.n = form.n /\ ~form'.importing /\ form'.importGen = form.importGen
          /\ form'.testing = form.testing /\ form'.testGen = form.testGen
      BY <2>2, ImportEdit DEF FormInv
    <3>2. FormInv'
      BY <1>1, <1>3, <2>2, <3>1 DEF FormInv, Waited
    <3>3. form.n = j.form
      BY <1>1, <2>2 DEF FormInv
    <3>. QED  BY <1>3, <2>2, <3>2, <3>3 DEF ImportedHome
  <2>. QED  BY <1>3, <2>1, <2>2
<1>7. WizardInv' /\ PrefsInv'
  BY <1>1, <1>4 DEF WizardInv, PrefsInv, Waited
<1>8. ProbeInv' /\ SavedChecked /\ FoundCounts
  BY <1>1, <1>3, <1>4 DEF ProbeInv, Waited, SavedChecked, FoundCounts
<1>. QED  BY <1>5, <1>6, <1>7, <1>8 DEF FormStepKeeps

LEMMA TestAnswerKeeps == ASSUME FormsInv, NEW j \in jobs, NEW ok, TestAnswer(j, ok) PROVE FormStepKeeps
<1>1. MovesOnly("test") /\ jobs' = jobs \ {j} /\ j.kind = "test" /\ UNCHANGED <<wizard, prefs, probe, importSeq>>
  BY AnsweredIs DEF TestAnswer, Answered
<1>2. FormInv'
  <2>1. CASE form # Nothing /\ j.gen = form.testGen
    <3>1. IsForm(form) /\ form' = [form EXCEPT !.testing = FALSE]
      BY <2>1 DEF TestAnswer, FormsInv, FormInv
    <3>2. /\ IsForm(form') /\ ~form'.testing /\ form'.n = form.n /\ form'.importing = form.importing
          /\ form'.importGen = form.importGen
      BY <3>1 DEF IsForm
    <3>. QED  BY <1>1, <2>1, <3>2 DEF FormsInv, FormInv, Waited
  <2>2. CASE ~(form # Nothing /\ j.gen = form.testGen)
    <3>1. form' = form
      BY <2>2 DEF TestAnswer
    <3>. QED  BY <1>1, <2>2, <3>1 DEF FormsInv, FormInv, Waited, IsForm
  <2>. QED  BY <2>1, <2>2
<1>. QED  BY <1>1, <1>2, OthersStay DEF FormStepKeeps, FormsInv, WizardKept, PrefsKept

LEMMA CompleteAnswerKeeps == ASSUME FormsInv, NEW j \in jobs, NEW ok, CompleteAnswer(j, ok) PROVE FormStepKeeps
<1>1. MovesOnly("complete") /\ UNCHANGED <<wizard, prefs, probe, importSeq>>
  BY AnsweredIs DEF CompleteAnswer
<1>2. form' = form \/ (form # Nothing /\ (form' = [form EXCEPT !.dirty = TRUE] \/ form' = AdvanceField(form)))
  BY DEF CompleteAnswer
<1>3. FormKept
  BY <1>2, FieldEdit, MoveEdit DEF FormKept, FormsInv, FormInv
<1>. QED  BY <1>1, <1>3, OthersStay DEF FormStepKeeps, FormsInv, WizardKept, PrefsKept

LEMMA SaveAnswerKeeps == ASSUME FormsInv, NEW j \in jobs, NEW ok, SaveAnswer(j, ok) PROVE FormStepKeeps
<1>1. MovesOnly("save") /\ UNCHANGED <<wizard, prefs, probe, importSeq>> /\ FormKept
  BY AnsweredIs DEF SaveAnswer, FormKept
<1>. QED  BY <1>1, OthersStay DEF FormStepKeeps, FormsInv, WizardKept, PrefsKept

----------------------------------------------------------------------------
(* The aggregator wizard. *)

LEMMA WizardedKeeps ==
    ASSUME FormsInv, NEW x, Wizarded(x), x = Nothing \/ (wizard # Nothing /\ SameWizard(wizard, x)) PROVE FormStepKeeps
  BY QuietStep DEF Wizarded, FormKept, WizardKept, PrefsKept

LEMMA FetchKeeps ==
    ASSUME FormsInv, wizard # Nothing, wizard' = [wizard EXCEPT !.fetching = TRUE, !.fetchGen = @ + 1],
           Give("fetch", wizard.fetchGen + 1, wizard.n, wizard.key), UNCHANGED <<form, prefs, probe, importSeq>>
    PROVE  FormStepKeeps
<1>1. IsWizard(wizard)
  BY DEF FormsInv, WizardInv
<1>2. PICK a : a = [wizard EXCEPT !.fetching = TRUE]
  OBVIOUS
<1>3. wizard' = [a EXCEPT !.fetchGen = wizard.fetchGen + 1]
  BY <1>1, <1>2 DEF IsWizard
<1>4. IsWizard(a) /\ a.importing = wizard.importing
  BY <1>1, <1>2 DEF IsWizard
<1>5. IsWizard(wizard') /\ wizard'.importing = wizard.importing /\ wizard'.fetchGen = wizard.fetchGen + 1
  BY <1>3, <1>4 DEF IsWizard
<1>6. PICK j : j.kind = "fetch" /\ j.gen = wizard.fetchGen + 1 /\ jobs' = jobs \cup {j}
  BY GiveIs
<1>7. WizardInv'
  BY <1>5, <1>6 DEF FormsInv, WizardInv, Waited
<1>8. MovesOnly("fetch")
  BY GiveIs
<1>. QED  BY <1>7, <1>8, OthersStay DEF FormStepKeeps, FormsInv, FormKept, PrefsKept

LEMMA BulkKeeps ==
    ASSUME FormsInv, wizard # Nothing, wizard' = [wizard EXCEPT !.importing = TRUE],
           Give("bulk", 0, wizard.n, wizard.key), UNCHANGED <<form, prefs, probe, importSeq>>
    PROVE  FormStepKeeps
<1>1. IsWizard(wizard)
  BY DEF FormsInv, WizardInv
<1>2. IsWizard(wizard') /\ wizard'.fetching = wizard.fetching /\ wizard'.fetchGen = wizard.fetchGen
  BY <1>1 DEF IsWizard
<1>3. PICK j : j.kind = "bulk" /\ j.gen = 0 /\ jobs' = jobs \cup {j}
  BY GiveIs
<1>4. WizardInv'
  BY <1>2, <1>3 DEF FormsInv, WizardInv, Waited
<1>5. MovesOnly("bulk")
  BY GiveIs
<1>. QED  BY <1>4, <1>5, OthersStay DEF FormStepKeeps, FormsInv, FormKept, PrefsKept

LEMMA WizardKeyKeeps == ASSUME FormsInv, wizard # Nothing, NEW key, WizardKey(key) PROVE FormStepKeeps
<1>1. IsWizard(wizard)
  BY DEF FormsInv, WizardInv
<1>2. ASSUME NEW v, NEW x, Wizarded(x),
             \/ x = [wizard EXCEPT !.url = v] \/ x = [wizard EXCEPT !.key = v] \/ x = [wizard EXCEPT !.phase = v]
             \/ x = [wizard EXCEPT !.chosen = v]
      PROVE  FormStepKeeps
  BY <1>1, <1>2, WizardEdit, WizardedKeeps
<1>3. ASSUME Wizarded(Nothing) PROVE FormStepKeeps
  BY <1>3, WizardedKeeps
<1>4. CASE wizard.phase = "input"
  BY <1>2, <1>3, <1>4, FetchKeeps DEF WizardKey
<1>5. CASE wizard.phase = "list"
  <2>1. ASSUME Wizarded([wizard EXCEPT !.chosen = ~@]) PROVE FormStepKeeps
    <3>1. PICK v : v = ~wizard.chosen
      OBVIOUS
    <3>2. PICK x : x = [wizard EXCEPT !.chosen = v]
      OBVIOUS
    <3>3. Wizarded(x)
      BY <2>1, <3>1, <3>2
    <3>. QED  BY <1>2, <3>2, <3>3
  <2>. QED  BY <1>2, <1>5, <2>1, BulkKeeps DEF WizardKey
<1>. QED  BY <1>4, <1>5 DEF WizardKey

LEMMA FetchAnswerKeeps == ASSUME FormsInv, NEW j \in jobs, NEW ok, FetchAnswer(j, ok) PROVE FormStepKeeps
<1>1. MovesOnly("fetch") /\ jobs' = jobs \ {j} /\ j.kind = "fetch" /\ UNCHANGED <<form, prefs, probe, importSeq>>
  BY AnsweredIs DEF FetchAnswer, Answered
<1>2. WizardInv'
  <2>1. CASE wizard = Nothing \/ j.gen # wizard.fetchGen
    <3>1. wizard' = wizard
      BY <2>1 DEF FetchAnswer
    <3>. QED  BY <1>1, <2>1, <3>1 DEF FormsInv, WizardInv, Waited, IsWizard
  <2>2. CASE wizard # Nothing /\ j.gen = wizard.fetchGen
    <3>1. IsWizard(wizard)
      BY <2>2 DEF FormsInv, WizardInv
    <3>2. PICK a : a = [wizard EXCEPT !.fetching = FALSE]
      OBVIOUS
    <3>3. IsWizard(a) /\ ~a.fetching /\ a.importing = wizard.importing
      BY <3>1, <3>2 DEF IsWizard
    <3>4. wizard' = a \/ wizard' = [a EXCEPT !.items = j.what, !.chosen = FALSE, !.phase = "list"]
      BY <2>2, <3>2 DEF FetchAnswer
    <3>5. PICK b : b = [a EXCEPT !.items = j.what]
      OBVIOUS
    <3>6. PICK c : c = [b EXCEPT !.chosen = FALSE]
      OBVIOUS
    <3>7. wizard' = a \/ wizard' = [c EXCEPT !.phase = "list"]
      BY <3>4, <3>5, <3>6
    <3>8. SameWizard(a, b)
      BY <3>3, <3>5, WizardEdit
    <3>9. SameWizard(b, c)
      BY <3>6, <3>8, WizardEdit DEF SameWizard
    <3>10. wizard' = a \/ SameWizard(c, wizard')
      BY <3>7, <3>9, WizardEdit DEF SameWizard
    <3>11. IsWizard(wizard') /\ ~wizard'.fetching /\ wizard'.importing = wizard.importing
      BY <3>3, <3>8, <3>9, <3>10 DEF SameWizard
    <3>. QED  BY <1>1, <2>2, <3>11 DEF FormsInv, WizardInv, Waited
  <2>. QED  BY <2>1, <2>2
<1>. QED  BY <1>1, <1>2, OthersStay DEF FormStepKeeps, FormsInv, FormKept, PrefsKept

LEMMA BulkAnswerKeeps == ASSUME FormsInv, NEW j \in jobs, NEW ok, BulkAnswer(j, ok) PROVE FormStepKeeps
<1>1. MovesOnly("bulk") /\ jobs' = jobs \ {j} /\ j.kind = "bulk" /\ UNCHANGED <<form, prefs, probe, importSeq>>
  BY AnsweredIs DEF BulkAnswer, Answered
<1>2. WizardInv'
  <2>1. CASE wizard' = Nothing
    BY <2>1 DEF WizardInv
  <2>2. CASE wizard # Nothing /\ wizard' = [wizard EXCEPT !.importing = FALSE]
    <3>1. IsWizard(wizard)
      BY <2>2 DEF FormsInv, WizardInv
    <3>2. IsWizard(wizard') /\ ~wizard'.importing /\ wizard'.fetching = wizard.fetching /\ wizard'.fetchGen = wizard.fetchGen
      BY <2>2, <3>1 DEF IsWizard
    <3>. QED  BY <1>1, <2>2, <3>2 DEF FormsInv, WizardInv, Waited
  <2>. QED  BY <2>1, <2>2 DEF BulkAnswer
<1>. QED  BY <1>1, <1>2, OthersStay DEF FormStepKeeps, FormsInv, FormKept, PrefsKept

----------------------------------------------------------------------------
(* The preferences panel. *)

LEMMA PreferredKeeps ==
    ASSUME FormsInv, NEW q, Preferred(q), q = Nothing \/ (prefs # Nothing /\ SamePrefs(prefs, q)) PROVE FormStepKeeps
  BY QuietStep DEF Preferred, FormKept, WizardKept, PrefsKept

\* What is shown is being checked.
LEMMA CheckingKeeps ==
    ASSUME FormsInv, NEW n, IsPrefs(prefs'), Give("dircheck", 0, n, [dir |-> prefs'.dir, margin |-> prefs'.margin]),
           UNCHANGED <<form, wizard, probe, importSeq>>
    PROVE  FormStepKeeps
<1>1. PICK j : j.kind = "dircheck" /\ j.what = [dir |-> prefs'.dir, margin |-> prefs'.margin] /\ jobs' = jobs \cup {j}
  BY GiveIs
<1>2. PrefsInv'
  BY <1>1 DEF PrefsInv
<1>3. MovesOnly("dircheck")
  BY GiveIs
<1>. QED  BY <1>2, <1>3, OthersStay DEF FormStepKeeps, FormsInv, FormKept, WizardKept

LEMMA OpenPrefsKeeps == ASSUME FormsInv, OpenPrefs PROVE FormStepKeeps
<1>1. IsPrefs(prefs') /\ prefs'.dir = "d1"
  BY DEF OpenPrefs, Unchecked, IsPrefs, IsCheck
<1>2. Give("dircheck", 0, prefs'.n, [dir |-> prefs'.dir, margin |-> prefs'.margin])
  BY <1>1 DEF OpenPrefs, CheckPrefs, WithCheck
<1>. QED  BY <1>1, <1>2, CheckingKeeps DEF OpenPrefs

LEMMA TypePrefsKeeps ==
    ASSUME FormsInv, prefs # Nothing, NEW d, NEW m, d = prefs.dir \/ m = prefs.margin,
           prefs' = [prefs EXCEPT !.dir = d, !.margin = m, !.dirty = TRUE],
           IF Revalidates(prefs, prefs') THEN CheckPrefs(prefs') ELSE Quietly,
           UNCHANGED <<form, wizard, probe, importSeq>>
    PROVE  FormStepKeeps
<1>1. IsPrefs(prefs)
  BY DEF FormsInv, PrefsInv
<1>2. IsPrefs(prefs') /\ prefs'.dir = d /\ prefs'.margin = m /\ prefs'.check = prefs.check
  <2>1. PICK a : a = [prefs EXCEPT !.dir = d]
    OBVIOUS
  <2>2. PICK b : b = [a EXCEPT !.margin = m]
    OBVIOUS
  <2>3. PICK q : q = [b EXCEPT !.dirty = TRUE]
    OBVIOUS
  <2>4. prefs' = q
    BY <2>1, <2>2, <2>3
  <2>5. IsPrefs(a) /\ a.dir = d /\ a.check = prefs.check
    BY <1>1, <2>1 DEF IsPrefs
  <2>6. IsPrefs(b) /\ b.dir = d /\ b.margin = m /\ b.check = prefs.check
    BY <2>2, <2>5 DEF IsPrefs
  <2>7. SamePrefs(b, q)
    BY <2>3, <2>6, PrefsEdit
  <2>. QED  BY <2>4, <2>6, <2>7 DEF SamePrefs
<1>3. CASE ~Revalidates(prefs, prefs')
  <2>1. SamePrefs(prefs, prefs')
    BY <1>2, <1>3 DEF Revalidates, SamePrefs
  <2>. QED  BY <1>3, <2>1, QuietStep DEF FormKept, WizardKept, PrefsKept
<1>4. CASE Revalidates(prefs, prefs') /\ prefs'.dir # "root"
  BY <1>2, <1>4, CheckingKeeps DEF CheckPrefs, WithCheck
<1>5. CASE Revalidates(prefs, prefs') /\ prefs'.dir = "root"
  <2>1. PrefsInv'
    BY <1>2, <1>5 DEF PrefsInv
  <2>2. MovesOnly("none")
    BY <1>5, QuietlyIs DEF CheckPrefs, WithCheck
  <2>. QED  BY <2>1, <2>2, OthersStay DEF FormStepKeeps, FormsInv, FormKept, WizardKept
<1>. QED  BY <1>3, <1>4, <1>5

\* What is saved was checked.
LEMMA SavePrefsKeeps ==
    ASSUME FormsInv, prefs # Nothing, DirOk(prefs), Give("prefs", 0, prefs.n, [dir |-> prefs.dir, margin |-> prefs.margin]),
           UNCHANGED <<form, wizard, prefs, probe, importSeq>>
    PROVE  FormStepKeeps
<1>1. PICK j : j.kind = "prefs" /\ j.what = [dir |-> prefs.dir, margin |-> prefs.margin] /\ jobs' = jobs \cup {j}
  BY GiveIs
<1>2. PICK c : c = prefs.check
  OBVIOUS
<1>3. IsCheck(c) /\ c.dir = prefs.dir /\ c.margin = prefs.margin /\ c.ok
  BY <1>2 DEF DirOk, FormsInv, PrefsInv, IsPrefs
<1>4. c.ok = TRUE
  BY <1>3 DEF IsCheck
<1>5. c = [dir |-> prefs.dir, margin |-> prefs.margin, ok |-> TRUE]
  BY <1>3, <1>4 DEF IsCheck
<1>6. j.what.dir = prefs.dir /\ j.what.margin = prefs.margin
  BY <1>1
<1>7. SavedChecked
  BY <1>1, <1>2, <1>5, <1>6 DEF SavedChecked
<1>8. MovesOnly("prefs")
  BY GiveIs
<1>. QED  BY <1>7, <1>8, OthersStay DEF FormStepKeeps, FormsInv, FormKept, WizardKept, PrefsKept

LEMMA PrefsKeyKeeps == ASSUME FormsInv, prefs # Nothing, NEW key, PrefsKey(key) PROVE FormStepKeeps
<1>1. IsPrefs(prefs)
  BY DEF FormsInv, PrefsInv
<1>2. ASSUME NEW v, NEW q, Preferred(q), q = [prefs EXCEPT !.asking = v] \/ q = [prefs EXCEPT !.removing = v]
      PROVE  FormStepKeeps
  BY <1>1, <1>2, PrefsEdit, PreferredKeeps
<1>3. ASSUME Preferred(Nothing) PROVE FormStepKeeps
  BY <1>3, PreferredKeeps
<1>4. ASSUME Preferred([prefs EXCEPT !.dests = @ + 1, !.dirty = TRUE]) PROVE FormStepKeeps
  <2>1. PICK v : v = prefs.dests + 1
    OBVIOUS
  <2>2. PICK a : a = [prefs EXCEPT !.dests = v]
    OBVIOUS
  <2>3. PICK b : b = [a EXCEPT !.dirty = TRUE]
    OBVIOUS
  <2>4. Preferred(b)
    BY <1>1, <1>4, <2>1, <2>2, <2>3 DEF IsPrefs
  <2>5. SamePrefs(prefs, a) /\ IsPrefs(a)
    BY <1>1, <2>2, PrefsEdit DEF SamePrefs
  <2>6. SamePrefs(a, b)
    BY <2>3, <2>5, PrefsEdit
  <2>. QED  BY <2>4, <2>5, <2>6, PreferredKeeps DEF SamePrefs
<1>5. ASSUME Preferred([prefs EXCEPT !.removing = FALSE, !.dests = @ - 1, !.dirty = TRUE]) PROVE FormStepKeeps
  <2>1. PICK c : c = [prefs EXCEPT !.removing = FALSE]
    OBVIOUS
  <2>2. PICK v : v = prefs.dests - 1
    OBVIOUS
  <2>3. PICK a : a = [c EXCEPT !.dests = v]
    OBVIOUS
  <2>4. PICK b : b = [a EXCEPT !.dirty = TRUE]
    OBVIOUS
  <2>5. Preferred(b)
    BY <1>1, <1>5, <2>1, <2>2, <2>3, <2>4 DEF IsPrefs
  <2>6. SamePrefs(prefs, c) /\ IsPrefs(c)
    BY <1>1, <2>1, PrefsEdit DEF SamePrefs
  <2>7. SamePrefs(c, a) /\ IsPrefs(a)
    BY <2>3, <2>6, PrefsEdit DEF SamePrefs
  <2>8. SamePrefs(a, b)
    BY <2>4, <2>7, PrefsEdit
  <2>. QED  BY <2>5, <2>6, <2>7, <2>8, PreferredKeeps DEF SamePrefs
<1>6. CASE prefs.asking
  BY <1>2, <1>3, <1>6 DEF PrefsKey
<1>7. CASE ~prefs.asking /\ prefs.removing
  BY <1>2, <1>5, <1>7 DEF PrefsKey
<1>8. CASE ~prefs.asking /\ ~prefs.removing
  BY <1>2, <1>3, <1>4, <1>8, TypePrefsKeeps, SavePrefsKeeps DEF PrefsKey
<1>. QED  BY <1>6, <1>7, <1>8

LEMMA DirCheckAnswerKeeps == ASSUME FormsInv, NEW j \in jobs, NEW ok \in BOOLEAN, DirCheckAnswer(j, ok) PROVE FormStepKeeps
<1>1. MovesOnly("dircheck") /\ jobs' = jobs \ {j} /\ j.kind = "dircheck" /\ UNCHANGED <<form, wizard, probe, importSeq>>
  BY AnsweredIs DEF DirCheckAnswer, Answered
<1>2. PrefsInv'
  <2>1. CASE prefs = Nothing
    BY <2>1 DEF DirCheckAnswer, PrefsInv
  <2>2. CASE prefs # Nothing /\ prefs.dir = j.what.dir /\ prefs.margin = j.what.margin
    <3>1. IsPrefs(prefs)
      BY <2>2 DEF FormsInv, PrefsInv
    <3>2. PICK c : c = [dir |-> j.what.dir, margin |-> j.what.margin, ok |-> ok]
      OBVIOUS
    <3>3. IsCheck(c) /\ c.dir = prefs.dir /\ c.margin = prefs.margin
      BY <2>2, <3>2 DEF IsCheck
    <3>4. prefs' = [prefs EXCEPT !.check = c]
      BY <2>2, <3>2 DEF DirCheckAnswer
    <3>5. IsPrefs(prefs') /\ prefs'.dir = prefs.dir /\ prefs'.margin = prefs.margin /\ prefs'.check = c
      BY <3>1, <3>3, <3>4 DEF IsPrefs
    <3>. QED  BY <3>3, <3>5 DEF PrefsInv
  <2>3. CASE prefs # Nothing /\ ~(prefs.dir = j.what.dir /\ prefs.margin = j.what.margin)
    <3>1. prefs' = prefs
      BY <2>3 DEF DirCheckAnswer
    <3>2. j.what # [dir |-> prefs.dir, margin |-> prefs.margin]
      BY <2>3
    <3>. QED  BY <1>1, <2>3, <3>1, <3>2 DEF FormsInv, PrefsInv, IsPrefs, IsCheck
  <2>. QED  BY <2>1, <2>2, <2>3
<1>. QED  BY <1>1, <1>2, OthersStay DEF FormStepKeeps, FormsInv, FormKept, WizardKept

LEMMA PrefsAnswerKeeps == ASSUME FormsInv, NEW j \in jobs, NEW ok, PrefsAnswer(j, ok) PROVE FormStepKeeps
<1>1. MovesOnly("prefs") /\ jobs' \subseteq jobs /\ UNCHANGED <<form, wizard, probe, importSeq>> /\ PrefsKept
  BY AnsweredIs DEF PrefsAnswer, Answered, PrefsKept
<1>2. SavedChecked
  BY <1>1 DEF SavedChecked
<1>. QED  BY <1>1, <1>2, OthersStay DEF FormStepKeeps, FormsInv, FormKept, WizardKept

----------------------------------------------------------------------------
(* The connection test of the list. *)

LEMMA StartProbeKeeps == ASSUME FormsInv, StartProbe PROVE FormStepKeeps
<1>1. MovesOnly("probe") /\ UNCHANGED <<form, wizard, prefs, importSeq>>
  BY GiveIs DEF StartProbe
<1>2. PICK j : j.kind = "probe" /\ j.gen = probe.gen + 1 /\ j.what = Nothing /\ jobs' = jobs \cup {j}
  BY GiveIs DEF StartProbe
<1>3. probe = [on |-> probe.on, gen |-> probe.gen, found |-> probe.found] /\ probe.gen \in Nat
  BY DEF FormsInv, ProbeInv
<1>4. PICK a : a = [probe EXCEPT !.on = TRUE]
  OBVIOUS
<1>5. a = [on |-> TRUE, gen |-> probe.gen, found |-> probe.found]
  BY <1>3, <1>4
<1>6. probe' = [a EXCEPT !.gen = probe.gen + 1]
  BY <1>3, <1>4 DEF StartProbe
<1>7. probe' = [on |-> TRUE, gen |-> probe.gen + 1, found |-> probe.found]
  BY <1>5, <1>6
<1>8. probe'.on /\ probe'.gen = probe.gen + 1 /\ probe'.found = probe.found /\ probe'.on \in BOOLEAN
  BY <1>7
<1>9. probe' = [on |-> probe'.on, gen |-> probe'.gen, found |-> probe'.found]
  BY <1>7
<1>10. ProbeInv'
  BY <1>2, <1>3, <1>8, <1>9, CancelledAssumption DEF FormsInv, ProbeInv, Waited
<1>11. FoundCounts
  BY <1>8 DEF FoundCounts
<1>. QED  BY <1>1, <1>10, <1>11, OthersStay DEF FormStepKeeps, FormsInv, FormKept, WizardKept, PrefsKept

LEMMA CancelProbeKeeps == ASSUME FormsInv, CancelProbe PROVE FormStepKeeps
<1>. DEFINE After(j) == IF j.kind = "probe" /\ j.gen = probe.gen THEN [j EXCEPT !.what = "cancelled"] ELSE j
<1>1. UNCHANGED <<form, wizard, prefs, importSeq>> /\ jobs' = {After(j) : j \in jobs}
  BY DEF CancelProbe
<1>2. ASSUME NEW j \in jobs
      PROVE  IsJob(After(j)) /\ After(j).kind = j.kind /\ After(j).gen = j.gen /\ (j.kind # "probe" => After(j) = j)
  <2>1. IsJob(j)
    BY DEF FormsInv, JobsInv
  <2>2. PICK k : k = [j EXCEPT !.what = "cancelled"]
    OBVIOUS
  <2>3. IsJob(k) /\ k.kind = j.kind /\ k.gen = j.gen
    BY <2>1, <2>2 DEF IsJob
  <2>. QED  BY <2>1, <2>2, <2>3
<1>. HIDE DEF After
<1>3. MovesOnly("probe")
  <2>1. \A k : k \in jobs' <=> \E j \in jobs : k = After(j)
    BY <1>1
  <2>2. ASSUME NEW k, k.kind # "probe" PROVE k \in jobs <=> k \in jobs'
    BY <1>2, <2>1, <2>2
  <2>3. \A k \in jobs' : IsJob(k)
    BY <1>2, <2>1
  <2>. QED  BY <2>2, <2>3 DEF MovesOnly
<1>4. probe = [on |-> probe.on, gen |-> probe.gen, found |-> probe.found] /\ probe.gen \in Nat
  BY DEF FormsInv, ProbeInv
<1>5. probe' = [on |-> FALSE, gen |-> probe.gen, found |-> probe.found]
  BY <1>4 DEF CancelProbe
<1>6. ~probe'.on /\ probe'.gen = probe.gen /\ probe'.found = probe.found /\ probe'.on \in BOOLEAN
  BY <1>5
<1>7. probe' = [on |-> probe'.on, gen |-> probe'.gen, found |-> probe'.found]
  BY <1>5
<1>8. \A k \in jobs' : k.kind = "probe" => k.gen \in 0 .. probe.gen
  BY <1>1, <1>2 DEF FormsInv, ProbeInv
<1>9. ProbeInv'
  BY <1>4, <1>6, <1>7, <1>8 DEF ProbeInv
<1>10. FoundCounts
  BY <1>6 DEF FoundCounts
<1>. QED  BY <1>1, <1>3, <1>9, <1>10, OthersStay DEF FormStepKeeps, FormsInv, FormKept, WizardKept, PrefsKept

LEMMA ProbeAnswerKeeps == ASSUME FormsInv, NEW j \in jobs, ProbeAnswer(j) PROVE FormStepKeeps
<1>1. MovesOnly("probe") /\ jobs' = jobs \ {j} /\ j.kind = "probe" /\ UNCHANGED <<form, wizard, prefs, importSeq>>
  BY AnsweredIs DEF ProbeAnswer, Answered
<1>2. ProbeInv' /\ FoundCounts
  <2>1. CASE ~ProbeCounts(j)
    <3>1. probe' = probe
      BY <2>1 DEF ProbeAnswer
    <3>. QED  BY <1>1, <2>1, <3>1 DEF ProbeCounts, FormsInv, ProbeInv, Waited, FoundCounts
  <2>2. CASE ProbeCounts(j)
    <3>1. probe = [on |-> probe.on, gen |-> probe.gen, found |-> probe.found] /\ probe.gen \in Nat
      BY DEF FormsInv, ProbeInv
    <3>2. PICK a : a = [probe EXCEPT !.on = FALSE]
      OBVIOUS
    <3>3. a = [on |-> FALSE, gen |-> probe.gen, found |-> probe.found]
      BY <3>1, <3>2
    <3>4. probe' = [a EXCEPT !.found = j]
      BY <2>2, <3>2 DEF ProbeAnswer
    <3>5. probe' = [on |-> FALSE, gen |-> probe.gen, found |-> j]
      BY <3>3, <3>4
    <3>6. ~probe'.on /\ probe'.gen = probe.gen /\ probe'.found = j /\ probe'.on \in BOOLEAN
      BY <3>5
    <3>7. probe' = [on |-> probe'.on, gen |-> probe'.gen, found |-> probe'.found]
      BY <3>5
    <3>8. j.what # "cancelled"
      BY <1>1, <2>2 DEF ProbeCounts, FormsInv, ProbeInv
    <3>. QED  BY <1>1, <3>1, <3>6, <3>7, <3>8 DEF FormsInv, ProbeInv, FoundCounts
  <2>. QED  BY <2>1, <2>2
<1>. QED  BY <1>1, <1>2, OthersStay DEF FormStepKeeps, FormsInv, FormKept, WizardKept, PrefsKept

----------------------------------------------------------------------------
(* Every step of the forms. *)

LEMMA FormMessageKeeps == ASSUME FormsInv, FormMessage PROVE FormStepKeeps
  BY ImportAnswerKeeps, TestAnswerKeeps, CompleteAnswerKeeps, SaveAnswerKeeps, FetchAnswerKeeps, BulkAnswerKeeps,
     DirCheckAnswerKeeps, PrefsAnswerKeeps, ProbeAnswerKeeps DEF FormMessage

LEMMA FormsKeep == ASSUME FormsInv, FormStep \/ UNCHANGED formVars PROVE FormStepKeeps
<1>1. CASE UNCHANGED formVars
  BY <1>1, QuietStep DEF formVars, Quietly, FormKept, WizardKept, PrefsKept
<1>2. CASE FormStep
  BY <1>2, OpenFormKeeps, StartProbeKeeps, CancelProbeKeeps, OpenPrefsKeeps, FormKeyKeeps, PrefsKeyKeeps, WizardKeyKeeps,
     FormMessageKeeps DEF FormStep
<1>. QED  BY <1>1, <1>2

----------------------------------------------------------------------------
(* What the root model promises. *)

LEMMA RootInit == Init => RootInv
<1>. SUFFICES ASSUME Init PROVE RootInv
  OBVIOUS
<1>1. over \in {{}, {"first-run"}} /\ ~editing /\ form = Nothing /\ prefs = Nothing /\ wizard = Nothing
  BY DEF Init, FormsInit
<1>2. KeysInv
  BY <1>1 DEF KeysInv, Overs, Dialogs, Panel
<1>3. resolve = [on |-> FALSE, gen |-> 0] /\ fetches = {}
  BY DEF Init, AddInit
<1>4. ResolveInv
  BY <1>3 DEF ResolveInv, ResolvingEnds
<1>5. IsPicker(dest) /\ ~dest.creating
  BY NoPickerIs DEF Init, AddInit
<1>6. adds = <<>> /\ Held(<<>>)
  BY HeldBy, EmptySeq DEF Init, AddInit
<1>7. AskedInv
  BY <1>5, <1>6 DEF AskedInv
<1>8. probe = [on |-> FALSE, gen |-> 0, found |-> Nothing] /\ importSeq = 0 /\ jobs = {}
  BY DEF Init, FormsInit
<1>9. ProbeInv
  BY <1>8 DEF ProbeInv
<1>10. FormsInv
  BY <1>1, <1>8, <1>9 DEF FormsInv, JobsInv, FormInv, WizardInv, PrefsInv
<1>. QED  BY <1>2, <1>4, <1>7, <1>10 DEF RootInv

\* What a step does to the add flow and to the forms.
RootStep ==
    /\ ResolveInv'
    /\ \A f \in fetches : f.cancelled /\ f \notin fetches' => UNCHANGED <<screen, dest, resolve>>
    /\ AskedInv' /\ Creates
    /\ FormStepKeeps

LEMMA RootStepHolds == ASSUME RootInv, [Next]_vars PROVE RootStep
<1>. KeysInv /\ ResolveInv /\ AskedInv /\ FormsInv
  BY DEF RootInv
<1>1. CASE AddStep /\ UNCHANGED formVars
  BY <1>1, AddKeepsResolve, AddKeepsAsked, FormsKeep DEF RootStep
<1>2. CASE UNCHANGED addBut
  <2>1. ResolveInv' /\ \A f \in fetches : f \in fetches'
    BY <1>2 DEF addBut, ResolveInv, ResolvingEnds
  <2>2. AskedInv' /\ Creates
    BY <1>2, SameAsked DEF addBut
  <2>3. FormStepKeeps \/ AddStep
    BY FormsKeep, RootSteps
  <2>. QED  BY <1>1, <2>1, <2>2, <2>3, RootSteps, FormsKeep DEF RootStep
<1>. QED  BY <1>1, <1>2, RootSteps

LEMMA RootInductive == RootInv /\ [Next]_vars => RootInv'
  BY RootStepHolds, KeysKept DEF RootInv, RootStep, FormStepKeeps

LEMMA RootAlways == Spec => []RootInv
  BY RootInit, RootInductive, PTL DEF Spec

(***************************************************************************)
(* Every key goes to what is shown (KeysGoToShown), whatever messages have *)
(* switched screens, opened the picker or closed a form in the meantime.   *)
(***************************************************************************)
THEOREM KeysGoWhereShown == Spec => []KeysGoToShown
<1>1. RootInv => KeysGoToShown
  <2>. SUFFICES ASSUME RootInv, NEW key PROVE
           \/ Handler(key) \in Owners(Shown)
           \/ Shown = "quit" /\ editing /\ Handler(key) = "typing"
           \/ Shown \in {"remove", "clear"} /\ dest.open /\ Handler(key) \in {"destination", "ctrl+c"}
    BY DEF KeysGoToShown
  <2>. QED  BY KeysGo DEF RootInv
<1>. QED  BY <1>1, RootAlways, PTL

(***************************************************************************)
(* Neither a screen nor a form waits for an answer that will not come      *)
(* (NothingHangs): what each waits for is a command under way.             *)
(***************************************************************************)
THEOREM NothingEverHangs == Spec => []NothingHangs
<1>1. RootInv => NothingHangs
  BY DEF RootInv, ResolveInv, FormsInv, FormInv, WizardInv, PrefsInv, ProbeInv, NothingHangs, NoFormHangs
<1>. QED  BY <1>1, RootAlways, PTL

(***************************************************************************)
(* The late answer of a resolve or a connection test that was cancelled    *)
(* changes nothing (CancelledChangesNothing).                              *)
(***************************************************************************)
THEOREM CancelledIsIgnored == Spec => CancelledChangesNothing
<1>. DEFINE Body == /\ \A f \in fetches : f.cancelled /\ f \notin fetches' => UNCHANGED <<screen, dest, resolve>>
                    /\ probe'.found # probe.found => probe'.found.what # "cancelled"
<1>1. RootInv /\ [Next]_vars => [Body]_vars
  BY RootStepHolds DEF RootStep, FormStepKeeps, FoundCounts
<1>2. Spec => [][Body]_vars
  BY <1>1, RootAlways, PTL DEF Spec
<1>. QED  BY <1>2 DEF CancelledChangesNothing

(***************************************************************************)
(* An add that creates a folder creates the one the user was asked about,  *)
(* for the torrent he was asked about (CreatesWhatItAsked).                *)
(***************************************************************************)
THEOREM AddsCreateWhatWasAsked == Spec => CreatesWhatItAsked
<1>1. RootInv /\ [Next]_vars => [Creates]_addVars
  BY RootStepHolds DEF RootStep
<1>2. Spec => [][Creates]_addVars
  BY <1>1, RootAlways, PTL DEF Spec
<1>. QED  BY <1>2 DEF CreatesWhatItAsked, Creates

(***************************************************************************)
(* An import comes home to the form that started it, and preferences are   *)
(* saved as they were checked (AnswersComeHome).                           *)
(***************************************************************************)
THEOREM AnswersFindTheirForm == Spec => AnswersComeHome
<1>1. RootInv /\ [Next]_vars => [ImportedHome]_formVars /\ [SavedChecked]_formVars
  BY RootStepHolds DEF RootStep, FormStepKeeps
<1>2. Spec => [][ImportedHome]_formVars /\ [][SavedChecked]_formVars
  BY <1>1, RootAlways, PTL DEF Spec
<1>. QED  BY <1>2 DEF AnswersComeHome, ImportsHome, SavedAsChecked, ImportedHome, SavedChecked
=============================================================================
