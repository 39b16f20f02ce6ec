------------------------- MODULE CallPromise_proofs -------------------------
(***************************************************************************)
(* CallLifecycle implements CallPromise, for any set of calls, any outcome *)
(* codes and any bounds.  Under the inductive invariant each action of     *)
(* CallLifecycle is a step of the promise or a stutter: what the invariant *)
(* says of rows and their history tells which.                             *)
(***************************************************************************)
EXTENDS CallLifecycle_proofs

\* What a step about one call leaves alone, and what it may do to that call.
KeepsCall(b) ==
  /\ rows'[b] = rows[b] /\ published'[b] = published[b]
  /\ b \in reopened' <=> b \in reopened
  /\ b \in predecided' <=> b \in predecided

KeepsView(c) ==
  StageOf(c)' = StageOf(c) /\ OutcomeOf(c)' = OutcomeOf(c) /\ StartsOf(c)' = StartsOf(c)

(* A call whose row, publications and editor's marks stay has the same      *)
(* stage, outcome and starts.                                               *)
LEMMA KeptIsSeenAlike ==
  ASSUME NEW b \in Calls, KeepsCall(b) PROVE KeepsView(b)
BY DEF KeepsCall, KeepsView, StageOf, OutcomeOf, StartsOf, Exists

(* So a step about one call moves the promise at that call only.            *)
LEMMA OneCallMoves ==
  ASSUME NEW c \in Calls, \A b \in Calls \ {c} : KeepsCall(b)
  PROVE  /\ Stage' = [Stage EXCEPT ![c] = StageOf(c)']
         /\ Outcome' = [Outcome EXCEPT ![c] = OutcomeOf(c)']
         /\ Starts' = [Starts EXCEPT ![c] = StartsOf(c)']
<1>1. \A b \in Calls \ {c} : KeepsView(b)
  BY KeptIsSeenAlike
<1>2. \A b \in Calls : /\ b # c => StageOf(b)' = StageOf(b)
                       /\ b # c => OutcomeOf(b)' = OutcomeOf(b)
                       /\ b # c => StartsOf(b)' = StartsOf(b)
  BY <1>1 DEF KeepsView
<1>3. Stage' = [Stage EXCEPT ![c] = StageOf(c)']
  BY <1>2 DEF Stage
<1>4. Outcome' = [Outcome EXCEPT ![c] = OutcomeOf(c)']
  BY <1>2 DEF Outcome
<1>5. Starts' = [Starts EXCEPT ![c] = StartsOf(c)']
  BY <1>2 DEF Starts
<1> QED BY <1>3, <1>4, <1>5

(* A step that changes no call's view is a stutter of the promise.          *)
LEMMA AllKeptStutters ==
  ASSUME \A b \in Calls : KeepsView(b)
  PROVE  UNCHANGED Promise!promiseVars
BY DEF KeepsView, Stage, Outcome, Starts, Promise!promiseVars

(* Nor does a step about one call that keeps what is seen of it.            *)
LEMMA OneKeptStutters ==
  ASSUME NEW c \in Calls, \A b \in Calls \ {c} : KeepsCall(b), KeepsView(c)
  PROVE  UNCHANGED Promise!promiseVars
BY KeptIsSeenAlike, AllKeptStutters

(* A call the editor took over stays out of the promise.                    *)
LEMMA TakenOverStays ==
  ASSUME NEW c, StageOf(c) = "taken over",
         c \in reopened => c \in reopened', c \in predecided => c \in predecided'
  PROVE  KeepsView(c)
BY DEF KeepsView, StageOf, OutcomeOf, StartsOf

(* What the inductive invariant says of a call the editor left alone.       *)
LEMMA NotTakenOver ==
  ASSUME IInv, NEW c \in Calls, StageOf(c) # "taken over"
  PROVE  /\ c \notin reopened /\ c \notin predecided
         /\ published[c]["resolve_recording"] \in Nat
         /\ StageOf(c) = IF ~Exists(c) THEN "unheard"
                         ELSE IF rows[c].finalized THEN "decided"
                         ELSE IF rows[c].stale THEN "abandoned" ELSE "awaited"
         /\ StartsOf(c) = published[c]["resolve_recording"]
         /\ ~Finalized(c) => StartsOf(c) = 0
         /\ Exists(c) => rows[c] \in Row
         /\ Exists(c) /\ ~rows[c].finalized => WasPending(rows[c])
         /\ Finalized(c) => rows[c].dispo \in FinalDispositions /\ ~WasPending(rows[c])
<1>1. c \notin reopened /\ c \notin predecided
  BY DEF StageOf
<1>2. CallOK(c) /\ TypeOK /\ (Exists(c) => rows[c] \in Row)
  BY DEF IInv, RowsOK, RowOK, Coherent
<1>3. published[c]["resolve_recording"] \in Nat
  BY <1>2 DEF TypeOK, Tasks
<1>4. /\ StageOf(c) = IF ~Exists(c) THEN "unheard"
                      ELSE IF rows[c].finalized THEN "decided"
                      ELSE IF rows[c].stale THEN "abandoned" ELSE "awaited"
      /\ StartsOf(c) = published[c]["resolve_recording"]
  BY <1>1 DEF StageOf, StartsOf
<1>5. ~Finalized(c) => StartsOf(c) = 0
  BY <1>1, <1>2, <1>3, <1>4 DEF CallOK
<1>6. Exists(c) /\ ~rows[c].finalized => WasPending(rows[c])
  BY <1>1, <1>2 DEF CallOK
<1>7. Finalized(c) => rows[c].dispo \in FinalDispositions /\ ~WasPending(rows[c])
  BY <1>1, <1>2 DEF CallOK, Finalized, WasPending, Row, Dispositions
<1> QED BY <1>1, <1>2, <1>3, <1>4, <1>5, <1>6, <1>7

----------------------------------------------------------------------------
(* Before the first callback every call is unheard.                         *)
LEMMA InitPromised == Init => Promise!PromiseInit
<1> SUFFICES ASSUME Init PROVE Promise!PromiseInit
  OBVIOUS
<1>1. \A c \in Calls : StageOf(c) = "unheard" /\ OutcomeOf(c) = NoRow /\ StartsOf(c) = 0
  BY DEF Init, StageOf, OutcomeOf, StartsOf, Exists, Tasks
<1> QED BY <1>1 DEF Promise!PromiseInit, Stage, Outcome, Starts

(* A Start Call is heard once; one that finds its row changes nothing the   *)
(* promise speaks of.                                                       *)
LEMMA StartCallHears ==
  ASSUME IInv, NEW c \in Calls, NEW who \in Who, StartCall(c, who)
  PROVE  Promise!Hear(c) \/ UNCHANGED Promise!promiseVars
<1>1. rows \in [Calls -> Row \cup {NoRow}]
  BY DEF IInv, TypeOK
<1>2. \A b \in Calls \ {c} : KeepsCall(b)
  BY <1>1 DEF StartCall, KeepsCall, history
<1>3. /\ rows'[c] = IF Exists(c) THEN MergeStart(rows[c], who)
                    ELSE CreateRow("dispo", "NEW", who)
      /\ published' = published /\ reopened' = reopened /\ predecided' = predecided
  BY <1>1 DEF StartCall, history
<1>4. CASE StageOf(c) = "taken over"
  BY <1>2, <1>3, <1>4, TakenOverStays, OneKeptStutters
<1>5. CASE StageOf(c) # "taken over" /\ ~Exists(c)
  <2>1. c \notin reopened' /\ c \notin predecided' /\ StageOf(c) = "unheard"
    BY <1>3, <1>5, NotTakenOver
  <2>2. rows'[c] \in Row /\ ~rows'[c].finalized /\ ~rows'[c].stale
    <3>1. rows'[c] = CreateRow("dispo", "NEW", who)
      BY <1>3, <1>5
    <3>2. CreateRow("dispo", "NEW", who) \in Row
      BY CreateRowOK DEF RowOK, Coherent
    <3>3. /\ ~CreateRow("dispo", "NEW", who).finalized
          /\ ~CreateRow("dispo", "NEW", who).stale
      BY DEF CreateRow
    <3> QED BY <3>1, <3>2, <3>3
  <2>3. StageOf(c)' = "awaited"
    BY <2>1, <2>2, LifecycleAssumption DEF StageOf, Exists
  <2>4. OutcomeOf(c)' = OutcomeOf(c) /\ StartsOf(c)' = StartsOf(c)
    BY <2>1, <2>3, <1>3 DEF OutcomeOf, StartsOf
  <2>5. Stage' = [Stage EXCEPT ![c] = "awaited"] /\ Stage[c] = "unheard"
    BY <1>2, <2>1, <2>3, OneCallMoves DEF Stage
  <2>6. Outcome' = Outcome /\ Starts' = Starts
    <3>1. \A b \in Calls : OutcomeOf(b)' = OutcomeOf(b) /\ StartsOf(b)' = StartsOf(b)
      BY <1>2, <2>4, KeptIsSeenAlike DEF KeepsView
    <3> QED BY <3>1 DEF Outcome, Starts
  <2> QED BY <2>5, <2>6 DEF Promise!Hear
<1>6. CASE StageOf(c) # "taken over" /\ Exists(c)
  <2>1. /\ rows[c] \in Row /\ c \notin reopened /\ c \notin predecided
        /\ Finalized(c) => ~WasPending(rows[c])
    BY <1>6, NotTakenOver
  <2>2. /\ rows'[c].finalized = rows[c].finalized /\ rows'[c].stale = rows[c].stale
        /\ rows[c].dispo \notin Provisional => rows'[c].dispo = rows[c].dispo
    BY <1>3, <1>6, <2>1 DEF MergeStart, Row
  <2>3. RowOK(rows'[c])
    BY <1>3, <1>6, MergeStartOK DEF IInv, RowsOK
  <2>4. Exists(c)'
    BY <2>3, LifecycleAssumption DEF RowOK, Coherent, Exists
  <2>5. StageOf(c)' = StageOf(c) /\ StartsOf(c)' = StartsOf(c)
    BY <1>3, <1>6, <2>2, <2>4 DEF StageOf, StartsOf
  <2>6. OutcomeOf(c)' = OutcomeOf(c)
    BY <1>6, <2>1, <2>2, <2>5 DEF OutcomeOf, StageOf, Finalized, WasPending, Pending
  <2> QED BY <1>2, <2>5, <2>6, OneKeptStutters DEF KeepsView
<1> QED BY <1>4, <1>5, <1>6

(* A disposition decides a call once and corrects it from then on, and only *)
(* the deciding one starts the pipeline.                                    *)
LEMMA FinalDispositionDecides ==
  ASSUME IInv, NEW c \in Calls, NEW d \in FinalDispositions, NEW who \in Who,
         FinalDisposition(c, d, who)
  PROVE  Promise!Decide(c, d) \/ Promise!Correct(c, d) \/ UNCHANGED Promise!promiseVars
<1> DEFINE R     == "resolve_recording"
           tasks == FinalPublishes(~Exists(c), rows[c], d)
<1>1. TypeOK /\ rows \in [Calls -> Row \cup {NoRow}]
  BY DEF IInv, TypeOK
<1>2. Len(tasks) \in {0, 1, 2} /\ Publish(c, tasks)
  BY DEF FinalDisposition, FinalPublishes
<1>3. /\ \A b \in Calls \ {c} : published'[b] = published[b]
      /\ published'[c][R] \in {published[c][R], published[c][R] + 1}
      /\ (\A i \in 1 .. Len(tasks) : tasks[i] # R) => published'[c][R] = published[c][R]
  <2> HIDE DEF tasks
  <2> QED BY <1>1, <1>2, PublishStep DEF Tasks
<1>4. rows' = [rows EXCEPT ![c] = IF Exists(c) THEN MergeFinal(rows[c], d, who)
                ELSE CreateRow(IF c \in noAgent THEN "no_agent" ELSE "dispo", d, who)]
      /\ reopened' = reopened /\ predecided' = predecided
  BY DEF FinalDisposition
<1>5. \A b \in Calls \ {c} : KeepsCall(b)
  BY <1>1, <1>3, <1>4 DEF KeepsCall
<1>6. CASE StageOf(c) = "taken over"
  BY <1>4, <1>5, <1>6, TakenOverStays, OneKeptStutters
<1>7. CASE StageOf(c) # "taken over"
  <2>1. /\ c \notin reopened' /\ c \notin predecided'
        /\ published[c][R] \in Nat
    BY <1>4, <1>7, NotTakenOver
  <2>2. rows'[c] \in Row /\ rows'[c].finalized /\ rows'[c].dispo = d
    <3>1. CASE Exists(c)
      <4>1. RowOK(rows[c]) /\ rows'[c] = MergeFinal(rows[c], d, who)
        BY <1>1, <1>4, <3>1 DEF IInv, RowsOK
      <4>2. RowOK(MergeFinal(rows[c], d, who))
        BY <4>1, MergeFinalOK
      <4> QED BY <4>1, <4>2 DEF MergeFinal, RowOK, Coherent, Row
    <3>2. CASE ~Exists(c)
      <4> DEFINE kind == IF c \in noAgent THEN "no_agent" ELSE "dispo"
      <4>1. rows'[c] = CreateRow(kind, d, who)
        BY <1>1, <1>4, <3>2
      <4>2. CreateRow(kind, d, who) \in Row
        BY CreateRowOK DEF RowOK, Coherent
      <4>3. d # "NEW"
        BY FinalDispositionsAssumption DEF Pending, Provisional
      <4>4. CreateRow(kind, d, who).finalized /\ CreateRow(kind, d, who).dispo = d
        BY <4>3 DEF CreateRow
      <4> QED BY <4>1, <4>2, <4>4
    <3> QED BY <3>1, <3>2
  <2>3. StageOf(c)' = "decided" /\ OutcomeOf(c)' = d /\ StartsOf(c)' = published'[c][R]
    BY <2>1, <2>2, LifecycleAssumption DEF StageOf, OutcomeOf, StartsOf, Exists
  <2>4. /\ Stage' = [Stage EXCEPT ![c] = "decided"]
        /\ Outcome' = [Outcome EXCEPT ![c] = d]
        /\ Starts' = [Starts EXCEPT ![c] = published'[c][R]]
    BY <1>5, <2>3, OneCallMoves
  <2>5. Stage[c] = StageOf(c) /\ Starts[c] = StartsOf(c)
    BY DEF Stage, Starts
  <2>6. CASE Finalized(c)
    <3>1. Stage[c] = "decided" /\ ~WasPending(rows[c]) /\ Exists(c)
      BY <1>7, <2>5, <2>6, NotTakenOver DEF Finalized
    <3>2. \A i \in 1 .. Len(tasks) : tasks[i] # R
      <4>1. Len(tasks) \in {0, 1} /\ (Len(tasks) = 1 => tasks[1] = "resolve_sale_preset")
        BY <3>1, LaterFinalPublishes
      <4> HIDE DEF tasks
      <4> QED BY <4>1
    <3>3. StartsOf(c)' = StartsOf(c)
      BY <1>3, <1>7, <2>3, <3>2, NotTakenOver
    <3>4. \A b \in Calls : StartsOf(b)' = StartsOf(b)
      BY <1>5, <3>3, KeptIsSeenAlike DEF KeepsView
    <3>5. Stage' = Stage
      BY <2>4, <3>1 DEF Stage
    <3>6. Starts' = Starts
      BY <3>4 DEF Starts
    <3> QED BY <2>4, <3>1, <3>5, <3>6 DEF Promise!Correct
  <2>7. CASE ~Finalized(c)
    <3>1. Stage[c] \in {"unheard", "awaited", "abandoned"} /\ published[c][R] = 0
      BY <1>7, <2>5, <2>7, NotTakenOver DEF Finalized
    <3>2. published'[c][R] \in {0, 1}
      BY <1>3, <3>1
    <3> QED BY <2>4, <3>1, <3>2 DEF Promise!Decide
  <2> QED BY <2>6, <2>7
<1> QED BY <1>6, <1>7

(* The sweep abandons the awaited calls it marks, and touches a decided     *)
(* call only when the editor reopened it.                                   *)
LEMMA MarkStaleCallsAbandons ==
  ASSUME IInv, NEW marked \in SUBSET Calls, MarkStaleCalls(marked)
  PROVE  \E calls \in SUBSET Calls : Promise!Abandon(calls)
<1> DEFINE calls == {c \in marked : StageOf(c) # "taken over"}
<1>1. /\ \A c \in Calls : rows'[c] = IF c \in marked THEN MarkStale(rows[c]) ELSE rows[c]
      /\ \A c \in marked : Exists(c) /\ SweepSelects(rows[c])
      /\ published' = published /\ reopened' = reopened /\ predecided' = predecided
  BY DEF MarkStaleCalls, Sweepable, history
<1>2. ASSUME NEW c \in Calls \ calls PROVE KeepsView(c)
  <2>1. CASE StageOf(c) = "taken over"
    BY <1>1, <2>1, TakenOverStays
  <2>2. CASE StageOf(c) # "taken over"
    <3>1. c \notin marked
      BY <1>2, <2>2
    <3>2. KeepsCall(c)
      BY <1>1, <3>1 DEF KeepsCall
    <3> QED BY <3>2, KeptIsSeenAlike
  <2> QED BY <2>1, <2>2
<1>3. ASSUME NEW c \in calls
      PROVE  /\ StageOf(c) = "awaited" /\ StageOf(c)' = "abandoned"
             /\ OutcomeOf(c)' = OutcomeOf(c) /\ StartsOf(c)' = StartsOf(c)
  <2>1. /\ c \in Calls /\ c \in marked /\ StageOf(c) # "taken over"
        /\ Exists(c) /\ SweepSelects(rows[c]) /\ rows'[c] = MarkStale(rows[c])
    BY <1>1, <1>3
  <2>2. /\ c \notin reopened' /\ c \notin predecided' /\ rows[c] \in Row
        /\ ~WasPending(rows[c]) \/ ~Finalized(c)
    BY <1>1, <2>1, NotTakenOver
  <2>3. ~rows[c].finalized /\ ~rows[c].stale
    BY <2>1, <2>2 DEF Finalized, WasPending, SweepSelects, Pending
  <2>4. StageOf(c) = "awaited"
    BY <2>1, <2>3 DEF StageOf
  <2>5. ~rows'[c].finalized /\ rows'[c].stale
    BY <2>1, <2>2, <2>3 DEF MarkStale, Row
  <2>6. RowOK(rows'[c])
    BY <2>1, MarkStaleOK DEF IInv, RowsOK
  <2>7. StageOf(c)' = "abandoned"
    BY <2>2, <2>5, <2>6, LifecycleAssumption DEF StageOf, Exists, RowOK, Coherent
  <2> QED BY <1>1, <2>4, <2>7 DEF OutcomeOf, StartsOf
<1>4. Stage' = [c \in Calls |-> IF c \in calls THEN "abandoned" ELSE Stage[c]]
  <2>1. \A c \in Calls : StageOf(c)' = IF c \in calls THEN "abandoned" ELSE StageOf(c)
    BY <1>2, <1>3 DEF KeepsView
  <2> HIDE DEF calls
  <2> QED BY <2>1 DEF Stage
<1>5. Outcome' = Outcome /\ Starts' = Starts
  <2>1. \A c \in Calls : OutcomeOf(c)' = OutcomeOf(c) /\ StartsOf(c)' = StartsOf(c)
    BY <1>2, <1>3 DEF KeepsView
  <2> QED BY <2>1 DEF Outcome, Starts
<1>6. \A c \in calls : Stage[c] = "awaited"
  BY <1>3 DEF Stage
<1>7. calls \in SUBSET Calls
  OBVIOUS
<1> HIDE DEF calls
<1> QED BY <1>4, <1>5, <1>6, <1>7 DEF Promise!Abandon

(* An identity answer names nobody's outcome.                               *)
LEMMA IdentitySaveStutters ==
  ASSUME IInv, NEW c \in Calls, NEW found \in Found, IdentitySave(c, found)
  PROVE  UNCHANGED Promise!promiseVars
<1>1. /\ rows \in [Calls -> Row \cup {NoRow}] /\ held[c] # {}
      /\ published' = published /\ reopened' = reopened /\ predecided' = predecided
  BY DEF IInv, TypeOK, IdentitySave, history
<1>2. Exists(c) /\ RowOK(rows[c])
  BY <1>1 DEF IInv, CallOK, RowsOK
<1>3. CASE ~StillStale(rows[c])
  BY <1>1, <1>3, KeptIsSeenAlike, AllKeptStutters DEF IdentitySave, KeepsCall
<1>4. CASE StillStale(rows[c])
  <2>1. rows' = [rows EXCEPT ![c] = ApplyIdentity(rows[c], found)]
    BY <1>1, <1>4 DEF IdentitySave
  <2>2. /\ rows'[c] = ApplyIdentity(rows[c], found)
        /\ \A b \in Calls \ {c} : KeepsCall(b)
    BY <1>1, <2>1 DEF KeepsCall
  <2>3. RowOK(rows'[c])
    BY <1>2, <2>2, ApplyIdentityOK
  <2>4. /\ rows'[c].dispo = rows[c].dispo /\ rows'[c].stale = rows[c].stale
        /\ rows'[c].finalized = rows[c].finalized
    BY <1>2, <2>2 DEF ApplyIdentity, RowOK, Coherent, Row
  <2>5. Exists(c)'
    BY <2>3, LifecycleAssumption DEF RowOK, Coherent, Exists
  <2>6. KeepsView(c)
    BY <1>1, <1>2, <2>4, <2>5 DEF KeepsView, StageOf, OutcomeOf, StartsOf
  <2> QED BY <2>2, <2>6, OneKeptStutters
<1> QED BY <1>3, <1>4

(* The editor corrects a decided call, takes a call over, or changes        *)
(* nothing the promise speaks of.                                           *)
LEMMA EditCallCorrects ==
  ASSUME IInv, NEW c \in Calls, NEW p \in EditorPatches, EditCall(c, p)
  PROVE  \/ Promise!TakeOver(c)
         \/ \E o \in FinalDispositions : Promise!Correct(c, o)
         \/ UNCHANGED Promise!promiseVars
<1> DEFINE R     == "resolve_recording"
           new   == EditRow(rows[c], p)
           tasks == EditPublishes(rows[c], new)
<1>1. TypeOK /\ rows \in [Calls -> Row \cup {NoRow}] /\ p \in Patch
  BY LifecycleAssumption DEF IInv, TypeOK
<1>2. /\ Exists(c) /\ RowOK(rows[c]) /\ ValidPatch(rows[c], p)
      /\ rows' = [rows EXCEPT ![c] = new] /\ Publish(c, tasks)
  BY DEF EditCall, IInv, RowsOK
<1>3. RowOK(new)
  BY <1>1, <1>2, EditRowOK
<1>4. /\ new.dispo = PatchedDispo(rows[c], p)
      /\ new.stale = rows[c].stale /\ new.finalized = rows[c].finalized
  BY <1>2 DEF EditRow, RowOK, Coherent, Row
<1>5. /\ \A b \in Calls \ {c} : published'[b] = published[b]
      /\ published'[c][R] = published[c][R]
  <2>1. Len(tasks) \in {0, 1} /\ (Len(tasks) = 1 => tasks[1] = "resolve_sale_preset")
    <3> HIDE DEF new
    <3> QED BY EditPublishesPreset
  <2>2. Len(tasks) \in Nat /\ \A i \in 1 .. Len(tasks) : tasks[i] # R
    <3> HIDE DEF tasks
    <3> QED BY <2>1
  <2> HIDE DEF tasks
  <2> QED BY <1>1, <1>2, <2>2, PublishStep DEF Tasks
<1>6. /\ reopened' = IF rows[c].finalized /\ p.dispo \in Pending
                       THEN reopened \cup {c} ELSE reopened
      /\ predecided' = IF ~rows[c].finalized /\ ~rows[c].stale /\ new.dispo \notin Pending
                         THEN predecided \cup {c} ELSE predecided
  BY DEF EditCall
<1>7. rows'[c] = new /\ Exists(c)' /\ \A b \in Calls \ {c} : KeepsCall(b)
  <2> HIDE DEF new
  <2>1. rows'[c] = new /\ \A b \in Calls \ {c} : KeepsCall(b)
    BY <1>1, <1>2, <1>5, <1>6 DEF KeepsCall
  <2> QED BY <1>3, <2>1, LifecycleAssumption DEF RowOK, Coherent, Exists
<1> HIDE DEF new, tasks
<1>8. CASE StageOf(c) = "taken over"
  <2>1. /\ c \in reopened => c \in reopened'
        /\ c \in predecided => c \in predecided'
    BY <1>6
  <2> QED BY <1>7, <1>8, <2>1, TakenOverStays, OneKeptStutters
<1>9. CASE StageOf(c) # "taken over" /\ c \in reopened' \cup predecided'
  <2>1. StageOf(c)' = "taken over" /\ OutcomeOf(c)' = NoRow /\ StartsOf(c)' = 0
    BY <1>9 DEF StageOf, OutcomeOf, StartsOf
  <2>2. rows[c].finalized \/ ~rows[c].stale
    BY <1>6, <1>9, NotTakenOver
  <2>3. StageOf(c) \in {"awaited", "decided"}
    BY <1>2, <1>9, <2>2, NotTakenOver
  <2> QED BY <1>7, <2>1, <2>3, OneCallMoves DEF Promise!TakeOver, Stage
<1>10. CASE StageOf(c) # "taken over" /\ c \notin reopened' \cup predecided'
  <2>1. StageOf(c)' = StageOf(c) /\ StartsOf(c)' = StartsOf(c)
    BY <1>2, <1>4, <1>5, <1>7, <1>10, NotTakenOver DEF StageOf, StartsOf
  <2>2. CASE rows[c].finalized
    <3>1. StageOf(c) = "decided" /\ rows[c].dispo \in FinalDispositions
      BY <1>2, <1>10, <2>2, NotTakenOver DEF Finalized
    <3>2. new.dispo \in FinalDispositions
      <4>1. p.dispo \in FinalDispositions \cup {"same"}
        BY <1>1, <1>6, <1>10, <2>2 DEF Patch, Dispositions
      <4> QED BY <1>4, <3>1, <4>1 DEF PatchedDispo
    <3>3. OutcomeOf(c)' = new.dispo
      BY <1>7, <2>1, <3>1 DEF OutcomeOf
    <3>4. Outcome' = [Outcome EXCEPT ![c] = new.dispo] /\ Stage[c] = "decided"
      BY <1>7, <3>1, <3>3, OneCallMoves DEF Stage
    <3>5. Stage' = Stage /\ Starts' = Starts
      <4>1. \A b \in Calls : StageOf(b)' = StageOf(b) /\ StartsOf(b)' = StartsOf(b)
        BY <1>7, <2>1, KeptIsSeenAlike DEF KeepsView
      <4> QED BY <4>1 DEF Stage, Starts
    <3> QED BY <3>2, <3>4, <3>5 DEF Promise!Correct
  <2>3. CASE ~rows[c].finalized
    <3>1. StageOf(c) # "decided"
      BY <1>2, <1>10, <2>3, NotTakenOver
    <3>2. OutcomeOf(c)' = OutcomeOf(c)
      BY <2>1, <3>1 DEF OutcomeOf
    <3> QED BY <1>7, <2>1, <3>2, OneKeptStutters DEF KeepsView
  <2> QED BY <2>2, <2>3
<1> QED BY <1>8, <1>9, <1>10

----------------------------------------------------------------------------
(* Every step is a step of the promise or a stutter.                        *)
LEMMA NextPromised ==
  IInv /\ [Next]_vars => [Promise!PromiseNext]_(Promise!promiseVars)
<1> SUFFICES ASSUME IInv, [Next]_vars
             PROVE  Promise!PromiseNext \/ UNCHANGED Promise!promiseVars
  OBVIOUS
<1>1. ASSUME NEW c \in Calls, NEW who \in Who, StartCall(c, who)
      PROVE  Promise!PromiseNext \/ UNCHANGED Promise!promiseVars
  BY <1>1, StartCallHears DEF Promise!PromiseNext
<1>2. ASSUME NEW c \in Calls, NEW d \in FinalDispositions, NEW who \in Who,
             FinalDisposition(c, d, who)
      PROVE  Promise!PromiseNext \/ UNCHANGED Promise!promiseVars
  BY <1>2, FinalDispositionDecides DEF Promise!PromiseNext
<1>3. ASSUME NEW marked \in SUBSET Calls, MarkStaleCalls(marked)
      PROVE  Promise!PromiseNext
  BY <1>3, MarkStaleCallsAbandons DEF Promise!PromiseNext
<1>4. ASSUME NEW c \in Calls, NEW found \in Found, IdentitySave(c, found)
      PROVE  UNCHANGED Promise!promiseVars
  BY <1>4, IdentitySaveStutters
<1>5. ASSUME NEW c \in Calls, NEW p \in EditorPatches, EditCall(c, p)
      PROVE  Promise!PromiseNext \/ UNCHANGED Promise!promiseVars
  BY <1>5, EditCallCorrects DEF Promise!PromiseNext
<1>6. ASSUME \/ \E c \in Calls : TwoHoursPass(c)
             \/ \E c \in Calls, found \in Found : IdentityLookup(c, found)
             \/ UNCHANGED vars
      PROVE  UNCHANGED Promise!promiseVars
  <2>1. UNCHANGED <<rows, published, reopened, predecided>>
    BY <1>6 DEF TwoHoursPass, IdentityLookup, tables, history, vars
  <2> QED BY <2>1, KeptIsSeenAlike, AllKeptStutters DEF KeepsCall
<1> QED BY <1>1, <1>2, <1>3, <1>4, <1>5, <1>6 DEF Next

(* CallLifecycle implements CallPromise: no order of callbacks, sweeps,     *)
(* identity answers, edits and crashes breaks what the portal relies on     *)
(* when it reads a call.                                                    *)
THEOREM Implements == Spec => KeepsPromise
<1>1. QED
  BY InitPromised, NextPromised, Invariance, PTL
  DEF Spec, KeepsPromise, Promise!PromiseSpec
=============================================================================
