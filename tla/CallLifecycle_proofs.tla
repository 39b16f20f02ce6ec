------------------------ MODULE CallLifecycle_proofs ------------------------
(***************************************************************************)
(* What CallLifecycle checks on one call, proved for any set of calls, any *)
(* outcome codes and any bounds.  The row operators of CallEvent preserve  *)
(* RowOK, which makes the invariants about single rows inductive; those    *)
(* about a call's history need two more facts, FinalizedIsDecided and      *)
(* UnfinalizedIsPending.                                                   *)
(***************************************************************************)
EXTENDS CallLifecycle, CallEvent_proofs

RowOK(r) ==
  /\ Coherent(r)
  /\ IF r.stale THEN r.lookup = "skipped" /\ r.download = "skipped"
                ELSE r.lookup = "pending" /\ r.download = "pending"

----------------------------------------------------------------------------
(* The row operators keep rows coherent, and the recording skipped while    *)
(* the row is stale.                                                        *)
LEMMA CreateRowOK ==
  ASSUME NEW kind \in {"dispo", "no_agent"}, NEW who \in Who,
         NEW d \in FinalDispositions \cup {"NEW"}
  PROVE  RowOK(CreateRow(kind, d, who))
BY CreateRowCoherent DEF RowOK

LEMMA MergeStartOK ==
  ASSUME NEW r, RowOK(r), NEW who \in Who
  PROVE  RowOK(MergeStart(r, who))
BY MergeStartCoherent DEF RowOK

(* A stale row awaits its outcome, which makes its recording eligible.      *)
LEMMA MergeFinalOK ==
  ASSUME NEW r, RowOK(r), NEW who \in Who, NEW d \in FinalDispositions
  PROVE  RowOK(MergeFinal(r, d, who))
BY MergeFinalCoherent DEF RowOK, WasPending

LEMMA MarkStaleOK ==
  ASSUME NEW r, RowOK(r), SweepSelects(r)
  PROVE  RowOK(MarkStale(r))
BY MarkStaleCoherent DEF RowOK

LEMMA ApplyIdentityOK ==
  ASSUME NEW r, RowOK(r), NEW found
  PROVE  RowOK(ApplyIdentity(r, found))
BY ApplyIdentityCoherent DEF RowOK

LEMMA EditRowOK ==
  ASSUME NEW r, RowOK(r), NEW p \in Patch, ValidPatch(r, p)
  PROVE  RowOK(EditRow(r, p))
<1>1. Coherent(r)
  BY DEF RowOK
<1>2. /\ Coherent(EditRow(r, p)) /\ EditRow(r, p).stale = r.stale
      /\ EditRow(r, p).lookup = r.lookup /\ EditRow(r, p).download = r.download
  BY <1>1, EditRowCoherent
<1> QED
  BY <1>2 DEF RowOK

----------------------------------------------------------------------------
(* Publish touches the counters of one call, and adds at most one to each.  *)
LEMMA PublishStep ==
  ASSUME TypeOK, NEW c \in Calls, NEW tasks, Len(tasks) \in Nat, Publish(c, tasks)
  PROVE  /\ published' \in [Calls -> [Tasks -> Nat]]
         /\ lost' \in SUBSET Calls /\ lost \subseteq lost'
         /\ \A b \in Calls \ {c} : published'[b] = published[b] /\ (b \in lost' <=> b \in lost)
         /\ \A t \in Tasks : published'[c][t] \in {published[c][t], published[c][t] + 1}
         /\ \A t \in Tasks : (\A i \in 1 .. Len(tasks) : tasks[i] # t)
              => published'[c][t] = published[c][t]
         /\ \A t \in Tasks : c \notin lost' /\ (\E i \in 1 .. Len(tasks) : tasks[i] = t)
              => published'[c][t] = published[c][t] + 1
<1>1. PICK n \in 0 .. Len(tasks) :
        /\ published' = [published EXCEPT ![c] =
             [t \in Tasks |-> @[t] + (IF \E i \in 1 .. n : tasks[i] = t THEN 1 ELSE 0)]]
        /\ lost' = IF n < Len(tasks) THEN lost \cup {c} ELSE lost
  BY DEF Publish
<1>2. published \in [Calls -> [Tasks -> Nat]] /\ lost \in SUBSET Calls
  BY DEF TypeOK
<1>3. \A t \in Tasks : published'[c][t] =
        published[c][t] + (IF \E i \in 1 .. n : tasks[i] = t THEN 1 ELSE 0)
  BY <1>1, <1>2
<1>4. published' \in [Calls -> [Tasks -> Nat]]
  BY <1>1, <1>2
<1>5. /\ lost' \in SUBSET Calls /\ lost \subseteq lost'
      /\ \A b \in Calls \ {c} : published'[b] = published[b] /\ (b \in lost' <=> b \in lost)
  BY <1>1, <1>2
<1>6. \A t \in Tasks : published[c][t] \in Nat
  BY <1>2
<1>7. \A t \in Tasks : published'[c][t] \in {published[c][t], published[c][t] + 1}
  BY <1>3, <1>6
<1>8. ASSUME NEW t \in Tasks, \A i \in 1 .. Len(tasks) : tasks[i] # t
      PROVE  published'[c][t] = published[c][t]
  <2>1. ~ \E i \in 1 .. n : tasks[i] = t
    BY <1>8
  <2> QED BY <2>1, <1>3, <1>6
<1>9. ASSUME NEW t \in Tasks, c \notin lost', \E i \in 1 .. Len(tasks) : tasks[i] = t
      PROVE  published'[c][t] = published[c][t] + 1
  <2>1. n = Len(tasks)
    BY <1>1, <1>9
  <2> QED BY <2>1, <1>3, <1>9
<1> QED BY <1>4, <1>5, <1>7, <1>8, <1>9

----------------------------------------------------------------------------
(* The inductive invariant.  RowsOK carries the two invariants about single *)
(* rows and CallOK the three about the history of a call.  To these CallOK  *)
(* adds that a call without a disposition still awaits one, unless the      *)
(* editor decided it: that makes its first disposition callback publish the *)
(* pipeline, as the decided outcome of a finalized call keeps later ones    *)
(* from publishing it again; and that identity tasks are about calls that   *)
(* have a row.                                                              *)
RowsOK == \A c \in Calls : Exists(c) => RowOK(rows[c])

Finalized(c) == Exists(c) /\ rows[c].finalized

CallOK(c) ==
  /\ c \in identity \/ held[c] # {} => Exists(c)
  /\ c \notin predecided => (Exists(c) /\ ~rows[c].finalized => WasPending(rows[c]))
  /\ c \notin reopened =>
       /\ published[c]["resolve_recording"] <= IF Finalized(c) THEN 1 ELSE 0
       /\ Finalized(c) => /\ rows[c].dispo = word[c] /\ word[c] \notin Pending
                          /\ ~rows[c].stale
  /\ c \notin predecided \cup lost =>
       (Finalized(c) => published[c]["resolve_recording"] >= 1)

IInv == TypeOK /\ RowsOK /\ \A c \in Calls : CallOK(c)

(* The invariants of the runs follow from it.                               *)
LEMMA IInvMeans ==
  IInv => /\ BusinessFlagsCoherent /\ SkippedExactlyWhileStale
          /\ PipelineStartedOnce /\ FinalizedWasStarted /\ OutcomeIsLastWord
<1> SUFFICES ASSUME IInv PROVE
      /\ BusinessFlagsCoherent /\ SkippedExactlyWhileStale
      /\ PipelineStartedOnce /\ FinalizedWasStarted /\ OutcomeIsLastWord
  OBVIOUS
<1>1. BusinessFlagsCoherent /\ SkippedExactlyWhileStale
  BY DEF IInv, RowsOK, RowOK, Coherent, BusinessFlagsCoherent, SkippedExactlyWhileStale
<1>2. PipelineStartedOnce
  BY DEF IInv, CallOK, Finalized, PipelineStartedOnce
<1>3. FinalizedWasStarted /\ OutcomeIsLastWord
  BY DEF IInv, CallOK, Finalized, FinalizedWasStarted, OutcomeIsLastWord
<1> QED BY <1>1, <1>2, <1>3

(* Before the first callback there is nothing to keep.                      *)
LEMMA InitOK == Init => IInv
<1> SUFFICES ASSUME Init PROVE IInv
  OBVIOUS
<1>1. \A c \in Calls : ~Exists(c)
  BY DEF Init, Exists
<1>2. TypeOK
  BY DEF Init, TypeOK, Dispositions, Pending, Provisional
<1>3. \A c \in Calls : published[c]["resolve_recording"] = 0
  BY DEF Init, Tasks
<1>4. identity = {} /\ \A c \in Calls : held[c] = {}
  BY DEF Init
<1>5. \A c \in Calls : CallOK(c)
  BY <1>1, <1>3, <1>4 DEF CallOK, Finalized
<1> QED
  BY <1>1, <1>2, <1>5 DEF IInv, RowsOK

(* A step about one call leaves what is known of the others.                *)
LEMMA OtherCalls ==
  ASSUME IInv, NEW c \in Calls, CallOK(c)',
         \A b \in Calls \ {c} :
           /\ rows'[b] = rows[b] /\ published'[b] = published[b] /\ word'[b] = word[b]
           /\ held'[b] = held[b] /\ (b \in identity' <=> b \in identity)
           /\ b \in reopened' <=> b \in reopened
           /\ b \in predecided' <=> b \in predecided
           /\ b \in lost' <=> b \in lost
  PROVE  \A b \in Calls : CallOK(b)'
<1> SUFFICES ASSUME NEW b \in Calls, b # c PROVE CallOK(b)'
  OBVIOUS
<1>1. CallOK(b)
  BY DEF IInv
<1> QED BY <1>1 DEF CallOK, Finalized, Exists

(* A step that changes the row of c only, keeps it well formed and leaves   *)
(* the history of other calls alone keeps the rows well formed.             *)
LEMMA OneRowStep ==
  ASSUME RowsOK, rows \in [Calls -> Row \cup {NoRow}], NEW c \in Calls,
         NEW new, RowOK(new), rows' = [rows EXCEPT ![c] = new]
  PROVE  /\ rows' \in [Calls -> Row \cup {NoRow}]
         /\ RowsOK'
         /\ rows'[c] = new /\ new # NoRow
         /\ \A b \in Calls \ {c} : rows'[b] = rows[b]
<1>1. new \in Row /\ new # NoRow
  BY LifecycleAssumption DEF RowOK, Coherent
<1>2. /\ rows' \in [Calls -> Row \cup {NoRow}]
      /\ rows'[c] = new
      /\ \A b \in Calls \ {c} : rows'[b] = rows[b]
  BY <1>1
<1> QED BY <1>1, <1>2 DEF RowsOK, Exists

----------------------------------------------------------------------------
(* Every step keeps the inductive invariant.                                *)
LEMMA StartCallOK ==
  ASSUME IInv, NEW c \in Calls, NEW who \in Who, StartCall(c, who)
  PROVE  IInv'
<1> DEFINE new == IF Exists(c) THEN MergeStart(rows[c], who)
                  ELSE CreateRow("dispo", "NEW", who)
<1>1. TypeOK /\ RowsOK /\ CallOK(c)
  BY DEF IInv
<1>2. rows' = [rows EXCEPT ![c] = new]
  BY DEF StartCall
<1>3. RowOK(new)
  BY <1>1, MergeStartOK, CreateRowOK DEF RowsOK
<1>4. /\ rows' \in [Calls -> Row \cup {NoRow}] /\ RowsOK'
      /\ rows'[c] = new /\ new # NoRow
      /\ \A b \in Calls \ {c} : rows'[b] = rows[b]
  <2> HIDE DEF new
  <2> QED BY <1>1, <1>2, <1>3, OneRowStep DEF TypeOK
<1>5. TypeOK'
  BY <1>1, <1>4 DEF TypeOK, StartCall, history
<1>6. CallOK(c)'
  <2>1. CASE ~Exists(c)
    <3>1. new.dispo = "NEW" /\ ~new.finalized
      BY <2>1 DEF CreateRow
    <3>2. WasPending(new)
      BY <3>1 DEF WasPending, Pending, Provisional
    <3> QED BY <1>1, <1>4, <2>1, <3>1, <3>2 DEF CallOK, Finalized, Exists, StartCall, history
  <2>2. CASE Exists(c)
    <3>1. rows[c] \in Row
      BY <1>1, <2>2 DEF RowsOK, RowOK, Coherent
    <3>2. /\ new.finalized = rows[c].finalized /\ new.stale = rows[c].stale
          /\ rows[c].dispo \in Provisional => new.dispo \in Pending
          /\ rows[c].dispo \notin Provisional => new.dispo = rows[c].dispo
      BY <2>2, <3>1 DEF MergeStart, Row, Pending, Provisional
    <3>3. WasPending(rows[c]) => WasPending(new)
      BY <3>2 DEF WasPending
    <3>4. rows[c].dispo \notin Pending => new.dispo = rows[c].dispo
      BY <3>2 DEF Pending
    <3> QED BY <1>1, <1>4, <2>2, <3>2, <3>3, <3>4
            DEF CallOK, Finalized, Exists, StartCall, history
  <2> QED BY <2>1, <2>2
<1> QED
  BY <1>4, <1>5, <1>6, OtherCalls DEF IInv, StartCall, history

(* A disposition publishes the pipeline only for a call without an outcome. *)
LEMMA FinalDispositionOK ==
  ASSUME IInv, NEW c \in Calls, NEW d \in FinalDispositions, NEW who \in Who,
         FinalDisposition(c, d, who)
  PROVE  IInv'
<1> DEFINE new   == IF Exists(c) THEN MergeFinal(rows[c], d, who)
                    ELSE CreateRow(IF c \in noAgent THEN "no_agent" ELSE "dispo", d, who)
           tasks == FinalPublishes(~Exists(c), rows[c], d)
           R     == "resolve_recording"
<1>1. TypeOK /\ RowsOK /\ CallOK(c)
  BY DEF IInv
<1>2. rows' = [rows EXCEPT ![c] = new] /\ Publish(c, tasks)
  BY DEF FinalDisposition
<1>3. RowOK(new)
  BY <1>1, MergeFinalOK, CreateRowOK DEF RowsOK
<1>4. /\ rows' \in [Calls -> Row \cup {NoRow}] /\ RowsOK'
      /\ rows'[c] = new /\ new # NoRow
      /\ \A b \in Calls \ {c} : rows'[b] = rows[b]
  <2> HIDE DEF new
  <2> QED BY <1>1, <1>2, <1>3, OneRowStep DEF TypeOK
<1>5. new.dispo = d /\ ~new.stale /\ new.finalized
  <2>1. CASE Exists(c)
    BY <1>1, <2>1 DEF RowsOK, RowOK, Coherent, Row, MergeFinal
  <2>2. CASE ~Exists(c)
    BY <2>2, FinalDispositionsAssumption DEF CreateRow, Pending, Provisional
  <2> QED BY <2>1, <2>2
<1>6. Len(tasks) \in {0, 1, 2}
  BY DEF FinalPublishes
<1>7. /\ published' \in [Calls -> [Tasks -> Nat]]
      /\ lost' \in SUBSET Calls /\ lost \subseteq lost'
      /\ \A b \in Calls \ {c} : published'[b] = published[b] /\ (b \in lost' <=> b \in lost)
      /\ published'[c][R] \in {published[c][R], published[c][R] + 1}
      /\ (\A i \in 1 .. Len(tasks) : tasks[i] # R) => published'[c][R] = published[c][R]
      /\ c \notin lost' /\ (\E i \in 1 .. Len(tasks) : tasks[i] = R)
           => published'[c][R] = published[c][R] + 1
  <2>1. R \in Tasks /\ Len(tasks) \in Nat
    BY <1>6 DEF Tasks
  <2> HIDE DEF tasks
  <2> QED BY <1>1, <1>2, <2>1, PublishStep
<1>8. word'[c] = d /\ \A b \in Calls \ {c} : word'[b] = word[b]
  BY <1>1 DEF FinalDisposition, TypeOK
<1>9. TypeOK'
  <2>1. word' \in [Calls -> Dispositions]
    BY <1>1 DEF FinalDisposition, TypeOK, Dispositions
  <2> QED BY <1>1, <1>4, <1>7, <2>1 DEF TypeOK, FinalDisposition
<1>10. /\ reopened' = reopened /\ predecided' = predecided
       /\ published[c][R] \in Nat
  BY <1>1 DEF FinalDisposition, TypeOK, Tasks
<1>11. Finalized(c)'
  BY <1>4, <1>5 DEF Finalized, Exists
<1>12. c \notin reopened => published'[c][R] <= 1
  <2> SUFFICES ASSUME c \notin reopened PROVE published'[c][R] <= 1
    OBVIOUS
  <2>1. CASE Finalized(c)
    <3>1. published[c][R] <= 1 /\ ~WasPending(rows[c])
      BY <1>1, <2>1 DEF CallOK, WasPending
    <3>2. tasks = FinalPublishes(FALSE, rows[c], d)
      BY <2>1 DEF Finalized
    <3>3. Len(tasks) \in {0, 1} /\ (Len(tasks) = 1 => tasks[1] = "resolve_sale_preset")
      <4> HIDE DEF tasks
      <4> QED BY <3>1, <3>2, LaterFinalPublishes
    <3>4. \A i \in 1 .. Len(tasks) : tasks[i] # R
      <4> HIDE DEF tasks
      <4> QED BY <3>3
    <3> QED BY <1>7, <3>1, <3>4
  <2>2. CASE ~Finalized(c)
    <3>1. published[c][R] <= 0
      BY <1>1, <2>2 DEF CallOK
    <3> QED BY <1>7, <1>10, <3>1
  <2> QED BY <2>1, <2>2
<1>13. c \notin predecided \cup lost' => published'[c][R] >= 1
  <2> SUFFICES ASSUME c \notin predecided, c \notin lost' PROVE published'[c][R] >= 1
    OBVIOUS
  <2>1. CASE Finalized(c)
    <3>1. published[c][R] >= 1
      BY <1>1, <1>7, <2>1 DEF CallOK
    <3> QED BY <1>7, <1>10, <3>1
  <2>2. CASE ~Finalized(c)
    <3>1. ~Exists(c) \/ WasPending(rows[c])
      BY <1>1, <2>2 DEF CallOK, Finalized
    <3>2. Len(tasks) \in {1, 2} /\ tasks[1] = R
      BY <3>1, FirstFinalPublishes
    <3>3. \E i \in 1 .. Len(tasks) : tasks[i] = R
      BY <3>2
    <3> QED BY <1>7, <1>10, <3>3
  <2> QED BY <2>1, <2>2
<1>14. CallOK(c)'
  BY <1>4, <1>5, <1>8, <1>10, <1>11, <1>12, <1>13, FinalDispositionsAssumption
  DEF CallOK, Finalized
<1> QED
  BY <1>4, <1>7, <1>8, <1>9, <1>10, <1>14, OtherCalls DEF IInv, FinalDisposition

(* Time alone changes no row.                                               *)
LEMMA TwoHoursPassOK ==
  ASSUME IInv, NEW c \in Calls, TwoHoursPass(c)
  PROVE  IInv'
BY DEF IInv, TwoHoursPass, TypeOK, RowsOK, CallOK, Finalized, Exists, tables, history

(* The sweep marks unfinalized rows and leaves the others alone.            *)
LEMMA MarkStaleCallsOK ==
  ASSUME IInv, NEW marked \in SUBSET Calls, MarkStaleCalls(marked)
  PROVE  IInv'
<1>1. TypeOK /\ RowsOK /\ \A c \in Calls : CallOK(c)
  BY DEF IInv
<1>2. \A c \in marked : /\ Exists(c) /\ SweepSelects(rows[c])
                        /\ RowOK(rows[c]) /\ RowOK(MarkStale(rows[c]))
  BY <1>1, MarkStaleOK DEF MarkStaleCalls, Sweepable, RowsOK, TypeOK
<1>3. \A c \in Calls : rows'[c] = IF c \in marked THEN MarkStale(rows[c]) ELSE rows[c]
  BY DEF MarkStaleCalls
<1>4. rows' \in [Calls -> Row \cup {NoRow}] /\ RowsOK'
  <2>1. \A c \in marked : MarkStale(rows[c]) \in Row
    BY <1>2 DEF RowOK, Coherent
  <2>2. \A c \in Calls : rows[c] \in Row \cup {NoRow}
    BY <1>1 DEF TypeOK
  <2>3. \A c \in Calls : rows'[c] \in Row \cup {NoRow}
    BY <1>3, <2>1, <2>2
  <2>4. rows' \in [Calls -> Row \cup {NoRow}]
    BY <2>3 DEF MarkStaleCalls
  <2>5. RowsOK'
    BY <1>1, <1>2, <1>3 DEF RowsOK, Exists
  <2> QED BY <2>4, <2>5
<1>5. TypeOK'
  <2>1. identity' \in SUBSET Calls
    BY <1>1 DEF MarkStaleCalls, TypeOK
  <2> QED BY <1>1, <1>4, <2>1 DEF TypeOK, MarkStaleCalls, history
<1>6. \A c \in Calls : CallOK(c)'
  <2> SUFFICES ASSUME NEW c \in Calls PROVE CallOK(c)'
    OBVIOUS
  <2>1. CASE c \notin marked
    BY <1>1, <1>3, <2>1 DEF CallOK, Finalized, Exists, MarkStaleCalls, history
  <2>2. CASE c \in marked
    <3>1. rows[c].dispo \in Pending
      BY <1>2, <2>2 DEF SweepSelects, Pending
    <3>2. rows'[c].finalized = rows[c].finalized /\ rows'[c].stale = TRUE
      <4>1. rows'[c] = MarkStale(rows[c]) /\ rows[c] \in Row
        BY <1>2, <1>3, <2>2 DEF RowOK, Coherent
      <4> QED BY <4>1 DEF MarkStale, Row
    <3>3. Exists(c) /\ Exists(c)'
      BY <1>2, <1>3, <2>2, LifecycleAssumption DEF Exists, RowOK, Coherent
    <3>4. c \notin reopened => ~Finalized(c)
      BY <1>1, <3>1 DEF CallOK
    <3> QED BY <1>1, <3>2, <3>3, <3>4
            DEF CallOK, Finalized, WasPending, MarkStaleCalls, history
  <2> QED BY <2>1, <2>2
<1> QED BY <1>4, <1>5, <1>6 DEF IInv

(* The identity task changes nothing while it asks VICIdial.                *)
LEMMA IdentityLookupOK ==
  ASSUME IInv, NEW c \in Calls, NEW found \in Found, IdentityLookup(c, found)
  PROVE  IInv'
<1>1. TypeOK'
  BY DEF IInv, IdentityLookup, TypeOK, tables, history
<1> QED
  BY <1>1 DEF IInv, IdentityLookup, RowsOK, CallOK, Finalized, Exists, tables, history

(* The identity task writes only under the row lock and only a row that is  *)
(* still stale; it changes neither the outcome nor the recording.           *)
LEMMA IdentitySaveOK ==
  ASSUME IInv, NEW c \in Calls, NEW found \in Found, IdentitySave(c, found)
  PROVE  IInv'
<1>1. TypeOK /\ RowsOK /\ CallOK(c)
  BY DEF IInv
<1>2. held' \in [Calls -> SUBSET Found]
  BY <1>1 DEF IdentitySave, TypeOK
<1>3. CASE ~StillStale(rows[c])
  <2>1. TypeOK'
    BY <1>1, <1>2, <1>3 DEF TypeOK, IdentitySave, history
  <2> QED
    BY <1>3, <2>1 DEF IInv, IdentitySave, RowsOK, CallOK, Finalized, Exists, history
<1>4. Exists(c)
  BY <1>1 DEF CallOK, IdentitySave
<1>5. CASE StillStale(rows[c])
  <2> DEFINE new == ApplyIdentity(rows[c], found)
  <2>1. RowOK(rows[c]) /\ RowOK(new)
    BY <1>1, <1>4, ApplyIdentityOK DEF RowsOK
  <2>2. rows' = [rows EXCEPT ![c] = new]
    BY <1>5 DEF IdentitySave
  <2>3. /\ rows' \in [Calls -> Row \cup {NoRow}] /\ RowsOK'
        /\ rows'[c] = new /\ new # NoRow
        /\ \A b \in Calls \ {c} : rows'[b] = rows[b]
    <3> HIDE DEF new
    <3> QED BY <1>1, <2>1, <2>2, OneRowStep DEF TypeOK
  <2>4. /\ new.dispo = rows[c].dispo /\ new.stale = rows[c].stale
        /\ new.finalized = rows[c].finalized
    BY <2>1 DEF ApplyIdentity, RowOK, Coherent, Row
  <2>5. TypeOK'
    BY <1>1, <1>2, <2>3 DEF TypeOK, IdentitySave, history
  <2>6. CallOK(c)'
    BY <1>1, <1>4, <2>3, <2>4
    DEF CallOK, Finalized, Exists, WasPending, IdentitySave, history
  <2> QED BY <2>3, <2>5, <2>6, OtherCalls DEF IInv, IdentitySave, history
<1> QED BY <1>3, <1>5

(* The editor keeps the recording and records what it reopens or decides.   *)
LEMMA EditCallOK ==
  ASSUME IInv, NEW c \in Calls, NEW p \in EditorPatches, EditCall(c, p)
  PROVE  IInv'
<1> DEFINE new   == EditRow(rows[c], p)
           tasks == EditPublishes(rows[c], new)
           R     == "resolve_recording"
<1>1. TypeOK /\ RowsOK /\ CallOK(c) /\ p \in Patch
  BY LifecycleAssumption DEF IInv
<1>2. /\ Exists(c) /\ RowOK(rows[c]) /\ ValidPatch(rows[c], p)
      /\ rows' = [rows EXCEPT ![c] = new] /\ Publish(c, tasks)
  BY <1>1 DEF EditCall, RowsOK
<1>3. RowOK(new)
  BY <1>1, <1>2, EditRowOK
<1>4. /\ rows' \in [Calls -> Row \cup {NoRow}] /\ RowsOK'
      /\ rows'[c] = new /\ new # NoRow
      /\ \A b \in Calls \ {c} : rows'[b] = rows[b]
  <2> HIDE DEF new
  <2> QED BY <1>1, <1>2, <1>3, OneRowStep DEF TypeOK
<1>5. /\ new.dispo = PatchedDispo(rows[c], p)
      /\ new.stale = rows[c].stale /\ new.finalized = rows[c].finalized
  BY <1>2 DEF EditRow, RowOK, Coherent, Row
<1>6. /\ published' \in [Calls -> [Tasks -> Nat]]
      /\ lost' \in SUBSET Calls /\ lost \subseteq lost'
      /\ \A b \in Calls \ {c} : published'[b] = published[b] /\ (b \in lost' <=> b \in lost)
      /\ published'[c][R] = published[c][R]
  <2>1. R \in Tasks
    BY DEF Tasks
  <2>2. Len(tasks) \in {0, 1} /\ (Len(tasks) = 1 => tasks[1] = "resolve_sale_preset")
    <3> HIDE DEF new
    <3> QED BY EditPublishesPreset
  <2>3. Len(tasks) \in Nat /\ \A i \in 1 .. Len(tasks) : tasks[i] # R
    <3> HIDE DEF tasks
    <3> QED BY <2>2
  <2> HIDE DEF tasks
  <2> QED BY <1>1, <1>2, <2>1, <2>3, PublishStep
<1>7. /\ word'[c] = IF p.dispo = "same" THEN word[c] ELSE p.dispo
      /\ \A b \in Calls \ {c} : word'[b] = word[b]
      /\ word' \in [Calls -> Dispositions]
  <2>1. word \in [Calls -> Dispositions] /\ p.dispo \in Dispositions \cup {"same"}
    BY <1>1 DEF TypeOK, Patch
  <2> QED BY <2>1 DEF EditCall
<1>8. /\ reopened' = IF rows[c].finalized /\ p.dispo \in Pending
                       THEN reopened \cup {c} ELSE reopened
      /\ predecided' = IF ~rows[c].finalized /\ ~rows[c].stale /\ new.dispo \notin Pending
                         THEN predecided \cup {c} ELSE predecided
  BY DEF EditCall
<1>9. /\ reopened' \in SUBSET Calls /\ predecided' \in SUBSET Calls
      /\ reopened \subseteq reopened' /\ predecided \subseteq predecided'
      /\ \A b \in Calls \ {c} : /\ b \in reopened' <=> b \in reopened
                                /\ b \in predecided' <=> b \in predecided
  <2> HIDE DEF new
  <2> QED BY <1>1, <1>8 DEF TypeOK
<1>10. TypeOK'
  BY <1>1, <1>4, <1>6, <1>7, <1>9 DEF TypeOK, EditCall
<1>11. UNCHANGED <<identity, held>> /\ Exists(c)' /\ (Finalized(c)' <=> Finalized(c))
  BY <1>2, <1>4, <1>5 DEF EditCall, Exists, Finalized
<1>12. c \notin predecided' => (Exists(c)' /\ ~rows'[c].finalized => WasPending(rows'[c]))
  BY <1>4, <1>5, <1>8 DEF WasPending
<1>13. c \notin reopened' /\ Finalized(c)' =>
         rows'[c].dispo = word'[c] /\ word'[c] \notin Pending /\ ~rows'[c].stale
  <2> SUFFICES ASSUME c \notin reopened', Finalized(c)
               PROVE  rows'[c].dispo = word'[c] /\ word'[c] \notin Pending /\ ~rows'[c].stale
    BY <1>11
  <2>1. /\ rows[c].dispo = word[c] /\ word[c] \notin Pending /\ ~rows[c].stale
        /\ p.dispo \notin Pending
    BY <1>1, <1>8, <1>9 DEF CallOK, Finalized
  <2> QED BY <1>4, <1>5, <1>7, <2>1 DEF PatchedDispo
<1>14. CallOK(c)'
  <2> HIDE DEF new
  <2>1. CallOK(c)
    BY <1>1
  <2> QED BY <1>6, <1>9, <1>11, <1>12, <1>13, <2>1 DEF CallOK
<1> QED
  BY <1>4, <1>6, <1>7, <1>9, <1>10, <1>11, <1>14, OtherCalls DEF IInv

(* No other step exists.                                                    *)
LEMMA NextOK == IInv /\ [Next]_vars => IInv'
<1> SUFFICES ASSUME IInv, [Next]_vars PROVE IInv'
  OBVIOUS
<1>1. ASSUME NEW c \in Calls, NEW who \in Who, StartCall(c, who) PROVE IInv'
  BY <1>1, StartCallOK
<1>2. ASSUME NEW c \in Calls, NEW d \in FinalDispositions, NEW who \in Who,
             FinalDisposition(c, d, who)
      PROVE  IInv'
  BY <1>2, FinalDispositionOK
<1>3. ASSUME NEW c \in Calls, TwoHoursPass(c) PROVE IInv'
  BY <1>3, TwoHoursPassOK
<1>4. ASSUME NEW marked \in SUBSET Calls, MarkStaleCalls(marked) PROVE IInv'
  BY <1>4, MarkStaleCallsOK
<1>5. ASSUME NEW c \in Calls, NEW found \in Found, IdentityLookup(c, found) PROVE IInv'
  BY <1>5, IdentityLookupOK
<1>6. ASSUME NEW c \in Calls, NEW found \in Found, IdentitySave(c, found) PROVE IInv'
  BY <1>6, IdentitySaveOK
<1>7. ASSUME NEW c \in Calls, NEW p \in EditorPatches, EditCall(c, p) PROVE IInv'
  BY <1>7, EditCallOK
<1>8. CASE UNCHANGED vars
  BY <1>8 DEF IInv, TypeOK, RowsOK, CallOK, Finalized, Exists, vars, tables, history
<1> QED
  BY <1>1, <1>2, <1>3, <1>4, <1>5, <1>6, <1>7, <1>8 DEF Next

(* The inductive invariant holds in every reachable state.                  *)
LEMMA Invariance == Spec => []IInv
<1>1. QED BY InitOK, NextOK, PTL DEF Spec

----------------------------------------------------------------------------
(* Every variable keeps its type, the rows the column values the code uses. *)
THEOREM TypeCorrect == Spec => []TypeOK
<1>1. IInv => TypeOK
  BY DEF IInv
<1> QED BY <1>1, Invariance, PTL

(* No order of callbacks, sweeps, identity answers and edits writes a row   *)
(* the table's CHECK constraints refuse.                                    *)
THEOREM FlagsCoherent == Spec => []BusinessFlagsCoherent
<1>1. IInv => BusinessFlagsCoherent
  BY IInvMeans
<1> QED BY <1>1, Invariance, PTL

(* A row's recording is skipped exactly while the row is stale.             *)
THEOREM SkippedWhileStale == Spec => []SkippedExactlyWhileStale
<1>1. IInv => SkippedExactlyWhileStale
  BY IInvMeans
<1> QED BY <1>1, Invariance, PTL

(* However many callbacks a call gets, they start its pipeline at most once. *)
THEOREM StartedOnce == Spec => []PipelineStartedOnce
<1>1. IInv => PipelineStartedOnce
  BY IInvMeans
<1> QED BY <1>1, Invariance, PTL

(* A finalized call had its pipeline started, but for the two exceptions    *)
(* FinalizedWasStarted names.                                               *)
THEOREM Started == Spec => []FinalizedWasStarted
<1>1. IInv => FinalizedWasStarted
  BY IInvMeans
<1> QED BY <1>1, Invariance, PTL

(* The recording work of a call follows the call, for any number of         *)
(* callbacks, lost, late or repeated (merge_final and mark_stale_calls).    *)
THEOREM PipelineFollows == Spec => []PipelineFollowsCall
<1>1. IInv => PipelineFollowsCall
  BY IInvMeans DEF PipelineFollowsCall
<1> QED BY <1>1, Invariance, PTL

(* Nothing takes back the outcome of a finalized call.                      *)
THEOREM OutcomeKept == Spec => []OutcomeIsLastWord
<1>1. IInv => OutcomeIsLastWord
  BY IInvMeans
<1> QED BY <1>1, Invariance, PTL

----------------------------------------------------------------------------
(* A finalized call that the editor did not reopen is not stale, so no      *)
(* identity answer applies to it, and no other step looks names up.         *)
LEMMA StepKeepsIdentity ==
  ASSUME IInv, [Next]_vars, NEW c \in Calls, c \notin reopened, Finalized(c)
  PROVE  /\ rows'[c].name = "lookup" => rows[c].name = "lookup"
         /\ rows'[c].team = "lookup" => rows[c].team = "lookup"
<1>1. TypeOK /\ CallOK(c) /\ rows[c] \in Row
  BY DEF IInv, RowsOK, RowOK, Coherent, Finalized
<1>2. ~rows[c].stale /\ rows[c].dispo \notin Pending
  BY <1>1 DEF CallOK
<1>3. ASSUME NEW b \in Calls, NEW new, rows' = [rows EXCEPT ![b] = new],
             b = c => /\ new.name = "lookup" => rows[c].name = "lookup"
                      /\ new.team = "lookup" => rows[c].team = "lookup"
      PROVE  /\ rows'[c].name = "lookup" => rows[c].name = "lookup"
             /\ rows'[c].team = "lookup" => rows[c].team = "lookup"
  BY <1>1, <1>3 DEF TypeOK
<1>4. ASSUME NEW b \in Calls, NEW who \in Who, StartCall(b, who)
      PROVE  /\ rows'[c].name = "lookup" => rows[c].name = "lookup"
             /\ rows'[c].team = "lookup" => rows[c].team = "lookup"
  <2> DEFINE new == IF Exists(b) THEN MergeStart(rows[b], who)
                    ELSE CreateRow("dispo", "NEW", who)
  <2>1. rows' = [rows EXCEPT ![b] = new]
    BY <1>4 DEF StartCall
  <2>2. ASSUME b = c
        PROVE  /\ new.name = FillIfEmpty(rows[c].name, who.name)
               /\ new.team = FillIfEmpty(rows[c].team, who.team)
    BY <1>1, <2>2 DEF MergeStart, Row, Finalized
  <2>3. who.name # "lookup" /\ who.team # "lookup"
    BY DEF Who
  <2>4. b = c => /\ new.name = "lookup" => rows[c].name = "lookup"
                 /\ new.team = "lookup" => rows[c].team = "lookup"
    BY <2>2, <2>3 DEF FillIfEmpty
  <2> HIDE DEF new
  <2> QED BY <1>3, <2>1, <2>4
<1>5. ASSUME NEW b \in Calls, NEW d \in FinalDispositions, NEW who \in Who,
             FinalDisposition(b, d, who)
      PROVE  /\ rows'[c].name = "lookup" => rows[c].name = "lookup"
             /\ rows'[c].team = "lookup" => rows[c].team = "lookup"
  <2> DEFINE new == IF Exists(b) THEN MergeFinal(rows[b], d, who)
                    ELSE CreateRow(IF b \in noAgent THEN "no_agent" ELSE "dispo", d, who)
  <2>1. rows' = [rows EXCEPT ![b] = new]
    BY <1>5 DEF FinalDisposition
  <2>2. ASSUME b = c
        PROVE  /\ new.name = Overwrite(rows[c].name, who.name)
               /\ new.team = Overwrite(rows[c].team, who.team)
    BY <1>1, <2>2 DEF MergeFinal, Row, Finalized
  <2>3. who.name # "lookup" /\ who.team # "lookup"
    BY DEF Who
  <2>4. b = c => /\ new.name = "lookup" => rows[c].name = "lookup"
                 /\ new.team = "lookup" => rows[c].team = "lookup"
    BY <2>2, <2>3 DEF Overwrite
  <2> HIDE DEF new
  <2> QED BY <1>3, <2>1, <2>4
<1>6. ASSUME NEW marked \in SUBSET Calls, MarkStaleCalls(marked)
      PROVE  rows'[c] = rows[c]
  <2>1. c \notin marked
    BY <1>2, <1>6 DEF MarkStaleCalls, Sweepable, SweepSelects, Pending
  <2> QED BY <1>6, <2>1 DEF MarkStaleCalls
<1>7. ASSUME NEW b \in Calls, NEW found \in Found, IdentitySave(b, found)
      PROVE  rows'[c] = rows[c]
  BY <1>1, <1>2, <1>7 DEF IdentitySave, StillStale, TypeOK
<1>8. ASSUME NEW b \in Calls, NEW p \in EditorPatches, EditCall(b, p)
      PROVE  /\ rows'[c].name = "lookup" => rows[c].name = "lookup"
             /\ rows'[c].team = "lookup" => rows[c].team = "lookup"
  <2>1. rows' = [rows EXCEPT ![b] = EditRow(rows[b], p)]
    BY <1>8 DEF EditCall
  <2>2. b = c => /\ EditRow(rows[b], p).name = rows[c].name
                 /\ EditRow(rows[b], p).team = rows[c].team
    BY <1>1 DEF EditRow, Row
  <2> QED BY <1>3, <2>1, <2>2
<1>9. ASSUME \/ \E b \in Calls : TwoHoursPass(b)
             \/ \E b \in Calls, found \in Found : IdentityLookup(b, found)
             \/ UNCHANGED vars
      PROVE  rows' = rows
  BY <1>9 DEF TwoHoursPass, IdentityLookup, tables, vars
<1> QED
  BY <1>4, <1>5, <1>6, <1>7, <1>8, <1>9 DEF Next

(* A late disposition wins over the identity task that was waiting for      *)
(* VICIdial when it arrived.                                                *)
THEOREM DispositionWins == Spec => LateDispositionWins
<1>1. IInv /\ [Next]_vars =>
        [\A c \in Calls \ reopened : Exists(c) /\ rows[c].finalized =>
           /\ rows'[c].name = "lookup" => rows[c].name = "lookup"
           /\ rows'[c].team = "lookup" => rows[c].team = "lookup"]_rows
  BY StepKeepsIdentity DEF Finalized
<1> QED BY <1>1, Invariance, PTL DEF Spec, LateDispositionWins
=============================================================================
