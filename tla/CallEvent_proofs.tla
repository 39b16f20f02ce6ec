-------------------------- MODULE CallEvent_proofs --------------------------
(***************************************************************************)
(* What the row operators of CallEvent preserve and publish: the lemmas    *)
(* that the proofs about the lifecycle, the preset and the recording of    *)
(* calls share.                                                            *)
(***************************************************************************)
EXTENDS CallEvent, TLAPS

\* A row of its type that the CHECK constraints and the serializer accept.
Coherent(r) ==
  /\ r \in Row
  /\ SaleOnlyFlags(r)
  /\ ThirtyImplies20(r)
  /\ "sold" \in r.biz => "client_30_plus" \in r.biz

----------------------------------------------------------------------------
(* A callback's new row is coherent and awaits its recording.               *)
LEMMA CreateRowCoherent ==
  ASSUME NEW kind \in {"dispo", "no_agent"}, NEW who \in Who,
         NEW d \in FinalDispositions \cup {"NEW"}
  PROVE  LET new == CreateRow(kind, d, who) IN
         /\ Coherent(new)
         /\ new.dispo = d /\ ~new.stale /\ new.finalized = (d # "NEW") /\ new.biz = {}
         /\ new.lookup = "pending" /\ new.download = "pending"
BY DEF Coherent, CreateRow, Row, Who, Names, Teams, Status, Flags, Dispositions, Pending,
       Provisional, SaleOnlyFlags, ThirtyImplies20

(* A Start Call that matches a row keeps it coherent: it only changes the   *)
(* outcome of a provisional row, and such a row carries no flag.            *)
LEMMA MergeStartCoherent ==
  ASSUME NEW r, Coherent(r), NEW who \in Who
  PROVE  LET new == MergeStart(r, who) IN
         /\ Coherent(new)
         /\ new.stale = r.stale /\ new.lookup = r.lookup /\ new.download = r.download
<1> DEFINE new == MergeStart(r, who)
<1>1. r \in Row /\ who.name \in Names /\ who.team \in Teams
  BY DEF Coherent, Who, Names, Teams
<1>2. FillIfEmpty(r.name, who.name) \in Names /\ FillIfEmpty(r.team, who.team) \in Teams
  BY <1>1 DEF FillIfEmpty, Row
<1>3. /\ new.dispo = IF r.dispo \in Provisional THEN "NEW" ELSE r.dispo
      /\ new.biz = r.biz /\ new.stale = r.stale
      /\ new.lookup = r.lookup /\ new.download = r.download
  BY <1>1 DEF MergeStart, Row
<1>4. new.dispo \in Dispositions
  BY <1>1, <1>3 DEF Row, Dispositions, Pending, Provisional
<1>5. new \in Row
  BY <1>1, <1>2, <1>3, <1>4 DEF MergeStart, Row
<1>6. SaleOnlyFlags(new)
  BY <1>3 DEF Coherent, SaleOnlyFlags, Provisional
<1> QED
  BY <1>3, <1>5, <1>6 DEF Coherent, ThirtyImplies20

(* So does a disposition callback, which makes the recording eligible again *)
(* exactly when the row was waiting for its outcome.                        *)
LEMMA MergeFinalCoherent ==
  ASSUME NEW r, Coherent(r), NEW who \in Who, NEW d \in FinalDispositions
  PROVE  LET new == MergeFinal(r, d, who) IN
         /\ Coherent(new)
         /\ new.dispo = d /\ ~new.stale /\ new.finalized
         /\ new.biz = IF d = "SALE" THEN r.biz ELSE {}
         /\ new.lookup = IF WasPending(r) THEN "pending" ELSE r.lookup
         /\ new.download = IF WasPending(r) THEN "pending" ELSE r.download
<1> DEFINE new == MergeFinal(r, d, who)
<1>1. /\ r \in Row /\ d \in Dispositions
      /\ who.name \in Names /\ who.team \in Teams
  BY DEF Coherent, Who, Names, Teams, Dispositions
<1>2. Overwrite(r.name, who.name) \in Names /\ Overwrite(r.team, who.team) \in Teams
  BY <1>1 DEF Overwrite, Row
<1>3. /\ new.dispo = d /\ new.stale = FALSE /\ new.finalized = TRUE
      /\ new.biz = IF d = "SALE" THEN r.biz ELSE {}
      /\ new.name = Overwrite(r.name, who.name)
      /\ new.team = Overwrite(r.team, who.team)
      /\ new.lookup = IF WasPending(r) THEN "pending" ELSE r.lookup
      /\ new.download = IF WasPending(r) THEN "pending" ELSE r.download
  BY <1>1 DEF MergeFinal, Row
<1>4. new \in Row
  <2>1. new.biz \in SUBSET Flags
    BY <1>1, <1>3 DEF Row
  <2>2. new.lookup \in Status /\ new.download \in Status
    BY <1>1, <1>3 DEF Status, Row
  <2> QED BY <1>1, <1>2, <1>3, <2>1, <2>2 DEF MergeFinal, Row
<1>5. SaleOnlyFlags(new) /\ ThirtyImplies20(new)
  BY <1>3 DEF Coherent, SaleOnlyFlags, ThirtyImplies20
<1> QED
  BY <1>3, <1>4, <1>5 DEF Coherent

(* The sweep selects provisional rows only, and these carry no flag.        *)
LEMMA MarkStaleCoherent ==
  ASSUME NEW r, Coherent(r), SweepSelects(r)
  PROVE  LET new == MarkStale(r) IN
         /\ Coherent(new)
         /\ new.dispo = "STALE" /\ new.stale /\ new.biz = {}
         /\ new.lookup = "skipped" /\ new.download = "skipped"
BY DEF Coherent, MarkStale, SweepSelects, Row, Status, Dispositions, Pending, Provisional,
       SaleOnlyFlags, ThirtyImplies20

(* An identity answer changes nothing but the agent and the team.           *)
LEMMA ApplyIdentityCoherent ==
  ASSUME NEW r, Coherent(r), NEW found
  PROVE  LET new == ApplyIdentity(r, found) IN
         /\ Coherent(new)
         /\ new.stale = r.stale /\ new.lookup = r.lookup /\ new.download = r.download
BY DEF Coherent, ApplyIdentity, Row, Names, Teams, SaleOnlyFlags, ThirtyImplies20

(* A patch the serializer accepts keeps the row coherent: outside SALE no   *)
(* flag is left, and the flags that imply others bring them along.          *)
LEMMA EditRowCoherent ==
  ASSUME NEW r, Coherent(r), NEW p \in Patch, ValidPatch(r, p)
  PROVE  LET new == EditRow(r, p) IN
         /\ Coherent(new)
         /\ new.dispo = PatchedDispo(r, p)
         /\ new.biz = IF PatchedDispo(r, p) = "SALE" THEN Implied((r.biz \cup p.on) \ p.off) ELSE {}
         /\ new.stale = r.stale /\ new.lookup = r.lookup /\ new.download = r.download
         /\ new.finalized = r.finalized
<1> DEFINE asked == (r.biz \cup p.on) \ p.off
           new   == EditRow(r, p)
<1>1. /\ p.dispo \in Dispositions \cup {"same"}
      /\ p.on \in SUBSET Flags /\ p.off \in SUBSET Flags
  BY DEF Patch
<1>2. r.dispo \in Dispositions /\ r.biz \in SUBSET Flags
  BY DEF Coherent, Row
<1>3. PatchedDispo(r, p) \in Dispositions
  BY <1>1, <1>2 DEF PatchedDispo
<1>4. asked \in SUBSET Flags /\ Implied(asked) \in SUBSET Flags
  BY <1>1, <1>2 DEF Implied, Flags
<1>5. /\ "client_30_plus" \in Implied(asked) => "client_20_plus" \in Implied(asked)
      /\ "sold" \in Implied(asked) => "client_30_plus" \in Implied(asked)
  BY DEF Implied
<1>6. ASSUME PatchedDispo(r, p) # "SALE", ~LeavesSale(r, p)
      PROVE  asked = {}
  <2>1. p.on = {}
    BY <1>6 DEF ValidPatch
  <2>2. r.dispo # "SALE"
    BY <1>6 DEF PatchedDispo, LeavesSale
  <2>3. r.biz = {}
    BY <2>2 DEF Coherent, SaleOnlyFlags
  <2> QED BY <2>1, <2>3
<1>7. /\ new.dispo = PatchedDispo(r, p)
      /\ new.biz = IF PatchedDispo(r, p) = "SALE" THEN Implied(asked) ELSE {}
      /\ new \in Row
      /\ new.stale = r.stale /\ new.lookup = r.lookup /\ new.download = r.download
      /\ new.finalized = r.finalized
  BY <1>2, <1>3, <1>4, <1>6 DEF EditRow, Coherent, Row
<1> QED
  BY <1>5, <1>7 DEF Coherent, SaleOnlyFlags, ThirtyImplies20

----------------------------------------------------------------------------
(* The first disposition callback of a call publishes the pipeline first,   *)
(* and one that finds an outcome does not publish it.                       *)
LEMMA FirstFinalPublishes ==
  ASSUME NEW isNew \in BOOLEAN, NEW r, NEW d, isNew \/ WasPending(r)
  PROVE  LET tasks == FinalPublishes(isNew, r, d)
         IN Len(tasks) \in {1, 2} /\ tasks[1] = "resolve_recording"
BY DEF FinalPublishes

(* A disposition that finds an outcome publishes at most a preset lookup.   *)
LEMMA LaterFinalPublishes ==
  ASSUME NEW r, NEW d, ~WasPending(r)
  PROVE  LET tasks == FinalPublishes(FALSE, r, d)
         IN Len(tasks) \in {0, 1} /\ (Len(tasks) = 1 => tasks[1] = "resolve_sale_preset")
BY DEF FinalPublishes

(* The editor publishes at most a preset lookup, never the pipeline.        *)
LEMMA EditPublishesPreset ==
  ASSUME NEW r, NEW new
  PROVE  LET tasks == EditPublishes(r, new)
         IN Len(tasks) \in {0, 1} /\ (Len(tasks) = 1 => tasks[1] = "resolve_sale_preset")
BY DEF EditPublishes
=============================================================================
