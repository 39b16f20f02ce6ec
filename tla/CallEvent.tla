----------------------------- MODULE CallEvent -----------------------------
(***************************************************************************)
(* The CallEvent row and the pure part of every handler that rewrites it:  *)
(* the Start Call and disposition callbacks of calls/webhooks.py, the      *)
(* stale sweep and the identity task of calls/tasks.py, and the Project    *)
(* Manager editor of calls/serializers.py and calls/views.py.  The state   *)
(* machines of the other modules apply these operators to rows.            *)
(*                                                                         *)
(* Dispositions are upper case as the code stores them (the sale aliases   *)
(* SQSAL, SMSAL, D30SA, D33SA and D42SA are already "SALE" when a handler  *)
(* runs, webhooks.py:167).  An agent name or team is its provenance:       *)
(* absent, only the agent's login, given by a callback, or looked up.      *)
(***************************************************************************)
EXTENDS Naturals, Sequences

CONSTANT FinalDispositions  \* the outcome codes a disposition callback carries

Provisional == {"NEW", "INCALL"}
Pending     == Provisional \cup {"STALE"}
Dispositions == FinalDispositions \cup Pending

\* VICIdial never reports a provisional word or STALE as a call's outcome.
ASSUME FinalDispositionsAssumption ==
  /\ "SALE" \in FinalDispositions
  /\ FinalDispositions \cap Pending = {}

Flags == {"sold", "client_20_plus", "client_30_plus", "preset"}

Status == {"pending", "retrying", "found", "downloading", "downloaded",
           "not_found", "failed", "skipped"}

Names == {"none", "user", "callback", "lookup"}
Teams == {"none", "callback", "lookup"}

Row == [kind: {"dispo", "no_agent"}, dispo: Dispositions, stale: BOOLEAN,
        finalized: BOOLEAN, biz: SUBSET Flags, name: Names, team: Teams,
        lookup: Status, download: Status]

\* Who a callback says handled the call; the agent's full name, its team
\* prefix or both may be missing from the URL.
Who == [name: {"none", "user", "callback"}, team: {"none", "callback"}]

----------------------------------------------------------------------------
(* The row a callback creates when no row matches it; "NEW" for Start Call. *)
CreateRow(kind, d, who) ==
  [kind |-> kind, dispo |-> d, stale |-> FALSE, finalized |-> d # "NEW",
   biz |-> {}, name |-> who.name, team |-> who.team,
   lookup |-> "pending", download |-> "pending"]

FillIfEmpty(kept, new) == IF kept = "none" THEN new ELSE kept
Overwrite(kept, new)   == IF new = "none" THEN kept ELSE new

(* Mutant: a Start Call retry writes its disposition whatever the row holds. *)
MergeStartDowngrades(row, who) ==
  [row EXCEPT !.name  = FillIfEmpty(@, who.name),
              !.team  = FillIfEmpty(@, who.team),
              !.dispo = "NEW"]

(* A Start Call that matches a row: fills gaps, canonicalises INCALL, and   *)
(* never touches the outcome, the flags or the recording state.             *)
MergeStart(row, who) ==
  [row EXCEPT !.name  = FillIfEmpty(@, who.name),
              !.team  = FillIfEmpty(@, who.team),
              !.dispo = IF @ \in Provisional THEN "NEW" ELSE @]

(* Mutant: the stale flag is forgotten when the displayed outcome is not STALE. *)
WasPendingByDispo(row) == row.dispo \in Pending

WasPending(row) == row.dispo \in Pending \/ row.stale

(* Mutant: a corrected outcome keeps the SALE-only flags.                   *)
MergeFinalKeepsFlags(row, d, who) ==
  [row EXCEPT !.name = Overwrite(@, who.name), !.team = Overwrite(@, who.team),
              !.dispo = d, !.stale = FALSE, !.finalized = TRUE,
              !.lookup = IF WasPending(row) THEN "pending" ELSE @,
              !.download = IF WasPending(row) THEN "pending" ELSE @]

(* Mutant: every disposition callback makes the recording eligible again.   *)
MergeFinalResets(row, d, who) ==
  [row EXCEPT !.name = Overwrite(@, who.name), !.team = Overwrite(@, who.team),
              !.dispo = d, !.biz = IF d = "SALE" THEN @ ELSE {},
              !.stale = FALSE, !.finalized = TRUE,
              !.lookup = "pending", !.download = "pending"]

(* A disposition callback that matches a row.                               *)
MergeFinal(row, d, who) ==
  LET reset(s) == IF WasPending(row) THEN "pending" ELSE s IN
  [row EXCEPT !.name = Overwrite(@, who.name),
              !.team = Overwrite(@, who.team),
              !.dispo = d,
              !.biz = IF d = "SALE" THEN @ ELSE {},
              !.stale = FALSE,
              !.finalized = TRUE,
              !.lookup = reset(@),
              !.download = reset(@)]

(* Mutant: every disposition callback starts the pipeline, duplicates too.  *)
FinalPublishesAlways(isNew, row, d) ==
  IF d = "SALE" THEN <<"resolve_recording", "resolve_sale_preset">>
                ELSE <<"resolve_recording">>

(* The tasks a disposition callback publishes once it has committed, in the *)
(* order of the on_commit hooks.  isNew: it created the row.                *)
FinalPublishes(isNew, row, d) ==
  IF isNew \/ WasPending(row)
    THEN IF d = "SALE" THEN <<"resolve_recording", "resolve_sale_preset">>
                       ELSE <<"resolve_recording">>
    ELSE IF d = "SALE" /\ row.dispo # "SALE" /\ "preset" \notin row.biz
           THEN <<"resolve_sale_preset">>
           ELSE <<>>

(* Mutant: the sweep forgets the legacy provisional word.                   *)
SweepSelectsNewOnly(row) == row.kind = "dispo" /\ row.dispo = "NEW" /\ ~row.stale

----------------------------------------------------------------------------
(* mark_stale_calls: the rows it selects once they are two hours old, what  *)
(* it writes, and when it asks for the agent's identity.                    *)
SweepSelects(row) ==
  row.kind = "dispo" /\ row.dispo \in Provisional /\ ~row.stale

MarkStale(row) ==
  [row EXCEPT !.dispo = "STALE", !.stale = TRUE,
              !.lookup = "skipped", !.download = "skipped"]

WantsIdentity(row) == row.name \in {"none", "user"} \/ row.team = "none"

(* resolve_stale_agent_identity: its guard, and the merge under the row     *)
(* lock.  found is the set of {"name", "team"} VICIdial answered.           *)
StillStale(row) == row.stale /\ row.dispo = "STALE"

ApplyIdentity(row, found) ==
  [row EXCEPT !.name = IF "name" \in found /\ @ \in {"none", "user"}
                         THEN "lookup" ELSE @,
              !.team = IF "team" \in found THEN "lookup" ELSE @]

----------------------------------------------------------------------------
(* The editor.  A patch names a disposition or "same", the flags it turns   *)
(* on and the flags it turns off.                                           *)
Patch == {p \in [dispo: Dispositions \cup {"same"}, on: SUBSET Flags,
                 off: SUBSET Flags] : p.on \cap p.off = {}}

PatchedDispo(row, p) == IF p.dispo = "same" THEN row.dispo ELSE p.dispo

LeavesSale(row, p) == p.dispo \notin {"same", "SALE"} /\ row.dispo = "SALE"

(* Outside SALE the serializer refuses a flag, unless the patch is the one  *)
(* that leaves SALE: then whatever it asks for is cleared.                  *)
ValidPatch(row, p) ==
  PatchedDispo(row, p) # "SALE" => p.on = {} \/ LeavesSale(row, p)

Implied(flags) ==
  IF "sold" \in flags THEN flags \cup {"client_20_plus", "client_30_plus"}
  ELSE IF "client_30_plus" \in flags THEN flags \cup {"client_20_plus"}
  ELSE flags

EditRow(row, p) ==
  LET asked == (row.biz \cup p.on) \ p.off IN
  [row EXCEPT !.dispo = PatchedDispo(row, p),
              !.biz = IF PatchedDispo(row, p) = "SALE" THEN Implied(asked)
                      ELSE IF LeavesSale(row, p) THEN {} ELSE asked]

(* The hook that runs when the edit has committed: resolve the missing-     *)
(* preset notification, or publish a preset lookup, or neither.  Mutant: a  *)
(* preset typed by the editor does not resolve the notification.            *)
EditResolvesOutsideSale(new) == new.dispo # "SALE"

EditResolves(new) == new.dispo # "SALE" \/ "preset" \in new.biz

EditPublishes(old, new) ==
  IF ~EditResolves(new) /\ (old.dispo # "SALE" \/ "preset" \in old.biz)
    THEN <<"resolve_sale_preset">>
    ELSE <<>>

----------------------------------------------------------------------------
(* The CHECK constraints of the calls table: a write that broke one would   *)
(* abort its transaction.                                                   *)
SaleOnlyFlags(row)  == row.biz # {} => row.dispo = "SALE"
ThirtyImplies20(row) == "client_30_plus" \in row.biz => "client_20_plus" \in row.biz
=============================================================================
