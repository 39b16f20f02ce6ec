--------------------------- MODULE CallLifecycle ---------------------------
(***************************************************************************)
(* The life of a call row from the first callback on: VICIdial's Start     *)
(* Call and disposition callbacks (repeated, late or in the wrong order),  *)
(* the two-hour stale sweep, the identity task the sweep asks for, and the *)
(* Project Manager editor, each of them one transaction that locks the row *)
(* (select_for_update).  Which row a callback finds is CallMatching; here  *)
(* every callback of a call finds that call's row.                         *)
(***************************************************************************)
EXTENDS CallEvent

CONSTANTS Calls,         \* the calls of the dialers
          NoRow,         \* "this call has no row yet"
          MaxCallbacks,  \* bound: callbacks received for one call
          MaxEdits,      \* bound: edits of one call
          EditorPatches  \* bound: the patches the editor sends

ASSUME LifecycleAssumption ==
  /\ NoRow \notin Row
  /\ EditorPatches \subseteq Patch
  /\ MaxCallbacks \in Nat /\ MaxEdits \in Nat

VARIABLES rows,       \* the calls_callevent table
          noAgent,    \* calls VICIdial reports on the no_agent URL (fixed)
          old,        \* calls whose row was received two hours ago or more
          identity,   \* calls an identity task was published for
          held,       \* answers identity tasks hold between lookup and save
          published,  \* how often each task was published for a call
          callbacks, edits,   \* bound counters
          \* History of the editor and of crashes, read by the properties only.
          word,       \* the last outcome a callback or the editor gave
          reopened,   \* finalized calls the editor made provisional or STALE
          predecided, \* unfinalized calls the editor gave an outcome
          lost        \* calls a publication of which died with its process

tables  == <<rows, published>>
history == <<word, reopened, predecided, lost>>
vars == <<tables, noAgent, old, identity, held, callbacks, edits, history>>

Tasks == {"resolve_recording", "resolve_sale_preset"}
Found == SUBSET {"name", "team"} \ {{}}
Exists(c) == rows[c] # NoRow

Init ==
  /\ rows = [c \in Calls |-> NoRow]
  /\ noAgent \in SUBSET Calls
  /\ old = {} /\ identity = {} /\ held = [c \in Calls |-> {}]
  /\ published = [c \in Calls |-> [t \in Tasks |-> 0]]
  /\ callbacks = [c \in Calls |-> 0] /\ edits = [c \in Calls |-> 0]
  /\ word = [c \in Calls |-> "NEW"]
  /\ reopened = {} /\ predecided = {} /\ lost = {}

\* The on_commit hooks run in order; a process that dies after the commit
\* loses a suffix of them.
Publish(c, tasks) == \E n \in 0 .. Len(tasks) :
  /\ published' = [published EXCEPT ![c] =
       [t \in Tasks |-> @[t] + (IF \E i \in 1 .. n : tasks[i] = t THEN 1 ELSE 0)]]
  /\ lost' = IF n < Len(tasks) THEN lost \cup {c} ELSE lost

----------------------------------------------------------------------------
StartCall(c, who) ==
  /\ c \notin noAgent
  /\ callbacks[c] < MaxCallbacks
  /\ callbacks' = [callbacks EXCEPT ![c] = @ + 1]
  /\ rows' = [rows EXCEPT ![c] = IF Exists(c) THEN MergeStart(@, who)
                                 ELSE CreateRow("dispo", "NEW", who)]
  /\ UNCHANGED <<published, noAgent, old, identity, held, edits, history>>

FinalDisposition(c, d, who) ==
  /\ callbacks[c] < MaxCallbacks
  /\ callbacks' = [callbacks EXCEPT ![c] = @ + 1]
  /\ rows' = [rows EXCEPT ![c] = IF Exists(c) THEN MergeFinal(@, d, who)
       ELSE CreateRow(IF c \in noAgent THEN "no_agent" ELSE "dispo", d, who)]
  /\ Publish(c, FinalPublishes(~Exists(c), rows[c], d))
  /\ word' = [word EXCEPT ![c] = d]
  /\ UNCHANGED <<noAgent, old, identity, held, edits, reopened, predecided>>

TwoHoursPass(c) ==
  /\ Exists(c) /\ c \notin old
  /\ old' = old \cup {c}
  /\ UNCHANGED <<tables, noAgent, identity, held, callbacks, edits, history>>

\* One beat of mark_stale_calls marks the selected rows no one else has locked
\* (skip_locked), at most a batch of them; the identity publications follow
\* its commit, and a crash may lose some.
Sweepable == {c \in old : Exists(c) /\ SweepSelects(rows[c])}

MarkStaleCalls(marked) ==
  /\ marked \subseteq Sweepable /\ marked # {}
  /\ rows' = [c \in Calls |-> IF c \in marked THEN MarkStale(rows[c]) ELSE rows[c]]
  /\ \E asked \in SUBSET {c \in marked : WantsIdentity(rows[c])} :
       identity' = identity \cup asked
  /\ UNCHANGED <<published, noAgent, old, held, callbacks, edits, history>>

\* The broker delivers a published task at least once, so a call stays in
\* identity.  The task reads the row without a lock and asks VICIdial; an
\* answer with neither a name nor a known team changes nothing and is left out.
IdentityLookup(c, found) ==
  /\ c \in identity /\ StillStale(rows[c]) /\ WantsIdentity(rows[c])
  /\ held' = [held EXCEPT ![c] = @ \cup {found}]
  /\ UNCHANGED <<tables, noAgent, old, identity, callbacks, edits, history>>

IdentitySaveUnchecked(c, found) ==
  /\ found \in held[c]
  /\ held' = [held EXCEPT ![c] = @ \ {found}]
  /\ rows' = [rows EXCEPT ![c] = ApplyIdentity(@, found)]
  /\ UNCHANGED <<published, noAgent, old, identity, callbacks, edits, history>>

IdentitySave(c, found) ==
  /\ found \in held[c]
  /\ held' = [held EXCEPT ![c] = @ \ {found}]
  /\ rows' = IF StillStale(rows[c])
               THEN [rows EXCEPT ![c] = ApplyIdentity(@, found)] ELSE rows
  /\ UNCHANGED <<published, noAgent, old, identity, callbacks, edits, history>>

EditCall(c, p) ==
  LET new == EditRow(rows[c], p) IN
  /\ Exists(c) /\ edits[c] < MaxEdits
  /\ ValidPatch(rows[c], p)
  /\ edits' = [edits EXCEPT ![c] = @ + 1]
  /\ rows' = [rows EXCEPT ![c] = new]
  /\ Publish(c, EditPublishes(rows[c], new))
  /\ word' = IF p.dispo = "same" THEN word ELSE [word EXCEPT ![c] = p.dispo]
  /\ reopened' = IF rows[c].finalized /\ p.dispo \in Pending
                   THEN reopened \cup {c} ELSE reopened
  /\ predecided' = IF ~rows[c].finalized /\ ~rows[c].stale /\ new.dispo \notin Pending
                     THEN predecided \cup {c} ELSE predecided
  /\ UNCHANGED <<noAgent, old, identity, held, callbacks>>

Next ==
  \/ \E c \in Calls, who \in Who : StartCall(c, who)
  \/ \E c \in Calls, d \in FinalDispositions, who \in Who : FinalDisposition(c, d, who)
  \/ \E c \in Calls : TwoHoursPass(c)
  \/ \E marked \in SUBSET Calls : MarkStaleCalls(marked)
  \/ \E c \in Calls, found \in Found : IdentityLookup(c, found)
  \/ \E c \in Calls, found \in Found : IdentitySave(c, found)
  \/ \E c \in Calls, p \in EditorPatches : EditCall(c, p)

Spec == Init /\ [][Next]_vars

\* Time passes, and Celery Beat runs the sweep every 60 seconds.
Fairness == /\ \A c \in Calls : WF_vars(TwoHoursPass(c))
            /\ \A c \in Calls : WF_vars(MarkStaleCalls({c}))
FairSpec == Spec /\ Fairness

----------------------------------------------------------------------------
TypeOK ==
  /\ rows \in [Calls -> Row \cup {NoRow}]
  /\ noAgent \in SUBSET Calls /\ old \in SUBSET Calls /\ identity \in SUBSET Calls
  /\ held \in [Calls -> SUBSET Found]
  /\ published \in [Calls -> [Tasks -> Nat]]
  /\ callbacks \in [Calls -> Nat] /\ edits \in [Calls -> Nat]
  /\ word \in [Calls -> Dispositions]
  /\ reopened \in SUBSET Calls /\ predecided \in SUBSET Calls /\ lost \in SUBSET Calls

(* No handler, in any order, writes a row that the CHECK constraints of the *)
(* table would refuse: the business flags live only under SALE and 30+      *)
(* implies 20+.  The editor also keeps "sold implies 30+", for which the    *)
(* table has no constraint.                                                 *)
BusinessFlagsCoherent == \A c \in Calls : Exists(c) =>
  /\ SaleOnlyFlags(rows[c])
  /\ ThirtyImplies20(rows[c])
  /\ "sold" \in rows[c].biz => "client_30_plus" \in rows[c].biz

(* Recording work is marked skipped exactly while the row is stale: a late  *)
(* disposition that recovers a row always makes it eligible again, even if  *)
(* the editor changed its displayed disposition in between.                 *)
SkippedExactlyWhileStale == \A c \in Calls : Exists(c) =>
  IF rows[c].stale THEN rows[c].lookup = "skipped" /\ rows[c].download = "skipped"
                   ELSE rows[c].lookup = "pending" /\ rows[c].download = "pending"

(* However often the callbacks of a call are repeated, delayed or           *)
(* reordered, and whether or not it went stale first, the recording         *)
(* pipeline is started at most once, unless the editor reopened the call.   *)
PipelineStartedOnce == \A c \in Calls \ reopened :
  published[c]["resolve_recording"] <= IF Exists(c) /\ rows[c].finalized THEN 1 ELSE 0

(* A finalized call had its recording pipeline started, unless the editor   *)
(* gave it an outcome before VICIdial did or a process died between its     *)
(* commit and its publication.                                              *)
FinalizedWasStarted == \A c \in Calls \ (predecided \cup lost) :
  Exists(c) /\ rows[c].finalized => published[c]["resolve_recording"] >= 1

(* The recording work of a call follows the call, whatever callbacks are    *)
(* lost, late or repeated (webhooks.py:357-472, tasks.py:291-313): none is  *)
(* due while the call is stale, and it is started once, by the disposition  *)
(* that finalizes it.                                                       *)
PipelineFollowsCall ==
  SkippedExactlyWhileStale /\ PipelineStartedOnce /\ FinalizedWasStarted

(* The outcome of a finalized call is the last one a disposition callback   *)
(* or the editor gave: a late Start Call, the sweep and the identity task   *)
(* never take it back.                                                      *)
OutcomeIsLastWord == \A c \in Calls \ reopened :
  Exists(c) /\ rows[c].finalized =>
    rows[c].dispo = word[c] /\ word[c] \notin Pending /\ ~rows[c].stale

(* An identity task that was waiting for VICIdial while the disposition     *)
(* arrived never replaces the agent or the team of the finalized call.      *)
LateDispositionWins == [][\A c \in Calls \ reopened :
  Exists(c) /\ rows[c].finalized =>
    /\ rows'[c].name = "lookup" => rows[c].name = "lookup"
    /\ rows'[c].team = "lookup" => rows[c].team = "lookup"]_rows

(* A provisional call does not stay provisional: within the fairness of the *)
(* beat it is dispositioned, edited or marked stale.                        *)
AwaitingDisposition(c) ==
  Exists(c) /\ c \notin noAgent /\ rows[c].dispo \in Provisional /\ ~rows[c].stale
ProvisionalSettles == \A c \in Calls : AwaitingDisposition(c) ~> ~AwaitingDisposition(c)

(* The life of a call as the rest of the portal may rely on it.  A call the *)
(* editor predecided or reopened is out of the promise.                     *)
StageOf(c) ==
  IF c \in reopened \cup predecided THEN "taken over"
  ELSE IF ~Exists(c) THEN "unheard"
  ELSE IF rows[c].finalized THEN "decided"
  ELSE IF rows[c].stale THEN "abandoned"
  ELSE "awaited"

OutcomeOf(c) == IF StageOf(c) = "decided" THEN rows[c].dispo ELSE NoRow
StartsOf(c)  ==
  IF StageOf(c) = "taken over" THEN 0 ELSE published[c]["resolve_recording"]

Stage   == [c \in Calls |-> StageOf(c)]
Outcome == [c \in Calls |-> OutcomeOf(c)]
Starts  == [c \in Calls |-> StartsOf(c)]

Promise == INSTANCE CallPromise
             WITH Outcomes <- FinalDispositions, Undecided <- NoRow,
                  stage <- Stage, outcome <- Outcome, started <- Starts

(* Every step of the callbacks, the sweep, the identity task and the editor *)
(* is a step of the promise or none: no order of them abandons or unhears a *)
(* decided call, starts the pipeline in any other step than the one that    *)
(* decides the call, or starts it twice (webhooks.py:307-480,               *)
(* tasks.py:268-325, views.py:1588-1611).                                   *)
KeepsPromise == Promise!PromiseSpec

(* What the documentation says of every call, edited or not: finalization   *)
(* starts the recording pipeline.                                           *)
FinalizationStartsPipeline == \A c \in Calls \ lost :
  Exists(c) /\ rows[c].finalized => published[c]["resolve_recording"] >= 1
=============================================================================
