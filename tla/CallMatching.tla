---------------------------- MODULE CallMatching ----------------------------
(***************************************************************************)
(* Which row a VICIdial callback belongs to, and what concurrent requests  *)
(* do to that decision: calls/webhooks.py from the idempotency key to the  *)
(* commit, with the identifiers and the provisional-or-final stage of the  *)
(* rows (CallLifecycle has the rest of the row).                           *)
(*                                                                         *)
(* A request that matches a row locks it, so lookup, merge and commit are  *)
(* one step.  A request that matches none goes on to get_or_create, which  *)
(* reads without a lock: its insertion, and its merge into a row another   *)
(* request inserted meanwhile, are steps of their own.                     *)
(*                                                                         *)
(* A call's identifiers are represented by the call, so two fields of a    *)
(* row that name different calls are the identifiers of different calls.   *)
(* Several calls may connect one agent with one lead: what the fallback of *)
(* pending_match goes by does not tell them apart.                         *)
(***************************************************************************)
EXTENDS Naturals, Sequences, FiniteSets

CONSTANTS Calls,        \* the calls of one dialer, reported on the dispo URL
          LeadOf,       \* the lead, agent and phone number each call connects
          Carried,      \* the sets of fields the callbacks of each call may carry
          None,         \* an identifier the callback or the row lacks
          Requests,     \* request threads
          MaxCallbacks  \* bound: callbacks received

IdFields == <<"call_id", "agent_log_id", "unique_id">>
Fields   == {"call_id", "agent_log_id", "unique_id", "lead"}
Leads    == {LeadOf[c] : c \in Calls}
Stages   == {"start", "final"}

ASSUME MatchingAssumption ==
  /\ Carried \in [Calls -> SUBSET SUBSET Fields]
  /\ None \notin Calls /\ None \notin Leads
  /\ MaxCallbacks \in Nat

VARIABLES rows,     \* the dialer's rows in order of received_at
          request,  \* what each request thread is doing
          received, \* bound counter
          runs,     \* pipeline starts per call (history)
          raced,    \* calls merged into without the row lock (history)
          rivals,   \* calls two requests were inserting under different
                    \* keys at once (history)
          crossed   \* pairs of calls of which one was awaited when a disposition
                    \* of the other came that has no row to go by (history)

vars == <<rows, request, received, runs, raced, rivals, crossed>>

Callback == {cb \in [call : Calls, stage : Stages, has : SUBSET Fields] :
               cb.has \in Carried[cb.call]}
Value(cb, f) == IF f \notin cb.has THEN None
                ELSE IF f = "lead" THEN LeadOf[cb.call] ELSE cb.call

\* event_key: the first stable identifier, or a fallback that the callback's
\* own timestamp makes different for the two stages of a call.
Strong(cb) == {i \in 1 .. 3 : IdFields[i] \in cb.has}
EventKey(cb) ==
  IF Strong(cb) = {} THEN <<"fallback", cb.call, cb.stage>>
  ELSE LET first == CHOOSE i \in Strong(cb) : \A j \in Strong(cb) : i <= j
       IN <<IdFields[first], cb.call, "any">>

\* of are the calls whose callbacks the row took (history).
NewRow(cb) == [key |-> EventKey(cb), ids |-> [f \in Fields |-> Value(cb, f)],
               final |-> cb.stage = "final", recent |-> TRUE, of |-> {cb.call}]

Newest(matches) == {i \in matches : \A j \in matches : j <= i}

StrongMatches(cb, i) == {r \in DOMAIN rows :
  IdFields[i] \in cb.has /\ rows[r].ids[IdFields[i]] = cb.call}

\* Mutant: the fallback also takes rows that have their disposition.
PendingMatchesFinal(cb) == {r \in DOMAIN rows :
  /\ cb.stage = "final" /\ "lead" \in cb.has /\ rows[r].recent
  /\ rows[r].ids["lead"] = LeadOf[cb.call]}

\* pending_match: only a final callback, only a row still awaiting one, only
\* within twelve hours.
PendingMatches(cb) == {r \in DOMAIN rows :
  /\ cb.stage = "final" /\ "lead" \in cb.has
  /\ ~rows[r].final /\ rows[r].recent
  /\ rows[r].ids["lead"] = LeadOf[cb.call]}

KeyMatches(cb) == {r \in DOMAIN rows : rows[r].key = EventKey(cb)}

\* The rows the successive queries of the handler would return: the first
\* query with an answer decides.
Match(cb) ==
  LET queries == <<KeyMatches(cb), StrongMatches(cb, 1), StrongMatches(cb, 2),
                   StrongMatches(cb, 3), PendingMatches(cb)>>
      answered == {q \in 1 .. 5 : queries[q] # {}}
  IN IF answered = {} THEN {}
     ELSE Newest(queries[CHOOSE q \in answered : \A p \in answered : q <= p])

\* Mutant: merge_start saves the whole row it read.
MergeStartSavesAll(row, seen, cb) ==
  [seen EXCEPT !.ids = [f \in Fields |->
     IF f \in cb.has /\ seen.ids[f] = None THEN Value(cb, f) ELSE seen.ids[f]]]

\* merge_start fills empty identifiers and saves only the fields it changed;
\* merge_final overwrites with what it carries and saves the whole row.  seen
\* is the row as the handler read it.
MergeStart(row, seen, cb) ==
  [row EXCEPT !.ids = [f \in Fields |->
     IF f \in cb.has /\ seen.ids[f] = None THEN Value(cb, f) ELSE row.ids[f]]]

MergeFinal(row, seen, cb) ==
  [seen EXCEPT !.final = TRUE, !.recent = row.recent,
               !.ids = [f \in Fields |-> IF f \in cb.has THEN Value(cb, f)
                                         ELSE seen.ids[f]]]

Merge(row, seen, cb) ==
  [(IF cb.stage = "start" THEN MergeStart(row, seen, cb) ELSE MergeFinal(row, seen, cb))
     EXCEPT !.of = row.of \cup {cb.call}]

\* Mutant: any disposition starts the pipeline.
CountRunAlways(cb, wasPending) ==
  runs' = IF cb.stage = "final" THEN [runs EXCEPT ![cb.call] = @ + 1] ELSE runs

\* finalized_now: a created final row, or one merge_final found provisional.
CountRun(cb, wasPending) ==
  runs' = IF cb.stage = "final" /\ wasPending
            THEN [runs EXCEPT ![cb.call] = @ + 1] ELSE runs

Awaited(c) == \E r \in DOMAIN rows : c \in rows[r].of /\ ~rows[r].final /\ rows[r].recent

\* Any two callbacks of the call share an identifier; all of them carry the lead.
Linked(c) == \A g, h \in Carried[c] : \E i \in 1 .. 3 : IdFields[i] \in g \cap h
LeadKnown(c) == \A h \in Carried[c] : "lead" \in h

\* The calls that may have been taken for another, or another for them.
Mistaken == UNION crossed

\* A call that has a row which its next callback must share an identifier with.
Findable(c) == /\ Linked(c) /\ c \notin Mistaken
               /\ \E r \in DOMAIN rows : c \in rows[r].of

\* The pairs of calls that a callback may mix, because only the lead and the agent
\* tell whose disposition it is.
Crossing(cb) ==
  {{cb.call, c} : c \in {d \in Calls \ {cb.call} :
     /\ cb.stage = "final" /\ "lead" \in cb.has /\ ~Findable(cb.call)
     /\ LeadOf[d] = LeadOf[cb.call] /\ Awaited(d)}}

----------------------------------------------------------------------------
Idle == [pc |-> "idle"]

Init ==
  /\ rows = <<>> /\ received = 0
  /\ request = [q \in Requests |-> Idle]
  /\ runs = [c \in Calls |-> 0] /\ raced = {} /\ rivals = {} /\ crossed = {}

Receive(q, cb) ==
  /\ request[q] = Idle /\ received < MaxCallbacks
  /\ received' = received + 1
  /\ IF Match(cb) = {}
       THEN /\ request' = [request EXCEPT ![q] = [pc |-> "insert", cb |-> cb]]
            /\ rivals' = rivals \cup {c \in {cb.call} : \E p \in Requests :
                 /\ request[p].pc = "insert" /\ request[p].cb.call = c
                 /\ EventKey(request[p].cb) # EventKey(cb)}
            /\ UNCHANGED <<rows, runs>>
       ELSE \E r \in Match(cb) :
            /\ rows' = [rows EXCEPT ![r] = Merge(@, @, cb)]
            /\ CountRun(cb, ~rows[r].final)
            /\ UNCHANGED <<request, rivals>>
  /\ crossed' = crossed \cup Crossing(cb)
  /\ UNCHANGED raced

\* get_or_create: the unique constraint on (dialer, event_key) lets one
\* request insert; the others fetch its row, without locking it.
Insert(q) ==
  /\ request[q].pc = "insert"
  /\ LET cb == request[q].cb IN
     IF KeyMatches(cb) = {}
       THEN /\ rows' = Append(rows, NewRow(cb))
            /\ CountRun(cb, TRUE)
            /\ request' = [request EXCEPT ![q] = Idle]
       ELSE /\ \E r \in KeyMatches(cb) : request' = [request EXCEPT ![q] =
                 [pc |-> "merge", cb |-> cb, row |-> r, seen |-> rows[r]]]
            /\ UNCHANGED <<rows, runs>>
  /\ UNCHANGED <<received, raced, rivals, crossed>>

UnlockedMerge(q) ==
  /\ request[q].pc = "merge"
  /\ LET cb == request[q].cb  r == request[q].row  seen == request[q].seen IN
     /\ rows' = [rows EXCEPT ![r] = Merge(@, seen, cb)]
     /\ CountRun(cb, ~seen.final)
     /\ raced' = raced \cup {cb.call}
  /\ request' = [request EXCEPT ![q] = Idle]
  /\ UNCHANGED <<received, rivals, crossed>>

TwelveHoursPass(r) ==
  /\ r \in DOMAIN rows /\ rows[r].recent
  /\ rows' = [rows EXCEPT ![r].recent = FALSE]
  /\ UNCHANGED <<request, received, runs, raced, rivals, crossed>>

Next ==
  \/ \E q \in Requests, cb \in Callback : Receive(q, cb)
  \/ \E q \in Requests : Insert(q)
  \/ \E q \in Requests : UnlockedMerge(q)
  \/ \E r \in DOMAIN rows : TwelveHoursPass(r)

Spec == Init /\ [][Next]_vars

----------------------------------------------------------------------------
Keys == {EventKey(cb) : cb \in Callback}
RowType == [key : Keys, ids : [Fields -> Calls \cup Leads \cup {None}],
            final : BOOLEAN, recent : BOOLEAN, of : SUBSET Calls]

TypeOK ==
  /\ rows \in Seq(RowType)
  /\ request \in [Requests -> {Idle} \cup [pc : {"insert"}, cb : Callback]
       \cup [pc : {"merge"}, cb : Callback, row : DOMAIN rows, seen : RowType]]
  /\ received \in 0 .. MaxCallbacks
  /\ runs \in [Calls -> Nat] /\ raced \in SUBSET Calls /\ rivals \in SUBSET Calls
  /\ crossed \in SUBSET SUBSET Calls

(* Callbacks of two calls meet in one row only if both connect the same     *)
(* agent and lead, and a disposition of one came while the other was        *)
(* awaited and before anything of its own call was stored that it could be  *)
(* recognised by.                                                           *)
RowHoldsOneCall == \A r \in DOMAIN rows : \A c, d \in rows[r].of :
  c # d => {c, d} \in crossed

(* The callbacks of a call leave one row, in any order and also when its    *)
(* first callbacks are concurrent, as long as any two of them share an      *)
(* identifier, no two of them race to insert under different keys, and no   *)
(* other call of the lead was mistaken for it.                              *)
OneRowPerCall == \A r, s \in DOMAIN rows, c \in Calls :
  c \in rows[r].of \cap rows[s].of =>
    r = s \/ c \in rivals \cup Mistaken \/ ~Linked(c)

(* A disposition that shares no identifier with the Start Call of its call  *)
(* still finds its row: none that knows its lead goes on to insert while    *)
(* that row awaits it, for up to twelve hours.                              *)
NoneLeftWaiting == \A q \in Requests, r \in DOMAIN rows :
  LET cb == request[q].cb IN
  /\ request[q].pc = "insert" /\ cb.stage = "final" /\ LeadKnown(cb.call)
  /\ cb.call \in rows[r].of \ rivals /\ ~rows[r].final /\ rows[r].recent
  => rows[r].key = EventKey(cb)

(* Rows are calls: callbacks that know a call by different identifiers, or  *)
(* by its lead, meet in one row, and callbacks of two calls in none, save   *)
(* for what only the lead can tell (webhooks.py:264-444).                   *)
RowsAreCalls == RowHoldsOneCall /\ OneRowPerCall /\ NoneLeftWaiting

(* A row that a disposition finalized stays final, even when a Start Call   *)
(* that read it while it was provisional saves afterwards without the lock. *)
FinalNeverLost == [][\A r \in DOMAIN rows : rows[r].final => rows'[r].final]_rows

(* Duplicate dispositions start one pipeline per call, as long as none of   *)
(* them was merged without the row lock or inserted by a rival, any two     *)
(* share an identifier, and the call was not mistaken for another.          *)
PipelineOncePerCall == \A c \in Calls \ (raced \cup rivals \cup Mistaken) :
  Linked(c) => runs[c] <= 1

(* What the documentation says without that proviso.                        *)
DuplicateFinalStartsNothing == \A c \in Calls : runs[c] <= 1
=============================================================================
