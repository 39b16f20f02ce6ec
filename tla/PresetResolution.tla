-------------------------- MODULE PresetResolution --------------------------
(***************************************************************************)
(* The transfer preset of one SALE call and the missing-preset warning:    *)
(* calls.resolve_sale_preset of calls/tasks.py run by Celery workers, the  *)
(* disposition callbacks and the editor that race it, and                  *)
(* queue_/resolve_missing_preset_notification of notifications/services.py.*)
(*                                                                         *)
(* Every database access and every request to VICIdial of the task is a    *)
(* step of its own: the task keeps no lock between them.  Workers may die  *)
(* at any step; acks_late has the broker deliver the message again.        *)
(***************************************************************************)
EXTENDS CallEvent

CONSTANTS Workers,        \* Celery worker processes
          MaxRetries,     \* max_retries of the task (four)
          MaxCallbacks,   \* bound: disposition callbacks
          MaxEdits,       \* bound: edits
          MaxCrashes,     \* bound: worker deaths and time limits
          EditorPatches   \* bound: the patches the editor sends

ASSUME PresetAssumption ==
  /\ EditorPatches \subseteq Patch
  /\ {MaxRetries, MaxCallbacks, MaxEdits, MaxCrashes} \subseteq Nat

VARIABLES row,       \* the call
          notice,    \* its missing-preset notification
          messages,  \* queued task messages, by number of retries so far
          worker,    \* what each worker is doing
          hooks,     \* edits committed whose resolving hook has yet to run
          presetBy,  \* who wrote the preset (history)
          told,      \* a warning was due since the preset went missing (history)
          lost,      \* a publication or hook died with its process, or a time
                     \* limit ended the task (history)
          excused,   \* a writer that does not resolve the notice left the row
                     \* complete under it (history)
          callbacks, edits, crashes   \* bound counters

history == <<presetBy, told, lost, excused>>
bounds  == <<callbacks, edits, crashes>>
vars == <<row, notice, messages, worker, hooks, history, bounds>>

Idle == [pc |-> "idle", retries |-> 0]
Missing(r) == r.dispo = "SALE" /\ "preset" \notin r.biz

Init ==
  /\ row = CreateRow("dispo", "NEW", [name |-> "callback", team |-> "callback"])
  /\ notice = "none" /\ hooks = 0
  /\ messages = [r \in 0 .. MaxRetries |-> 0]
  /\ worker = [w \in Workers |-> Idle]
  /\ presetBy = "none" /\ told = FALSE /\ lost = FALSE /\ excused = FALSE
  /\ callbacks = 0 /\ edits = 0 /\ crashes = 0

\* A row the preset of which goes missing has not been reported yet.
NoteRow(new) ==
  /\ row' = new
  /\ told' = (told /\ (Missing(new) => Missing(row)))

Enqueue(r) == messages' = [messages EXCEPT ![r] = @ + 1]

\* The commit publishes the lookup, unless the process dies before it can.
PublishLookup(wanted) ==
  \/ wanted /\ Enqueue(0) /\ UNCHANGED lost
  \/ wanted /\ lost' = TRUE /\ UNCHANGED messages
  \/ ~wanted /\ UNCHANGED <<messages, lost>>

----------------------------------------------------------------------------
\* A disposition callback.  It publishes lookups but never resolves the notice.
FinalDisposition(d) ==
  /\ callbacks < MaxCallbacks /\ callbacks' = callbacks + 1
  /\ NoteRow(MergeFinal(row, d, [name |-> "callback", team |-> "callback"]))
  /\ LET tasks == FinalPublishes(FALSE, row, d) IN
     PublishLookup(\E i \in DOMAIN tasks : tasks[i] = "resolve_sale_preset")
  /\ presetBy' = IF d = "SALE" THEN presetBy ELSE "none"
  /\ excused' = (excused \/ (row.dispo = "SALE" /\ d # "SALE"))
  /\ UNCHANGED <<notice, worker, hooks, edits, crashes>>

EditCall(p) ==
  LET new == EditRow(row, p) IN
  /\ edits < MaxEdits /\ edits' = edits + 1
  /\ ValidPatch(row, p)
  /\ NoteRow(new)
  /\ presetBy' = IF "preset" \in p.on /\ "preset" \in new.biz THEN "editor"
                 ELSE IF "preset" \in new.biz THEN presetBy ELSE "none"
  /\ \/ /\ EditResolves(new)
        /\ \/ hooks' = hooks + 1 /\ UNCHANGED lost
           \/ lost' = TRUE /\ UNCHANGED hooks
        /\ UNCHANGED messages
     \/ /\ ~EditResolves(new)
        /\ PublishLookup(EditPublishes(row, new) # <<>>)
        /\ UNCHANGED hooks
  /\ UNCHANGED <<notice, worker, excused, callbacks, crashes>>

ResolveMissingPreset == notice' = IF notice = "open" THEN "resolved" ELSE notice

EditorHook ==
  /\ hooks > 0 /\ hooks' = hooks - 1
  /\ ResolveMissingPreset
  /\ UNCHANGED <<row, messages, worker, history, bounds>>

----------------------------------------------------------------------------
Goto(w, pc) == worker' = [worker EXCEPT ![w].pc = pc]
AtPc(w, pc) == worker[w].pc = pc

\* Take a message and read the row.
Begin(w, r) ==
  /\ AtPc(w, "idle") /\ messages[r] > 0
  /\ messages' = [messages EXCEPT ![r] = @ - 1]
  /\ worker' = [worker EXCEPT ![w] =
       [pc |-> IF Missing(row) THEN "lookup" ELSE "resolve", retries |-> r]]
  /\ UNCHANGED <<row, notice, hooks, history, bounds>>

\* Ask VICIdial: the preset; nothing yet or an HTTP error, which retries; or a
\* configuration error, which warns at once.
Lookup(w) ==
  /\ AtPc(w, "lookup")
  /\ \/ Goto(w, "store") /\ UNCHANGED messages
     \/ Goto(w, "notify") /\ UNCHANGED messages
     \/ IF worker[w].retries >= MaxRetries
          THEN Goto(w, "notify") /\ UNCHANGED messages
          ELSE Goto(w, "ack") /\ Enqueue(worker[w].retries + 1)
  /\ UNCHANGED <<row, notice, hooks, history, bounds>>

\* Mutant: the conditional update forgets that the preset must be empty.
StoreOverPreset(w) ==
  /\ AtPc(w, "store") /\ Goto(w, "refresh")
  /\ IF row.dispo = "SALE"
       THEN row' = [row EXCEPT !.biz = @ \cup {"preset"}] /\ presetBy' = "lookup"
       ELSE UNCHANGED <<row, presetBy>>
  /\ UNCHANGED <<notice, messages, hooks, told, lost, excused, bounds>>

Store(w) ==
  /\ AtPc(w, "store") /\ Goto(w, "refresh")
  /\ IF Missing(row)
       THEN row' = [row EXCEPT !.biz = @ \cup {"preset"}] /\ presetBy' = "lookup"
       ELSE UNCHANGED <<row, presetBy>>
  /\ UNCHANGED <<notice, messages, hooks, told, lost, excused, bounds>>

Refresh(w) ==
  /\ AtPc(w, "refresh")
  /\ Goto(w, IF row.dispo = "SALE" /\ "preset" \in row.biz THEN "resolve" ELSE "ack")
  /\ UNCHANGED <<row, notice, messages, hooks, history, bounds>>

Resolve(w) ==
  /\ AtPc(w, "resolve") /\ Goto(w, "ack")
  /\ ResolveMissingPreset
  /\ UNCHANGED <<row, messages, hooks, history, bounds>>

\* Mutant: the last attempt gives up without a warning.
NotifyNobody(w) ==
  /\ AtPc(w, "notify") /\ Goto(w, "ack")
  /\ UNCHANGED <<row, notice, messages, hooks, history, bounds>>

\* queue_missing_preset_notification, from the row read when the task began.
\* It opens, or reopens, the call's one notice, addressed to the Project
\* Managers with editor access to its campaign; there is at least one.
Notify(w) ==
  /\ AtPc(w, "notify") /\ Goto(w, "ack")
  /\ notice' = "open" /\ told' = TRUE
  /\ excused' = (excused \/ ~Missing(row))
  /\ UNCHANGED <<row, messages, hooks, presetBy, lost, bounds>>

Ack(w) ==
  /\ AtPc(w, "ack") /\ worker' = [worker EXCEPT ![w] = Idle]
  /\ UNCHANGED <<row, notice, messages, hooks, history, bounds>>

\* The worker is lost before it acknowledges; the message comes back.
Crash(w) ==
  /\ ~AtPc(w, "idle") /\ crashes < MaxCrashes /\ crashes' = crashes + 1
  /\ worker' = [worker EXCEPT ![w] = Idle]
  /\ Enqueue(worker[w].retries)
  /\ UNCHANGED <<row, notice, hooks, history, callbacks, edits>>

\* A time limit ends the task where nothing catches it; Celery acknowledges it.
TimeLimit(w) ==
  /\ AtPc(w, "lookup") /\ crashes < MaxCrashes /\ crashes' = crashes + 1
  /\ worker' = [worker EXCEPT ![w] = Idle] /\ lost' = TRUE
  /\ UNCHANGED <<row, notice, messages, hooks, presetBy, told, excused, callbacks, edits>>

TaskStep(w) ==
  \/ \E r \in 0 .. MaxRetries : Begin(w, r)
  \/ Lookup(w) \/ Store(w) \/ Refresh(w) \/ Resolve(w) \/ Notify(w) \/ Ack(w)

Next ==
  \/ \E d \in FinalDispositions : FinalDisposition(d)
  \/ \E p \in EditorPatches : EditCall(p)
  \/ EditorHook
  \/ \E w \in Workers : TaskStep(w)
  \/ \E w \in Workers : Crash(w)
  \/ \E w \in Workers : TimeLimit(w)

Spec == Init /\ [][Next]_vars

\* Workers run what the broker delivers, and a request that has committed runs
\* its hooks; callbacks, edits and crashes are never obliged to happen.
TaskFairness == /\ WF_vars(EditorHook)
                /\ \A w \in Workers : WF_vars(TaskStep(w))

FairSpec == Spec /\ TaskFairness

----------------------------------------------------------------------------
TypeOK ==
  /\ row \in Row /\ notice \in {"none", "open", "resolved"} /\ hooks \in Nat
  /\ messages \in [0 .. MaxRetries -> Nat]
  /\ worker \in [Workers -> [pc : {"idle", "lookup", "store", "refresh", "resolve",
                                   "notify", "ack"}, retries : 0 .. MaxRetries]]
  /\ presetBy \in {"none", "editor", "lookup"}
  /\ {told, lost, excused} \subseteq BOOLEAN
  /\ callbacks \in Nat /\ edits \in Nat /\ crashes \in Nat

(* A lookup that answers late does no harm (tasks.py:125-128): it neither   *)
(* replaces the preset a Project Manager typed while it was waiting, nor    *)
(* leaves one on a call that is no SALE, which the table's CHECK constraint *)
(* would refuse.                                                            *)
LateLookupHarmless ==
  [][(presetBy = "editor" => presetBy' # "lookup") /\ SaleOnlyFlags(row')]_<<row, presetBy>>

Working == hooks > 0 \/ (\E r \in 0 .. MaxRetries : messages[r] > 0)
           \/ (\E w \in Workers : ~AtPc(w, "idle"))

(* A warning that stays open once everything is quiet is about a SALE call  *)
(* without a preset, unless it was left behind by a writer that does not    *)
(* resolve it: a disposition callback, or a task that warned from a row it  *)
(* read before someone completed it.                                        *)
OpenNoticeHasReason ==
  notice = "open" /\ ~Missing(row) => Working \/ excused \/ lost

(* Every SALE call without a preset gets one, stops being a SALE or is      *)
(* reported, whatever workers die and callbacks or edits overtake the       *)
(* lookup; only a publication lost with its process, or a task ended by its *)
(* time limit, escapes.                                                     *)
MissingPresetReported == Missing(row) ~> (~Missing(row) \/ told \/ lost)

(* What the documentation promises: once the preset is populated or the     *)
(* call leaves SALE, the notification is resolved.                          *)
CompletedNoticeResolved ==
  (notice = "open" /\ ~Missing(row) /\ ~lost) ~> (notice # "open" \/ Missing(row) \/ lost)
=============================================================================
