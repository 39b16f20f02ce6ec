------------------------- MODULE RecordingPipeline -------------------------
(***************************************************************************)
(* The recording of one call: calls.resolve_recording finds its URL at     *)
(* VICIdial, calls.fetch_recording downloads it (calls/tasks.py,           *)
(* download_recording of calls/services.py).  Celery workers run the       *)
(* messages of the recordings queue; a lost worker's message is delivered  *)
(* again (acks_late, reject_on_worker_lost), and a worker that dies after  *)
(* it published a follow-up leaves both messages in the queue.             *)
(*                                                                         *)
(* Each database access, each request to VICIdial and each file operation  *)
(* is a step.  recording_lookup_status guards nothing, so the two updates  *)
(* of a lookup that failed for the last time are one step.                 *)
(***************************************************************************)
EXTENDS CallEvent

CONSTANTS Workers,       \* Celery worker processes
          MaxRetries,    \* max_retries of both tasks (five)
          MaxCallbacks,  \* bound: disposition callbacks
          MaxEdits,      \* bound: edits
          MaxFaults      \* bound: worker deaths and time limits

ASSUME PipelineAssumption ==
  {MaxRetries, MaxCallbacks, MaxEdits, MaxFaults} \subseteq Nat

VARIABLES row,       \* the call
          path,      \* its recording_path is set
          messages,  \* how many of each message the queue holds
          worker,    \* what each worker is doing
          temp, final,  \* what .<uuid>.part and <uuid> hold
          abandoned, \* a publication died with its process, or a time limit ended
                     \* a task outside its own error handling (history)
          released,  \* the row was taken from the worker downloading it: a callback
                     \* reset it, or a redelivered message claimed it (history)
          callbacks, edits, faults   \* bound counters

disk    == <<temp, final>>
history == <<abandoned, released>>
bounds  == <<callbacks, edits, faults>>
vars == <<row, path, messages, worker, disk, history, bounds>>

\* redelivered tells the broker's second delivery; resolve_recording ignores it.
Message == [task : {"resolve", "fetch"}, retries : 0 .. MaxRetries,
            redelivered : BOOLEAN]
Resolve0 == [task |-> "resolve", retries |-> 0, redelivered |-> FALSE]
Fetch0   == [task |-> "fetch", retries |-> 0, redelivered |-> FALSE]

Pcs == {"idle", "no_lead", "config", "found", "absent", "claim",
        "mark", "refresh", "open", "write", "replace", "save", "again",
        "record", "ack"}
Errors == {"ordinary", "permanent", "timeout"}

\* A file two workers streamed into is "mixed": nothing is known of it.
Files == {"none", "partial", "full", "mixed"}

\* renew: the URL is looked up again before the download.  second: the download
\* is the one from the URL looked up after a failure.
Idle == [pc |-> "idle", msg |-> Resolve0, renew |-> FALSE, second |-> FALSE,
         error |-> "none"]

Init ==
  /\ row = CreateRow("dispo", "NEW", [name |-> "callback", team |-> "callback"])
  /\ path = FALSE
  /\ messages = [m \in Message |-> 0]
  /\ worker = [w \in Workers |-> Idle]
  /\ temp = "none" /\ final = "none" /\ abandoned = FALSE /\ released = FALSE
  /\ callbacks = 0 /\ edits = 0 /\ faults = 0

At(w, pc)   == worker[w].pc = pc
Go(w, pc)   == worker' = [worker EXCEPT ![w].pc = pc]
Finish(w)   == worker' = [worker EXCEPT ![w] = [Idle EXCEPT !.pc = "ack", !.msg = worker[w].msg]]
Send(m)     == messages' = [messages EXCEPT ![m] = @ + 1]

\* The worker holds a claim on the download.
Streaming(w) == worker[w].pc \in {"mark", "refresh", "open", "write", "replace", "save",
                                  "again", "record"}
Taken == \E w \in Workers : Streaming(w)

\* A commit that publishes m, or dies before it does.
PublishOrLose(m) == \/ Send(m) /\ UNCHANGED abandoned
                    \/ abandoned' = TRUE /\ UNCHANGED messages

----------------------------------------------------------------------------
\* The writers outside the pipeline: callbacks, the stale sweep, the editor.
FinalDisposition(d) ==
  /\ callbacks < MaxCallbacks /\ callbacks' = callbacks + 1
  /\ row' = MergeFinal(row, d, [name |-> "callback", team |-> "callback"])
  /\ IF "resolve_recording" \in {FinalPublishes(FALSE, row, d)[i] :
                                 i \in DOMAIN FinalPublishes(FALSE, row, d)}
       THEN PublishOrLose(Resolve0) /\ released' = (released \/ Taken)
       ELSE UNCHANGED <<messages, history>>
  /\ UNCHANGED <<path, worker, disk, edits, faults>>

Sweep ==
  /\ SweepSelects(row) /\ row' = MarkStale(row)
  /\ UNCHANGED <<path, messages, worker, disk, history, bounds>>

EditCall(p) ==
  /\ edits < MaxEdits /\ edits' = edits + 1
  /\ ValidPatch(row, p) /\ row' = EditRow(row, p)
  /\ UNCHANGED <<path, messages, worker, disk, history, callbacks, faults>>

----------------------------------------------------------------------------
Take(w, m, pc, renew) ==
  /\ At(w, "idle") /\ messages[m] > 0
  /\ messages' = [messages EXCEPT ![m] = @ - 1]
  /\ worker' = [worker EXCEPT ![w] = [Idle EXCEPT !.pc = pc, !.msg = m, !.renew = renew]]
  /\ UNCHANGED <<row, path, disk, history, bounds>>

\* The read and what VICIdial answers: nothing to do, a lead_id that cannot be
\* looked up, a dialer that is not configured, no recording, or its URL.
ResolveStart(w, m) ==
  /\ m.task = "resolve"
  /\ \E answer \in {"no_lead", "config", "absent", "found"} :
       Take(w, m, IF row.download = "downloaded" THEN "ack" ELSE answer, FALSE)

GiveUp(w) ==
  /\ \/ At(w, "no_lead")
        /\ row' = [row EXCEPT !.lookup = "skipped", !.download = "skipped"]
     \/ At(w, "config")
        /\ row' = [row EXCEPT !.lookup = "failed", !.download = "skipped"]
  /\ Finish(w)
  /\ UNCHANGED <<path, messages, disk, history, bounds>>

\* Mutant: the last lookup leaves the download waiting for it.
NotFoundPending(w) ==
  /\ At(w, "absent") /\ Finish(w)
  /\ LET r == worker[w].msg.retries IN
     IF r >= MaxRetries
       THEN row' = [row EXCEPT !.lookup = "not_found"] /\ UNCHANGED messages
       ELSE /\ row' = [row EXCEPT !.lookup = "retrying"]
            /\ Send([Resolve0 EXCEPT !.retries = r + 1])
  /\ UNCHANGED <<path, disk, history, bounds>>

NotFound(w) ==
  /\ At(w, "absent") /\ Finish(w)
  /\ LET r == worker[w].msg.retries IN
     IF r >= MaxRetries
       THEN /\ row' = [row EXCEPT !.lookup = "not_found", !.download = "skipped"]
            /\ UNCHANGED messages
       ELSE /\ row' = [row EXCEPT !.lookup = "retrying"]
            /\ Send([Resolve0 EXCEPT !.retries = r + 1])
  /\ UNCHANGED <<path, disk, history, bounds>>

FoundRecording(w) ==
  /\ At(w, "found") /\ Finish(w)
  /\ row' = [row EXCEPT !.lookup = "found"]
  /\ PublishOrLose(Fetch0)
  /\ UNCHANGED <<path, disk, released, bounds>>

----------------------------------------------------------------------------
FetchStart(w, m) ==
  /\ m.task = "fetch"
  /\ IF row.download = "downloaded" /\ path THEN Take(w, m, "ack", FALSE)
     ELSE Take(w, m, "claim", m.retries > 0 \/ row.download \in {"retrying", "failed"})

\* Mutant: the claim does not look at the status.
ClaimableAlways(w) == Status

\* The statuses a download may be claimed from; a redelivered message may take
\* over what its lost worker left behind.
Claimable(w) == {"pending", "retrying", "failed"} \cup
                (IF worker[w].msg.redelivered THEN {"downloading"} ELSE {})

Claim(w) ==
  /\ At(w, "claim")
  /\ IF row.download \in Claimable(w)
       THEN /\ row' = [row EXCEPT !.download = "downloading"] /\ Go(w, "mark")
            /\ released' = (released \/ (worker[w].msg.redelivered /\ Taken))
       ELSE UNCHANGED <<row, released>> /\ Finish(w)
  /\ UNCHANGED <<path, messages, disk, abandoned, bounds>>

\* The unconditional update that records the attempt after the claim.
Mark(w) ==
  /\ At(w, "mark")
  /\ row' = [row EXCEPT !.download = "downloading"]
  /\ worker' = [worker EXCEPT ![w].renew = FALSE,
                 ![w].pc = IF worker[w].renew THEN "refresh" ELSE "open"]
  /\ UNCHANGED <<path, messages, disk, history, bounds>>

\* _refresh_recording_after_failure: VICIdial answers, or it does not.
Refreshed == row' = [row EXCEPT !.lookup = "found"] \/ UNCHANGED row

RefreshFirst(w) ==
  /\ At(w, "refresh") /\ Refreshed /\ Go(w, "open")
  /\ UNCHANGED <<path, messages, disk, history, bounds>>

\* After an ordinary failure the URL is looked up again, and a new URL is tried
\* at once, once.
Fail(w, e) == worker' = [worker EXCEPT ![w].error = e,
  ![w].pc = IF e = "timeout" \/ worker[w].second THEN "record" ELSE "again"]

InFile(w)  == worker[w].pc \in {"write", "replace"}

\* The request fails before a file is touched, or the temporary file is
\* opened, which truncates it.
OpenTemp(w) ==
  /\ At(w, "open")
  /\ \/ \E e \in Errors : Fail(w, e) /\ UNCHANGED temp
     \/ /\ temp' = IF \E v \in Workers : InFile(v) THEN "mixed" ELSE "partial"
        /\ Go(w, "write")
  /\ UNCHANGED <<row, path, messages, final, history, bounds>>

\* The stream ends, or it fails and the temporary file is unlinked.
WriteTemp(w) ==
  /\ At(w, "write")
  /\ \/ Go(w, "replace") /\ temp' = IF temp = "partial" THEN "full" ELSE temp
     \/ \E e \in Errors : Fail(w, e) /\ temp' = "none"
  /\ UNCHANGED <<row, path, messages, final, history, bounds>>

\* The temporary file gets its name; another worker may have taken it away.
ReplaceTemp(w) ==
  /\ At(w, "replace") /\ temp' = "none"
  /\ IF temp = "none" THEN Fail(w, "ordinary") /\ UNCHANGED final
     ELSE final' = temp /\ Go(w, "save")
  /\ UNCHANGED <<row, path, messages, history, bounds>>

Save(w) ==
  /\ At(w, "save") /\ Finish(w)
  /\ row' = [row EXCEPT !.download = "downloaded"] /\ path' = TRUE
  /\ UNCHANGED <<messages, disk, history, bounds>>

TryAgain(w) ==
  /\ At(w, "again")
  /\ \/ /\ row' = [row EXCEPT !.lookup = "found"]
        /\ worker' = [worker EXCEPT ![w].pc = "open", ![w].second = TRUE, ![w].error = "none"]
     \/ Refreshed /\ Go(w, "record")
  /\ UNCHANGED <<path, messages, disk, history, bounds>>

RecordFailure(w) ==
  /\ At(w, "record") /\ Finish(w)
  /\ LET r == worker[w].msg.retries IN
     IF r >= MaxRetries \/ worker[w].error = "permanent"
       THEN row' = [row EXCEPT !.download = "failed"] /\ UNCHANGED messages
       ELSE /\ row' = [row EXCEPT !.download = "retrying"]
            /\ Send([Fetch0 EXCEPT !.retries = r + 1])
  /\ UNCHANGED <<path, disk, history, bounds>>

Ack(w) ==
  /\ At(w, "ack") /\ worker' = [worker EXCEPT ![w] = Idle]
  /\ UNCHANGED <<row, path, messages, disk, history, bounds>>

\* A time limit strikes where the task does not catch it: the task fails, and
\* Celery acknowledges a failed message.
TimeLimit(w) ==
  /\ \E pc \in {"absent", "found", "refresh", "again", "save"} : At(w, pc)
  /\ faults < MaxFaults /\ faults' = faults + 1
  /\ worker' = [worker EXCEPT ![w] = Idle] /\ abandoned' = TRUE
  /\ UNCHANGED <<row, path, messages, disk, released, callbacks, edits>>

\* The worker dies and its message is delivered again, flagged.  At "ack" its
\* follow-up may be in the queue already.
Crash(w) ==
  /\ ~At(w, "idle") /\ faults < MaxFaults /\ faults' = faults + 1
  /\ worker' = [worker EXCEPT ![w] = Idle]
  /\ Send([worker[w].msg EXCEPT !.redelivered = (worker[w].msg.task = "fetch")])
  /\ UNCHANGED <<row, path, disk, history, callbacks, edits>>

TaskStep(w) ==
  \/ \E m \in Message : ResolveStart(w, m) \/ FetchStart(w, m)
  \/ GiveUp(w) \/ NotFound(w) \/ FoundRecording(w)
  \/ Claim(w) \/ Mark(w) \/ RefreshFirst(w)
  \/ OpenTemp(w) \/ WriteTemp(w) \/ ReplaceTemp(w) \/ Save(w)
  \/ TryAgain(w) \/ RecordFailure(w) \/ Ack(w)

Reopen == [dispo |-> "NEW", on |-> {}, off |-> {}]

Next ==
  \/ \E d \in FinalDispositions : FinalDisposition(d)
  \/ Sweep
  \/ EditCall(Reopen)
  \/ \E w \in Workers : TaskStep(w)
  \/ \E w \in Workers : TimeLimit(w)
  \/ \E w \in Workers : Crash(w)

Spec == Init /\ [][Next]_vars

\* Workers keep running what the queue holds; everything else may never happen.
FairSpec == Spec /\ \A w \in Workers : WF_vars(TaskStep(w))

----------------------------------------------------------------------------
TypeOK ==
  /\ row \in Row /\ path \in BOOLEAN
  /\ messages \in [Message -> Nat]
  /\ worker \in [Workers -> [pc : Pcs, msg : Message, renew : BOOLEAN, second : BOOLEAN,
                             error : {"none"} \cup Errors]]
  /\ temp \in Files /\ final \in Files
  /\ {abandoned, released} \subseteq BOOLEAN
  /\ callbacks \in Nat /\ edits \in Nat /\ faults \in Nat

(* A call shown as downloaded has its path and a complete file behind it,    *)
(* even after workers died in the middle of a file; for two workers never    *)
(* write it at once, even when duplicate messages wait in the queue.  The    *)
(* exception to both: a callback or a redelivered message took the row from  *)
(* the worker that was downloading it.                                       *)
DownloadedIsComplete ==
  /\ row.download = "downloaded" => path /\ (final = "full" \/ released)
  /\ \A v, w \in Workers : Streaming(v) /\ Streaming(w) => v = w \/ released

(* A finished download is taken back only together with the outcome, or by   *)
(* a lookup that began before it finished and gives up.                      *)
DownloadKept ==
  [][row.download = "downloaded" /\ row'.download # "downloaded"
       => \/ row'.dispo # row.dispo \/ released
          \/ \E w \in Workers : worker[w].pc \in {"no_lead", "config", "absent"}]_row

(* Whatever fails, is retried or dies, the recording of a finalized call    *)
(* ends as downloaded, failed or skipped; unless a publication was lost or  *)
(* a time limit ended a task outside its error handling.                    *)
Settled == row.download \in {"downloaded", "failed", "skipped"}
RecordingSettles == <>[](row.finalized /\ ~abandoned => Settled)
=============================================================================
