---------------------- MODULE RecordingPipeline_proofs ----------------------
(***************************************************************************)
(* The recording of a call, proved for any number of workers, retries,     *)
(* callbacks and faults.  Until a callback or a redelivered message takes  *)
(* the row from its downloader, the row's status is what keeps a second    *)
(* worker from claiming it: a claim finds "downloading" while a worker     *)
(* streams, or "skipped" where a lookup gave up or the sweep came by, and  *)
(* neither can be claimed.  One worker alone follows its file from opening *)
(* it to its final name.                                                   *)
(***************************************************************************)
EXTENDS RecordingPipeline, CallEvent_proofs

WorkerState == [pc : Pcs, msg : Message, renew : BOOLEAN, second : BOOLEAN,
                error : {"none"} \cup Errors]

\* The stale flag outlives the word STALE only while the editor reopens the call.
RowInv ==
  /\ Coherent(row)
  /\ row.stale => row.dispo \in Pending

\* Whoever streams streams alone, and the row says so.
ClaimInv == ~released =>
  /\ \A v, w \in Workers : Streaming(v) /\ Streaming(w) => v = w
  /\ \A w \in Workers : Streaming(w) => row.download \in {"downloading", "skipped"}

\* The files are as far as the worker that streams.
FileInv == ~released =>
  \A w \in Workers :
    /\ At(w, "write") => temp = "partial"
    /\ At(w, "replace") => temp = "full"
    /\ At(w, "save") => final = "full"

DownloadInv == row.download = "downloaded" => path /\ (final = "full" \/ released)

IInv == TypeOK /\ RowInv /\ ClaimInv /\ FileInv /\ DownloadInv

----------------------------------------------------------------------------
LEMMA IdleTyped == Idle \in WorkerState
BY PipelineAssumption DEF Idle, WorkerState, Pcs, Message, Resolve0

LEMMA InitIInv == Init => IInv
<1> SUFFICES ASSUME Init PROVE IInv
  OBVIOUS
<1>1. Coherent(row) /\ ~row.stale /\ row.download = "pending"
  BY CreateRowCoherent DEF Init, Who
<1>2. TypeOK
  BY <1>1, IdleTyped DEF Init, TypeOK, Coherent, Files, WorkerState
<1>3. \A w \in Workers : worker[w].pc = "idle"
  BY DEF Init, Idle
<1> QED
  BY <1>1, <1>2, <1>3
  DEF IInv, RowInv, ClaimInv, FileInv, DownloadInv, Streaming, At

----------------------------------------------------------------------------
(* Writing the two statuses keeps the row coherent.                         *)
LEMMA StatusWritten ==
  ASSUME Coherent(row), NEW new, NEW l \in Status, NEW d \in Status,
         new = [row EXCEPT !.lookup = l, !.download = d]
  PROVE  /\ Coherent(new)
         /\ new.dispo = row.dispo /\ new.stale = row.stale
         /\ new.lookup = l /\ new.download = d
BY DEF Coherent, Row, SaleOnlyFlags, ThirtyImplies20

LEMMA LookupWritten ==
  ASSUME Coherent(row), NEW new, NEW l \in Status, new = [row EXCEPT !.lookup = l]
  PROVE  /\ Coherent(new)
         /\ new.dispo = row.dispo /\ new.stale = row.stale
         /\ new.download = row.download
BY DEF Coherent, Row, SaleOnlyFlags, ThirtyImplies20

LEMMA DownloadWritten ==
  ASSUME Coherent(row), NEW new, NEW d \in Status, new = [row EXCEPT !.download = d]
  PROVE  /\ Coherent(new)
         /\ new.dispo = row.dispo /\ new.stale = row.stale
         /\ new.download = d
BY DEF Coherent, Row, SaleOnlyFlags, ThirtyImplies20

(* A step of one worker, which it leaves in a state that does not stream    *)
(* and without touching the files, keeps the invariant, if the row is left  *)
(* as it was or written by a lookup.                                        *)
LEMMA WorkerMoves ==
  ASSUME TypeOK, NEW w \in Workers, NEW new \in WorkerState,
         worker' = [worker EXCEPT ![w] = new]
  PROVE  /\ worker' \in [Workers -> WorkerState]
         /\ worker'[w] = new
         /\ \A v \in Workers \ {w} : worker'[v] = worker[v]
BY DEF TypeOK, WorkerState

LEMMA MessageTyped ==
  ASSUME TypeOK, NEW w \in Workers
  PROVE  /\ worker[w].msg \in Message
         /\ worker[w].msg.retries \in 0 .. MaxRetries /\ MaxRetries \in Nat
<1>1. worker[w] \in WorkerState
  BY DEF TypeOK, WorkerState
<1>2. worker[w].msg \in Message
  BY <1>1 DEF WorkerState
<1> QED
  BY <1>2, PipelineAssumption DEF Message

LEMMA SendTyped ==
  ASSUME TypeOK, NEW m \in Message, Send(m)
  PROVE  messages' \in [Message -> Nat]
BY DEF TypeOK, Send

LEMMA TakeStep ==
  ASSUME IInv, NEW w \in Workers, NEW m \in Message, NEW pc \in Pcs,
         NEW renew \in BOOLEAN,
         pc \in {"no_lead", "config", "found", "absent", "claim", "ack"}, Take(w, m, pc, renew)
  PROVE  IInv'
<1>1. worker[w].pc = "idle"
  BY DEF Take, At
<1> DEFINE new == [Idle EXCEPT !.pc = pc, !.msg = m, !.renew = renew]
<1>2. new \in WorkerState /\ new.pc = pc
  BY IdleTyped DEF WorkerState
<1>3. /\ worker' \in [Workers -> WorkerState] /\ worker'[w].pc = pc
      /\ \A v \in Workers \ {w} : worker'[v] = worker[v]
  BY <1>2, WorkerMoves DEF Take, IInv
<1>4. TypeOK'
  BY <1>3 DEF IInv, TypeOK, Take, WorkerState, disk, history, bounds
<1> QED
  BY <1>1, <1>3, <1>4
  DEF IInv, RowInv, ClaimInv, FileInv, DownloadInv, Streaming, At, Take, disk, history, bounds

(* The worker state after Finish.                                           *)
LEMMA FinishMoves ==
  ASSUME TypeOK, NEW w \in Workers, Finish(w)
  PROVE  /\ worker' \in [Workers -> WorkerState] /\ worker'[w].pc = "ack"
         /\ \A v \in Workers \ {w} : worker'[v] = worker[v]
<1> DEFINE new == [Idle EXCEPT !.pc = "ack", !.msg = worker[w].msg]
<1>1. new \in WorkerState /\ new.pc = "ack"
  BY IdleTyped DEF WorkerState, TypeOK, Pcs
<1> QED
  BY <1>1, WorkerMoves DEF Finish

LEMMA GoMoves ==
  ASSUME TypeOK, NEW w \in Workers, NEW pc \in Pcs, Go(w, pc)
  PROVE  /\ worker' \in [Workers -> WorkerState] /\ worker'[w].pc = pc
         /\ \A v \in Workers \ {w} : worker'[v] = worker[v]
<1> DEFINE new == [worker[w] EXCEPT !.pc = pc]
<1>1. new \in WorkerState /\ new.pc = pc
  BY DEF WorkerState, TypeOK
<1>2. worker' = [worker EXCEPT ![w] = new]
  BY DEF Go, TypeOK
<1> QED
  BY <1>1, <1>2, WorkerMoves

LEMMA GiveUpStep ==
  ASSUME IInv, NEW w \in Workers, GiveUp(w)
  PROVE  IInv'
<1>1. worker[w].pc \in {"no_lead", "config"}
  BY DEF GiveUp, At
<1>2. Coherent(row') /\ row'.dispo = row.dispo /\ row'.stale = row.stale /\ row'.download = "skipped"
  BY StatusWritten DEF GiveUp, Status, IInv, RowInv
<1>3. /\ worker' \in [Workers -> WorkerState] /\ worker'[w].pc = "ack"
      /\ \A v \in Workers \ {w} : worker'[v] = worker[v]
  BY FinishMoves DEF GiveUp, IInv
<1>4. TypeOK'
  BY <1>2, <1>3 DEF IInv, TypeOK, GiveUp, WorkerState, Coherent, disk, history, bounds
<1> QED
  BY <1>1, <1>2, <1>3, <1>4
  DEF IInv, RowInv, ClaimInv, FileInv, DownloadInv, Streaming, At, GiveUp, disk, history, bounds

LEMMA NotFoundStep ==
  ASSUME IInv, NEW w \in Workers, NotFound(w)
  PROVE  IInv'
<1>1. worker[w].pc = "absent"
  BY DEF NotFound, At
<1>2. /\ Coherent(row') /\ row'.dispo = row.dispo /\ row'.stale = row.stale
      /\ row'.download \in {row.download, "skipped"}
  BY StatusWritten, LookupWritten DEF NotFound, Status, IInv, RowInv
<1>3. /\ worker' \in [Workers -> WorkerState] /\ worker'[w].pc = "ack"
      /\ \A v \in Workers \ {w} : worker'[v] = worker[v]
  BY FinishMoves DEF NotFound, IInv
<1>4. messages' \in [Message -> Nat]
  <2>1. CASE worker[w].msg.retries >= MaxRetries
    BY <2>1 DEF NotFound, IInv, TypeOK
  <2>2. CASE ~(worker[w].msg.retries >= MaxRetries)
    <3> DEFINE m == [Resolve0 EXCEPT !.retries = worker[w].msg.retries + 1]
    <3>1. worker[w].msg.retries + 1 \in 0 .. MaxRetries
      BY <2>2, MessageTyped DEF IInv
    <3>2. m \in Message
      BY <3>1 DEF Message, Resolve0
    <3> QED BY <2>2, <3>2, SendTyped DEF NotFound, IInv
  <2> QED BY <2>1, <2>2
<1>5. TypeOK'
  BY <1>2, <1>3, <1>4 DEF IInv, TypeOK, NotFound, WorkerState, Coherent, disk, history, bounds
<1> QED
  BY <1>1, <1>2, <1>3, <1>5
  DEF IInv, RowInv, ClaimInv, FileInv, DownloadInv, Streaming, At, NotFound, disk, history, bounds

LEMMA FoundRecordingStep ==
  ASSUME IInv, NEW w \in Workers, FoundRecording(w)
  PROVE  IInv'
<1>1. worker[w].pc = "found"
  BY DEF FoundRecording, At
<1>2. /\ Coherent(row') /\ row'.dispo = row.dispo /\ row'.stale = row.stale
      /\ row'.download = row.download
  BY LookupWritten DEF FoundRecording, Status, IInv, RowInv
<1>3. /\ worker' \in [Workers -> WorkerState] /\ worker'[w].pc = "ack"
      /\ \A v \in Workers \ {w} : worker'[v] = worker[v]
  BY FinishMoves DEF FoundRecording, IInv
<1>4. messages' \in [Message -> Nat] /\ abandoned' \in BOOLEAN
  <2>1. Fetch0 \in Message
    BY PipelineAssumption DEF Message, Fetch0
  <2> QED BY <2>1, SendTyped DEF FoundRecording, PublishOrLose, IInv, TypeOK
<1>5. TypeOK'
  BY <1>2, <1>3, <1>4 DEF IInv, TypeOK, FoundRecording, WorkerState, Coherent, disk, bounds
<1> QED
  BY <1>1, <1>2, <1>3, <1>5
  DEF IInv, RowInv, ClaimInv, FileInv, DownloadInv, Streaming, At, FoundRecording, disk, bounds

----------------------------------------------------------------------------
(* A claim: nobody streams while the row can be claimed, unless the row is  *)
(* taken from its downloader.                                               *)
LEMMA ClaimStep ==
  ASSUME IInv, NEW w \in Workers, Claim(w)
  PROVE  IInv'
<1>1. worker[w].pc = "claim"
  BY DEF Claim, At
<1>2. CASE row.download \in Claimable(w)
  <2>1. /\ Coherent(row') /\ row'.dispo = row.dispo /\ row'.stale = row.stale
        /\ row'.download = "downloading"
    BY <1>2, DownloadWritten DEF Claim, Status, IInv, RowInv
  <2>2. /\ worker' \in [Workers -> WorkerState] /\ worker'[w].pc = "mark"
        /\ \A v \in Workers \ {w} : worker'[v] = worker[v]
    BY <1>2, GoMoves DEF Claim, IInv, Pcs
  <2>3. released' = (released \/ (worker[w].msg.redelivered /\ Taken))
    BY <1>2 DEF Claim
  <2>4. ASSUME ~released' PROVE \A v \in Workers : ~Streaming(v)
    <3>1. ~released
      BY <2>3, <2>4 DEF IInv, TypeOK
    <3>2. SUFFICES ASSUME NEW v \in Workers, Streaming(v) PROVE FALSE
      OBVIOUS
    <3>3. Taken
      BY <3>2 DEF Taken
    <3>4. row.download \in {"pending", "retrying", "failed"}
      BY <1>2, <2>3, <2>4, <3>3 DEF Claimable
    <3> QED BY <3>1, <3>2, <3>4 DEF IInv, ClaimInv
  <2>5. TypeOK'
    BY <2>1, <2>2, <2>3 DEF IInv, TypeOK, Claim, WorkerState, Coherent, disk, bounds
  <2>6. RowInv' /\ DownloadInv'
    BY <2>1 DEF IInv, RowInv, DownloadInv
  <2>7. ClaimInv' /\ FileInv'
    BY <2>1, <2>2, <2>4 DEF ClaimInv, FileInv, Streaming, At
  <2> QED
    BY <2>5, <2>6, <2>7 DEF IInv
<1>3. CASE row.download \notin Claimable(w)
  <2>1. /\ worker' \in [Workers -> WorkerState] /\ worker'[w].pc = "ack"
        /\ \A v \in Workers \ {w} : worker'[v] = worker[v]
    BY <1>3, FinishMoves DEF Claim, IInv
  <2>2. UNCHANGED <<row, path, messages, disk, history, bounds>>
    BY <1>3 DEF Claim, history
  <2>3. TypeOK'
    BY <2>1, <2>2 DEF IInv, TypeOK, WorkerState, disk, history, bounds
  <2> QED
    BY <1>1, <2>1, <2>2, <2>3
    DEF IInv, RowInv, ClaimInv, FileInv, DownloadInv, Streaming, At, disk, history, bounds
<1> QED BY <1>2, <1>3

----------------------------------------------------------------------------
(* The download.  A worker that moves between two states of a download      *)
(* keeps its claim, and no other worker has one.                            *)
LEMMA StreamerMoves ==
  ASSUME TypeOK, ClaimInv, NEW w \in Workers, Streaming(w),
         \A v \in Workers \ {w} : worker'[v] = worker[v],
         released' = released, row'.download \in {row.download, "downloading"}
  PROVE  ClaimInv'
BY DEF ClaimInv, Streaming

LEMMA MarkStep ==
  ASSUME IInv, NEW w \in Workers, Mark(w)
  PROVE  IInv'
<1>1. worker[w].pc = "mark" /\ Streaming(w)
  BY DEF Mark, At, Streaming
<1>2. /\ Coherent(row') /\ row'.dispo = row.dispo /\ row'.stale = row.stale
      /\ row'.download = "downloading"
  BY DownloadWritten DEF Mark, Status, IInv, RowInv
<1> DEFINE new == [worker[w] EXCEPT !.renew = FALSE,
                                    !.pc = IF worker[w].renew THEN "refresh" ELSE "open"]
<1>3. new \in WorkerState /\ new.pc \in {"refresh", "open"}
  BY DEF IInv, TypeOK, WorkerState, Pcs
<1>4. worker' = [worker EXCEPT ![w] = new]
  BY DEF Mark, IInv, TypeOK
<1>5. /\ worker' \in [Workers -> WorkerState] /\ worker'[w].pc \in {"refresh", "open"}
      /\ \A v \in Workers \ {w} : worker'[v] = worker[v]
  BY <1>3, <1>4, WorkerMoves DEF IInv
<1>6. TypeOK'
  BY <1>2, <1>5 DEF IInv, TypeOK, Mark, WorkerState, Coherent, disk, history, bounds
<1>7. ClaimInv'
  BY <1>1, <1>2, <1>5, StreamerMoves DEF IInv, Mark, history
<1> QED
  BY <1>1, <1>2, <1>5, <1>6, <1>7
  DEF IInv, RowInv, FileInv, DownloadInv, At, Mark, disk, history, bounds

(* Looking the URL up again leaves the claim and the files alone.           *)
LEMMA RefreshedRow ==
  ASSUME IInv, Refreshed
  PROVE  /\ Coherent(row') /\ row'.dispo = row.dispo /\ row'.stale = row.stale
         /\ row'.download = row.download
BY LookupWritten DEF Refreshed, Status, IInv, RowInv

LEMMA RefreshFirstStep ==
  ASSUME IInv, NEW w \in Workers, RefreshFirst(w)
  PROVE  IInv'
<1>1. worker[w].pc = "refresh" /\ Streaming(w)
  BY DEF RefreshFirst, At, Streaming
<1>2. /\ Coherent(row') /\ row'.dispo = row.dispo /\ row'.stale = row.stale
      /\ row'.download = row.download
  BY RefreshedRow DEF RefreshFirst
<1>3. /\ worker' \in [Workers -> WorkerState] /\ worker'[w].pc = "open"
      /\ \A v \in Workers \ {w} : worker'[v] = worker[v]
  BY GoMoves DEF RefreshFirst, IInv, Pcs
<1>4. TypeOK'
  BY <1>2, <1>3 DEF IInv, TypeOK, RefreshFirst, WorkerState, Coherent, disk, history, bounds
<1>5. ClaimInv'
  BY <1>1, <1>2, <1>3, StreamerMoves DEF IInv, RefreshFirst, history
<1> QED
  BY <1>1, <1>2, <1>3, <1>4, <1>5
  DEF IInv, RowInv, FileInv, DownloadInv, At, RefreshFirst, disk, history, bounds

LEMMA TryAgainStep ==
  ASSUME IInv, NEW w \in Workers, TryAgain(w)
  PROVE  IInv'
<1>1. worker[w].pc = "again" /\ Streaming(w)
  BY DEF TryAgain, At, Streaming
<1>2. /\ Coherent(row') /\ row'.dispo = row.dispo /\ row'.stale = row.stale
      /\ row'.download = row.download
  BY RefreshedRow DEF TryAgain, Refreshed
<1>3. /\ worker' \in [Workers -> WorkerState] /\ worker'[w].pc \in {"open", "record"}
      /\ \A v \in Workers \ {w} : worker'[v] = worker[v]
  <2> DEFINE new == [worker[w] EXCEPT !.pc = "open", !.second = TRUE, !.error = "none"]
  <2>1. new \in WorkerState /\ new.pc = "open"
    BY DEF IInv, TypeOK, WorkerState, Pcs
  <2>2. worker' = [worker EXCEPT ![w] = new] \/ Go(w, "record")
    BY DEF TryAgain, IInv, TypeOK
  <2> QED BY <2>1, <2>2, WorkerMoves, GoMoves DEF IInv, Pcs
<1>4. TypeOK'
  BY <1>2, <1>3 DEF IInv, TypeOK, TryAgain, WorkerState, Coherent, disk, history, bounds
<1>5. ClaimInv'
  BY <1>1, <1>2, <1>3, StreamerMoves DEF IInv, TryAgain, history
<1> QED
  BY <1>1, <1>2, <1>3, <1>4, <1>5
  DEF IInv, RowInv, FileInv, DownloadInv, At, TryAgain, disk, history, bounds

LEMMA FailMoves ==
  ASSUME TypeOK, NEW w \in Workers, NEW e \in Errors, Fail(w, e)
  PROVE  /\ worker' \in [Workers -> WorkerState] /\ worker'[w].pc \in {"record", "again"}
         /\ \A v \in Workers \ {w} : worker'[v] = worker[v]
<1> DEFINE new == [worker[w] EXCEPT !.error = e,
              !.pc = IF e = "timeout" \/ worker[w].second THEN "record" ELSE "again"]
<1>1. new \in WorkerState /\ new.pc \in {"record", "again"}
  BY DEF TypeOK, WorkerState, Pcs
<1>2. worker' = [worker EXCEPT ![w] = new]
  BY DEF Fail, TypeOK
<1> QED
  BY <1>1, <1>2, WorkerMoves

(* The worker that streams alone truncates the temporary file, fills it and *)
(* gives it its name.                                                       *)
LEMMA OpenTempStep ==
  ASSUME IInv, NEW w \in Workers, OpenTemp(w)
  PROVE  IInv'
<1>1. worker[w].pc = "open" /\ Streaming(w)
  BY DEF OpenTemp, At, Streaming
<1>2. ASSUME ~released PROVE ~ \E v \in Workers : InFile(v)
  BY <1>1, <1>2 DEF IInv, ClaimInv, Streaming, InFile
<1>3. /\ worker' \in [Workers -> WorkerState]
      /\ \/ worker'[w].pc \in {"record", "again"} /\ temp' = temp
         \/ /\ worker'[w].pc = "write"
            /\ temp' = IF \E v \in Workers : InFile(v) THEN "mixed" ELSE "partial"
      /\ \A v \in Workers \ {w} : worker'[v] = worker[v]
  BY FailMoves, GoMoves DEF OpenTemp, IInv, Pcs
<1>4. TypeOK'
  BY <1>3 DEF IInv, TypeOK, OpenTemp, WorkerState, Files, history, bounds
<1>5. ClaimInv'
  BY <1>1, <1>3, StreamerMoves DEF IInv, OpenTemp, history
<1>6. FileInv'
  <2> SUFFICES ASSUME ~released', NEW v \in Workers
               PROVE  /\ At(v, "write")' => temp' = "partial"
                      /\ At(v, "replace")' => temp' = "full"
                      /\ At(v, "save")' => final' = "full"
    BY DEF FileInv
  <2>1. ~released /\ final' = final
    BY DEF OpenTemp, history
  <2>2. CASE v = w
    BY <1>2, <1>3, <2>1, <2>2 DEF At
  <2>3. CASE v # w
    BY <1>1, <1>3, <2>1, <2>3 DEF At, Streaming, IInv, ClaimInv
  <2> QED BY <2>2, <2>3
<1> QED
  BY <1>4, <1>5, <1>6 DEF IInv, RowInv, DownloadInv, OpenTemp, history

LEMMA WriteTempStep ==
  ASSUME IInv, NEW w \in Workers, WriteTemp(w)
  PROVE  IInv'
<1>1. worker[w].pc = "write" /\ Streaming(w)
  BY DEF WriteTemp, At, Streaming
<1>2. /\ worker' \in [Workers -> WorkerState]
      /\ \/ worker'[w].pc = "replace" /\ temp' = IF temp = "partial" THEN "full" ELSE temp
         \/ worker'[w].pc \in {"record", "again"} /\ temp' = "none"
      /\ \A v \in Workers \ {w} : worker'[v] = worker[v]
  BY FailMoves, GoMoves DEF WriteTemp, IInv, Pcs
<1>3. TypeOK'
  BY <1>2 DEF IInv, TypeOK, WriteTemp, WorkerState, Files, history, bounds
<1>4. ClaimInv'
  BY <1>1, <1>2, StreamerMoves DEF IInv, WriteTemp, history
<1>5. FileInv'
  <2> SUFFICES ASSUME ~released', NEW v \in Workers
               PROVE  /\ At(v, "write")' => temp' = "partial"
                      /\ At(v, "replace")' => temp' = "full"
                      /\ At(v, "save")' => final' = "full"
    BY DEF FileInv
  <2>1. ~released /\ final' = final
    BY DEF WriteTemp, history
  <2>2. CASE v = w
    BY <1>1, <1>2, <2>1, <2>2 DEF At, IInv, FileInv
  <2>3. CASE v # w
    BY <1>1, <1>2, <2>1, <2>3 DEF At, Streaming, IInv, ClaimInv
  <2> QED BY <2>2, <2>3
<1> QED
  BY <1>3, <1>4, <1>5 DEF IInv, RowInv, DownloadInv, WriteTemp, history

(* The file that a call shown as downloaded names is replaced only by a     *)
(* worker that claimed the download anew, so never while it shows that.     *)
LEMMA ReplaceTempStep ==
  ASSUME IInv, NEW w \in Workers, ReplaceTemp(w)
  PROVE  IInv'
<1>1. worker[w].pc = "replace" /\ Streaming(w)
  BY DEF ReplaceTemp, At, Streaming
<1>2. /\ worker' \in [Workers -> WorkerState]
      /\ \/ temp = "none" /\ worker'[w].pc \in {"record", "again"} /\ final' = final
         \/ temp # "none" /\ worker'[w].pc = "save" /\ final' = temp
      /\ \A v \in Workers \ {w} : worker'[v] = worker[v]
  BY FailMoves, GoMoves DEF ReplaceTemp, IInv, Pcs, Errors
<1>3. TypeOK'
  BY <1>2 DEF IInv, TypeOK, ReplaceTemp, WorkerState, Files, history, bounds
<1>4. ClaimInv'
  BY <1>1, <1>2, StreamerMoves DEF IInv, ReplaceTemp, history
<1>5. FileInv'
  <2> SUFFICES ASSUME ~released', NEW v \in Workers
               PROVE  /\ At(v, "write")' => temp' = "partial"
                      /\ At(v, "replace")' => temp' = "full"
                      /\ At(v, "save")' => final' = "full"
    BY DEF FileInv
  <2>1. ~released
    BY DEF ReplaceTemp, history
  <2>2. CASE v = w
    BY <1>1, <1>2, <2>1, <2>2 DEF At, IInv, FileInv
  <2>3. CASE v # w
    BY <1>1, <1>2, <2>1, <2>3 DEF At, Streaming, IInv, ClaimInv
  <2> QED BY <2>2, <2>3
<1>6. DownloadInv'
  <2>1. ~released => row.download # "downloaded"
    BY <1>1 DEF IInv, ClaimInv
  <2> QED BY <2>1 DEF IInv, DownloadInv, ReplaceTemp, history
<1> QED
  BY <1>3, <1>4, <1>5, <1>6 DEF IInv, RowInv, ReplaceTemp, history

LEMMA SaveStep ==
  ASSUME IInv, NEW w \in Workers, Save(w)
  PROVE  IInv'
<1>1. worker[w].pc = "save" /\ Streaming(w)
  BY DEF Save, At, Streaming
<1>2. /\ Coherent(row') /\ row'.dispo = row.dispo /\ row'.stale = row.stale
      /\ row'.download = "downloaded"
  BY DownloadWritten DEF Save, Status, IInv, RowInv
<1>3. /\ worker' \in [Workers -> WorkerState] /\ worker'[w].pc = "ack"
      /\ \A v \in Workers \ {w} : worker'[v] = worker[v]
  BY FinishMoves DEF Save, IInv
<1>4. TypeOK'
  BY <1>2, <1>3 DEF IInv, TypeOK, Save, WorkerState, Coherent, disk, history, bounds
<1>5. ~released => \A v \in Workers : ~Streaming(v)'
  BY <1>1, <1>3 DEF IInv, ClaimInv, Streaming
<1>6. released' = released /\ temp' = temp /\ final' = final /\ path'
  BY DEF Save, disk, history
<1>7. ClaimInv' /\ FileInv'
  BY <1>5, <1>6 DEF ClaimInv, FileInv, Streaming, At
<1>8. DownloadInv'
  BY <1>1, <1>6 DEF IInv, FileInv, DownloadInv, At
<1> QED
  BY <1>2, <1>4, <1>7, <1>8 DEF IInv, RowInv

LEMMA RecordFailureStep ==
  ASSUME IInv, NEW w \in Workers, RecordFailure(w)
  PROVE  IInv'
<1>1. worker[w].pc = "record" /\ Streaming(w)
  BY DEF RecordFailure, At, Streaming
<1>2. /\ Coherent(row') /\ row'.dispo = row.dispo /\ row'.stale = row.stale
      /\ row'.download \in {"failed", "retrying"}
  BY DownloadWritten DEF RecordFailure, Status, IInv, RowInv
<1>3. /\ worker' \in [Workers -> WorkerState] /\ worker'[w].pc = "ack"
      /\ \A v \in Workers \ {w} : worker'[v] = worker[v]
  BY FinishMoves DEF RecordFailure, IInv
<1>4. messages' \in [Message -> Nat]
  <2> DEFINE r == worker[w].msg.retries
             m == [Fetch0 EXCEPT !.retries = r + 1]
  <2>1. CASE r >= MaxRetries \/ worker[w].error = "permanent"
    BY <2>1 DEF RecordFailure, IInv, TypeOK
  <2>2. CASE ~(r >= MaxRetries \/ worker[w].error = "permanent")
    <3>1. r + 1 \in 0 .. MaxRetries
      BY <2>2, MessageTyped DEF IInv
    <3>2. m \in Message
      BY <3>1 DEF Message, Fetch0
    <3> QED BY <2>2, <3>2, SendTyped DEF RecordFailure, IInv
  <2> QED BY <2>1, <2>2
<1>5. TypeOK'
  BY <1>2, <1>3, <1>4
  DEF IInv, TypeOK, RecordFailure, WorkerState, Coherent, disk, history, bounds
<1>6. ~released => \A v \in Workers : ~Streaming(v)'
  BY <1>1, <1>3 DEF IInv, ClaimInv, Streaming
<1>7. released' = released
  BY DEF RecordFailure, history
<1>8. ClaimInv' /\ FileInv'
  BY <1>6, <1>7 DEF ClaimInv, FileInv, Streaming, At
<1> QED
  BY <1>2, <1>5, <1>8 DEF IInv, RowInv, DownloadInv

----------------------------------------------------------------------------
(* A worker that lets go, at the end of its message, dead or out of time,   *)
(* leaves the files and the row as they are.                                *)
LEMMA WorkerIdles ==
  ASSUME IInv, NEW w \in Workers, worker' = [worker EXCEPT ![w] = Idle], TypeOK',
         UNCHANGED <<row, path, temp, final, released>>
  PROVE  IInv'
<1>1. /\ worker'[w].pc = "idle"
      /\ \A v \in Workers \ {w} : worker'[v] = worker[v]
  BY IdleTyped, WorkerMoves DEF IInv, Idle
<1> QED
  BY <1>1 DEF IInv, RowInv, ClaimInv, FileInv, DownloadInv, Streaming, At

LEMMA AckStep ==
  ASSUME IInv, NEW w \in Workers, Ack(w)
  PROVE  IInv'
<1>1. worker' \in [Workers -> WorkerState]
  BY IdleTyped, WorkerMoves DEF Ack, IInv
<1>2. TypeOK'
  BY <1>1 DEF IInv, TypeOK, Ack, WorkerState, disk, history, bounds
<1> QED
  BY <1>2, WorkerIdles DEF Ack, disk, history

LEMMA TimeLimitStep ==
  ASSUME IInv, NEW w \in Workers, TimeLimit(w)
  PROVE  IInv'
<1>1. worker' \in [Workers -> WorkerState]
  BY IdleTyped, WorkerMoves DEF TimeLimit, IInv
<1>2. TypeOK'
  BY <1>1 DEF IInv, TypeOK, TimeLimit, WorkerState, disk
<1> QED
  BY <1>2, WorkerIdles DEF TimeLimit, disk

LEMMA CrashStep ==
  ASSUME IInv, NEW w \in Workers, Crash(w)
  PROVE  IInv'
<1> DEFINE m == [worker[w].msg EXCEPT !.redelivered = (worker[w].msg.task = "fetch")]
<1>1. worker' \in [Workers -> WorkerState]
  BY IdleTyped, WorkerMoves DEF Crash, IInv
<1>2. m \in Message
  BY MessageTyped DEF IInv, Message
<1>3. messages' \in [Message -> Nat]
  BY <1>2, SendTyped DEF Crash, IInv
<1>4. TypeOK'
  BY <1>1, <1>3 DEF IInv, TypeOK, Crash, WorkerState, disk, history
<1> QED
  BY <1>4, WorkerIdles DEF Crash, disk, history

----------------------------------------------------------------------------
(* The writers outside.  A disposition that makes the recording eligible    *)
(* again notes that it takes the row from whoever streams; any other leaves *)
(* the download as it is.                                                   *)
LEMMA FinalDispositionStep ==
  ASSUME IInv, NEW d \in FinalDispositions, FinalDisposition(d)
  PROVE  IInv'
<1> DEFINE who == [name |-> "callback", team |-> "callback"]
           tasks == FinalPublishes(FALSE, row, d)
           starts == "resolve_recording" \in {tasks[i] : i \in DOMAIN tasks}
<1>1. /\ Coherent(row') /\ row'.dispo = d /\ ~row'.stale
      /\ row'.download = IF WasPending(row) THEN "pending" ELSE row.download
  <2>1. who \in Who /\ Coherent(row) /\ row' = MergeFinal(row, d, who)
    BY DEF Who, IInv, RowInv, FinalDisposition
  <2> QED BY <2>1, MergeFinalCoherent
<1>2. WasPending(row) => starts
  <2> SUFFICES ASSUME WasPending(row) PROVE starts
    OBVIOUS
  <2>1. \/ tasks = <<"resolve_recording", "resolve_sale_preset">>
        \/ tasks = <<"resolve_recording">>
    BY DEF FinalPublishes
  <2> HIDE DEF tasks
  <2>2. 1 \in DOMAIN tasks /\ tasks[1] = "resolve_recording"
    BY <2>1
  <2> QED BY <2>2
<1>3. \/ starts /\ PublishOrLose(Resolve0) /\ released' = (released \/ Taken)
      \/ ~starts /\ UNCHANGED <<messages, history>>
  BY DEF FinalDisposition
<1> HIDE DEF starts, tasks
<1>4. messages' \in [Message -> Nat] /\ abandoned' \in BOOLEAN /\ released' \in BOOLEAN
  <2>1. Resolve0 \in Message
    BY PipelineAssumption DEF Message, Resolve0
  <2> QED BY <1>3, <2>1, SendTyped DEF PublishOrLose, IInv, TypeOK, history
<1>5. UNCHANGED <<path, worker, disk, edits, faults>> /\ callbacks' = callbacks + 1
  BY DEF FinalDisposition
<1>6. TypeOK'
  BY <1>1, <1>4, <1>5 DEF IInv, TypeOK, Coherent, WorkerState, disk
<1>7. RowInv'
  BY <1>1 DEF RowInv
<1>8. ASSUME ~released'
      PROVE  /\ ~released
             /\ row'.download = row.download \/ \A v \in Workers : ~Streaming(v)
  <2>1. released \in BOOLEAN
    BY DEF IInv, TypeOK
  <2>2. CASE starts
    <3>1. ~released /\ ~Taken
      BY <1>3, <1>8, <2>1, <2>2
    <3> QED BY <3>1 DEF Taken
  <2>3. CASE ~starts
    <3>1. ~WasPending(row) /\ ~released
      BY <1>2, <1>3, <1>8, <2>3 DEF history
    <3> QED BY <1>1, <3>1
  <2> QED BY <2>2, <2>3
<1>9. ClaimInv' /\ FileInv'
  BY <1>5, <1>8 DEF IInv, ClaimInv, FileInv, Streaming, At, disk
<1>10. DownloadInv'
  BY <1>1, <1>3, <1>5 DEF IInv, DownloadInv, disk, history
<1> QED
  BY <1>6, <1>7, <1>9, <1>10 DEF IInv

LEMMA SweepStep ==
  ASSUME IInv, Sweep
  PROVE  IInv'
<1>1. /\ Coherent(row') /\ row'.dispo = "STALE" /\ row'.download = "skipped"
  BY MarkStaleCoherent DEF Sweep, IInv, RowInv
<1>2. TypeOK'
  BY <1>1 DEF IInv, TypeOK, Sweep, Coherent, disk, history, bounds
<1>3. UNCHANGED <<worker, temp, final, released>>
  BY DEF Sweep, disk, history
<1> QED
  BY <1>1, <1>2, <1>3
  DEF IInv, RowInv, ClaimInv, FileInv, DownloadInv, Streaming, At, Pending

LEMMA EditCallStep ==
  ASSUME IInv, EditCall(Reopen)
  PROVE  IInv'
<1>1. Reopen \in Patch
  BY DEF Reopen, Patch, Dispositions, Pending, Provisional
<1>2. /\ Coherent(row') /\ row'.dispo = "NEW" /\ row'.download = row.download
  <2>1. Coherent(row) /\ ValidPatch(row, Reopen) /\ row' = EditRow(row, Reopen)
    BY DEF EditCall, IInv, RowInv
  <2> QED BY <1>1, <2>1, EditRowCoherent DEF PatchedDispo, Reopen
<1>3. TypeOK'
  BY <1>2 DEF IInv, TypeOK, EditCall, Coherent, disk, history
<1>4. UNCHANGED <<path, worker, temp, final, released>>
  BY DEF EditCall, disk, history
<1> QED
  BY <1>2, <1>3, <1>4
  DEF IInv, RowInv, ClaimInv, FileInv, DownloadInv, Streaming, At, Pending, Provisional

----------------------------------------------------------------------------
LEMMA TaskStepStep ==
  ASSUME IInv, NEW w \in Workers, TaskStep(w)
  PROVE  IInv'
<1>1. ASSUME NEW m \in Message, ResolveStart(w, m) \/ FetchStart(w, m)
      PROVE  IInv'
  BY <1>1, TakeStep DEF ResolveStart, FetchStart, Pcs
<1> QED
  BY <1>1, GiveUpStep, NotFoundStep, FoundRecordingStep, ClaimStep, MarkStep,
     RefreshFirstStep, OpenTempStep, WriteTempStep, ReplaceTempStep, SaveStep,
     TryAgainStep, RecordFailureStep, AckStep DEF TaskStep

LEMMA NextIInv == IInv /\ [Next]_vars => IInv'
<1> SUFFICES ASSUME IInv, [Next]_vars PROVE IInv'
  OBVIOUS
<1>1. ASSUME NEW d \in FinalDispositions, FinalDisposition(d) PROVE IInv'
  BY <1>1, FinalDispositionStep
<1>2. CASE Sweep
  BY <1>2, SweepStep
<1>3. CASE EditCall(Reopen)
  BY <1>3, EditCallStep
<1>4. ASSUME NEW w \in Workers, TaskStep(w) \/ TimeLimit(w) \/ Crash(w) PROVE IInv'
  BY <1>4, TaskStepStep, TimeLimitStep, CrashStep
<1>5. CASE UNCHANGED vars
  BY <1>5 DEF vars, disk, history, bounds, IInv, TypeOK, RowInv, ClaimInv, FileInv,
              DownloadInv, Streaming, At
<1> QED
  BY <1>1, <1>2, <1>3, <1>4, <1>5 DEF Next

LEMMA AlwaysIInv == Spec => []IInv
BY InitIInv, NextIInv, PTL DEF Spec

(* Every variable keeps its type, whatever workers, callbacks, the sweep    *)
(* and the editor do in which order: the columns, the queue and the files.  *)
THEOREM TypeCorrect == Spec => []TypeOK
<1>1. IInv => TypeOK
  BY DEF IInv
<1> QED BY <1>1, AlwaysIInv, PTL

(* A call shown as downloaded has its path and a complete file, and two     *)
(* workers never write the file at once, for any number of workers, of      *)
(* duplicate messages and of deaths; unless a callback or a redelivered     *)
(* message took the row from the worker downloading it (tasks.py:464-520).  *)
THEOREM DownloadsComplete == Spec => []DownloadedIsComplete
<1>1. IInv => DownloadedIsComplete
  BY DEF IInv, ClaimInv, DownloadInv, DownloadedIsComplete
<1> QED BY <1>1, AlwaysIInv, PTL

(* One step takes a finished download back only with the outcome, or as a   *)
(* lookup that gives up: a worker that streams does so under a row that is  *)
(* not shown as downloaded, and the sweep and a callback that resets the    *)
(* recording change the outcome they find.                                  *)
LEMMA StepKeepsDownload ==
  ASSUME IInv, [Next]_vars, row.download = "downloaded", row'.download # "downloaded"
  PROVE  \/ row'.dispo # row.dispo \/ released
         \/ \E w \in Workers : worker[w].pc \in {"no_lead", "config", "absent"}
<1> SUFFICES ASSUME ~released PROVE
      \/ row'.dispo # row.dispo
      \/ \E w \in Workers : worker[w].pc \in {"no_lead", "config", "absent"}
  OBVIOUS
<1>1. \A w \in Workers : ~Streaming(w)
  BY DEF IInv, ClaimInv
<1>2. row \in Row /\ Coherent(row)
  BY DEF IInv, RowInv, Coherent
<1>3. ASSUME NEW d \in FinalDispositions, FinalDisposition(d) PROVE row'.dispo # row.dispo
  <2> DEFINE who == [name |-> "callback", team |-> "callback"]
  <2>1. who \in Who /\ row' = MergeFinal(row, d, who)
    BY <1>3 DEF Who, FinalDisposition
  <2>2. row'.dispo = d /\ (row'.download = IF WasPending(row) THEN "pending" ELSE row.download)
    BY <1>2, <2>1, MergeFinalCoherent
  <2>3. row.dispo \in Pending
    BY <2>2 DEF WasPending, IInv, RowInv
  <2> QED BY <2>2, <2>3, FinalDispositionsAssumption
<1>4. CASE Sweep
  <2>1. row'.dispo = "STALE"
    BY <1>2, <1>4, MarkStaleCoherent DEF Sweep
  <2> QED BY <1>4, <2>1 DEF Sweep, SweepSelects, Provisional
<1>5. ~EditCall(Reopen)
  BY <1>2 DEF EditCall, EditRow, Row
<1>6. ASSUME NEW w \in Workers, TaskStep(w)
      PROVE  worker[w].pc \in {"no_lead", "config", "absent"}
  <2>1. ASSUME NEW m \in Message, ResolveStart(w, m) \/ FetchStart(w, m) PROVE FALSE
    BY <2>1 DEF ResolveStart, FetchStart, Take
  <2>2. ~Claim(w)
    <3>1. row.download \notin Claimable(w)
      BY DEF Claimable
    <3> QED BY <3>1 DEF Claim
  <2>3. ~(Mark(w) \/ RefreshFirst(w) \/ OpenTemp(w) \/ WriteTemp(w) \/ ReplaceTemp(w)
          \/ Save(w) \/ TryAgain(w) \/ RecordFailure(w))
    BY <1>1 DEF Mark, RefreshFirst, OpenTemp, WriteTemp, ReplaceTemp, Save, TryAgain,
                RecordFailure, Streaming, At
  <2>4. ~FoundRecording(w) /\ ~Ack(w)
    BY <1>2 DEF FoundRecording, Ack, Row
  <2>5. GiveUp(w) \/ NotFound(w)
    BY <1>6, <2>1, <2>2, <2>3, <2>4 DEF TaskStep
  <2> QED BY <2>5 DEF GiveUp, NotFound, At
<1>7. ASSUME NEW w \in Workers PROVE ~TimeLimit(w) /\ ~Crash(w)
  BY DEF TimeLimit, Crash
<1>8. ~UNCHANGED vars
  BY DEF vars
<1> QED
  BY <1>3, <1>4, <1>5, <1>6, <1>7, <1>8 DEF Next

(* A finished download is taken back only together with the outcome, or by  *)
(* a lookup that began before it finished and gives up (tasks.py:328-460),  *)
(* however many workers and messages there are.                             *)
THEOREM DownloadStays == Spec => DownloadKept
<1>1. IInv /\ [Next]_vars =>
        [row.download = "downloaded" /\ row'.download # "downloaded"
           => \/ row'.dispo # row.dispo \/ released
              \/ \E w \in Workers : worker[w].pc \in {"no_lead", "config", "absent"}]_row
  BY StepKeepsDownload
<1> QED BY <1>1, AlwaysIInv, PTL DEF Spec, DownloadKept
=============================================================================
