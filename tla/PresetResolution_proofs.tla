---------------------- MODULE PresetResolution_proofs ----------------------
(***************************************************************************)
(* The preset of a SALE call, proved for any number of workers, retries,   *)
(* callbacks, edits and deaths.  The preset a lookup stores is kept apart  *)
(* from the one an editor typed because the row holds a preset exactly as  *)
(* long as somebody has written one (WrittenInv).  A warning that is open  *)
(* over a complete row is about to be resolved: Resolving names, among the *)
(* things still under way, those that will do it.                          *)
(***************************************************************************)
EXTENDS PresetResolution, CallEvent_proofs

WorkerState == [pc : {"idle", "lookup", "store", "refresh", "resolve", "notify", "ack"},
                retries : 0 .. MaxRetries]

WrittenInv == Coherent(row) /\ (presetBy = "none" <=> "preset" \notin row.biz)

\* Somebody will resolve a warning over a row that is complete: the hook of an edit, a
\* message, as it is read when its task begins, or a worker on its way to do so.
Resolving ==
  \/ hooks > 0
  \/ \E r \in 0 .. MaxRetries : messages[r] > 0
  \/ \E w \in Workers : AtPc(w, "resolve") \/ (AtPc(w, "refresh") /\ row.dispo = "SALE")

NoticeInv == notice = "open" /\ ~Missing(row) => Resolving \/ excused \/ lost

IInv == TypeOK /\ WrittenInv /\ NoticeInv

----------------------------------------------------------------------------
LEMMA IdleTyped == Idle \in WorkerState
BY PresetAssumption DEF Idle, WorkerState

LEMMA InitIInv == Init => IInv
<1> SUFFICES ASSUME Init PROVE IInv
  OBVIOUS
<1>1. Coherent(row) /\ row.biz = {}
  BY CreateRowCoherent DEF Init, Who
<1>2. TypeOK
  BY <1>1, IdleTyped DEF Init, TypeOK, Coherent, WorkerState
<1>3. WrittenInv
  BY <1>1 DEF Init, WrittenInv
<1>4. NoticeInv
  BY DEF Init, NoticeInv
<1> QED
  BY <1>2, <1>3, <1>4 DEF IInv

(* A worker that moves leaves the others where they are.                    *)
LEMMA WorkerMoves ==
  ASSUME TypeOK, NEW w \in Workers, NEW new \in WorkerState,
         worker' = [worker EXCEPT ![w] = new]
  PROVE  /\ worker' \in [Workers -> WorkerState] /\ worker'[w] = new
         /\ \A v \in Workers \ {w} : worker'[v] = worker[v]
BY DEF TypeOK, WorkerState

LEMMA GotoMoves ==
  ASSUME TypeOK, NEW w \in Workers,
         NEW pc \in {"idle", "lookup", "store", "refresh", "resolve", "notify", "ack"},
         Goto(w, pc)
  PROVE  /\ worker' \in [Workers -> WorkerState] /\ worker'[w].pc = pc
         /\ \A v \in Workers \ {w} : worker'[v] = worker[v]
<1> DEFINE new == [worker[w] EXCEPT !.pc = pc]
<1>1. new \in WorkerState /\ new.pc = pc
  BY DEF WorkerState, TypeOK
<1>2. worker' = [worker EXCEPT ![w] = new]
  BY DEF Goto, TypeOK
<1> QED
  BY <1>1, <1>2, WorkerMoves

LEMMA EnqueueTyped ==
  ASSUME TypeOK, NEW r \in 0 .. MaxRetries, Enqueue(r)
  PROVE  messages' \in [0 .. MaxRetries -> Nat] /\ messages'[r] > 0
BY DEF TypeOK, Enqueue

LEMMA RetriesTyped ==
  ASSUME TypeOK, NEW w \in Workers
  PROVE  worker[w].retries \in 0 .. MaxRetries /\ MaxRetries \in Nat
BY PresetAssumption DEF TypeOK

(* A publication leaves a message behind, or a note that it was lost.       *)
LEMMA PublishTyped ==
  ASSUME TypeOK, NEW wanted, PublishLookup(wanted)
  PROVE  /\ messages' \in [0 .. MaxRetries -> Nat] /\ lost' \in BOOLEAN
         /\ lost => lost'
         /\ \A r \in 0 .. MaxRetries : messages[r] > 0 => messages'[r] > 0
<1>1. 0 \in 0 .. MaxRetries
  BY PresetAssumption
<1>2. Enqueue(0) => /\ messages' \in [0 .. MaxRetries -> Nat]
                    /\ \A r \in 0 .. MaxRetries : messages[r] > 0 => messages'[r] > 0
  BY <1>1 DEF TypeOK, Enqueue
<1>3. messages \in [0 .. MaxRetries -> Nat] /\ lost \in BOOLEAN
  BY DEF TypeOK
<1>4. \/ Enqueue(0) /\ lost' = lost
      \/ lost' = TRUE /\ messages' = messages
      \/ messages' = messages /\ lost' = lost
  BY DEF PublishLookup
<1> QED
  BY <1>2, <1>3, <1>4

----------------------------------------------------------------------------
(* A disposition callback leaves a complete row complete, unless it moves   *)
(* the call out of SALE, which excuses the warning: a call that becomes a   *)
(* SALE has no preset yet.                                                  *)
LEMMA FinalDispositionStep ==
  ASSUME IInv, NEW d \in FinalDispositions, FinalDisposition(d)
  PROVE  IInv'
<1> DEFINE who == [name |-> "callback", team |-> "callback"]
<1>1. /\ Coherent(row') /\ row'.dispo = d
      /\ row'.biz = IF d = "SALE" THEN row.biz ELSE {}
  <2>1. who \in Who /\ Coherent(row) /\ row' = MergeFinal(row, d, who)
    BY DEF Who, IInv, WrittenInv, FinalDisposition, NoteRow
  <2> QED BY <2>1, MergeFinalCoherent
<1>2. /\ messages' \in [0 .. MaxRetries -> Nat] /\ lost' \in BOOLEAN
      /\ lost => lost'
      /\ \A r \in 0 .. MaxRetries : messages[r] > 0 => messages'[r] > 0
  BY PublishTyped DEF FinalDisposition, IInv
<1>3. UNCHANGED <<notice, worker, hooks, edits, crashes>>
  BY DEF FinalDisposition
<1>4. /\ told' \in BOOLEAN /\ excused' \in BOOLEAN
      /\ presetBy' = IF d = "SALE" THEN presetBy ELSE "none"
      /\ excused' = (excused \/ (row.dispo = "SALE" /\ d # "SALE"))
      /\ callbacks' \in Nat
  BY DEF FinalDisposition, NoteRow, IInv, TypeOK
<1>5. TypeOK'
  BY <1>1, <1>2, <1>3, <1>4 DEF IInv, TypeOK, Coherent
<1>6. WrittenInv'
  BY <1>1, <1>4 DEF IInv, WrittenInv
<1>7. NoticeInv'
  <2> SUFFICES ASSUME notice' = "open", ~Missing(row'), ~excused', ~lost' PROVE Resolving'
    BY DEF NoticeInv, Missing
  <2>1. ~lost /\ ~excused /\ notice = "open"
    BY <1>2, <1>3, <1>4, <1>5 DEF TypeOK, IInv
  <2>2. row.dispo = "SALE" => d = "SALE"
    BY <1>4
  <2>3. row.dispo # "SALE" => d # "SALE"
    BY <1>1 DEF Missing, IInv, WrittenInv, Coherent, SaleOnlyFlags
  <2>4. ~Missing(row)
    BY <1>1, <2>2, <2>3 DEF Missing
  <2>5. Resolving
    BY <2>1, <2>4 DEF IInv, NoticeInv
  <2> QED BY <1>1, <1>2, <1>3, <2>2, <2>5 DEF Resolving, AtPc
<1> QED BY <1>5, <1>6, <1>7 DEF IInv

(* An edit that leaves the row complete runs the hook, or loses it.         *)
LEMMA EditCallStep ==
  ASSUME IInv, NEW p \in EditorPatches, EditCall(p)
  PROVE  IInv'
<1> DEFINE new == EditRow(row, p)
<1>1. p \in Patch /\ ValidPatch(row, p) /\ Coherent(row)
  BY PresetAssumption DEF EditCall, IInv, WrittenInv
<1>2. Coherent(new) /\ row' = new
  <2>1. Coherent(new)
    BY <1>1, EditRowCoherent
  <2> QED BY <2>1 DEF EditCall, NoteRow
<1>3. \/ EditResolves(new) /\ hooks' = hooks + 1 /\ UNCHANGED <<lost, messages>>
      \/ EditResolves(new) /\ lost' = TRUE /\ UNCHANGED <<hooks, messages>>
      \/ ~EditResolves(new) /\ PublishLookup(EditPublishes(row, new) # <<>>) /\ UNCHANGED hooks
  BY DEF EditCall
<1>4. /\ messages' \in [0 .. MaxRetries -> Nat] /\ lost' \in BOOLEAN /\ hooks' \in Nat
  <2>1. /\ messages \in [0 .. MaxRetries -> Nat] /\ lost \in BOOLEAN
        /\ hooks \in Nat /\ hooks + 1 \in Nat
    BY DEF IInv, TypeOK
  <2>2. ASSUME NEW wanted, PublishLookup(wanted)
        PROVE  messages' \in [0 .. MaxRetries -> Nat] /\ lost' \in BOOLEAN
    BY <2>2, PublishTyped DEF IInv
  <2> QED BY <1>3, <2>1, <2>2
<1>5. UNCHANGED <<notice, worker, excused, callbacks, crashes>> /\ edits' = edits + 1
  BY DEF EditCall
<1>6. told' \in BOOLEAN
  BY DEF EditCall, NoteRow, IInv, TypeOK
<1>7. presetBy' = IF "preset" \in p.on /\ "preset" \in new.biz THEN "editor"
                  ELSE IF "preset" \in new.biz THEN presetBy ELSE "none"
  BY DEF EditCall
<1>8. "preset" \in new.biz => "preset" \in p.on \/ "preset" \in row.biz
  <2>1. new.biz = IF PatchedDispo(row, p) = "SALE" THEN Implied((row.biz \cup p.on) \ p.off) ELSE {}
    BY <1>1, EditRowCoherent
  <2>2. new.biz \subseteq row.biz \cup p.on \cup {"client_20_plus", "client_30_plus"}
    BY <2>1 DEF Implied
  <2> QED BY <2>2
<1> HIDE DEF new
<1>9. WrittenInv'
  BY <1>2, <1>7, <1>8 DEF IInv, WrittenInv
<1>10. TypeOK'
  BY <1>2, <1>4, <1>5, <1>6, <1>7 DEF IInv, TypeOK, Coherent
<1>11. NoticeInv'
  <2> SUFFICES ASSUME ~Missing(row'), ~lost' PROVE hooks' > 0
    BY DEF NoticeInv, Resolving
  <2>1. EditResolves(new)
    BY <1>2 DEF Missing, EditResolves
  <2>2. hooks' = hooks + 1
    BY <1>3, <2>1
  <2>3. hooks \in Nat
    BY DEF IInv, TypeOK
  <2> QED BY <2>2, <2>3
<1> QED BY <1>9, <1>10, <1>11 DEF IInv

----------------------------------------------------------------------------
(* Whoever resolves the warning closes it.                                  *)
LEMMA Resolves ==
  ASSUME TypeOK, ResolveMissingPreset
  PROVE  notice' \in {"none", "resolved"}
BY DEF TypeOK, ResolveMissingPreset

LEMMA EditorHookStep ==
  ASSUME IInv, EditorHook
  PROVE  IInv'
<1>1. notice' \in {"none", "resolved"}
  BY Resolves DEF EditorHook, IInv
<1>2. TypeOK'
  BY <1>1 DEF EditorHook, IInv, TypeOK, history, bounds
<1> QED
  BY <1>1, <1>2 DEF EditorHook, IInv, WrittenInv, NoticeInv, history

(* A message that is taken while the row is complete leads to a worker that *)
(* resolves.                                                                *)
LEMMA BeginStep ==
  ASSUME IInv, NEW w \in Workers, NEW r \in 0 .. MaxRetries, Begin(w, r)
  PROVE  IInv'
<1> DEFINE new == [pc |-> IF Missing(row) THEN "lookup" ELSE "resolve", retries |-> r]
<1>1. /\ worker' \in [Workers -> WorkerState] /\ worker'[w] = new
  <2>1. new \in WorkerState
    BY DEF WorkerState
  <2>2. worker' = [worker EXCEPT ![w] = new] /\ TypeOK
    BY DEF Begin, IInv
  <2> HIDE DEF new
  <2> QED BY <2>1, <2>2, WorkerMoves
<1>2. messages' \in [0 .. MaxRetries -> Nat]
  BY DEF Begin, IInv, TypeOK
<1>3. TypeOK'
  BY <1>1, <1>2 DEF Begin, IInv, TypeOK, WorkerState, history, bounds
<1>4. NoticeInv'
  BY <1>1 DEF Begin, NoticeInv, Resolving, AtPc
<1> QED
  BY <1>3, <1>4 DEF Begin, IInv, WrittenInv, history

LEMMA LookupStep ==
  ASSUME IInv, NEW w \in Workers, Lookup(w)
  PROVE  IInv'
<1>1. worker[w].pc = "lookup"
  BY DEF Lookup, AtPc
<1>2. /\ worker' \in [Workers -> WorkerState]
      /\ \A v \in Workers \ {w} : worker'[v] = worker[v]
  BY GotoMoves DEF Lookup, IInv
<1>3. /\ messages' \in [0 .. MaxRetries -> Nat]
      /\ \A r \in 0 .. MaxRetries : messages[r] > 0 => messages'[r] > 0
  <2>1. CASE messages' = messages
    BY <2>1 DEF IInv, TypeOK
  <2>2. CASE worker[w].retries < MaxRetries /\ Enqueue(worker[w].retries + 1)
    <3>1. worker[w].retries + 1 \in 0 .. MaxRetries
      BY <2>2, RetriesTyped DEF IInv
    <3> QED BY <2>2, <3>1 DEF Enqueue, IInv, TypeOK
  <2>3. worker[w].retries < MaxRetries \/ worker[w].retries >= MaxRetries
    BY RetriesTyped DEF IInv
  <2> QED BY <2>1, <2>2, <2>3, RetriesTyped DEF Lookup, IInv
<1>4. TypeOK'
  BY <1>2, <1>3 DEF Lookup, IInv, TypeOK, WorkerState, history, bounds
<1>5. NoticeInv'
  BY <1>1, <1>2, <1>3 DEF Lookup, IInv, NoticeInv, Resolving, AtPc, history
<1> QED
  BY <1>4, <1>5 DEF Lookup, IInv, WrittenInv, history

(* The preset is stored on a SALE call without one, and the worker that     *)
(* stored it goes on to resolve.                                            *)
LEMMA StoreStep ==
  ASSUME IInv, NEW w \in Workers, Store(w)
  PROVE  IInv'
<1>1. worker[w].pc = "store"
  BY DEF Store, AtPc
<1>2. /\ worker' \in [Workers -> WorkerState] /\ worker'[w].pc = "refresh"
      /\ \A v \in Workers \ {w} : worker'[v] = worker[v]
  BY GotoMoves DEF Store, IInv
<1>3. CASE Missing(row)
  <2>1. /\ row' = [row EXCEPT !.biz = @ \cup {"preset"}] /\ presetBy' = "lookup"
        /\ row.dispo = "SALE"
    BY <1>3 DEF Store, Missing
  <2>2. Coherent(row') /\ row'.dispo = "SALE" /\ "preset" \in row'.biz
    BY <2>1 DEF IInv, WrittenInv, Coherent, Row, Flags, SaleOnlyFlags, ThirtyImplies20
  <2>3. TypeOK'
    BY <1>2, <2>1, <2>2 DEF Store, IInv, TypeOK, Coherent, WorkerState, bounds
  <2>4. NoticeInv'
    BY <1>2, <2>2 DEF NoticeInv, Resolving, AtPc
  <2> QED BY <2>1, <2>2, <2>3, <2>4 DEF IInv, WrittenInv
<1>4. CASE ~Missing(row)
  <2>1. UNCHANGED <<row, presetBy>>
    BY <1>4 DEF Store
  <2>2. TypeOK'
    BY <1>2, <2>1 DEF Store, IInv, TypeOK, WorkerState, bounds
  <2>3. NoticeInv'
    BY <1>1, <1>2, <2>1 DEF Store, IInv, NoticeInv, Resolving, AtPc
  <2> QED BY <2>1, <2>2, <2>3 DEF IInv, WrittenInv
<1> QED BY <1>3, <1>4

LEMMA RefreshStep ==
  ASSUME IInv, NEW w \in Workers, Refresh(w)
  PROVE  IInv'
<1>1. worker[w].pc = "refresh"
  BY DEF Refresh, AtPc
<1>2. /\ worker' \in [Workers -> WorkerState]
      /\ worker'[w].pc = IF row.dispo = "SALE" /\ "preset" \in row.biz THEN "resolve" ELSE "ack"
      /\ \A v \in Workers \ {w} : worker'[v] = worker[v]
  BY GotoMoves DEF Refresh, IInv
<1>3. TypeOK'
  BY <1>2 DEF Refresh, IInv, TypeOK, WorkerState, history, bounds
<1>4. NoticeInv'
  BY <1>1, <1>2 DEF Refresh, IInv, NoticeInv, Resolving, AtPc, Missing, history
<1> QED
  BY <1>3, <1>4 DEF Refresh, IInv, WrittenInv, history

LEMMA ResolveStep ==
  ASSUME IInv, NEW w \in Workers, Resolve(w)
  PROVE  IInv'
<1>1. notice' \in {"none", "resolved"}
  BY Resolves DEF Resolve, IInv
<1>2. worker' \in [Workers -> WorkerState]
  BY GotoMoves DEF Resolve, IInv
<1>3. TypeOK'
  BY <1>1, <1>2 DEF Resolve, IInv, TypeOK, WorkerState, history, bounds
<1> QED
  BY <1>1, <1>3 DEF Resolve, IInv, WrittenInv, NoticeInv, history

LEMMA NotifyStep ==
  ASSUME IInv, NEW w \in Workers, Notify(w)
  PROVE  IInv'
<1>1. worker' \in [Workers -> WorkerState]
  BY GotoMoves DEF Notify, IInv
<1>2. TypeOK'
  BY <1>1 DEF Notify, IInv, TypeOK, WorkerState, bounds
<1> QED
  BY <1>2 DEF Notify, IInv, WrittenInv, NoticeInv

LEMMA AckStep ==
  ASSUME IInv, NEW w \in Workers, Ack(w)
  PROVE  IInv'
<1>1. worker[w].pc = "ack"
  BY DEF Ack, AtPc
<1>2. /\ worker' \in [Workers -> WorkerState] /\ worker'[w] = Idle
      /\ \A v \in Workers \ {w} : worker'[v] = worker[v]
  BY IdleTyped, WorkerMoves DEF Ack, IInv
<1>3. TypeOK'
  BY <1>2 DEF Ack, IInv, TypeOK, WorkerState, history, bounds
<1>4. NoticeInv'
  BY <1>1, <1>2 DEF Ack, IInv, NoticeInv, Resolving, AtPc, history
<1> QED
  BY <1>3, <1>4 DEF Ack, IInv, WrittenInv, history

(* A dead worker's message comes back and will be read anew; a time limit   *)
(* is noted.                                                                *)
LEMMA CrashStep ==
  ASSUME IInv, NEW w \in Workers, Crash(w)
  PROVE  IInv'
<1>1. worker' \in [Workers -> WorkerState]
  BY IdleTyped, WorkerMoves DEF Crash, IInv
<1>2. messages' \in [0 .. MaxRetries -> Nat] /\ messages'[worker[w].retries] > 0
  BY EnqueueTyped, RetriesTyped DEF Crash, IInv
<1>3. TypeOK'
  BY <1>1, <1>2 DEF Crash, IInv, TypeOK, WorkerState, history
<1>4. NoticeInv'
  BY <1>2, RetriesTyped DEF NoticeInv, Resolving, IInv
<1> QED
  BY <1>3, <1>4 DEF Crash, IInv, WrittenInv, history

LEMMA TimeLimitStep ==
  ASSUME IInv, NEW w \in Workers, TimeLimit(w)
  PROVE  IInv'
<1>1. worker' \in [Workers -> WorkerState]
  BY IdleTyped, WorkerMoves DEF TimeLimit, IInv
<1>2. TypeOK'
  BY <1>1 DEF TimeLimit, IInv, TypeOK, WorkerState
<1> QED
  BY <1>2 DEF TimeLimit, IInv, WrittenInv, NoticeInv

----------------------------------------------------------------------------
LEMMA NextIInv == IInv /\ [Next]_vars => IInv'
<1> SUFFICES ASSUME IInv, [Next]_vars PROVE IInv'
  OBVIOUS
<1>1. ASSUME NEW d \in FinalDispositions, FinalDisposition(d) PROVE IInv'
  BY <1>1, FinalDispositionStep
<1>2. ASSUME NEW p \in EditorPatches, EditCall(p) PROVE IInv'
  BY <1>2, EditCallStep
<1>3. CASE EditorHook
  BY <1>3, EditorHookStep
<1>4. ASSUME NEW w \in Workers, TaskStep(w) PROVE IInv'
  BY <1>4, BeginStep, LookupStep, StoreStep, RefreshStep, ResolveStep, NotifyStep, AckStep
  DEF TaskStep
<1>5. ASSUME NEW w \in Workers, Crash(w) \/ TimeLimit(w) PROVE IInv'
  BY <1>5, CrashStep, TimeLimitStep
<1>6. CASE UNCHANGED vars
  BY <1>6 DEF vars, history, bounds, IInv, TypeOK, WrittenInv, NoticeInv, Resolving, AtPc
<1> QED
  BY <1>1, <1>2, <1>3, <1>4, <1>5, <1>6 DEF Next

LEMMA AlwaysIInv == Spec => []IInv
BY InitIInv, NextIInv, PTL DEF Spec

(* Every variable keeps its type.                                           *)
THEOREM TypeCorrect == Spec => []TypeOK
<1>1. IInv => TypeOK
  BY DEF IInv
<1> QED BY <1>1, AlwaysIInv, PTL

(* A warning that stays open once everything is quiet is about a SALE call  *)
(* without a preset, for any number of workers, retries, callbacks, edits   *)
(* and deaths; unless a writer that does not resolve it left it behind, or  *)
(* a publication was lost (tasks.py:78-165, webhooks.py:393).               *)
THEOREM OpenNoticesFit == Spec => []OpenNoticeHasReason
<1>1. IInv => OpenNoticeHasReason
  BY DEF IInv, NoticeInv, OpenNoticeHasReason, Resolving, Working, AtPc
<1> QED BY <1>1, AlwaysIInv, PTL

(* A lookup that answers late neither replaces the preset that an editor    *)
(* typed while it was waiting, nor leaves one on a call that is no SALE     *)
(* (tasks.py:125-128): the row has a preset while an editor's stands.       *)
THEOREM LateLookups == Spec => LateLookupHarmless
<1>1. ASSUME IInv, [Next]_vars
      PROVE  (presetBy = "editor" => presetBy' # "lookup") /\ SaleOnlyFlags(row')
  <2>1. SaleOnlyFlags(row')
    BY <1>1, NextIInv DEF IInv, WrittenInv, Coherent
  <2>2. SUFFICES ASSUME presetBy = "editor", presetBy' = "lookup" PROVE FALSE
    BY <2>1
  <2>3. ~Missing(row)
    BY <1>1, <2>2 DEF IInv, WrittenInv, Missing
  <2>4. ASSUME NEW w \in Workers PROVE ~Store(w)
    BY <2>2, <2>3 DEF Store
  <2>5. ASSUME NEW w \in Workers PROVE ~TaskStep(w) /\ ~Crash(w) /\ ~TimeLimit(w)
    BY <2>2, <2>4 DEF TaskStep, Begin, Lookup, Refresh, Resolve, Notify, Ack, Crash,
                      TimeLimit, history
  <2>6. ASSUME NEW d \in FinalDispositions PROVE ~FinalDisposition(d)
    BY <2>2 DEF FinalDisposition
  <2>7. ASSUME NEW p \in EditorPatches PROVE ~EditCall(p)
    BY <2>2 DEF EditCall
  <2>8. ~EditorHook /\ ~UNCHANGED vars
    BY <2>2 DEF EditorHook, history, vars
  <2> QED BY <1>1, <2>5, <2>6, <2>7, <2>8 DEF Next
<1>2. IInv /\ [Next]_vars =>
        [(presetBy = "editor" => presetBy' # "lookup") /\ SaleOnlyFlags(row')]_<<row, presetBy>>
  BY <1>1
<1> QED BY <1>2, AlwaysIInv, PTL DEF Spec, LateLookupHarmless
=============================================================================
