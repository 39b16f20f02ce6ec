----------------------------- MODULE CallPromise -----------------------------
(***************************************************************************)
(* What the rest of the portal relies on when it reads a call, whatever    *)
(* order VICIdial's callbacks, the sweep and the editor come in: a call is *)
(* awaited until it is decided, may be abandoned meanwhile, and is decided *)
(* once; from then on its outcome may be corrected but never taken back,   *)
(* and its recording pipeline is started in the step that decides it or,   *)
(* when that process dies, not at all.  A Project Manager who decides an   *)
(* awaited call himself, or reopens a decided one, takes it out of this    *)
(* promise.  CallLifecycle implements it.                                  *)
(***************************************************************************)
EXTENDS Naturals

CONSTANTS Calls, Outcomes, Undecided

VARIABLES stage,   \* where each call is
          outcome, \* its outcome once it is decided
          started  \* how often its recording pipeline was started

promiseVars == <<stage, outcome, started>>

PromiseInit ==
  /\ stage = [c \in Calls |-> "unheard"]
  /\ outcome = [c \in Calls |-> Undecided]
  /\ started = [c \in Calls |-> 0]

Hear(c) ==
  /\ stage[c] = "unheard"
  /\ stage' = [stage EXCEPT ![c] = "awaited"]
  /\ UNCHANGED <<outcome, started>>

Abandon(calls) ==
  /\ \A c \in calls : stage[c] = "awaited"
  /\ stage' = [c \in Calls |-> IF c \in calls THEN "abandoned" ELSE stage[c]]
  /\ UNCHANGED <<outcome, started>>

Decide(c, o) ==
  /\ stage[c] \in {"unheard", "awaited", "abandoned"}
  /\ stage' = [stage EXCEPT ![c] = "decided"]
  /\ outcome' = [outcome EXCEPT ![c] = o]
  /\ \E n \in {0, 1} : started' = [started EXCEPT ![c] = n]

Correct(c, o) ==
  /\ stage[c] = "decided"
  /\ outcome' = [outcome EXCEPT ![c] = o]
  /\ UNCHANGED <<stage, started>>

TakeOver(c) ==
  /\ stage[c] \in {"awaited", "decided"}
  /\ stage' = [stage EXCEPT ![c] = "taken over"]
  /\ outcome' = [outcome EXCEPT ![c] = Undecided]
  /\ started' = [started EXCEPT ![c] = 0]

PromiseNext ==
  \/ \E c \in Calls : Hear(c) \/ TakeOver(c)
  \/ \E calls \in SUBSET Calls : Abandon(calls)
  \/ \E c \in Calls, o \in Outcomes : Decide(c, o) \/ Correct(c, o)

PromiseSpec == PromiseInit /\ [][PromiseNext]_promiseVars
=============================================================================
