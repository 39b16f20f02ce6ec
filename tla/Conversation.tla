---------------------------- MODULE Conversation ----------------------------
(***************************************************************************)
(* One user's turns in the AI assistant (ai_assistant/views.py).  A turn   *)
(* opens a conversation, reads its history, takes a lock in Redis that     *)
(* expires after 300 seconds, asks the model without any lock of the       *)
(* database, checks that the user's reporting scope did not change, and    *)
(* saves question and answer.  Every step is one access to the database or *)
(* to the cache, and other turns, an administrator, the expiry and the     *)
(* retention command come between.                                         *)
(***************************************************************************)
EXTENDS Naturals, FiniteSets

CONSTANTS Turns,         \* requests to the chat endpoint, and their lock tokens
          Conversations, \* conversations that can exist
          Scopes,        \* the fingerprints scope_digest gives the user
          Revoked,       \* require_ai_access refuses the user
          NoConversation, Unlocked,
          MaxScopeChanges, MaxExpiries, MaxKills

ASSUME ConversationAssumption ==
  /\ Revoked \notin Scopes /\ Scopes # {}
  /\ NoConversation \notin Conversations /\ Unlocked \notin Turns
  /\ MaxScopeChanges \in Nat /\ MaxExpiries \in Nat /\ MaxKills \in Nat

VARIABLES scope,     \* the fingerprint of the user now, or Revoked
          talk,      \* ai_conversation: scope_digest and the turns saved, or none
          lock,      \* the cache entry of each conversation
          turn,      \* each request: where it is, and what it has read
          outdated,  \* conversations whose lock expired under its holder (history)
          drifted,   \* turns opened in one scope and begun in another, or whose
                     \* scope changed and changed back before it was checked (history)
          late,      \* turns that waited for the lock, with their history read,
                     \* while another turn was saved (history)
          changes, expiries, kills \* bound counters

chatVars == <<scope, talk, lock, turn, outdated, drifted, late, changes, expiries, kills>>
counters == <<changes, expiries, kills>>

Missing == [there |-> FALSE, scope |-> Revoked, turns |-> {}]
Waiting == [pc |-> "new", on |-> NoConversation, locked |-> FALSE,
            scope |-> Revoked, history |-> {}, data |-> {}]

\* One conversation of the user's is there from the days before.
ChatInit ==
  /\ scope \in Scopes
  /\ \E c \in Conversations :
       talk = [d \in Conversations |->
                 IF d = c THEN [there |-> TRUE, scope |-> scope, turns |-> {}] ELSE Missing]
  /\ lock = [c \in Conversations |-> Unlocked]
  /\ turn = [t \in Turns |-> Waiting]
  /\ outdated = {} /\ drifted = {} /\ late = {}
  /\ changes = 0 /\ expiries = 0 /\ kills = 0

Goto(t, pc) == turn' = [turn EXCEPT ![t].pc = pc]
Step(t, from, to) == turn[t].pc = from /\ Goto(t, to)

----------------------------------------------------------------------------
(* The request.                                                            *)

\* _get_conversation: the user's, of the scope he has now.
Found(c) == talk[c].there /\ talk[c].scope = scope

\* Permission, then the conversation the request names, or none.
Open(t) ==
  /\ turn[t].pc = "new" /\ scope # Revoked
  /\ \/ \E c \in Conversations :
          Found(c) /\ turn' = [turn EXCEPT ![t] = [@ EXCEPT !.pc = "read", !.on = c]]
     \/ Goto(t, "snapshot")
  /\ UNCHANGED <<scope, talk, lock, outdated, drifted, late, counters>>

ReadHistory(t) ==
  /\ turn[t].pc = "read"
  /\ turn' = [turn EXCEPT ![t] = [@ EXCEPT !.pc = "lock",
                                           !.history = talk[turn[t].on].turns]]
  /\ UNCHANGED <<scope, talk, lock, outdated, drifted, late, counters>>

\* Mutant: get and set in place of the atomic ADD, as if the key were free.
AcquireAnyway(t) ==
  /\ turn[t].pc = "lock"
  /\ lock' = [lock EXCEPT ![turn[t].on] = t]
  /\ turn' = [turn EXCEPT ![t] = [@ EXCEPT !.pc = "snapshot", !.locked = TRUE]]
  /\ UNCHANGED <<scope, talk, outdated, drifted, late, counters>>

\* cache.add: ConversationBusy when the key is there.
Acquire(t) ==
  /\ turn[t].pc = "lock"
  /\ \/ /\ lock[turn[t].on] = Unlocked
        /\ lock' = [lock EXCEPT ![turn[t].on] = t]
        /\ turn' = [turn EXCEPT ![t] = [@ EXCEPT !.pc = "snapshot", !.locked = TRUE]]
     \/ /\ lock[turn[t].on] # Unlocked
        /\ lock' = lock /\ Goto(t, "done")
  /\ UNCHANGED <<scope, talk, outdated, drifted, late, counters>>

\* request_scope.  The user refused here leaves before the try: the lock stays.
Snapshot(t) ==
  /\ turn[t].pc = "snapshot"
  /\ \/ scope = Revoked /\ Goto(t, "done")
     \/ /\ scope # Revoked
        /\ turn' = [turn EXCEPT ![t] = [@ EXCEPT !.pc = "asking",
                                                 !.scope = scope, !.data = {scope}]]
  /\ UNCHANGED <<scope, talk, lock, outdated, drifted, late, counters>>

\* The model answers, or it fails.
Infer(t) ==
  /\ Step(t, "asking", "check") \/ Step(t, "asking", "release")
  /\ UNCHANGED <<scope, talk, lock, outdated, drifted, late, counters>>

\* Mutant: the answer is not checked against the present scope.
CheckNothing(t) ==
  /\ Step(t, "check", IF turn[t].on = NoConversation THEN "create" ELSE "save")
  /\ UNCHANGED <<scope, talk, lock, outdated, drifted, late, counters>>

CheckScope(t) ==
  /\ Step(t, "check", IF scope # turn[t].scope THEN "release"
                      ELSE IF turn[t].on = NoConversation THEN "create" ELSE "save")
  /\ UNCHANGED <<scope, talk, lock, outdated, drifted, late, counters>>

\* A turn without a conversation starts one, which no lock protects.
CreateConversation(t) ==
  /\ turn[t].pc = "create"
  /\ \E c \in Conversations :
       /\ talk[c] = Missing
       /\ talk' = [talk EXCEPT ![c] = [there |-> TRUE, scope |-> turn[t].scope, turns |-> {}]]
       /\ turn' = [turn EXCEPT ![t] = [@ EXCEPT !.pc = "save", !.on = c]]
  /\ UNCHANGED <<scope, lock, outdated, drifted, late, counters>>

\* Both messages and the context in one transaction; when the conversation was
\* deleted meanwhile, the foreign key refuses them.
SaveTurn(t) ==
  /\ Step(t, "save", "release")
  /\ talk' = IF talk[turn[t].on].there
             THEN [talk EXCEPT ![turn[t].on].turns = @ \cup {t}] ELSE talk
  /\ late' = late \cup {u \in Turns : turn[u].pc = "lock" /\ turn[u].on = turn[t].on}
  /\ UNCHANGED <<scope, lock, outdated, drifted, counters>>

\* The token is compared first, and the key deleted in a second access.
ReleaseGet(t) ==
  /\ Step(t, "release", IF turn[t].locked /\ lock[turn[t].on] = t THEN "unlock" ELSE "done")
  /\ UNCHANGED <<scope, talk, lock, outdated, drifted, late, counters>>

ReleaseDelete(t) ==
  /\ Step(t, "unlock", "done")
  /\ lock' = [lock EXCEPT ![turn[t].on] = Unlocked]
  /\ UNCHANGED <<scope, talk, outdated, drifted, late, counters>>

Request(t) ==
  \/ Open(t) \/ ReadHistory(t) \/ Acquire(t) \/ Snapshot(t) \/ Infer(t) \/ CheckScope(t)
  \/ CreateConversation(t) \/ SaveTurn(t) \/ ReleaseGet(t) \/ ReleaseDelete(t)

----------------------------------------------------------------------------
(* The world around it.                                                    *)

\* A turn that holds the lock and has not finished.
Protected(t) == turn[t].locked /\ turn[t].pc # "done"

\* 300 seconds pass since the key was added.
Expire(c) ==
  /\ lock[c] # Unlocked /\ expiries < MaxExpiries
  /\ lock' = [lock EXCEPT ![c] = Unlocked]
  /\ outdated' = IF Protected(lock[c]) THEN outdated \cup {c} ELSE outdated
  /\ expiries' = expiries + 1
  /\ UNCHANGED <<scope, talk, turn, drifted, late, changes, kills>>

\* The process that serves a turn dies, and its finally never runs.
Kill(t) ==
  /\ turn[t].pc \notin {"new", "done"} /\ kills < MaxKills
  /\ Goto(t, "done") /\ kills' = kills + 1
  /\ UNCHANGED <<scope, talk, lock, outdated, drifted, late, changes, expiries>>

\* An administrator changes the user's role, projects or teams, or refuses him.
\* Each tool the model calls reads data under the scope of that moment.
ScopeChanges ==
  /\ changes < MaxScopeChanges /\ changes' = changes + 1
  /\ \E s \in (Scopes \cup {Revoked}) \ {scope} :
       /\ scope' = s
       /\ drifted' = drifted \cup {t \in Turns :
                                     \/ turn[t].pc \in {"read", "lock", "snapshot"}
                                     \/ turn[t].pc \in {"asking", "check"} /\ turn[t].scope = s}
       /\ turn' = [t \in Turns |->
                     IF turn[t].pc = "asking" /\ s # Revoked
                     THEN [turn[t] EXCEPT !.data = @ \cup {s}] ELSE turn[t]]
  /\ UNCHANGED <<talk, lock, outdated, late, expiries, kills>>

Remove(c) == talk' = [talk EXCEPT ![c] = [@ EXCEPT !.there = FALSE, !.turns = {}]]

\* The user deletes a conversation, which asks for no lock.
DeleteConversation(c) ==
  /\ scope # Revoked /\ Found(c) /\ Remove(c)
  /\ UNCHANGED <<scope, lock, turn, outdated, drifted, late, counters>>

\* The retention command deletes one nobody updated for days, of whatever scope.
PruneConversation(c) ==
  /\ talk[c].there /\ Remove(c)
  /\ UNCHANGED <<scope, lock, turn, outdated, drifted, late, counters>>

ChatNext ==
  \/ \E t \in Turns : Request(t) \/ Kill(t)
  \/ \E c \in Conversations : Expire(c) \/ DeleteConversation(c) \/ PruneConversation(c)
  \/ ScopeChanges

ChatSpec == ChatInit /\ [][ChatNext]_chatVars

----------------------------------------------------------------------------
(* Properties.                                                             *)

\* Every variable has its type (the columns of ai_conversation, the cache entry
\* of views.py:113-115, the locals of the handler).
ChatTypeOK ==
  /\ scope \in Scopes \cup {Revoked}
  /\ talk \in [Conversations -> [there : BOOLEAN, scope : Scopes \cup {Revoked},
                                 turns : SUBSET Turns]]
  /\ lock \in [Conversations -> Turns \cup {Unlocked}]
  /\ turn \in [Turns -> [pc : {"new", "read", "lock", "snapshot", "asking", "check",
                               "create", "save", "release", "unlock", "done"},
                         on : Conversations \cup {NoConversation}, locked : BOOLEAN,
                         scope : Scopes \cup {Revoked}, history : SUBSET Turns,
                         data : SUBSET Scopes]]
  /\ outdated \in SUBSET Conversations /\ drifted \in SUBSET Turns /\ late \in SUBSET Turns
  /\ changes \in 0..MaxScopeChanges /\ expiries \in 0..MaxExpiries /\ kills \in 0..MaxKills

\* Two turns never stand together between taking the lock of a conversation and
\* the end of its release (views.py:111, :149: "another turn must not acquire this
\* conversation before its predecessor saves"), deaths and refusals included; the
\* exception is a lock whose 300 seconds ended under its holder (views.py:115),
\* whose release may then delete the lock of the next turn (views.py:151-152).
TurnsExclusive ==
  \A t, u \in Turns :
    t # u /\ Protected(t) /\ Protected(u) /\ turn[t].on = turn[u].on => turn[t].on \in outdated

\* Turns do not overlap, and a turn that answers in a conversation has read every
\* turn saved in it: none is saved between its reading and its answer (views.py:111
\* "Do not allow two concurrent requests to the same conversation to interleave
\* turns"), save in three cases of the code: a turn saved while this one had read the history and
\* not yet asked for the lock (views.py:109-115), the first turn of a conversation,
\* which holds no lock (views.py:131-135), and a lock that ended under its holder.
HistoryIsWhole ==
  /\ TurnsExclusive
  /\ \A t \in Turns \ late : Protected(t) /\ turn[t].on \notin outdated =>
       \A u \in talk[turn[t].on].turns \ {t} : turn[u].locked => u \in turn[t].history

\* An answer that is kept was computed from data of one scope only, that of the
\* conversation that shows it (views.py:125-130), whatever an administrator did
\* while the model ran; the exceptions are a scope changed after the conversation
\* was found and before the fingerprint of line 117, and one that changed and
\* changed back before it was compared.
AnswersUnderOneScope ==
  \A c \in Conversations : talk[c].there =>
    \A t \in talk[c].turns \ drifted : turn[t].data = {talk[c].scope}
=============================================================================
