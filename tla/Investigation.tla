---------------------------- MODULE Investigation ----------------------------
(***************************************************************************)
(* One question to the third engine of the AI assistant                    *)
(* (ai_assistant/investigation.py).  A contract fixes what the question    *)
(* asks; the language model then chooses, in bounded rounds, which tools   *)
(* are called with which scope, and may answer whatever it likes; at the   *)
(* end one finalizer decides what the user is shown.  What the model sends *)
(* and what a tool returns are choices; periods, metrics and wording, which*)
(* the contract fixes for every call of its primary tool, are left out.    *)
(***************************************************************************)
EXTENDS Naturals, FiniteSets

CONSTANTS Leaders, Dialers, Places, \* people, dialers, and projects or teams
          Nothing,
          Contracts,                \* what questions may ask, see ContractType
          MaxRounds, MaxCalls, MaxBatch, MaxActive, MaxSelected

\* The primary tool of a contract; the scope the question names, or that an earlier
\* turn left it; whether it speaks of "our project", of a dialer; whether its primary
\* result ends the investigation; whether it is a plain follow-up of a ranking.
ContractType ==
  [primary : {"ranking", "backlog", "overview", "library", Nothing},
   leader : Leaders \cup {Nothing}, dialer : Dialers \cup {Nothing}, place : Places \cup {Nothing},
   inherits : BOOLEAN, ours : BOOLEAN, ofDialer : BOOLEAN, direct : BOOLEAN, fast : BOOLEAN]

ASSUME InvestigationAssumption ==
  /\ Contracts \subseteq ContractType
  /\ Nothing \notin Leaders \cup Dialers \cup Places \cup {"ranking", "backlog", "overview", "library"}
  /\ MaxRounds \in Nat /\ MaxCalls \in Nat /\ MaxCalls > 2
  /\ MaxBatch \in Nat /\ MaxActive \in Nat /\ MaxSelected \in Nat

VARIABLES contract, stage, round,
          pending,    \* calls of the model's last message still to be made
          resolved,   \* the scope resolved for this question
          confirmed,  \* leaders and dialers the directories confirmed by exact name
          enabled,    \* tools the model may call
          outputs,    \* the queries that returned a result
          attempts,
          audits,     \* rows of AIToolAudit
          overtime,   \* MAX_SECONDS have passed
          refused,    \* the finalizer's own query was refused (history)
          reply

askVars == <<contract, stage, round, pending, resolved, confirmed, enabled, outputs,
             attempts, audits, overtime, refused, reply>>
dialogue == <<contract, round, enabled, overtime>>

\* Rankings, the leaders' backlog, the overview of QA, and the overview of the calls
\* received, reviewed or not (get_call_library_overview).
Figures == {"ranking", "backlog", "overview", "library"}
Tools == Figures \cup {"people", "dialers", "places"}

NoScope == [leader |-> Nothing, dialer |-> Nothing, place |-> Nothing]
NoReply == [status |-> "none", shown |-> Nothing, filters |-> NoScope]

ScopeKeys == {"leader", "dialer", "place"}

\* The scope parameters a tool has: only the backlog takes a team leader, and the
\* overview of the calls received takes neither team nor project.
Parameters(tool) ==
  CASE tool = "backlog" -> ScopeKeys
    [] tool = "library" -> {"dialer"}
    [] OTHER -> {"dialer", "place"}

\* A query has what is given for the parameters of its tool; the rest is dropped.
Query(tool, scoped, about) ==
  LET given(key) == IF key \in Parameters(tool) THEN scoped[key] ELSE Nothing
  IN [tool |-> tool, about |-> about,
      leader |-> given("leader"), dialer |-> given("dialer"), place |-> given("place")]
Discovery(tool, about) == Query(tool, NoScope, about)

AskInit ==
  /\ contract \in Contracts
  /\ stage = "asked" /\ round = 0 /\ pending = 0
  /\ resolved = IF contract.inherits THEN [NoScope EXCEPT !.dialer = contract.dialer] ELSE NoScope
  /\ confirmed = {} /\ enabled = {} /\ outputs = {} /\ attempts = 0 /\ audits = 0
  /\ overtime = FALSE /\ refused = FALSE /\ reply = NoReply

----------------------------------------------------------------------------
(* The contract's primary query.                                           *)

\* expected_primary: nothing until the person or the dialer it needs is resolved.
ExpectedIn(scoped) ==
  CASE contract.primary = Nothing -> Nothing
    [] contract.primary = "backlog" /\ contract.leader # Nothing /\ scoped.leader = Nothing -> Nothing
    [] contract.primary = "overview" /\ contract.ofDialer /\ scoped.dialer = Nothing -> Nothing
    [] OTHER -> Query(contract.primary,
                      IF contract.leader = Nothing THEN [scoped EXCEPT !.leader = Nothing] ELSE scoped,
                      Nothing)
Expected == ExpectedIn(resolved)

\* A narrowed secondary lookup is not proof of the answer: scope for scope.
Answered == Expected # Nothing /\ Expected \in outputs

Reply(status, shown) ==
  /\ stage' = "done" /\ pending' = 0
  /\ reply' = [status |-> status, shown |-> shown,
               filters |-> IF status = "complete" THEN resolved ELSE NoScope]

\* An exception that run_ai lets through: the view answers 4xx or 503 and saves nothing.
Abort == Reply("failed", Nothing)

\* record: the attempt and its audit row; a repeated query is replayed.
Attempted == attempts' = attempts + 1
Recorded(query) ==
  /\ Attempted /\ audits' = audits + 1 /\ outputs' = outputs \cup {query}
Unanswered ==
  /\ Attempted /\ audits' = audits + 1 /\ UNCHANGED outputs

----------------------------------------------------------------------------
(* The beginning.                                                          *)

\* The chooser's selection, the primary tool and the directory of people.
Enable(selected) ==
  enabled' = (selected \cup {contract.primary, "people"}
              \cup (IF contract.ofDialer THEN {"dialers", "overview"} ELSE {})) \ {Nothing}

\* A follow-up of a ranking asks no model; otherwise the chooser selects tools, answers
\* socially, or fails.  Without a tool and a primary, nothing is queried.
Begin ==
  /\ stage = "asked"
  /\ \/ \E selected \in SUBSET Tools :
          /\ contract.fast => selected = {}
          /\ Cardinality(selected) <= MaxSelected
          /\ selected # {} \/ contract.primary # Nothing
          /\ Enable(selected)
          /\ stage' = IF contract.ours THEN "project" ELSE IF contract.fast THEN "finalize" ELSE "round"
          /\ UNCHANGED <<pending, reply>>
     \/ contract.primary = Nothing /\ Reply("conversation", Nothing) /\ UNCHANGED enabled
     \/ ~contract.fast /\ Abort /\ UNCHANGED enabled
  /\ UNCHANGED <<contract, round, resolved, confirmed, outputs, attempts, audits, overtime, refused>>

\* "our project": the one project there is, or a question back.
OurProject ==
  /\ stage = "project"
  /\ \/ /\ ~overtime /\ Recorded(Discovery("places", Nothing))
        /\ \/ /\ resolved' = [resolved EXCEPT !.place = contract.place]
              /\ stage' = IF contract.fast THEN "finalize" ELSE "round"
              /\ UNCHANGED <<pending, reply>>
           \/ Reply("clarification", Nothing) /\ UNCHANGED resolved
     \/ ~overtime /\ Unanswered /\ Abort /\ UNCHANGED resolved
     \/ overtime /\ Abort /\ UNCHANGED <<resolved, attempts, audits, outputs>>
  /\ UNCHANGED <<dialogue, confirmed, refused>>

----------------------------------------------------------------------------
(* The rounds.                                                             *)

\* Mutant: the rounds may spend every attempt.
BudgetAll == ~overtime /\ attempts < MaxCalls

\* Two attempts are kept back for the finalizer.
Budget == ~overtime /\ attempts < MaxCalls - 2

\* The model is asked, unless a budget is used up (the request's size is a choice).  It
\* answers with text, with calls, or not at all; calls after the primary result, or
\* more than MaxBatch at once, are not made.
Round ==
  /\ stage = "round"
  /\ \/ stage' = "finalize" /\ UNCHANGED <<round, pending, reply>>
     \/ /\ Budget /\ round < MaxRounds
        /\ \/ ~(outputs # {} /\ contract.primary # Nothing) /\ Abort /\ UNCHANGED round
           \/ /\ ~(contract.direct /\ Answered)
              /\ \E calls \in 1..MaxBatch : pending' = calls
              /\ stage' = "calls" /\ round' = round + 1 /\ UNCHANGED reply
  /\ UNCHANGED <<contract, resolved, confirmed, enabled, outputs, attempts, audits, overtime, refused>>

\* What the model reads may use up its context; else the next call, or the next round.
Continue ==
  /\ \/ stage' = "finalize" /\ pending' = 0
     \/ stage' = (IF pending = 1 THEN "round" ELSE "calls") /\ pending' = pending - 1
  /\ UNCHANGED reply

\* One call more of the model's message.
Turn == stage = "calls" /\ Budget

OutOfBudget ==
  /\ stage = "calls" /\ ~Budget /\ stage' = "finalize" /\ pending' = 0
  /\ UNCHANGED <<dialogue, resolved, confirmed, outputs, attempts, audits, refused, reply>>

\* A request for more tools, a tool that is not enabled, or arguments of the wrong form:
\* an attempt without a query.
NoQuery ==
  /\ Turn /\ Attempted /\ Continue
  /\ \/ UNCHANGED enabled
     \/ \E names \in SUBSET Tools :
          /\ Cardinality(names) \in 1..3 /\ Cardinality(enabled \cup names) <= MaxActive
          /\ enabled' = enabled \cup names
  /\ UNCHANGED <<contract, round, overtime, resolved, confirmed, outputs, audits, refused>>

\* A tool that refuses (its own check, a permission, the database, the size of its
\* result): the attempt is audited; a refusal is told to the model, the rest fails.
ToolFails(query, then) == query \notin outputs /\ Unanswered /\ (then \/ Abort)

\* A search by name in a directory: an exact match is confirmed, and resolves the scope
\* when the question has the name (update_entities); an ambiguous or approximate match,
\* or nobody of the question's name, is asked back (Clarify).  A replay finds the same.
Search(query, who, found, then) ==
  /\ Recorded(query)
  /\ \/ /\ confirmed' \in (IF query \in outputs THEN {confirmed} ELSE {confirmed, confirmed \cup {who}})
        /\ resolved' = IF who \in confirmed' THEN found ELSE resolved
        /\ then
     \/ /\ query \notin outputs /\ Reply("clarification", Nothing)
        /\ UNCHANGED <<confirmed, resolved>>

\* lookup_visible_people and list_visible_dialers, whose search the model chooses.
SearchPeople(who, then) ==
  Search(Discovery("people", who), who,
         IF who = contract.leader THEN [resolved EXCEPT !.leader = who] ELSE resolved, then)
SearchDialers(which, then) ==
  Search(Discovery("dialers", which), which,
         IF which = contract.dialer /\ ~contract.inherits
         THEN [resolved EXCEPT !.dialer = which] ELSE resolved, then)

AskPeople ==
  /\ Turn /\ "people" \in enabled
  /\ \E who \in Leaders :
       \/ SearchPeople(who, Continue)
       \/ ToolFails(Discovery("people", who), Continue) /\ UNCHANGED <<confirmed, resolved>>
  /\ UNCHANGED <<dialogue, refused>>

AskDialers ==
  /\ Turn /\ "dialers" \in enabled
  /\ \E which \in Dialers :
       \/ SearchDialers(which, Continue)
       \/ ToolFails(Discovery("dialers", which), Continue) /\ UNCHANGED <<confirmed, resolved>>
  /\ UNCHANGED <<dialogue, refused>>

\* Teams, branches and projects: the one the question names is resolved.
AskPlaces ==
  /\ Turn /\ "places" \in enabled
  /\ \/ /\ Recorded(Discovery("places", Nothing)) /\ Continue
        /\ resolved' \in {resolved, [resolved EXCEPT !.place = contract.place]}
     \/ ToolFails(Discovery("places", Nothing), Continue) /\ UNCHANGED resolved
  /\ UNCHANGED <<dialogue, confirmed, refused>>

\* args_for_call: a scope the model asks for is adopted when it is resolved already, named
\* in the question, or confirmed by a directory, key after key; a key that is not refuses
\* the call, and what the keys before it resolved stays.
PlaceFits(wanted) == wanted.place \in {Nothing, resolved.place, contract.place}

\* Mutant: a dialer need not be confirmed.
DialerFitsAny(wanted) == PlaceFits(wanted)

DialerFits(wanted) == PlaceFits(wanted) /\ wanted.dialer \in {Nothing, resolved.dialer} \cup confirmed
LeaderFits(wanted) ==
  /\ DialerFits(wanted)
  /\ \/ wanted.leader \in {Nothing, resolved.leader}
     \/ contract.leader # Nothing /\ wanted.leader \in confirmed
Adopted(wanted) ==
  LET take(key, fits) == IF fits /\ wanted[key] # Nothing THEN wanted[key] ELSE resolved[key]
  IN [place |-> take("place", PlaceFits(wanted)), dialer |-> take("dialer", DialerFits(wanted)),
      leader |-> take("leader", LeaderFits(wanted))]

\* An analytic tool, with parameters it has (NoQuery has the others).  The primary tool
\* is called with the whole scope resolved, whatever the model sent; others with what
\* it sent.
AskFigures ==
  /\ Turn
  /\ \E tool \in Figures \cap enabled, who \in Leaders \cup {Nothing},
        which \in Dialers \cup {Nothing}, where \in Places \cup {Nothing} :
       LET wanted == [leader |-> who, dialer |-> which, place |-> where]
           query == IF tool = contract.primary THEN ExpectedIn(Adopted(wanted))
                    ELSE Query(tool, wanted, Nothing)
       IN /\ \A key \in ScopeKeys \ Parameters(tool) : wanted[key] = Nothing
          /\ resolved' = Adopted(wanted)
          /\ \/ LeaderFits(wanted) /\ query # Nothing /\ Recorded(query) /\ Continue
             \/ LeaderFits(wanted) /\ query # Nothing /\ ToolFails(query, Continue)
             \/ Attempted /\ Continue /\ UNCHANGED <<audits, outputs>>
  /\ UNCHANGED <<dialogue, confirmed, refused>>

----------------------------------------------------------------------------
(* The finalizer.                                                          *)

\* The result of the query expected now, when there is one.
ShowPrimary ==
  /\ stage \in {"finalize", "query"} /\ Answered /\ Reply("complete", Expected)
  /\ UNCHANGED <<dialogue, resolved, confirmed, outputs, attempts, audits, refused>>

\* Without a primary tool, the model's text over whatever was retrieved.
ShowNarrative ==
  /\ stage = "finalize" /\ contract.primary = Nothing
  /\ Reply(IF outputs = {} THEN "incomplete" ELSE "complete", Nothing)
  /\ UNCHANGED <<dialogue, resolved, confirmed, outputs, attempts, audits, refused>>

Affordable == ~overtime /\ attempts < MaxCalls
Refuse == Reply("incomplete", Nothing) /\ refused' = TRUE

\* The person of the question is looked up by the finalizer itself.
LacksLeader == contract.primary = "backlog" /\ contract.leader # Nothing /\ resolved.leader = Nothing

FindLeader ==
  /\ stage = "finalize" /\ ~Answered /\ Affordable /\ LacksLeader
  /\ \/ SearchPeople(contract.leader, stage' = "query" /\ UNCHANGED <<pending, reply>>) /\ UNCHANGED refused
     \/ /\ Discovery("people", contract.leader) \notin outputs
        /\ Unanswered /\ Refuse /\ UNCHANGED <<confirmed, resolved>>
  /\ UNCHANGED dialogue

\* The primary query, with the scope resolved by now.
QueryPrimary ==
  /\ stage = "query" \/ (stage = "finalize" /\ ~LacksLeader)
  /\ ~Answered /\ Affordable /\ Expected # Nothing
  /\ \/ Recorded(Expected) /\ Reply("complete", Expected) /\ UNCHANGED refused
     \/ Unanswered /\ (Refuse \/ (Abort /\ UNCHANGED refused))
  /\ UNCHANGED <<dialogue, resolved, confirmed>>

GiveUp ==
  /\ contract.primary # Nothing /\ ~Answered
  /\ \/ stage = "finalize" /\ ~Affordable
     \/ stage = "finalize" /\ Expected = Nothing /\ ~LacksLeader
     \/ stage = "query" /\ (~Affordable \/ Expected = Nothing)
  /\ Reply("incomplete", Nothing)
  /\ UNCHANGED <<dialogue, resolved, confirmed, outputs, attempts, audits, refused>>

TimePasses ==
  /\ stage # "done" /\ ~overtime /\ overtime' = TRUE
  /\ UNCHANGED <<contract, stage, round, pending, resolved, confirmed, enabled, outputs,
                 attempts, audits, refused, reply>>

AskNext ==
  \/ Begin \/ OurProject \/ Round \/ OutOfBudget \/ NoQuery
  \/ AskPeople \/ AskDialers \/ AskPlaces \/ AskFigures
  \/ ShowPrimary \/ ShowNarrative \/ FindLeader \/ QueryPrimary \/ GiveUp
  \/ TimePasses

AskSpec == AskInit /\ [][AskNext]_askVars

----------------------------------------------------------------------------
(* Properties.                                                             *)

\* An answer called complete shows a result of the primary tool that was retrieved, and
\* its scope is nobody's invention: a leader or dialer in it was confirmed by a directory
\* under its exact name or inherited from the turn before, a place is the question's, and
\* a question about a person is about one.  What the next turn inherits is what the answer
\* covers, whenever a name was resolved, as far as the tool has the parameter: the calls
\* received are counted over all projects also when the question, and the scope that is
\* kept, names one (investigation.py:527, :625-641, :661, :703).
AnswerFitsContract ==
  reply.status = "complete" /\ contract.primary # Nothing =>
    LET shown == reply.shown IN
    /\ shown \in outputs /\ shown.tool = contract.primary
    /\ shown.leader \in {Nothing} \cup confirmed
    /\ shown.dialer \in {Nothing} \cup confirmed
                        \cup (IF contract.inherits THEN {contract.dialer} ELSE {})
    /\ shown.place \in {Nothing, contract.place}
    /\ contract.primary = "backlog" => (shown.leader # Nothing <=> contract.leader # Nothing)
    /\ \A key \in Parameters(contract.primary) \ {"leader"} : reply.filters[key] = shown[key]
    /\ contract.leader # Nothing /\ "leader" \in Parameters(contract.primary) =>
         reply.filters.leader = shown.leader

\* However the model spends its rounds, what the question needs is still tried: an
\* answer is left incomplete only when time ran out, the tool refused, or the person
\* or dialer of the question could not be resolved, and never because the attempts were
\* spent (investigation.py:450 "We reserve tool attempts for a primary query"); the
\* attempts stay within their limit, and every query is one audited attempt.
PrimaryIsTried ==
  /\ attempts <= MaxCalls /\ Cardinality(outputs) <= audits /\ audits <= attempts
  /\ reply.status = "incomplete" =>
       \/ contract.primary = Nothing /\ outputs = {}
       \/ contract.primary # Nothing /\ (overtime \/ refused \/ Expected = Nothing)

\* Violated: a complete answer covers what the question asked, no less
\* (investigation.py:648 "Reject unasked narrowing rather than silently presenting it
\* as all."): its scope was named in the question or inherited.
NoUnaskedNarrowing ==
  reply.status = "complete" /\ contract.primary # Nothing =>
    /\ reply.shown.leader \in {Nothing, contract.leader}
    /\ reply.shown.dialer \in {Nothing, contract.dialer}
    /\ reply.shown.place \in {Nothing, contract.place}
=============================================================================
