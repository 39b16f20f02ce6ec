--------------------------- MODULE Arrival_proofs ---------------------------
(***************************************************************************)
(* What a callback finds when it arrives, the row of its call and its      *)
(* agent's team; the list of calls and the dialog of its filters; the      *)
(* playback of a recording; and what is read out of a dialer's reports:    *)
(* proved for any number of calls, requests, saves and downloads, and for  *)
(* any report and change of the clock.                                     *)
(*                                                                         *)
(* CallMatching: the key of a row names for ever the call it was made for. *)
(* KeyInv says of every row, and of every copy a request holds, whose      *)
(* identifiers it has: those of the calls it took callbacks of, and these  *)
(* are one call until a disposition that only the lead tells of is merged. *)
(* That no second row of a call comes into being is InsertInv: whoever is  *)
(* about to insert does it under the key of the row, or the call has       *)
(* rivals, which RivalInv follows, or was mistaken for another.            *)
(*                                                                         *)
(* TeamAssignment: WaitingIsRight relates the rows to the table of teams   *)
(* and to the notifications.  It is inductive with what the callbacks and  *)
(* the administrator between their two steps remember of both.             *)
(***************************************************************************)
EXTENDS CallMatching, TeamAssignment, CallLibrary, DialerReports, FiniteSetTheorems, WellFoundedInduction, TLAPS

----------------------------------------------------------------------------
(* TeamAssignment.                                                         *)

\* A call and the callbacks about it name the prefix of one agent, or none.
PrefixInv ==
  /\ \A c \in AgentCalls : agentCall[c] # NoTeam =>
       agentCall[c].prefix \in {AgentPrefix[c], NoTeam}
  /\ \A q \in Callbacks : heard[q] # NoTeam =>
       heard[q].prefix \in {AgentPrefix[heard[q].call], NoTeam}
  /\ \A q \in Callbacks : At(q, "merge") =>
       heard[q].seen.prefix \in {AgentPrefix[heard[q].call], NoTeam}

\* What a callback has looked up is what it would find now, unless a team was saved since.
HeardInv ==
  \A q \in Callbacks : heard[q] # NoTeam /\ heard[q].call \notin overtaken =>
    heard[q].team = IF heard[q].prefix = NoTeam THEN NoTeam ELSE Resolve(team, heard[q].prefix)

\* A row whose team is the one its prefix names now.
Named(row) == row # NoTeam =>
  row.team = IF row.prefix = NoTeam THEN NoTeam ELSE Resolve(team, row.prefix)

\* A request that found no row sees one, and has a copy, of what callbacks looked up since,
\* unless a team was saved.
SeenInv ==
  \A q \in Callbacks : heard[q] # NoTeam =>
    /\ heard[q].at # "looked" /\ heard[q].call \notin overtaken =>
         Named(agentCall[heard[q].call]) /\ Named(heard[q].seen)
    /\ heard[q].at = "looked" => heard[q].seen = NoTeam
    /\ heard[q].at = "merge" => heard[q].seen # NoTeam /\ agentCall[heard[q].call] # NoTeam

\* Between its two statements a save has the prefixes it claims, and its calls wait.
AdminInv ==
  admin # NoTeam =>
    /\ admin.as.state \in {"active", "inactive"} /\ admin.as.leader \in Leaders
    /\ admin.claims = Claims(admin.team, admin.as.leader, admin.as.state)
    /\ \A c \in admin.assigned : Waiting(agentCall[c]) /\ agentCall[c].prefix \in admin.claims
    /\ \A c \in AgentCalls \ overtaken :
         Waiting(agentCall[c]) /\ agentCall[c].prefix \in admin.claims => c \in admin.assigned

TeamIInv == TeamTypeOK /\ PrefixInv /\ HeardInv /\ SeenInv /\ AdminInv /\ WaitingIsRight

Looked == [call : AgentCalls, kind : {"start", "final"}, prefix : Prefixes \cup {NoTeam},
           team : Teams \cup {NoTeam}, at : {"looked", "insert", "merge"},
           seen : CallRow \cup {NoTeam}]
Saving == [team : Teams, as : Team, claims : SUBSET Prefixes, assigned : SUBSET AgentCalls]

LEMMA NoTeamApart == NoTeam \notin Teams \cup Prefixes \cup Leaders \cup CallRow
BY TeamAssumption DEF Prefixes

LEMMA TypesNamed ==
  TeamTypeOK <=>
    /\ team \in [Teams -> Team]
    /\ agentCall \in [AgentCalls -> CallRow \cup {NoTeam}]
    /\ heard \in [Callbacks -> {NoTeam} \cup Looked]
    /\ admin \in {NoTeam} \cup Saving
    /\ notice \in [Prefixes -> {"none", "open", "resolved"}]
    /\ heardCount \in Nat /\ saves \in Nat
    /\ merged \in SUBSET AgentCalls /\ overtaken \in SUBSET AgentCalls
    /\ unheard \in SUBSET Prefixes
BY DEF TeamTypeOK, Looked, Saving

(* resolve_team_prefix answers with the team of that name, or with the one  *)
(* active team of that leader.                                              *)
LEMMA ResolveAnswers ==
  ASSUME NEW tbl \in [Teams -> Team], NEW p \in Prefixes
  PROVE  /\ Resolve(tbl, p) \in Teams \cup {NoTeam}
         /\ p \in Teams /\ tbl[p].state = "active" => Resolve(tbl, p) = p
         /\ Resolve(tbl, p) \in Teams /\ Resolve(tbl, p) # p =>
              /\ tbl[Resolve(tbl, p)].state = "active" /\ tbl[Resolve(tbl, p)].leader = p
              /\ \A u \in Teams \ {Resolve(tbl, p)} :
                   ~(tbl[u].state = "active" /\ tbl[u].leader = p)
<1> DEFINE active == {t \in Teams : tbl[t].state = "active"}
           named  == {t \in active : t = p}
           led    == {t \in active : tbl[t].leader = p}
<1>1. Resolve(tbl, p) = IF named # {} THEN CHOOSE t \in named : TRUE
                        ELSE IF Cardinality(led) = 1 THEN CHOOSE t \in led : TRUE ELSE NoTeam
  BY DEF Resolve
<1>2. CASE named # {}
  <2>1. p \in Teams /\ (CHOOSE t \in named : TRUE) = p
    BY <1>2
  <2> QED BY <1>1, <1>2, <2>1
<1>3. CASE named = {} /\ Cardinality(led) = 1
  <2>1. IsFiniteSet(led)
    BY TeamAssumption, FS_Subset
  <2>2. PICK t : led = {t}
    BY <1>3, <2>1, FS_Singleton
  <2>3. Resolve(tbl, p) = t
    BY <1>1, <1>3, <2>2
  <2> QED BY <1>3, <2>2, <2>3
<1>4. CASE named = {} /\ Cardinality(led) # 1
  BY <1>1, <1>4, NoTeamApart
<1> QED BY <1>2, <1>3, <1>4

(* A prefix that comes to name the team being saved is one of those that    *)
(* _assign_waiting_calls looks for.                                         *)
LEMMA ClaimsCover ==
  ASSUME team \in [Teams -> Team], NEW t \in Teams, NEW l \in Leaders,
         NEW state \in {"active", "inactive"}, NEW p \in Prefixes,
         Resolve([team EXCEPT ![t] = [state |-> state, leader |-> l]], p) = t
  PROVE  p \in Claims(t, l, state)
<1> DEFINE tbl == [team EXCEPT ![t] = [state |-> state, leader |-> l]]
<1>1. tbl \in [Teams -> Team] /\ tbl[t].state = state /\ tbl[t].leader = l
  BY DEF Team
<1>2. \A u \in Teams \ {t} : tbl[u] = team[u]
  OBVIOUS
<1>3. ASSUME p # t PROVE p = l /\ state = "active" /\ Unambiguous(t, l)
  <2> HIDE DEF tbl
  <2>1. Resolve(tbl, p) = t
    BY DEF tbl
  <2>2. /\ tbl[t].state = "active" /\ tbl[t].leader = p
        /\ \A u \in Teams \ {t} : ~(tbl[u].state = "active" /\ tbl[u].leader = p)
    BY <1>1, <1>3, <2>1, ResolveAnswers
  <2> QED BY <1>1, <1>2, <2>2 DEF Unambiguous, Active
<1> QED BY <1>3 DEF Claims

LEMMA TeamInitIInv == TeamInit => TeamIInv
<1> SUFFICES ASSUME TeamInit PROVE TeamIInv
  OBVIOUS
<1>1. TeamTypeOK
  BY DEF TeamInit, TypesNamed, TeamTypeOK, Team
<1>2. PrefixInv /\ HeardInv /\ SeenInv /\ AdminInv
  BY DEF TeamInit, PrefixInv, HeardInv, SeenInv, AdminInv, At
<1>3. WaitingIsRight
  BY DEF TeamInit, WaitingIsRight, WaitingIsReported, ResolvableIsAssigned, WarningIsCurrent, Waiting
<1> QED BY <1>1, <1>2, <1>3 DEF TeamIInv

(* A callback that looks the team up remembers what it found.               *)
LEMMA LookUpTeamStep ==
  ASSUME TeamIInv, NEW q \in Callbacks, NEW c \in AgentCalls, NEW kind \in {"start", "final"},
         NEW prefix \in Prefixes \cup {NoTeam}, LookUpTeam(q, c, kind, prefix)
  PROVE  TeamIInv'
<1> DEFINE answer == IF prefix = NoTeam THEN NoTeam ELSE Resolve(team, prefix)
           looked == [call |-> c, kind |-> kind, prefix |-> prefix, at |-> "looked",
                      seen |-> NoTeam, team |-> answer]
<1>1. /\ heard' = [heard EXCEPT ![q] = looked] /\ heardCount' = heardCount + 1
      /\ prefix \in {AgentPrefix[c], NoTeam}
      /\ UNCHANGED <<team, agentCall, admin, notice, saves, merged, overtaken, unheard>>
  BY DEF LookUpTeam, history
<1>2. answer \in Teams \cup {NoTeam} /\ looked \in Looked
  BY ResolveAnswers DEF TeamIInv, TeamTypeOK, Looked
<1> HIDE DEF answer
<1>3. TeamTypeOK'
  BY <1>1, <1>2, TypesNamed DEF TeamIInv, TypesNamed, Looked, TeamTypeOK
<1>4. /\ heard' \in [Callbacks -> {NoTeam} \cup Looked] /\ heard'[q] = looked
      /\ \A p \in Callbacks \ {q} : heard'[p] = heard[p]
  BY <1>1, <1>2, TypesNamed DEF TeamIInv
<1>5. PrefixInv'
  BY <1>1, <1>4 DEF TeamIInv, PrefixInv, At
<1>6. HeardInv' /\ SeenInv'
  BY <1>1, <1>4 DEF TeamIInv, HeardInv, SeenInv, Named, answer
<1>7. AdminInv'
  BY <1>1 DEF TeamIInv, AdminInv, Claims, Unambiguous, Active, Waiting
<1>8. WaitingIsRight'
  BY <1>1 DEF TeamIInv, WaitingIsRight, WaitingIsReported, ResolvableIsAssigned,
              WarningIsCurrent, Waiting
<1> QED BY <1>3, <1>5, <1>6, <1>7, <1>8 DEF TeamIInv

(* What every request that answers leaves alone.                            *)
LEMMA AnswerFrame ==
  ASSUME TeamIInv, NEW q \in Callbacks, heard[q] # NoTeam, Answer(q)
  PROVE  /\ heard[q] \in Looked /\ heard[q].prefix \in {AgentPrefix[heard[q].call], NoTeam}
         /\ heard' \in [Callbacks -> {NoTeam} \cup Looked]
         /\ \A p \in Callbacks : heard'[p] # NoTeam => heard'[p] = heard[p]
         /\ overtaken' \in SUBSET AgentCalls /\ overtaken \subseteq overtaken'
         /\ admin # NoTeam => heard[q].call \in overtaken'
         /\ heard[q].call \notin overtaken => heard[q].team =
              IF heard[q].prefix = NoTeam THEN NoTeam ELSE Resolve(team, heard[q].prefix)
         /\ HeardInv'
         /\ UNCHANGED <<team, admin, heardCount, saves, unheard>>
<1>1. /\ heard \in [Callbacks -> {NoTeam} \cup Looked] /\ overtaken \in SUBSET AgentCalls
      /\ heard[q] # NoTeam /\ heard' = [heard EXCEPT ![q] = NoTeam]
      /\ overtaken' = IF admin # NoTeam THEN overtaken \cup {heard[q].call} ELSE overtaken
      /\ UNCHANGED <<team, admin, heardCount, saves, unheard>>
  BY TypesNamed DEF TeamIInv, Answer
<1>2. heard[q] \in Looked /\ heard[q].call \in AgentCalls
  BY <1>1 DEF Looked
<1>3. \A p \in Callbacks : heard'[p] = IF p = q THEN NoTeam ELSE heard[p]
  BY <1>1
<1>4. HeardInv'
  BY <1>1, <1>3 DEF TeamIInv, HeardInv
<1>5. heard[q].prefix \in {AgentPrefix[heard[q].call], NoTeam}
  BY <1>1 DEF TeamIInv, PrefixInv
<1>6. heard[q].call \notin overtaken => heard[q].team =
              IF heard[q].prefix = NoTeam THEN NoTeam ELSE Resolve(team, heard[q].prefix)
  BY <1>1 DEF TeamIInv, HeardInv
<1> QED BY <1>1, <1>2, <1>3, <1>4, <1>5, <1>6

(* What a request that wrote the row of its call leaves of the copies: a    *)
(* row that fits, unless a team is being saved.                             *)
LEMMA CopiesKept ==
  ASSUME TeamIInv, NEW q \in Callbacks, heard[q] # NoTeam, Answer(q), NEW new \in CallRow,
         agentCall' = [agentCall EXCEPT ![heard[q].call] = new],
         heard[q].call \notin overtaken /\ Named(agentCall[heard[q].call]) => Named(new)
  PROVE  SeenInv' /\ (new.prefix \in {AgentPrefix[heard[q].call], NoTeam} => PrefixInv')
<1> DEFINE d == heard[q].call
<1>1. /\ d \in AgentCalls /\ overtaken \subseteq overtaken' /\ team' = team
      /\ \A p \in Callbacks : heard'[p] # NoTeam => heard'[p] = heard[p]
  BY AnswerFrame DEF Looked
<1>2. /\ agentCall'[d] = new
      /\ \A c \in AgentCalls \ {d} : agentCall'[c] = agentCall[c]
      /\ new # NoTeam
  BY <1>1, TypesNamed, NoTeamApart DEF TeamIInv, CallRow
<1>3. SeenInv'
  <2> SUFFICES ASSUME NEW p \in Callbacks, heard'[p] # NoTeam
               PROVE  /\ heard[p].at # "looked" /\ heard[p].call \notin overtaken' =>
                           Named(agentCall'[heard[p].call]) /\ Named(heard[p].seen)
                      /\ heard[p].at = "looked" => heard[p].seen = NoTeam
                      /\ heard[p].at = "merge" =>
                           heard[p].seen # NoTeam /\ agentCall'[heard[p].call] # NoTeam
    BY <1>1 DEF SeenInv, Named
  <2>1. heard[p] = heard'[p] /\ heard[p] \in Looked /\ heard[p].call \in AgentCalls
    BY <1>1, TypesNamed DEF TeamIInv, Looked
  <2>2. /\ heard[p].at # "looked" /\ heard[p].call \notin overtaken =>
             Named(agentCall[heard[p].call]) /\ Named(heard[p].seen)
        /\ heard[p].at = "looked" => heard[p].seen = NoTeam
        /\ heard[p].at = "merge" => heard[p].seen # NoTeam /\ agentCall[heard[p].call] # NoTeam
    BY <2>1 DEF TeamIInv, SeenInv
  <2>3. CASE heard[p].call = d
    BY <1>1, <1>2, <2>2, <2>3
  <2>4. CASE heard[p].call # d
    BY <1>1, <1>2, <2>1, <2>2, <2>4
  <2> QED BY <2>3, <2>4
<1>4. ASSUME new.prefix \in {AgentPrefix[d], NoTeam} PROVE PrefixInv'
  <2>1. \A c \in AgentCalls : agentCall'[c] # NoTeam =>
          agentCall'[c].prefix \in {AgentPrefix[c], NoTeam}
    BY <1>2, <1>4 DEF TeamIInv, PrefixInv
  <2>2. \A p \in Callbacks : heard'[p] # NoTeam =>
          /\ heard'[p].prefix \in {AgentPrefix[heard'[p].call], NoTeam}
          /\ heard'[p].at = "merge" =>
               heard'[p].seen.prefix \in {AgentPrefix[heard'[p].call], NoTeam}
    BY <1>1 DEF TeamIInv, PrefixInv, At
  <2> QED BY <2>1, <2>2 DEF PrefixInv, At
<1> QED BY <1>3, <1>4

(* A new row that waits is reported.                                        *)
LEMMA CreateStep ==
  ASSUME TeamIInv, NEW q \in Callbacks, Create(q)
  PROVE  TeamIInv'
<1> DEFINE r == heard[q]  new == [prefix |-> r.prefix, team |-> r.team]
<1>1. /\ r \in Looked /\ r.prefix \in {AgentPrefix[r.call], NoTeam}
      /\ heard' \in [Callbacks -> {NoTeam} \cup Looked]
      /\ overtaken' \in SUBSET AgentCalls /\ overtaken \subseteq overtaken'
      /\ admin # NoTeam => r.call \in overtaken'
      /\ r.call \notin overtaken =>
           r.team = IF r.prefix = NoTeam THEN NoTeam ELSE Resolve(team, r.prefix)
      /\ HeardInv'
      /\ UNCHANGED <<team, admin, heardCount, saves, unheard>>
  BY AnswerFrame DEF Create, At
<1>2. /\ agentCall[r.call] = NoTeam /\ agentCall' = [agentCall EXCEPT ![r.call] = new]
      /\ notice' = IF UnknownTeam(r) THEN [notice EXCEPT ![r.prefix] = "open"] ELSE notice
      /\ merged' = merged
  BY DEF Create, Queue
<1>3. /\ r.call \in AgentCalls /\ new \in CallRow /\ r.prefix \in Prefixes \cup {NoTeam}
      /\ new.prefix = r.prefix /\ new.team = r.team
  BY <1>1 DEF Looked, CallRow
<1>4. PrefixInv' /\ SeenInv'
  <2>1. r.call \notin overtaken => Named(new)
    BY <1>1, <1>3 DEF Named
  <2> HIDE DEF new
  <2> QED BY <1>1, <1>2, <1>3, <2>1, CopiesKept DEF Create, At
<1> HIDE DEF r, new
<1>5. /\ agentCall' \in [AgentCalls -> CallRow \cup {NoTeam}] /\ agentCall'[r.call] = new
      /\ \A c \in AgentCalls \ {r.call} : agentCall'[c] = agentCall[c]
  BY <1>2, <1>3, TypesNamed DEF TeamIInv
<1>6. /\ notice' \in [Prefixes -> {"none", "open", "resolved"}]
      /\ \A p \in Prefixes : notice'[p] = IF UnknownTeam(r) /\ p = r.prefix THEN "open"
                                          ELSE notice[p]
  BY <1>2, <1>3, TypesNamed DEF TeamIInv, UnknownTeam
<1>7. TeamTypeOK'
  BY <1>1, <1>2, <1>5, <1>6, TypesNamed DEF TeamIInv, TypesNamed, Looked, TeamTypeOK
<1>8. AdminInv'
  <2> SUFFICES ASSUME admin # NoTeam PROVE AdminInv'
    BY <1>1 DEF AdminInv
  <2>1. r.call \notin admin.assigned
    BY <1>2 DEF TeamIInv, AdminInv, Waiting
  <2>2. admin.assigned \subseteq AgentCalls
    BY TypesNamed DEF TeamIInv, Saving
  <2>3. \A c \in AgentCalls \ overtaken' : agentCall'[c] = agentCall[c]
    BY <1>1, <1>5
  <2> QED BY <1>1, <1>5, <2>1, <2>2, <2>3 DEF TeamIInv, AdminInv, Claims, Unambiguous, Active, Waiting
<1>9. WaitingIsReported'
  BY <1>1, <1>2, <1>3, <1>5, <1>6
     DEF TeamIInv, PrefixInv, TeamTypeOK, WaitingIsRight, WaitingIsReported, Waiting, UnknownTeam, CallRow
<1>10. ResolvableIsAssigned'
  BY <1>1, <1>3, <1>5 DEF TeamIInv, WaitingIsRight, ResolvableIsAssigned, Waiting
<1>11. WarningIsCurrent'
  BY <1>1, <1>3, <1>6 DEF TeamIInv, WaitingIsRight, WarningIsCurrent, UnknownTeam
<1> QED BY <1>1, <1>4, <1>7, <1>8, <1>9, <1>10, <1>11 DEF TeamIInv, WaitingIsRight

(* A row that fits merged with what a copy that fits and a callback give it *)
(* fits as well: all three say of one prefix what it names.                 *)
LEMMA MergedNamed ==
  ASSUME TeamTypeOK, NEW c \in AgentCalls, NEW row \in CallRow, NEW seen \in CallRow,
         NEW r \in Looked,
         row.prefix \in {AgentPrefix[c], NoTeam}, seen.prefix \in {AgentPrefix[c], NoTeam},
         r.prefix \in {AgentPrefix[c], NoTeam}, Named(row), Named(seen),
         r.team = IF r.prefix = NoTeam THEN NoTeam ELSE Resolve(team, r.prefix)
  PROVE  Named(Merged(row, seen, r))
<1> DEFINE P == AgentPrefix[c]  T == Resolve(team, P)
<1>1. P # NoTeam /\ row # NoTeam /\ seen # NoTeam
  BY TeamAssumption, NoTeamApart DEF CallRow
<1>2. /\ row.team = IF row.prefix = NoTeam THEN NoTeam ELSE T
      /\ seen.team = IF seen.prefix = NoTeam THEN NoTeam ELSE T
      /\ r.team = IF r.prefix = NoTeam THEN NoTeam ELSE T
  BY <1>1 DEF Named
<1> HIDE DEF T, P
<1>3. Merged(row, seen, r).team = IF Merged(row, seen, r).prefix = NoTeam THEN NoTeam ELSE T
  BY <1>2 DEF Merged
<1>4. Merged(row, seen, r).prefix \in {P, NoTeam}
  BY DEF Merged, P
<1> QED BY <1>3, <1>4 DEF Named, T

LEMMA MergeStep ==
  ASSUME TeamIInv, NEW q \in Callbacks, heard[q] # NoTeam, agentCall[heard[q].call] # NoTeam,
         NEW seen \in CallRow, MergeSeen(heard[q], seen), Answer(q),
         seen.prefix \in {AgentPrefix[heard[q].call], NoTeam},
         \/ seen = agentCall[heard[q].call]
         \/ heard[q].call \notin overtaken => Named(agentCall[heard[q].call]) /\ Named(seen)
  PROVE  TeamIInv'
<1> DEFINE r == heard[q]  old == agentCall[r.call]  new == Merged(old, seen, r)
<1>1. /\ r \in Looked /\ r.prefix \in {AgentPrefix[r.call], NoTeam}
      /\ heard' \in [Callbacks -> {NoTeam} \cup Looked]
      /\ overtaken' \in SUBSET AgentCalls /\ overtaken \subseteq overtaken'
      /\ admin # NoTeam => r.call \in overtaken'
      /\ r.call \notin overtaken =>
           r.team = IF r.prefix = NoTeam THEN NoTeam ELSE Resolve(team, r.prefix)
      /\ HeardInv'
      /\ UNCHANGED <<team, admin, heardCount, saves, unheard>>
  BY AnswerFrame
<1>2. /\ old # NoTeam /\ agentCall' = [agentCall EXCEPT ![r.call] = new]
      /\ admin # NoTeam => r.call \notin admin.assigned
      /\ merged' = IF Waiting(agentCall'[r.call]) /\ ~Waiting(old)
                     THEN merged \cup {r.call} ELSE merged
      /\ notice' = notice
  BY DEF MergeSeen
<1>3. /\ r.call \in AgentCalls /\ old \in CallRow /\ old.prefix \in {AgentPrefix[r.call], NoTeam}
  BY <1>1, <1>2, TypesNamed DEF TeamIInv, PrefixInv, Looked
<1>4. /\ new \in CallRow /\ new.prefix \in {AgentPrefix[r.call], NoTeam}
      /\ seen = old => /\ old.prefix # NoTeam => new.prefix = old.prefix
                       /\ new.team = NoTeam => old.team = NoTeam /\ r.team = NoTeam
                       /\ old.prefix = NoTeam => new.prefix = r.prefix
  <2>1. seen.prefix \in {AgentPrefix[r.call], NoTeam}
    OBVIOUS
  <2>2. /\ r \in Looked /\ r.prefix \in {AgentPrefix[r.call], NoTeam}
        /\ r.call \in AgentCalls /\ old \in CallRow /\ old.prefix \in {AgentPrefix[r.call], NoTeam}
    BY <1>1, <1>3
  <2> HIDE DEF old, r
  <2> QED BY <2>1, <2>2 DEF Merged, CallRow, Looked
<1>5. r.call \notin overtaken /\ Named(old) /\ Named(seen) => Named(new)
  BY <1>1, <1>3, MergedNamed DEF TeamIInv
<1>6. PrefixInv' /\ SeenInv'
  <2>1. r.call \notin overtaken /\ Named(old) => Named(new)
    BY <1>5
  <2> HIDE DEF new
  <2> QED BY <1>2, <1>4, <2>1, CopiesKept
<1> HIDE DEF r, new
<1>7. /\ agentCall' \in [AgentCalls -> CallRow \cup {NoTeam}] /\ agentCall'[r.call] = new
      /\ \A c \in AgentCalls \ {r.call} : agentCall'[c] = agentCall[c]
  BY <1>2, <1>3, <1>4, TypesNamed DEF TeamIInv
<1>8. merged' \in SUBSET AgentCalls /\ merged \subseteq merged'
  BY <1>2, <1>3, TypesNamed DEF TeamIInv
<1>9. TeamTypeOK'
  BY <1>1, <1>2, <1>7, <1>8, TypesNamed DEF TeamIInv, TypesNamed, Looked, TeamTypeOK
<1>10. AdminInv'
  <2> SUFFICES ASSUME admin # NoTeam PROVE AdminInv'
    BY <1>1 DEF AdminInv
  <2>1. admin.assigned \subseteq AgentCalls
    BY TypesNamed DEF TeamIInv, Saving
  <2>2. \A c \in AgentCalls \ overtaken' : agentCall'[c] = agentCall[c]
    BY <1>1, <1>7
  <2>3. \A c \in admin.assigned : agentCall'[c] = agentCall[c]
    BY <1>2, <1>7, <2>1
  <2> QED BY <1>1, <2>1, <2>2, <2>3 DEF TeamIInv, AdminInv, Claims, Unambiguous, Active, Waiting
<1>11. WaitingIsReported'
  <2> SUFFICES ASSUME NEW c \in AgentCalls \ (merged' \cup overtaken'), Waiting(agentCall'[c])
               PROVE  notice'[agentCall'[c].prefix] = "open"
    BY DEF WaitingIsReported, Waiting
  <2>1. Waiting(agentCall[c]) /\ agentCall'[c].prefix = agentCall[c].prefix
    BY <1>2, <1>3, <1>4, <1>7 DEF Waiting
  <2> QED BY <1>1, <1>2, <1>8, <2>1 DEF TeamIInv, WaitingIsRight, WaitingIsReported
<1>12. ResolvableIsAssigned'
  <2> SUFFICES ASSUME NEW c \in AgentCalls \ overtaken', Waiting(agentCall'[c]),
                      agentCall'[c].prefix \notin unheard
               PROVE  Resolve(team, agentCall'[c].prefix) = NoTeam
    BY <1>1 DEF ResolvableIsAssigned, Waiting
  <2>1. CASE Waiting(agentCall[c]) /\ agentCall'[c].prefix = agentCall[c].prefix
    BY <1>1, <2>1 DEF TeamIInv, WaitingIsRight, ResolvableIsAssigned
  <2>2. CASE c = r.call /\ seen = old /\ old.prefix = NoTeam
    BY <1>1, <1>4, <1>7, <2>2 DEF Waiting
  <2>3. CASE c = r.call /\ seen # old
    BY <1>1, <1>5, <1>7, <2>3 DEF Waiting, Named, r
  <2> QED BY <1>2, <1>4, <1>7, <2>1, <2>2, <2>3 DEF Waiting
<1>13. WarningIsCurrent'
  BY <1>1, <1>2 DEF TeamIInv, WaitingIsRight, WarningIsCurrent
<1> QED BY <1>1, <1>6, <1>9, <1>10, <1>11, <1>12, <1>13 DEF TeamIInv, WaitingIsRight

(* The row that was found and locked, and the copy get_or_create has read,  *)
(* are merged into.                                                         *)
LEMMA MergeIntoStep ==
  ASSUME TeamIInv, NEW q \in Callbacks, MergeInto(q)
  PROVE  TeamIInv'
<1>1. heard[q] # NoTeam /\ heard[q].call \in AgentCalls /\ agentCall[heard[q].call] # NoTeam
  BY TypesNamed DEF TeamIInv, MergeInto, At, Looked
<1>2. /\ agentCall[heard[q].call] \in CallRow
      /\ agentCall[heard[q].call].prefix \in {AgentPrefix[heard[q].call], NoTeam}
  BY <1>1, TypesNamed DEF TeamIInv, PrefixInv
<1> QED BY <1>1, <1>2, MergeStep DEF MergeInto

LEMMA MergeCopyStep ==
  ASSUME TeamIInv, NEW q \in Callbacks, MergeCopy(q)
  PROVE  TeamIInv'
<1>1. heard[q] # NoTeam /\ heard[q] \in Looked /\ heard[q].at = "merge"
  BY TypesNamed DEF TeamIInv, MergeCopy, At
<1>2. /\ heard[q].seen \in CallRow /\ agentCall[heard[q].call] # NoTeam
      /\ heard[q].seen.prefix \in {AgentPrefix[heard[q].call], NoTeam}
      /\ heard[q].call \notin overtaken =>
           Named(agentCall[heard[q].call]) /\ Named(heard[q].seen)
  BY <1>1 DEF TeamIInv, SeenInv, PrefixInv, At, Looked
<1> QED BY <1>1, <1>2, MergeStep DEF MergeCopy

(* A request that found no row, and one that reads another's, remembers it. *)
LEMMA PlaceStep ==
  ASSUME TeamIInv, NEW q \in Callbacks, FindNone(q) \/ Get(q)
  PROVE  TeamIInv'
<1> DEFINE r == heard[q]
           place == [r EXCEPT !.at = IF FindNone(q) THEN "insert" ELSE "merge",
                              !.seen = IF FindNone(q) THEN r.seen ELSE agentCall[r.call]]
<1>1. /\ r \in Looked /\ r.call \in AgentCalls /\ r # NoTeam
      /\ heard \in [Callbacks -> {NoTeam} \cup Looked]
  BY TypesNamed DEF TeamIInv, FindNone, Get, At, Looked
<1>2. /\ UNCHANGED <<team, agentCall, admin, notice, heardCount, saves, merged, overtaken, unheard>>
      /\ heard' = [heard EXCEPT ![q] = place]
  BY <1>1 DEF FindNone, Get, At, history, Looked
<1>3. agentCall[r.call] \in CallRow \cup {NoTeam}
  BY <1>1, TypesNamed DEF TeamIInv
<1>4. /\ place \in Looked /\ place.call = r.call /\ place.prefix = r.prefix
      /\ place.team = r.team
      /\ FindNone(q) => place.at = "insert" /\ place.seen = r.seen /\ agentCall[r.call] = NoTeam
      /\ ~FindNone(q) => /\ place.at = "merge" /\ place.seen = agentCall[r.call]
                         /\ r.at = "insert" /\ agentCall[r.call] # NoTeam
  <2>1. place \in Looked /\ place.call = r.call /\ place.prefix = r.prefix /\ place.team = r.team
    BY <1>1, <1>3 DEF Looked
  <2> QED BY <1>1, <2>1 DEF FindNone, Get, At, Looked
<1> HIDE DEF place, r
<1>5. heard' \in [Callbacks -> {NoTeam} \cup Looked] /\ heard'[q] = place
      /\ \A p \in Callbacks \ {q} : heard'[p] = heard[p]
  BY <1>1, <1>2, <1>4
<1>6. TeamTypeOK'
  BY <1>2, <1>5, TypesNamed DEF TeamIInv, TypesNamed, Looked, TeamTypeOK
<1>7. PrefixInv'
  BY <1>1, <1>2, <1>4, <1>5 DEF TeamIInv, PrefixInv, At, r
<1>8. HeardInv'
  BY <1>1, <1>2, <1>4, <1>5 DEF TeamIInv, HeardInv, r
<1>9. SeenInv'
  <2> SUFFICES ASSUME NEW p \in Callbacks, heard'[p] # NoTeam
               PROVE  /\ heard'[p].at # "looked" /\ heard'[p].call \notin overtaken =>
                           Named(agentCall[heard'[p].call]) /\ Named(heard'[p].seen)
                      /\ heard'[p].at = "looked" => heard'[p].seen = NoTeam
                      /\ heard'[p].at = "merge" =>
                           heard'[p].seen # NoTeam /\ agentCall[heard'[p].call] # NoTeam
    BY <1>2 DEF SeenInv, Named
  <2>1. CASE p # q
    BY <1>5, <2>1 DEF TeamIInv, SeenInv
  <2>2. CASE p = q /\ FindNone(q)
    <3>1. Named(NoTeam) /\ r.seen = NoTeam
      BY <1>1, <2>2 DEF Named, FindNone, At, r, TeamIInv, SeenInv
    <3> QED BY <1>4, <1>5, <2>2, <3>1
  <2>3. CASE p = q /\ ~FindNone(q)
    <3>1. r.call \notin overtaken => Named(agentCall[r.call])
      BY <1>1, <1>4, <2>3 DEF TeamIInv, SeenInv, r
    <3> QED BY <1>4, <1>5, <2>3, <3>1
  <2> QED BY <2>1, <2>2, <2>3
<1>10. AdminInv'
  BY <1>2 DEF TeamIInv, AdminInv, Claims, Unambiguous, Active, Waiting
<1>11. WaitingIsRight'
  BY <1>2 DEF TeamIInv, WaitingIsRight, WaitingIsReported, ResolvableIsAssigned,
              WarningIsCurrent, Waiting
<1> QED BY <1>6, <1>7, <1>8, <1>9, <1>10, <1>11 DEF TeamIInv

LEMMA SaveTeamStep ==
  ASSUME TeamIInv, NEW t \in Teams, NEW l \in Leaders, NEW state \in {"active", "inactive"},
         SaveTeam(t, l, state)
  PROVE  TeamIInv'
<1> DEFINE waiting == {c \in AgentCalls : Waiting(agentCall[c]) /\
                                        agentCall[c].prefix \in Claims(t, l, state)}
           new == [team |-> t, as |-> [state |-> state, leader |-> l],
                   claims |-> Claims(t, l, state), assigned |-> waiting]
<1>1. /\ admin' = new /\ saves' = saves + 1
      /\ UNCHANGED <<team, agentCall, heard, notice, heardCount, merged, overtaken, unheard>>
  BY DEF SaveTeam, history
<1>2. Claims(t, l, state) \in SUBSET Prefixes /\ [state |-> state, leader |-> l] \in Team
  BY DEF Claims, Prefixes, Team
<1>3. new \in Saving
  BY <1>2 DEF Saving
<1>4. TeamTypeOK'
  BY <1>1, <1>3, TypesNamed DEF TeamIInv, TypesNamed, Saving, TeamTypeOK
<1>5. PrefixInv' /\ HeardInv' /\ SeenInv'
  BY <1>1 DEF TeamIInv, PrefixInv, HeardInv, SeenInv, Named, At
<1>6. AdminInv'
  BY <1>1 DEF AdminInv, Claims, Unambiguous, Active, Waiting
<1>7. WaitingIsRight'
  BY <1>1 DEF TeamIInv, WaitingIsRight, WaitingIsReported, ResolvableIsAssigned,
              WarningIsCurrent, Waiting
<1> QED BY <1>4, <1>5, <1>6, <1>7 DEF TeamIInv

(* A save takes along the calls that wait for what it names, and whatever   *)
(* comes to name a team by it is claimed or in unheard.                     *)
LEMMA SaveCommitStep ==
  ASSUME TeamIInv, SaveCommit
  PROVE  TeamIInv'
<1> DEFINE t == admin.team
<1>1. /\ admin # NoTeam /\ admin' = NoTeam /\ team' = [team EXCEPT ![t] = admin.as]
      /\ agentCall' = [c \in AgentCalls |-> IF c \in admin.assigned
                         THEN [agentCall[c] EXCEPT !.team = t] ELSE agentCall[c]]
      /\ notice' = [p \in Prefixes |-> IF p \in admin.claims /\ notice[p] = "open"
                                       THEN "resolved" ELSE notice[p]]
      /\ overtaken' = overtaken \cup {c \in AgentCalls : \E q \in Callbacks :
                                        heard[q] # NoTeam /\ heard[q].call = c}
      /\ unheard' = unheard \cup {p \in Prefixes :
           Resolve(team, p) = NoTeam /\ Resolve(team', p) \notin {NoTeam, t}}
      /\ UNCHANGED <<heard, heardCount, saves, merged>>
  BY DEF SaveCommit, Resolved
<1>2. /\ admin \in Saving /\ t \in Teams /\ admin.as \in Team
      /\ admin.assigned \subseteq AgentCalls /\ admin.claims \subseteq Prefixes
  BY <1>1, TypesNamed DEF TeamIInv, Saving
<1>3. /\ admin.as.state \in {"active", "inactive"} /\ admin.as.leader \in Leaders
      /\ admin.claims = Claims(t, admin.as.leader, admin.as.state)
      /\ \A c \in admin.assigned : Waiting(agentCall[c]) /\ agentCall[c].prefix \in admin.claims
      /\ \A c \in AgentCalls \ overtaken :
           Waiting(agentCall[c]) /\ agentCall[c].prefix \in admin.claims => c \in admin.assigned
  BY <1>1 DEF TeamIInv, AdminInv
<1>4. ASSUME NEW p \in Prefixes, p \notin unheard', p \notin admin.claims,
             Resolve(team, p) = NoTeam
      PROVE  Resolve(team', p) = NoTeam
  <2> DEFINE l == admin.as.leader  state == admin.as.state
  <2>1. admin.as = [state |-> state, leader |-> l]
    BY <1>2 DEF Team
  <2>2. team \in [Teams -> Team]
    BY TypesNamed DEF TeamIInv
  <2>3. team' = [team EXCEPT ![t] = [state |-> state, leader |-> l]]
    BY <1>1, <2>1
  <2>4. t \in Teams /\ l \in Leaders /\ state \in {"active", "inactive"} /\ p \notin Claims(t, l, state)
    BY <1>2, <1>3, <1>4
  <2> HIDE DEF l, state, t
  <2>5. Resolve(team', p) # t
    BY <2>2, <2>3, <2>4, ClaimsCover
  <2> QED BY <1>1, <1>4, <2>5 DEF t
<1>5. \A c \in AgentCalls : agentCall[c] # NoTeam => agentCall[c] \in CallRow
  BY TypesNamed DEF TeamIInv
<1>6. \A c \in AgentCalls :
        /\ c \in admin.assigned => agentCall'[c] \in CallRow /\ agentCall'[c].team = t
             /\ agentCall'[c].prefix = agentCall[c].prefix
        /\ c \notin admin.assigned => agentCall'[c] = agentCall[c]
  BY <1>1, <1>2, <1>3, <1>5 DEF Waiting, CallRow
<1>7. \A c \in AgentCalls : Waiting(agentCall'[c]) =>
        c \notin admin.assigned /\ Waiting(agentCall[c]) /\ agentCall'[c] = agentCall[c]
          /\ agentCall[c].prefix \in Prefixes
  BY <1>2, <1>5, <1>6, NoTeamApart DEF Waiting, CallRow
<1>8. TeamTypeOK'
  <2>1. agentCall' \in [AgentCalls -> CallRow \cup {NoTeam}]
    <3> DEFINE row(c) == IF c \in admin.assigned THEN [agentCall[c] EXCEPT !.team = t]
                         ELSE agentCall[c]
    <3>1. agentCall' = [c \in AgentCalls |-> row(c)]
      BY <1>1
    <3> HIDE DEF row
    <3>2. \A c \in AgentCalls : row(c) \in CallRow \cup {NoTeam}
      BY <1>5, <1>6, <3>1
    <3> QED BY <3>1, <3>2
  <2>2. team' \in [Teams -> Team]
    BY <1>1, <1>2, TypesNamed DEF TeamIInv
  <2>3. notice' \in [Prefixes -> {"none", "open", "resolved"}]
    BY <1>1, TypesNamed DEF TeamIInv
  <2>4. overtaken' \in SUBSET AgentCalls /\ unheard' \in SUBSET Prefixes
    BY <1>1, TypesNamed DEF TeamIInv
  <2>5. UNCHANGED <<heard, heardCount, saves, merged>> /\ admin' = NoTeam
    BY <1>1
  <2> QED BY <2>1, <2>2, <2>3, <2>4, <2>5, TypesNamed DEF TeamIInv, TeamTypeOK
<1>9. PrefixInv'
  <2>1. \A c \in AgentCalls : agentCall'[c] # NoTeam =>
          agentCall[c] # NoTeam /\ agentCall'[c].prefix = agentCall[c].prefix
    BY <1>3, <1>6 DEF Waiting
  <2> QED BY <1>1, <2>1 DEF TeamIInv, PrefixInv, At
<1>10. HeardInv' /\ SeenInv'
  <2>1. \A q \in Callbacks : heard[q] # NoTeam =>
          heard[q].call \in overtaken' /\ heard[q].call \in AgentCalls
    BY <1>1, TypesNamed DEF TeamIInv, Looked
  <2>2. \A c \in AgentCalls : agentCall[c] # NoTeam => agentCall'[c] # NoTeam
    BY <1>5, <1>6, NoTeamApart
  <2> QED BY <1>1, <2>1, <2>2 DEF TeamIInv, HeardInv, SeenInv
<1>11. AdminInv'
  BY <1>1 DEF AdminInv
<1>12. WaitingIsReported'
  <2> SUFFICES ASSUME NEW c \in AgentCalls \ (merged' \cup overtaken'), Waiting(agentCall'[c])
               PROVE  notice'[agentCall'[c].prefix] = "open"
    BY DEF WaitingIsReported, Waiting
  <2>1. notice[agentCall[c].prefix] = "open" /\ agentCall[c].prefix \notin admin.claims
    BY <1>1, <1>3, <1>7 DEF TeamIInv, WaitingIsRight, WaitingIsReported
  <2> QED BY <1>1, <1>7, <2>1
<1>13. ResolvableIsAssigned'
  <2> SUFFICES ASSUME NEW c \in AgentCalls \ overtaken', Waiting(agentCall'[c]),
                      agentCall'[c].prefix \notin unheard'
               PROVE  Resolve(team', agentCall'[c].prefix) = NoTeam
    BY DEF ResolvableIsAssigned, Waiting
  <2>1. Resolve(team, agentCall[c].prefix) = NoTeam
    BY <1>1, <1>7 DEF TeamIInv, WaitingIsRight, ResolvableIsAssigned
  <2>2. agentCall[c].prefix \notin admin.claims
    BY <1>1, <1>3, <1>7
  <2> QED BY <1>4, <1>7, <2>1, <2>2
<1>14. WarningIsCurrent'
  <2> SUFFICES ASSUME NEW p \in Prefixes, p \notin unheard', notice'[p] = "open",
                      Resolve(team', p) # NoTeam
               PROVE  \E c \in overtaken' : AgentPrefix[c] = p
    BY DEF WarningIsCurrent
  <2>1. notice[p] = "open" /\ p \notin admin.claims
    BY <1>1
  <2>2. Resolve(team, p) # NoTeam
    BY <1>4, <2>1
  <2> QED BY <1>1, <2>1, <2>2 DEF TeamIInv, WaitingIsRight, WarningIsCurrent
<1> QED BY <1>8, <1>9, <1>10, <1>11, <1>12, <1>13, <1>14 DEF TeamIInv, WaitingIsRight

LEMMA TeamNextIInv == TeamIInv /\ [TeamNext]_teamVars => TeamIInv'
<1> SUFFICES ASSUME TeamIInv, [TeamNext]_teamVars PROVE TeamIInv'
  OBVIOUS
<1>1. ASSUME NEW q \in Callbacks, NEW c \in AgentCalls, NEW kind \in {"start", "final"},
             NEW prefix \in Prefixes \cup {NoTeam}, LookUpTeam(q, c, kind, prefix)
      PROVE  TeamIInv'
  BY <1>1, LookUpTeamStep
<1>2. ASSUME NEW q \in Callbacks, Receipt(q) PROVE TeamIInv'
  BY <1>2, CreateStep, MergeIntoStep, MergeCopyStep, PlaceStep DEF Receipt
<1>3. ASSUME NEW t \in Teams, NEW l \in Leaders, NEW state \in {"active", "inactive"},
             SaveTeam(t, l, state)
      PROVE  TeamIInv'
  BY <1>3, SaveTeamStep
<1>4. CASE SaveCommit
  BY <1>4, SaveCommitStep
<1>5. CASE UNCHANGED teamVars
  BY <1>5 DEF teamVars, history, TeamIInv, TeamTypeOK, PrefixInv, HeardInv, SeenInv, Named, At, AdminInv, Claims,
              Unambiguous, Active, Waiting, WaitingIsRight, WaitingIsReported,
              ResolvableIsAssigned, WarningIsCurrent
<1> QED BY <1>1, <1>2, <1>3, <1>4, <1>5 DEF TeamNext

(* The variables of the team assignment keep their types, for any calls,    *)
(* teams and prefixes.                                                      *)
THEOREM TeamsTyped == TeamSpec => []TeamTypeOK
<1>1. TeamIInv => TeamTypeOK
  BY DEF TeamIInv
<1> QED BY <1>1, TeamInitIInv, TeamNextIInv, PTL DEF TeamSpec

(* A call waits only for a team that does not exist, and is reported        *)
(* exactly while it waits (webhooks.py:188-191, :453-464), whatever         *)
(* callbacks and saves of teams cross.                                      *)
THEOREM WaitingRight == TeamSpec => []WaitingIsRight
<1>1. TeamIInv => WaitingIsRight
  BY DEF TeamIInv
<1> QED BY <1>1, TeamInitIInv, TeamNextIInv, PTL DEF TeamSpec

(* No callback and no save of a team takes a call's team away, but for the  *)
(* disposition that saves a copy from before.                               *)
LEMMA TeamKeptStep ==
  ASSUME TeamIInv, [TeamNext]_teamVars, NEW c \in AgentCalls,
         agentCall[c] # NoTeam, agentCall[c].team # NoTeam, agentCall'[c].team = NoTeam
  PROVE  \E q \in Callbacks : SavesTeamless(q, c)
<1>1. agentCall[c] \in CallRow
  BY TypesNamed DEF TeamIInv
<1>2. ASSUME NEW q \in Callbacks, heard[q] # NoTeam, NEW seen \in CallRow,
             MergeSeen(heard[q], seen)
      PROVE  /\ c = heard[q].call
             /\ heard[q].kind = "final" /\ heard[q].team = NoTeam /\ seen.team = NoTeam
  <2>1. heard[q] \in Looked /\ heard[q].call \in AgentCalls
    BY <1>2, TypesNamed DEF TeamIInv, Looked
  <2>2. c = heard[q].call
    BY <1>2, <2>1, TypesNamed DEF TeamIInv, MergeSeen
  <2>3. agentCall'[c] = Merged(agentCall[c], seen, heard[q])
    BY <1>2, <2>1, <2>2, TypesNamed DEF TeamIInv, MergeSeen
  <2> QED BY <1>1, <2>1, <2>2, <2>3 DEF Merged, Looked
<1>3. ASSUME NEW q \in Callbacks, MergeInto(q) PROVE FALSE
  <2>1. heard[q] # NoTeam /\ heard[q] \in Looked /\ agentCall[heard[q].call] \in CallRow
    BY <1>3, TypesNamed DEF TeamIInv, MergeInto, At, Looked
  <2> QED BY <1>2, <1>3, <2>1 DEF MergeInto
<1>4. ASSUME NEW q \in Callbacks, MergeCopy(q) PROVE SavesTeamless(q, c)
  <2>1. heard[q] # NoTeam /\ heard[q] \in Looked /\ heard[q].seen \in CallRow
    BY <1>4, TypesNamed DEF TeamIInv, SeenInv, MergeCopy, At, Looked
  <2>2. heard'[q] = NoTeam
    BY <1>4, TypesNamed DEF TeamIInv, MergeCopy, Answer
  <2> QED BY <1>2, <1>4, <2>1, <2>2 DEF MergeCopy, SavesTeamless
<1>5. ASSUME NEW q \in Callbacks, Create(q) PROVE FALSE
  <2>1. heard[q].call \in AgentCalls
    BY <1>5, TypesNamed DEF TeamIInv, Create, At, Looked
  <2> QED BY <1>5, <2>1, TypesNamed DEF TeamIInv, Create
<1>6. CASE SaveCommit
  <2>1. c \notin admin.assigned
    BY <1>6 DEF SaveCommit, TeamIInv, AdminInv, Waiting
  <2> QED BY <1>6, <2>1 DEF SaveCommit
<1>7. ASSUME agentCall' = agentCall PROVE FALSE
  BY <1>7
<1>8. ASSUME NEW q \in Callbacks, Receipt(q) PROVE SavesTeamless(q, c)
  BY <1>3, <1>4, <1>5, <1>7, <1>8 DEF Receipt, FindNone, Get
<1>9. ASSUME NEW q \in Callbacks, NEW d \in AgentCalls, NEW kind \in {"start", "final"},
             NEW prefix \in Prefixes \cup {NoTeam}, LookUpTeam(q, d, kind, prefix)
      PROVE  FALSE
  BY <1>7, <1>9 DEF LookUpTeam
<1>10. ASSUME NEW t \in Teams, NEW l \in Leaders, NEW state \in {"active", "inactive"},
              SaveTeam(t, l, state)
       PROVE  FALSE
  BY <1>7, <1>10 DEF SaveTeam
<1>11. CASE UNCHANGED teamVars
  BY <1>7, <1>11 DEF teamVars
<1> QED BY <1>6, <1>8, <1>9, <1>10, <1>11 DEF TeamNext

(* A call that has a team loses it only to a disposition that saves a copy  *)
(* get_or_create read without the lock before the call had the team         *)
(* (webhooks.py:388, :423, :447-464); every callback that locked its row    *)
(* and every save of a team keep it or replace it.                          *)
THEOREM TeamStays == TeamSpec => TeamKept
<1>1. TeamIInv /\ [TeamNext]_teamVars =>
        [\A c \in AgentCalls : agentCall[c] # NoTeam =>
           (agentCall[c].team # NoTeam /\ agentCall'[c].team = NoTeam =>
              \E q \in Callbacks : SavesTeamless(q, c))]_agentCall
  BY TeamKeptStep
<1> QED BY <1>1, TeamInitIInv, TeamNextIInv, PTL DEF TeamSpec, TeamKept

----------------------------------------------------------------------------
(* CallMatching.                                                           *)

\* The call a row is about, by its key.
CallOf(row) == row.key[2]

\* A row, or a copy of it, that took callbacks of its call only has the identifiers and the
\* lead of that call, and all that one of its callbacks carried.
OfOneCall(row) ==
  /\ row.of = {CallOf(row)} /\ CallOf(row) \in Calls
  /\ \A i \in 1 .. 3 : row.ids[IdFields[i]] \in {CallOf(row), None}
  /\ row.ids["lead"] \in {LeadOf[CallOf(row)], None}
  /\ \E h \in Carried[CallOf(row)] : \A f \in h : row.ids[f] # None

\* A row has the identifiers of calls whose callbacks it took; these are one call until a
\* disposition of another is taken for that of a call which may have been mistaken.
Sound(row, pairs) ==
  /\ CallOf(row) \in row.of
  /\ \A i \in 1 .. 3 : row.ids[IdFields[i]] \in row.of \cup {None}
  /\ \A c, d \in row.of : c # d => {c, d} \in pairs
  /\ ~row.final \/ CallOf(row) \notin UNION pairs => OfOneCall(row)

KeyInv ==
  /\ \A r \in DOMAIN rows : Sound(rows[r], crossed)
  /\ \A q \in Requests : request[q].pc = "merge" =>
       /\ Sound(request[q].seen, crossed)
       /\ request[q].seen.key = EventKey(request[q].cb)
       /\ request[q].seen.of \subseteq rows[request[q].row].of
       /\ rows[request[q].row].key = EventKey(request[q].cb)

\* The calls that OneRowPerCall and PipelineOncePerCall speak of, up to raced.
Plain(c, pairs, rival) == Linked(c) /\ c \notin rival \cup UNION pairs

OneRow == \A r, s \in DOMAIN rows :
  CallOf(rows[r]) = CallOf(rows[s]) /\ Plain(CallOf(rows[r]), crossed, rivals) => r = s

\* Two requests that are about to insert one call do it under one key, or it has rivals.
RivalInv == \A p, q \in Requests :
  /\ request[p].pc = "insert" /\ request[q].pc = "insert"
  /\ request[p].cb.call = request[q].cb.call /\ request[q].cb.call \notin rivals
  => EventKey(request[p].cb) = EventKey(request[q].cb)

\* Whoever is about to insert a plain call uses the key of its row.
InsertInv == \A q \in Requests, r \in DOMAIN rows :
  /\ request[q].pc = "insert" /\ CallOf(rows[r]) = request[q].cb.call
  /\ Plain(request[q].cb.call, crossed, rivals)
  => rows[r].key = EventKey(request[q].cb)

\* A pipeline that has been started has its final row.
PipelineInv == \A c \in Calls \ raced : Plain(c, crossed, rivals) =>
  \/ runs[c] = 0
  \/ runs[c] = 1 /\ \E r \in DOMAIN rows : CallOf(rows[r]) = c /\ rows[r].final

RowsInv == TypeOK /\ KeyInv /\ OneRow /\ RivalInv /\ InsertInv /\ NoneLeftWaiting
IInv == RowsInv /\ PipelineInv

LEMMA LeadsApart == None \notin Calls /\ \A c \in Calls : LeadOf[c] # None /\ LeadOf[c] \in Leads
BY MatchingAssumption DEF Leads

(* A nonempty set of row numbers has a largest.                             *)
LEMMA NewestExists ==
  ASSUME NEW n \in Nat, NEW S, S \subseteq 1 .. n, S # {}
  PROVE  Newest(S) # {} /\ Newest(S) \subseteq S
<1> DEFINE T == {n - i : i \in S}
<1>1. T \subseteq Nat /\ T # {}
  <2>1. ASSUME NEW i \in S PROVE n - i \in Nat
    <3> i \in 1 .. n
      OBVIOUS
    <3> QED OBVIOUS
  <2> QED BY <2>1
<1>2. PICK x \in T : \A y \in T : ~(<<y, x>> \in OpToRel(<, Nat))
  BY <1>1, NatLessThanWellFounded, WFMin
<1>3. \A y \in T : ~(y < x)
  <2> HIDE DEF T
  <2> QED BY <1>1, <1>2 DEF OpToRel
<1>4. PICK i \in S : x = n - i
  BY <1>2
<1>5. \A j \in S : n - j \in T
  OBVIOUS
<1> HIDE DEF T
<1>6. ASSUME NEW j \in S PROVE j <= i
  <2>1. ~(n - j < n - i)
    BY <1>3, <1>4, <1>5
  <2>2. i \in 1 .. n /\ j \in 1 .. n
    OBVIOUS
  <2> QED BY <2>1, <2>2
<1>7. i \in Newest(S)
  BY <1>6 DEF Newest
<1>8. Newest(S) \subseteq S
  BY DEF Newest
<1> QED BY <1>7, <1>8

LEMMA FirstExists ==
  ASSUME NEW S, S \subseteq Nat, S # {}
  PROVE  \E i \in S : \A j \in S : i <= j
<1>1. PICK i \in S : \A j \in S : ~(<<j, i>> \in OpToRel(<, Nat))
  BY NatLessThanWellFounded, WFMin
<1>2. \A j \in S : ~(j < i) /\ j \in Nat /\ i \in Nat
  BY <1>1 DEF OpToRel
<1> QED BY <1>2

(* The key names the call.                                                  *)
LEMMA KeyNamesCall == \A cb \in Callback : EventKey(cb)[2] = cb.call
BY DEF EventKey

(* What the successive queries find is a row one of them answers with, the  *)
(* last only if the others do not, and nothing only if none does.           *)
LEMMA MatchFinds ==
  ASSUME NEW cb, rows \in Seq(RowType)
  PROVE  /\ \A r \in Match(cb) :
              \/ r \in KeyMatches(cb) \cup StrongMatches(cb, 1)
                        \cup StrongMatches(cb, 2) \cup StrongMatches(cb, 3)
              \/ /\ r \in PendingMatches(cb)
                 /\ \A i \in 1 .. 3 : StrongMatches(cb, i) = {}
         /\ Match(cb) = {} => /\ KeyMatches(cb) = {} /\ PendingMatches(cb) = {}
                              /\ \A i \in 1 .. 3 : StrongMatches(cb, i) = {}
<1> DEFINE queries == <<KeyMatches(cb), StrongMatches(cb, 1), StrongMatches(cb, 2),
                        StrongMatches(cb, 3), PendingMatches(cb)>>
           answered == {q \in 1 .. 5 : queries[q] # {}}
           first == CHOOSE q \in answered : \A p \in answered : q <= p
<1>1. Match(cb) = IF answered = {} THEN {} ELSE Newest(queries[first])
  BY DEF Match
<1>2. \A q \in 1 .. 5 : queries[q] \subseteq 1 .. Len(rows)
  BY DEF KeyMatches, StrongMatches, PendingMatches
<1>3. answered # {} => first \in answered /\ \A p \in answered : first <= p
  <2> SUFFICES ASSUME answered # {} PROVE \E q \in answered : \A p \in answered : q <= p
    OBVIOUS
  <2> answered \subseteq Nat
    OBVIOUS
  <2> HIDE DEF answered
  <2> QED BY FirstExists
<1>4. answered # {} => Newest(queries[first]) # {} /\ Newest(queries[first]) \subseteq queries[first]
  <2>1. Len(rows) \in Nat
    OBVIOUS
  <2> HIDE DEF queries, first
  <2> QED BY <1>2, <1>3, <2>1, NewestExists
<1>5. /\ queries[1] = KeyMatches(cb) /\ queries[2] = StrongMatches(cb, 1)
      /\ queries[3] = StrongMatches(cb, 2) /\ queries[4] = StrongMatches(cb, 3)
      /\ queries[5] = PendingMatches(cb)
  OBVIOUS
<1> HIDE DEF queries, first
<1>6. ASSUME NEW r \in Match(cb)
      PROVE  \/ r \in queries[1] \cup queries[2] \cup queries[3] \cup queries[4]
             \/ r \in queries[5] /\ \A q \in 2 .. 4 : queries[q] = {}
  <2>1. first \in answered /\ r \in queries[first] /\ \A p \in answered : first <= p
    BY <1>1, <1>3, <1>4, <1>6
  <2>2. first \in {1, 2, 3, 4, 5}
    BY <2>1
  <2>3. first = 5 => \A q \in 2 .. 4 : queries[q] = {}
    <3> SUFFICES ASSUME first = 5, NEW q \in 2 .. 4, queries[q] # {} PROVE FALSE
      OBVIOUS
    <3> q \in answered
      OBVIOUS
    <3> QED BY <2>1
  <2> QED BY <2>1, <2>2, <2>3
<1>7. ASSUME Match(cb) = {}
      PROVE  \A q \in 1 .. 5 : queries[q] = {}
  BY <1>1, <1>4, <1>7
<1>8. \A i \in 1 .. 3 : \E q \in 2 .. 4 : StrongMatches(cb, i) = queries[q]
  BY <1>5
<1>9. \A i \in 1 .. 3 : StrongMatches(cb, i) \in {queries[2], queries[3], queries[4]}
  BY <1>5
<1> QED BY <1>5, <1>6, <1>7, <1>8, <1>9

LEMMA FieldsNamed ==
  /\ \A i \in 1 .. 3 : IdFields[i] \in Fields /\ IdFields[i] # "lead"
  /\ \A f \in Fields : f = "lead" \/ \E i \in 1 .. 3 : f = IdFields[i]
  /\ "lead" \in Fields
<1>1. IdFields[1] = "call_id" /\ IdFields[2] = "agent_log_id" /\ IdFields[3] = "unique_id"
  BY DEF IdFields
<1>2. \A i \in 1 .. 3 : i = 1 \/ i = 2 \/ i = 3
  OBVIOUS
<1> QED BY <1>1, <1>2 DEF Fields

LEMMA RequestTyped ==
  ASSUME TypeOK, NEW q \in Requests
  PROVE  /\ request[q].pc = "insert" => request[q].cb \in Callback
         /\ request[q].pc = "merge" => /\ request[q].cb \in Callback
                                       /\ request[q].row \in DOMAIN rows
                                       /\ request[q].seen \in RowType
BY DEF TypeOK, Idle

LEMMA CallbackTyped ==
  ASSUME NEW cb \in Callback
  PROVE  /\ cb.call \in Calls /\ cb.stage \in {"start", "final"}
         /\ cb.has \in Carried[cb.call] /\ cb.has \subseteq Fields
         /\ \A i \in 1 .. 3 : Value(cb, IdFields[i]) = IF IdFields[i] \in cb.has THEN cb.call ELSE None
         /\ Value(cb, "lead") = IF "lead" \in cb.has THEN LeadOf[cb.call] ELSE None
         /\ \A f \in Fields : Value(cb, f) \in Calls \cup Leads \cup {None}
BY FieldsNamed, LeadsApart DEF Callback, Value, Stages

(* The pairs only grow, and what is sound stays so.                         *)
LEMMA SoundGrows ==
  ASSUME NEW row, NEW X, NEW Y, X \subseteq Y, Sound(row, X)
  PROVE  Sound(row, Y)
<1>1. UNION X \subseteq UNION Y
  OBVIOUS
<1> QED BY <1>1 DEF Sound

LEMMA PlainShrinks ==
  ASSUME NEW c, NEW X, NEW Y, X \subseteq Y, NEW rs, NEW ss, rs \subseteq ss, Plain(c, Y, ss)
  PROVE  Plain(c, X, rs)
<1>1. UNION X \subseteq UNION Y
  OBVIOUS
<1> QED BY <1>1 DEF Plain

(* A row that took a callback of an unmistaken call is a row of that call.  *)
LEMMA SoundOfOne ==
  ASSUME NEW row, NEW X, Sound(row, X), NEW c \in row.of, c \notin UNION X
  PROVE  CallOf(row) = c /\ OfOneCall(row)
<1>1. CallOf(row) = c
  BY DEF Sound
<1> QED BY <1>1 DEF Sound

(* A row of a linked call that took no other's callbacks is found by every  *)
(* callback of the call.                                                    *)
LEMMA LinkedFinds ==
  ASSUME NEW cb \in Callback, Linked(cb.call), NEW r \in DOMAIN rows,
         OfOneCall(rows[r]), CallOf(rows[r]) = cb.call
  PROVE  \E i \in 1 .. 3 : r \in StrongMatches(cb, i)
<1>1. PICK h \in Carried[cb.call] : \A f \in h : rows[r].ids[f] # None
  BY DEF OfOneCall
<1>2. PICK i \in 1 .. 3 : IdFields[i] \in h \cap cb.has
  BY CallbackTyped DEF Linked
<1>3. rows[r].ids[IdFields[i]] = cb.call
  BY <1>1, <1>2 DEF OfOneCall
<1> QED BY <1>2, <1>3 DEF StrongMatches

(* A row that the queries of a callback find has taken callbacks of its     *)
(* call; or it awaits a disposition, this is one, and if it is of another   *)
(* call then the two are among the pairs from now on.                       *)
LEMMA MatchedOfCall ==
  ASSUME TypeOK, KeyInv, NEW cb \in Callback, NEW r \in Match(cb)
  PROVE  /\ r \in DOMAIN rows
         /\ \/ cb.call \in rows[r].of
            \/ /\ ~rows[r].final /\ cb.stage = "final"
               /\ {CallOf(rows[r]), cb.call} \in crossed \cup Crossing(cb)
<1>1. rows \in Seq(RowType) /\ \A s \in DOMAIN rows : Sound(rows[s], crossed)
  BY DEF TypeOK, KeyInv
<1>2. CASE r \in KeyMatches(cb)
  BY <1>1, <1>2, KeyNamesCall DEF KeyMatches, CallOf, Sound
<1>3. ASSUME NEW i \in 1 .. 3, r \in StrongMatches(cb, i)
      PROVE  r \in DOMAIN rows /\ cb.call \in rows[r].of
  BY <1>1, <1>3, CallbackTyped, LeadsApart DEF StrongMatches, Sound
<1>4. CASE r \in PendingMatches(cb) /\ \A i \in 1 .. 3 : StrongMatches(cb, i) = {}
  <2> DEFINE b == CallOf(rows[r])
  <2>1. /\ r \in DOMAIN rows /\ rows[r].ids["lead"] = LeadOf[cb.call] /\ cb.call \in Calls
        /\ ~rows[r].final /\ rows[r].recent /\ cb.stage = "final" /\ "lead" \in cb.has
    BY <1>4, CallbackTyped DEF PendingMatches
  <2>2. OfOneCall(rows[r]) /\ b \in Calls /\ rows[r].of = {b} /\ LeadOf[b] = LeadOf[cb.call]
    BY <1>1, <2>1, LeadsApart DEF Sound, OfOneCall
  <2> SUFFICES ASSUME b # cb.call PROVE {cb.call, b} \in Crossing(cb)
    BY <2>1, <2>2
  <2>3. ~Findable(cb.call)
    <3> SUFFICES ASSUME Linked(cb.call), cb.call \notin UNION crossed,
                        NEW s \in DOMAIN rows, cb.call \in rows[s].of
                 PROVE  FALSE
      BY DEF Findable, Mistaken
    <3>1. CallOf(rows[s]) = cb.call /\ OfOneCall(rows[s])
      BY <1>1, SoundOfOne
    <3> QED BY <1>4, <3>1, LinkedFinds
  <2>4. Awaited(b)
    BY <2>1, <2>2 DEF Awaited
  <2> QED BY <2>1, <2>2, <2>3, <2>4 DEF Crossing
<1> QED BY <1>1, <1>2, <1>3, <1>4, MatchFinds

(* merge_start and merge_final leave a sound row of the same key, final if  *)
(* it was.                                                                  *)
LEMMA MergedSound ==
  ASSUME NEW row \in RowType, NEW seen \in RowType, NEW cb \in Callback, NEW X, NEW Y,
         X \subseteq Y, Sound(row, X), Sound(seen, X),
         row.key = seen.key, seen.of \subseteq row.of,
         \/ cb.call \in row.of
         \/ ~row.final /\ cb.stage = "final" /\ {CallOf(row), cb.call} \in Y
  PROVE  LET new == Merge(row, seen, cb) IN
         /\ new \in RowType /\ new.key = row.key /\ Sound(new, Y)
         /\ new.final = (row.final \/ cb.stage = "final")
         /\ new.recent = row.recent /\ row.of \subseteq new.of
<1> DEFINE new == Merge(row, seen, cb)  c == cb.call  b == CallOf(row)
<1>1. CallOf(seen) = b /\ c \in Calls /\ LeadOf[c] \in Leads /\ UNION X \subseteq UNION Y
  BY LeadsApart, CallbackTyped DEF CallOf
<1>2. /\ \A f \in Fields : row.ids[f] \in Calls \cup Leads \cup {None}
      /\ \A f \in Fields : seen.ids[f] \in Calls \cup Leads \cup {None}
      /\ row.final \in BOOLEAN /\ row.recent \in BOOLEAN /\ row.of \subseteq Calls
  BY DEF RowType
<1>3. \A p, q \in row.of \cup {c} : p # q => {p, q} \in Y
  <2> SUFFICES ASSUME NEW p \in row.of \cup {c}, NEW q \in row.of \cup {c}, p # q
               PROVE  {p, q} \in Y
    OBVIOUS
  <2>1. CASE p \in row.of /\ q \in row.of
    BY <2>1 DEF Sound
  <2>2. CASE c \notin row.of
    <3>1. row.of = {b} /\ {b, c} \in Y
      BY <2>2 DEF Sound, OfOneCall
    <3>2. {p, q} = {b, c}
      BY <3>1
    <3> QED BY <3>1, <3>2
  <2> QED BY <2>1, <2>2
<1>4. CASE cb.stage = "start"
  <2> DEFINE ids == [f \in Fields |-> IF f \in cb.has /\ seen.ids[f] = None
                                      THEN Value(cb, f) ELSE row.ids[f]]
  <2>1. new = [[row EXCEPT !.ids = ids] EXCEPT !.of = row.of \cup {c}]
    BY <1>4 DEF Merge, MergeStart
  <2>2. ids \in [Fields -> Calls \cup Leads \cup {None}]
    BY <1>2, CallbackTyped
  <2>3. \A i \in 1 .. 3 : ids[IdFields[i]] \in {c, row.ids[IdFields[i]]}
    BY FieldsNamed, CallbackTyped
  <2>4. ids["lead"] \in {LeadOf[c], row.ids["lead"]}
    BY FieldsNamed, CallbackTyped
  <2>5. \A f \in Fields : row.ids[f] # None => ids[f] # None
    BY <1>1, FieldsNamed, CallbackTyped, LeadsApart
  <2> HIDE DEF ids, new
  <2>6. /\ new \in RowType /\ new.key = row.key /\ new.ids = ids /\ new.final = row.final
        /\ new.recent = row.recent /\ new.of = row.of \cup {c}
    BY <1>1, <1>2, <2>1, <2>2 DEF RowType
  <2>7. c \in row.of /\ new.of = row.of
    BY <1>4, <2>6
  <2>8. ASSUME ~new.final \/ CallOf(new) \notin UNION Y PROVE OfOneCall(new)
    <3>1. OfOneCall(row) /\ c = b
      BY <1>1, <2>6, <2>7, <2>8 DEF Sound, CallOf, OfOneCall
    <3>2. PICK h \in Carried[b] : \A f \in h : row.ids[f] # None
      BY <3>1 DEF OfOneCall
    <3>3. \A f \in h : new.ids[f] # None
      BY <1>1, <2>5, <2>6, <3>1, <3>2, MatchingAssumption
    <3> QED BY <2>3, <2>4, <2>6, <2>7, <3>1, <3>3 DEF OfOneCall, CallOf
  <2>9. Sound(new, Y)
    BY <1>3, <2>3, <2>6, <2>7, <2>8 DEF Sound, CallOf
  <2> QED BY <1>2, <1>4, <2>6, <2>9 DEF new
<1>5. CASE cb.stage # "start"
  <2> DEFINE ids == [f \in Fields |-> IF f \in cb.has THEN Value(cb, f) ELSE seen.ids[f]]
  <2>1. new = [[seen EXCEPT !.final = TRUE, !.recent = row.recent, !.ids = ids]
                 EXCEPT !.of = row.of \cup {c}]
    BY <1>5 DEF Merge, MergeFinal
  <2>2. ids \in [Fields -> Calls \cup Leads \cup {None}]
    BY <1>2, CallbackTyped
  <2>3. \A i \in 1 .. 3 : ids[IdFields[i]] \in {c, seen.ids[IdFields[i]]}
    BY FieldsNamed, CallbackTyped
  <2>4. ids["lead"] \in {LeadOf[c], seen.ids["lead"]}
    BY FieldsNamed, CallbackTyped
  <2>5. \A f \in Fields : seen.ids[f] # None => ids[f] # None
    BY <1>1, FieldsNamed, CallbackTyped, LeadsApart
  <2> HIDE DEF ids, new
  <2>6. /\ new \in RowType /\ new.key = row.key /\ new.ids = ids /\ new.final = TRUE
        /\ new.recent = row.recent /\ new.of = row.of \cup {c}
    BY <1>1, <1>2, <2>1, <2>2 DEF RowType
  <2>7. ASSUME CallOf(new) \notin UNION Y PROVE OfOneCall(new)
    <3>1. b \notin UNION Y /\ c \in row.of
      BY <2>6, <2>7 DEF CallOf
    <3>2. OfOneCall(row) /\ c = b /\ OfOneCall(seen)
      BY <1>1, <3>1 DEF Sound, OfOneCall
    <3>3. PICK h \in Carried[b] : \A f \in h : seen.ids[f] # None
      BY <1>1, <3>2 DEF OfOneCall
    <3>4. \A f \in h : new.ids[f] # None
      BY <1>1, <2>5, <2>6, <3>2, <3>3, MatchingAssumption
    <3>5. new.of = {b} /\ CallOf(new) = b /\ b \in Calls
      BY <2>6, <3>2 DEF OfOneCall, CallOf
    <3> QED BY <1>1, <2>3, <2>4, <2>6, <3>2, <3>4, <3>5 DEF OfOneCall
  <2>8. \A i \in 1 .. 3 : new.ids[IdFields[i]] \in new.of \cup {None}
    BY <2>3, <2>6 DEF Sound
  <2>9. Sound(new, Y)
    BY <1>3, <2>6, <2>7, <2>8 DEF Sound, CallOf
  <2> QED BY <1>2, <1>5, <2>6, <2>9, CallbackTyped DEF new
<1> QED BY <1>4, <1>5

(* A write to one row that keeps its key disturbs nothing, whether or not   *)
(* the request that wrote is over.                                          *)
LEMMA RowWritten ==
  ASSUME RowsInv, NEW r \in DOMAIN rows, NEW new \in RowType,
         crossed \subseteq crossed', Sound(new, crossed'), new.key = rows[r].key,
         rows[r].of \subseteq new.of, rows[r].final => new.final,
         new.recent => rows[r].recent,
         rows' = [rows EXCEPT ![r] = new],
         request' \in [Requests -> {request[q] : q \in Requests} \cup {Idle}],
         \A q \in Requests : request'[q] = request[q] \/ request'[q] = Idle,
         rivals' = rivals
  PROVE  /\ rows' \in Seq(RowType) /\ DOMAIN rows' = DOMAIN rows /\ rows'[r] = new
         /\ \A s \in DOMAIN rows \ {r} : rows'[s] = rows[s]
         /\ \A s \in DOMAIN rows : rows'[s].key = rows[s].key
         /\ KeyInv' /\ OneRow' /\ RivalInv' /\ InsertInv' /\ NoneLeftWaiting'
<1>1. /\ rows' \in Seq(RowType) /\ DOMAIN rows' = DOMAIN rows /\ rows'[r] = new
      /\ \A s \in DOMAIN rows \ {r} : rows'[s] = rows[s]
  BY DEF RowsInv, TypeOK
<1>2. /\ \A s \in DOMAIN rows : rows'[s].key = rows[s].key /\ rows[s].of \subseteq rows'[s].of
      /\ \A s \in DOMAIN rows : Sound(rows'[s], crossed')
  BY <1>1, SoundGrows DEF RowsInv, KeyInv
<1>3. \A q \in Requests : request'[q].pc # "idle" => request'[q] = request[q]
  BY DEF Idle
<1>4. KeyInv'
  <2>1. ASSUME NEW q \in Requests, request'[q].pc = "merge"
        PROVE  /\ Sound(request'[q].seen, crossed')
               /\ request'[q].seen.key = EventKey(request'[q].cb)
               /\ request'[q].seen.of \subseteq rows'[request'[q].row].of
               /\ rows'[request'[q].row].key = EventKey(request'[q].cb)
    <3>1. request'[q] = request[q] /\ request[q].row \in DOMAIN rows
      BY <1>3, <2>1, RequestTyped DEF RowsInv
    <3>2. /\ Sound(request[q].seen, crossed) /\ request[q].seen.key = EventKey(request[q].cb)
          /\ request[q].seen.of \subseteq rows[request[q].row].of
          /\ rows[request[q].row].key = EventKey(request[q].cb)
      BY <2>1, <3>1 DEF RowsInv, KeyInv
    <3>3. Sound(request[q].seen, crossed')
      BY <3>2, SoundGrows
    <3> QED BY <1>2, <3>1, <3>2, <3>3
  <2> QED BY <1>1, <1>2, <2>1 DEF KeyInv
<1>5. OneRow'
  BY <1>1, <1>2, PlainShrinks DEF RowsInv, OneRow, CallOf, Plain
<1>6. InsertInv' /\ RivalInv'
  <2>1. RivalInv'
    BY <1>3 DEF RowsInv, RivalInv
  <2>2. InsertInv'
    <3> SUFFICES ASSUME NEW q \in Requests, NEW s \in DOMAIN rows, request'[q].pc = "insert",
                        CallOf(rows'[s]) = request'[q].cb.call,
                        Plain(request'[q].cb.call, crossed', rivals)
                 PROVE  rows'[s].key = EventKey(request'[q].cb)
      BY <1>1 DEF InsertInv, Plain, Linked, CallOf, EventKey, Strong
    <3>1. request'[q] = request[q]
      BY <1>3
    <3>2. Plain(request[q].cb.call, crossed, rivals)
      BY <3>1, PlainShrinks
    <3> QED BY <1>2, <3>1, <3>2 DEF RowsInv, InsertInv, CallOf
  <2> QED BY <2>1, <2>2
<1>7. NoneLeftWaiting'
  <2> SUFFICES ASSUME NEW q \in Requests, NEW s \in DOMAIN rows, request'[q].pc = "insert",
                      request'[q].cb.stage = "final", LeadKnown(request'[q].cb.call),
                      request'[q].cb.call \in rows'[s].of \ rivals,
                      ~rows'[s].final, rows'[s].recent
               PROVE  rows'[s].key = EventKey(request'[q].cb)
    BY <1>1 DEF NoneLeftWaiting, LeadKnown, EventKey, Strong
  <2>1. request'[q] = request[q]
    BY <1>3
  <2>2. request[q].cb.call \in rows[s].of /\ ~rows[s].final /\ rows[s].recent
    <3>1. rows'[s].of = {CallOf(rows'[s])} /\ CallOf(rows'[s]) = CallOf(rows[s])
      BY <1>2 DEF Sound, OfOneCall, CallOf
    <3>2. CallOf(rows[s]) \in rows[s].of
      BY DEF RowsInv, KeyInv, Sound
    <3> QED BY <1>1, <2>1, <3>1, <3>2
  <2> QED BY <1>2, <2>1, <2>2 DEF RowsInv, NoneLeftWaiting
<1> QED BY <1>1, <1>2, <1>4, <1>5, <1>6, <1>7

LEMMA TwelveHoursStep ==
  ASSUME IInv, TypeOK', NEW r \in DOMAIN rows, TwelveHoursPass(r)
  PROVE  IInv'
<1> DEFINE new == [rows[r] EXCEPT !.recent = FALSE]
<1>1. /\ rows' = [rows EXCEPT ![r] = new]
      /\ UNCHANGED <<request, received, runs, raced, rivals, crossed>>
  BY DEF TwelveHoursPass
<1>2. /\ rows[r] \in RowType /\ Sound(rows[r], crossed) /\ rows[r].recent
      /\ request \in [Requests -> {request[q] : q \in Requests} \cup {Idle}]
  BY DEF IInv, RowsInv, TypeOK, KeyInv, TwelveHoursPass
<1>3. /\ new \in RowType /\ new.key = rows[r].key /\ new.final = rows[r].final
      /\ new.of = rows[r].of /\ new.ids = rows[r].ids
  BY <1>2 DEF RowType
<1> HIDE DEF new
<1>4. Sound(new, crossed)
  BY <1>2, <1>3 DEF Sound, OfOneCall, CallOf
<1>5. /\ DOMAIN rows' = DOMAIN rows /\ rows'[r] = new
      /\ \A s \in DOMAIN rows \ {r} : rows'[s] = rows[s]
      /\ \A s \in DOMAIN rows : rows'[s].key = rows[s].key
      /\ KeyInv' /\ OneRow' /\ RivalInv' /\ InsertInv' /\ NoneLeftWaiting'
  BY <1>1, <1>2, <1>3, <1>4, RowWritten DEF IInv, RowsInv
<1>6. PipelineInv'
  <2>1. \A s \in DOMAIN rows : rows'[s].final = rows[s].final
    BY <1>3, <1>5
  <2> QED BY <1>1, <1>5, <2>1 DEF IInv, PipelineInv, CallOf, Plain
<1> QED BY <1>5, <1>6 DEF IInv, RowsInv

(* A callback that matches a row merges into it under the row lock.  It     *)
(* starts the pipeline of an unmistaken call only if the row, which is the  *)
(* only one of the call, was still provisional.                             *)
LEMMA ReceiveMergesStep ==
  ASSUME IInv, TypeOK', NEW cb \in Callback, NEW r \in Match(cb),
         rows' = [rows EXCEPT ![r] = Merge(@, @, cb)], CountRun(cb, ~rows[r].final),
         crossed' = crossed \cup Crossing(cb),
         UNCHANGED <<request, rivals, raced>>
  PROVE  IInv'
<1> DEFINE new == Merge(rows[r], rows[r], cb)  c == cb.call
<1>1. /\ r \in DOMAIN rows /\ c \in Calls
      /\ \/ c \in rows[r].of
         \/ /\ ~rows[r].final /\ cb.stage = "final"
            /\ {CallOf(rows[r]), c} \in crossed'
  BY MatchedOfCall, CallbackTyped DEF IInv, RowsInv
<1>2. /\ rows[r] \in RowType /\ Sound(rows[r], crossed) /\ rows' = [rows EXCEPT ![r] = new]
      /\ request' \in [Requests -> {request[q] : q \in Requests} \cup {Idle}]
      /\ crossed \subseteq crossed'
  BY <1>1 DEF IInv, RowsInv, TypeOK, KeyInv
<1>3. /\ new \in RowType /\ Sound(new, crossed') /\ new.key = rows[r].key
      /\ new.final = (rows[r].final \/ cb.stage = "final")
      /\ new.recent = rows[r].recent /\ rows[r].of \subseteq new.of
  BY <1>1, <1>2, MergedSound
<1> HIDE DEF new
<1>4. /\ DOMAIN rows' = DOMAIN rows /\ rows'[r] = new
      /\ \A s \in DOMAIN rows \ {r} : rows'[s] = rows[s]
      /\ \A s \in DOMAIN rows : rows'[s].key = rows[s].key
      /\ KeyInv' /\ OneRow' /\ RivalInv' /\ InsertInv' /\ NoneLeftWaiting'
  BY <1>1, <1>2, <1>3, RowWritten DEF IInv, RowsInv
<1>5. /\ runs \in [Calls -> Nat]
      /\ runs' = IF cb.stage = "final" /\ ~rows[r].final
                   THEN [runs EXCEPT ![c] = @ + 1] ELSE runs
  BY DEF IInv, RowsInv, TypeOK, CountRun
<1>6. PipelineInv'
  <2> SUFFICES ASSUME NEW d \in Calls, d \notin raced, Plain(d, crossed', rivals)
               PROVE  \/ runs'[d] = 0
                      \/ runs'[d] = 1 /\ \E s \in DOMAIN rows : CallOf(rows'[s]) = d /\ rows'[s].final
    BY <1>4 DEF PipelineInv, CallOf, Plain, Linked
  <2>1. \A s \in DOMAIN rows : rows[s].final => rows'[s].final
    BY <1>3, <1>4
  <2>2. Plain(d, crossed, rivals)
    BY <1>2, PlainShrinks
  <2>3. \/ runs[d] = 0
        \/ runs[d] = 1 /\ \E s \in DOMAIN rows : CallOf(rows[s]) = d /\ rows[s].final
    BY <2>2 DEF IInv, PipelineInv
  <2>4. CASE runs' = runs \/ d # c
    <3>1. runs'[d] = runs[d]
      BY <1>5, <2>4
    <3> QED BY <1>4, <2>1, <2>3, <3>1 DEF CallOf
  <2>5. CASE d = c /\ cb.stage = "final" /\ ~rows[r].final
    <3>1. d \notin UNION crossed'
      BY DEF Plain
    <3>2. d \in rows[r].of
      BY <1>1, <2>5, <3>1
    <3>3. CallOf(rows[r]) = d
      BY <1>2, <2>5, <3>2 DEF Sound, OfOneCall
    <3>4. runs[d] = 0
      BY <1>1, <2>2, <2>3, <2>5, <3>3 DEF IInv, RowsInv, OneRow
    <3>5. runs'[d] = 1
      BY <1>1, <1>5, <2>5, <3>4
    <3>6. CallOf(rows'[r]) = d /\ rows'[r].final
      BY <1>3, <1>4, <2>5, <3>3 DEF CallOf
    <3> QED BY <1>1, <3>5, <3>6
  <2> QED BY <1>5, <2>4, <2>5
<1> QED BY <1>4, <1>6 DEF IInv, RowsInv

(* A callback without a match: no row of its call, if it is linked, because *)
(* they would share an identifier, and none that awaits the disposition of  *)
(* its lead.  The others about to insert the call have its key, or they are *)
(* rivals.                                                                  *)
LEMMA ReceiveInsertsStep ==
  ASSUME IInv, TypeOK', NEW q \in Requests, NEW cb \in Callback,
         Receive(q, cb), Match(cb) = {}
  PROVE  IInv'
<1> DEFINE new == [pc |-> "insert", cb |-> cb]
<1>1. /\ request[q] = Idle /\ received < MaxCallbacks /\ received' = received + 1
      /\ request' = [request EXCEPT ![q] = new]
      /\ rivals' = rivals \cup {c \in {cb.call} : \E p \in Requests :
           /\ request[p].pc = "insert" /\ request[p].cb.call = c
           /\ EventKey(request[p].cb) # EventKey(cb)}
      /\ crossed' = crossed \cup Crossing(cb)
      /\ UNCHANGED <<rows, runs, raced>>
  BY DEF Receive
<1>2. /\ cb.call \in Calls /\ cb.has \in Carried[cb.call] /\ rivals \subseteq rivals'
      /\ crossed \subseteq crossed'
  BY <1>1, CallbackTyped DEF IInv, RowsInv, TypeOK
<1>3. request'[q] = new /\ \A p \in Requests \ {q} : request'[p] = request[p]
  BY <1>1 DEF IInv, RowsInv, TypeOK
<1>4. \A c \in Calls : Plain(c, crossed', rivals') => Plain(c, crossed, rivals)
  BY <1>2, PlainShrinks
<1>5. KeyInv'
  <2>1. \A p \in Requests : request'[p].pc = "merge" => request'[p] = request[p]
    BY <1>3
  <2>2. \A r \in DOMAIN rows : Sound(rows[r], crossed')
    BY <1>2, SoundGrows DEF IInv, RowsInv, KeyInv
  <2>3. \A p \in Requests : request[p].pc = "merge" => Sound(request[p].seen, crossed')
    BY <1>2, SoundGrows DEF IInv, RowsInv, KeyInv
  <2> QED BY <1>1, <2>1, <2>2, <2>3 DEF IInv, RowsInv, KeyInv
<1>6. OneRow'
  <2>1. \A r \in DOMAIN rows : CallOf(rows[r]) \in Calls \/ ~Plain(CallOf(rows[r]), crossed, rivals)
    BY DEF IInv, RowsInv, KeyInv, Sound, OfOneCall, Plain
  <2>2. \A c : Plain(c, crossed', rivals') => Plain(c, crossed, rivals)
    BY <1>2, PlainShrinks
  <2> QED BY <1>1, <2>2 DEF IInv, RowsInv, OneRow, CallOf
<1>7. ASSUME Plain(cb.call, crossed, rivals), NEW r \in DOMAIN rows, CallOf(rows[r]) = cb.call
      PROVE  FALSE
  <2>1. OfOneCall(rows[r]) /\ Linked(cb.call)
    BY <1>7 DEF IInv, RowsInv, KeyInv, Sound, Plain
  <2> QED BY <1>7, <2>1, LinkedFinds, MatchFinds DEF IInv, RowsInv, TypeOK
<1>8. RivalInv'
  <2> SUFFICES ASSUME NEW p \in Requests, NEW o \in Requests,
                      request'[p].pc = "insert", request'[o].pc = "insert",
                      request'[p].cb.call = request'[o].cb.call,
                      request'[o].cb.call \notin rivals'
               PROVE  EventKey(request'[p].cb) = EventKey(request'[o].cb)
    BY DEF RivalInv
  <2>1. ASSUME NEW i \in Requests \ {q}, request[i].pc = "insert", request[i].cb.call = cb.call,
               cb.call \notin rivals'
        PROVE  EventKey(request[i].cb) = EventKey(cb)
    BY <1>1, <2>1
  <2>2. CASE p # q /\ o # q
    BY <1>2, <1>3, <2>2 DEF IInv, RowsInv, RivalInv
  <2>3. CASE p = q \/ o = q
    BY <1>3, <2>1, <2>3
  <2> QED BY <2>2, <2>3
<1>9. InsertInv'
  <2> SUFFICES ASSUME NEW p \in Requests, NEW r \in DOMAIN rows, request'[p].pc = "insert",
                      CallOf(rows[r]) = request'[p].cb.call,
                      Plain(request'[p].cb.call, crossed', rivals')
               PROVE  rows[r].key = EventKey(request'[p].cb)
    BY <1>1 DEF InsertInv, CallOf
  <2>1. Plain(request'[p].cb.call, crossed, rivals)
    BY <1>2, PlainShrinks
  <2>2. CASE p = q
    BY <1>3, <1>7, <2>1, <2>2
  <2>3. CASE p # q
    BY <1>3, <2>1, <2>3 DEF IInv, RowsInv, InsertInv
  <2> QED BY <2>2, <2>3
<1>10. NoneLeftWaiting'
  <2> SUFFICES ASSUME NEW p \in Requests, NEW r \in DOMAIN rows, request'[p].pc = "insert",
                      request'[p].cb.stage = "final", LeadKnown(request'[p].cb.call),
                      request'[p].cb.call \in rows[r].of \ rivals',
                      ~rows[r].final, rows[r].recent
               PROVE  rows[r].key = EventKey(request'[p].cb)
    BY <1>1 DEF NoneLeftWaiting
  <2>1. CASE p = q
    <3>1. OfOneCall(rows[r]) /\ cb.call = CallOf(rows[r])
      BY <1>3, <2>1 DEF IInv, RowsInv, KeyInv, Sound, OfOneCall
    <3>2. rows[r].ids["lead"] # None
      BY <1>3, <2>1, <3>1 DEF OfOneCall, LeadKnown
    <3>3. r \in PendingMatches(cb)
      BY <1>2, <1>3, <2>1, <3>1, <3>2 DEF PendingMatches, OfOneCall, LeadKnown
    <3> QED BY <3>3, MatchFinds DEF IInv, RowsInv, TypeOK
  <2>2. CASE p # q
    BY <1>2, <1>3, <2>2 DEF IInv, RowsInv, NoneLeftWaiting
  <2> QED BY <2>1, <2>2
<1>11. PipelineInv'
  BY <1>1, <1>4 DEF IInv, PipelineInv, CallOf
<1> QED BY <1>5, <1>6, <1>8, <1>9, <1>10, <1>11 DEF IInv, RowsInv

(* get_or_create inserts a row of a call that has none, or whose row has a  *)
(* rival; its pipeline has not been started.                                *)
LEMMA InsertAppendsStep ==
  ASSUME IInv, TypeOK', NEW q \in Requests, Insert(q), request[q].pc = "insert",
         KeyMatches(request[q].cb) = {}
  PROVE  IInv'
<1> DEFINE cb == request[q].cb  new == NewRow(cb)  c == cb.call  n == Len(rows) + 1
<1>1. /\ rows' = Append(rows, new) /\ request' = [request EXCEPT ![q] = Idle]
      /\ runs' = IF cb.stage = "final" THEN [runs EXCEPT ![c] = @ + 1] ELSE runs
      /\ UNCHANGED <<received, raced, rivals, crossed>>
  BY DEF Insert, CountRun
<1>2. cb \in Callback /\ cb.call \in Calls /\ cb.has \in Carried[cb.call] /\ cb.has \subseteq Fields
  BY RequestTyped, CallbackTyped DEF IInv, RowsInv
<1>3. /\ CallOf(new) = c /\ new.key = EventKey(cb) /\ new.final = (cb.stage = "final")
      /\ new.of = {c} /\ \A f \in cb.has : new.ids[f] # None
      /\ \A i \in 1 .. 3 : new.ids[IdFields[i]] = IF IdFields[i] \in cb.has THEN c ELSE None
      /\ new.ids["lead"] = IF "lead" \in cb.has THEN LeadOf[c] ELSE None
  <2>1. \A f \in cb.has : Value(cb, f) # None
    BY <1>2, LeadsApart DEF Value
  <2> QED BY <1>2, <2>1, KeyNamesCall, CallbackTyped, FieldsNamed DEF NewRow, CallOf
<1>4. Sound(new, crossed)
  <2> HIDE DEF new
  <2> QED BY <1>2, <1>3 DEF OfOneCall, Sound
<1> HIDE DEF new, cb
<1>5. /\ n \in Nat /\ DOMAIN rows' = DOMAIN rows \cup {n} /\ rows'[n] = new
      /\ n \notin DOMAIN rows /\ \A r \in DOMAIN rows : rows'[r] = rows[r]
  BY <1>1 DEF IInv, RowsInv, TypeOK
<1>6. /\ request'[q] = Idle /\ \A p \in Requests \ {q} : request'[p] = request[p]
      /\ \A p \in Requests : request'[p].pc # "idle" => p # q /\ request'[p] = request[p]
  BY <1>1 DEF IInv, RowsInv, TypeOK, Idle
<1>7. ASSUME Plain(c, crossed, rivals) PROVE \A r \in DOMAIN rows : CallOf(rows[r]) # c
  <2>1. \A r \in DOMAIN rows : CallOf(rows[r]) = c => rows[r].key = EventKey(cb)
    BY <1>7 DEF IInv, RowsInv, InsertInv, cb
  <2> QED BY <2>1 DEF KeyMatches, cb
<1>8. KeyInv'
  <2>1. \A r \in DOMAIN rows' : Sound(rows'[r], crossed)
    BY <1>4, <1>5 DEF IInv, RowsInv, KeyInv
  <2>2. ASSUME NEW p \in Requests, request'[p].pc = "merge"
        PROVE  /\ Sound(request'[p].seen, crossed)
               /\ request'[p].seen.key = EventKey(request'[p].cb)
               /\ request'[p].seen.of \subseteq rows'[request'[p].row].of
               /\ rows'[request'[p].row].key = EventKey(request'[p].cb)
    <3>1. request'[p] = request[p] /\ request[p].row \in DOMAIN rows
      BY <1>6, <2>2, RequestTyped DEF IInv, RowsInv
    <3> QED BY <1>5, <2>2, <3>1 DEF IInv, RowsInv, KeyInv
  <2> QED BY <1>1, <2>1, <2>2 DEF KeyInv
<1>9. OneRow'
  <2> SUFFICES ASSUME NEW r \in DOMAIN rows', NEW s \in DOMAIN rows',
                      CallOf(rows'[r]) = CallOf(rows'[s]),
                      Plain(CallOf(rows'[r]), crossed, rivals)
               PROVE  r = s
    BY <1>1 DEF OneRow, CallOf
  <2>1. CASE r \in DOMAIN rows /\ s \in DOMAIN rows
    BY <1>5, <2>1 DEF IInv, RowsInv, OneRow
  <2>2. CASE r = n \/ s = n
    BY <1>3, <1>5, <1>7, <2>2
  <2> QED BY <1>5, <2>1, <2>2
<1>10. RivalInv'
  BY <1>1, <1>6 DEF IInv, RowsInv, RivalInv
<1>11. InsertInv'
  <2> SUFFICES ASSUME NEW p \in Requests, NEW r \in DOMAIN rows', request'[p].pc = "insert",
                      CallOf(rows'[r]) = request'[p].cb.call,
                      Plain(request'[p].cb.call, crossed, rivals)
               PROVE  rows'[r].key = EventKey(request'[p].cb)
    BY <1>1 DEF InsertInv, CallOf
  <2>1. request'[p] = request[p]
    BY <1>6
  <2>2. CASE r \in DOMAIN rows
    BY <1>5, <2>1, <2>2 DEF IInv, RowsInv, InsertInv
  <2>3. CASE r = n
    <3>1. c = request[p].cb.call /\ c \notin rivals
      BY <1>3, <1>5, <2>1, <2>3 DEF Plain
    <3>2. EventKey(request[p].cb) = EventKey(cb)
      BY <2>1, <3>1 DEF IInv, RowsInv, RivalInv, cb
    <3> QED BY <1>3, <1>5, <2>1, <2>3, <3>2
  <2> QED BY <1>5, <2>2, <2>3
<1>12. NoneLeftWaiting'
  <2> SUFFICES ASSUME NEW p \in Requests, NEW r \in DOMAIN rows', request'[p].pc = "insert",
                      request'[p].cb.stage = "final", LeadKnown(request'[p].cb.call),
                      request'[p].cb.call \in rows'[r].of \ rivals,
                      ~rows'[r].final, rows'[r].recent
               PROVE  rows'[r].key = EventKey(request'[p].cb)
    BY <1>1 DEF NoneLeftWaiting
  <2>1. request'[p] = request[p]
    BY <1>6
  <2>2. CASE r \in DOMAIN rows
    BY <1>5, <2>1, <2>2 DEF IInv, RowsInv, NoneLeftWaiting
  <2>3. CASE r = n
    <3>1. c = request[p].cb.call /\ c \notin rivals
      BY <1>3, <1>5, <2>1, <2>3
    <3>2. EventKey(request[p].cb) = EventKey(cb)
      BY <2>1, <3>1 DEF IInv, RowsInv, RivalInv, cb
    <3> QED BY <1>3, <1>5, <2>1, <2>3, <3>2
  <2> QED BY <1>5, <2>2, <2>3
<1>13. PipelineInv'
  <2> SUFFICES ASSUME NEW d \in Calls, d \notin raced, Plain(d, crossed, rivals)
               PROVE  \/ runs'[d] = 0
                      \/ runs'[d] = 1 /\ \E s \in DOMAIN rows' : CallOf(rows'[s]) = d /\ rows'[s].final
    BY <1>1 DEF PipelineInv, CallOf
  <2>1. \/ runs[d] = 0
        \/ runs[d] = 1 /\ \E s \in DOMAIN rows : CallOf(rows[s]) = d /\ rows[s].final
    BY DEF IInv, PipelineInv
  <2>2. runs \in [Calls -> Nat]
    BY DEF IInv, RowsInv, TypeOK
  <2>3. CASE runs' = runs \/ d # c
    <3>1. runs'[d] = runs[d]
      BY <1>1, <2>2, <2>3
    <3> QED BY <1>5, <2>1, <3>1
  <2>4. CASE d = c /\ cb.stage = "final"
    <3>1. runs[d] = 0
      BY <1>7, <2>1, <2>4
    <3>2. runs'[d] = 1
      BY <1>1, <2>2, <2>4, <3>1
    <3>3. n \in DOMAIN rows' /\ CallOf(rows'[n]) = d /\ rows'[n].final
      BY <1>3, <1>5, <2>4
    <3> QED BY <3>2, <3>3
  <2> QED BY <1>1, <2>3, <2>4
<1> QED BY <1>8, <1>9, <1>10, <1>11, <1>12, <1>13 DEF IInv, RowsInv

(* The row another request inserted is fetched: a row of the same key.      *)
LEMMA InsertFetchesStep ==
  ASSUME IInv, TypeOK', NEW q \in Requests, Insert(q), request[q].pc = "insert",
         KeyMatches(request[q].cb) # {}
  PROVE  IInv'
<1> DEFINE cb == request[q].cb
<1>1. PICK r \in KeyMatches(cb) :
        request' = [request EXCEPT ![q] = [pc |-> "merge", cb |-> cb, row |-> r, seen |-> rows[r]]]
  BY DEF Insert
<1>2. UNCHANGED <<rows, runs, received, raced, rivals, crossed>>
  BY DEF Insert
<1>3. /\ request'[q] = [pc |-> "merge", cb |-> cb, row |-> r, seen |-> rows[r]]
      /\ \A p \in Requests \ {q} : request'[p] = request[p]
  BY <1>1 DEF IInv, RowsInv, TypeOK
<1>4. r \in DOMAIN rows /\ rows[r].key = EventKey(cb) /\ Sound(rows[r], crossed)
  BY DEF KeyMatches, IInv, RowsInv, KeyInv
<1> HIDE DEF cb
<1>5. KeyInv'
  <2>1. ASSUME NEW p \in Requests, request'[p].pc = "merge"
        PROVE  /\ Sound(request'[p].seen, crossed)
               /\ request'[p].seen.key = EventKey(request'[p].cb)
               /\ request'[p].seen.of \subseteq rows[request'[p].row].of
               /\ rows[request'[p].row].key = EventKey(request'[p].cb)
    BY <1>3, <1>4, <2>1 DEF IInv, RowsInv, KeyInv
  <2> QED BY <1>2, <2>1 DEF IInv, RowsInv, KeyInv
<1>6. OneRow' /\ PipelineInv'
  BY <1>2 DEF IInv, RowsInv, OneRow, PipelineInv, CallOf
<1>7. \A o \in Requests : request'[o].pc = "insert" => request'[o] = request[o]
  BY <1>3
<1>8. RivalInv' /\ InsertInv' /\ NoneLeftWaiting'
  BY <1>2, <1>7 DEF IInv, RowsInv, RivalInv, InsertInv, NoneLeftWaiting, CallOf
<1> QED BY <1>5, <1>6, <1>8 DEF IInv, RowsInv

(* The fetched row is merged into without the lock: from what the request   *)
(* read, it may start the pipeline again, which makes the call one of       *)
(* raced.                                                                   *)
LEMMA UnlockedMergeStep ==
  ASSUME IInv, TypeOK', NEW q \in Requests, UnlockedMerge(q)
  PROVE  IInv'
<1> DEFINE cb == request[q].cb  r == request[q].row  seen == request[q].seen
           new == Merge(rows[r], seen, cb)
<1>1. /\ rows' = [rows EXCEPT ![r] = new] /\ request' = [request EXCEPT ![q] = Idle]
      /\ raced' = raced \cup {cb.call} /\ rivals' = rivals /\ crossed' = crossed
      /\ runs' = IF cb.stage = "final" /\ ~seen.final THEN [runs EXCEPT ![cb.call] = @ + 1] ELSE runs
  BY DEF UnlockedMerge, CountRun
<1>2. cb \in Callback /\ r \in DOMAIN rows /\ seen \in RowType /\ cb.call \in Calls
  BY RequestTyped, CallbackTyped DEF IInv, RowsInv, UnlockedMerge
<1>3. /\ rows[r] \in RowType /\ Sound(rows[r], crossed) /\ Sound(seen, crossed)
      /\ seen.key = EventKey(cb) /\ rows[r].key = EventKey(cb) /\ seen.of \subseteq rows[r].of
  BY <1>2 DEF IInv, RowsInv, TypeOK, KeyInv, UnlockedMerge
<1>4. cb.call \in rows[r].of
  BY <1>2, <1>3, KeyNamesCall DEF CallOf, Sound
<1>5. /\ new \in RowType /\ Sound(new, crossed) /\ new.key = rows[r].key
      /\ new.final = (rows[r].final \/ cb.stage = "final")
      /\ new.recent = rows[r].recent /\ rows[r].of \subseteq new.of
  <2> HIDE DEF cb, r, seen
  <2> QED BY <1>2, <1>3, <1>4, MergedSound
<1> HIDE DEF cb, r, seen, new
<1>6. /\ request' \in [Requests -> {request[p] : p \in Requests} \cup {Idle}]
      /\ \A p \in Requests : request'[p] = request[p] \/ request'[p] = Idle
  BY <1>1 DEF IInv, RowsInv, TypeOK
<1>7. /\ DOMAIN rows' = DOMAIN rows /\ rows'[r] = new
      /\ \A s \in DOMAIN rows \ {r} : rows'[s] = rows[s]
      /\ \A s \in DOMAIN rows : rows'[s].key = rows[s].key
      /\ KeyInv' /\ OneRow' /\ RivalInv' /\ InsertInv' /\ NoneLeftWaiting'
  BY <1>1, <1>2, <1>5, <1>6, RowWritten DEF IInv
<1>8. PipelineInv'
  <2>1. \A s \in DOMAIN rows : rows[s].final => rows'[s].final
    BY <1>5, <1>7
  <2>2. \A d \in Calls \ {cb.call} : runs'[d] = runs[d]
    BY <1>1, <1>2 DEF IInv, RowsInv, TypeOK
  <2> QED BY <1>1, <1>7, <2>1, <2>2 DEF IInv, PipelineInv, CallOf
<1> QED BY <1>7, <1>8 DEF IInv, RowsInv

----------------------------------------------------------------------------
(* Types, whatever the leads and the identifiers are.                       *)
LEMMA MergeTyped ==
  ASSUME NEW row \in RowType, NEW seen \in RowType, NEW cb \in Callback
  PROVE  Merge(row, seen, cb) \in RowType /\ (row.final => Merge(row, seen, cb).final)
<1>1. /\ \A f \in Fields : row.ids[f] \in Calls \cup Leads \cup {None}
      /\ \A f \in Fields : seen.ids[f] \in Calls \cup Leads \cup {None}
      /\ \A f \in Fields : Value(cb, f) \in Calls \cup Leads \cup {None}
  BY CallbackTyped DEF RowType
<1>2. MergeStart(row, seen, cb) \in RowType /\ MergeStart(row, seen, cb).final = row.final
  <2> DEFINE ids == [f \in Fields |-> IF f \in cb.has /\ seen.ids[f] = None
                                      THEN Value(cb, f) ELSE row.ids[f]]
  <2>1. ids \in [Fields -> Calls \cup Leads \cup {None}]
    BY <1>1
  <2>2. MergeStart(row, seen, cb) = [row EXCEPT !.ids = ids]
    BY DEF MergeStart
  <2> HIDE DEF ids
  <2> QED BY <2>1, <2>2 DEF RowType
<1>3. MergeFinal(row, seen, cb) \in RowType /\ MergeFinal(row, seen, cb).final
  <2> DEFINE ids == [f \in Fields |-> IF f \in cb.has THEN Value(cb, f) ELSE seen.ids[f]]
  <2>1. ids \in [Fields -> Calls \cup Leads \cup {None}]
    BY <1>1
  <2>2. MergeFinal(row, seen, cb) = [seen EXCEPT !.final = TRUE, !.recent = row.recent, !.ids = ids]
    BY DEF MergeFinal
  <2> HIDE DEF ids
  <2> QED BY <2>1, <2>2 DEF RowType
<1>4. row.of \cup {cb.call} \in SUBSET Calls
  BY CallbackTyped DEF RowType
<1>5. ASSUME NEW saved \in RowType
      PROVE  /\ [saved EXCEPT !.of = row.of \cup {cb.call}] \in RowType
             /\ [saved EXCEPT !.of = row.of \cup {cb.call}].final = saved.final
  BY <1>4 DEF RowType
<1> QED BY <1>2, <1>3, <1>5 DEF Merge

LEMMA NewRowTyped == \A cb \in Callback : NewRow(cb) \in RowType
<1> SUFFICES ASSUME NEW cb \in Callback PROVE NewRow(cb) \in RowType
  OBVIOUS
<1>1. EventKey(cb) \in Keys
  BY DEF Keys
<1>2. [f \in Fields |-> Value(cb, f)] \in [Fields -> Calls \cup Leads \cup {None}]
  BY CallbackTyped
<1>3. {cb.call} \in SUBSET Calls
  BY CallbackTyped
<1> QED BY <1>1, <1>2, <1>3 DEF NewRow, RowType

LEMMA MatchedTyped ==
  ASSUME TypeOK, NEW cb, NEW r \in Match(cb)
  PROVE  r \in DOMAIN rows
BY MatchFinds DEF TypeOK, KeyMatches, StrongMatches, PendingMatches

LEMMA RunTyped ==
  ASSUME TypeOK, NEW cb \in Callback, NEW pending, CountRun(cb, pending)
  PROVE  runs' \in [Calls -> Nat]
BY CallbackTyped DEF TypeOK, CountRun

InsertType == [pc : {"insert"}, cb : Callback]
MergeType(n) == [pc : {"merge"}, cb : Callback, row : 1 .. n, seen : RowType]

LEMMA RowsTyped ==
  TypeOK <=>
    /\ rows \in Seq(RowType)
    /\ request \in [Requests -> {Idle} \cup InsertType \cup MergeType(Len(rows))]
    /\ received \in 0 .. MaxCallbacks
    /\ runs \in [Calls -> Nat] /\ raced \in SUBSET Calls /\ rivals \in SUBSET Calls
    /\ crossed \in SUBSET SUBSET Calls
<1>1. rows \in Seq(RowType) => DOMAIN rows = 1 .. Len(rows)
  OBVIOUS
<1> QED BY <1>1 DEF TypeOK, InsertType, MergeType

LEMMA InitTyped == Init => TypeOK
BY MatchingAssumption DEF Init, TypeOK, Idle

LEMMA ReceiveTyped ==
  ASSUME TypeOK, NEW q \in Requests, NEW cb \in Callback, Receive(q, cb)
  PROVE  TypeOK'
<1>1. /\ received' \in 0 .. MaxCallbacks /\ raced' = raced
      /\ crossed' \in SUBSET SUBSET Calls
  <2>1. Crossing(cb) \subseteq SUBSET Calls
    BY CallbackTyped DEF Crossing
  <2> QED BY <2>1, MatchingAssumption DEF TypeOK, Receive
<1>2. CASE Match(cb) = {}
  <2>1. UNCHANGED <<rows, runs>> /\ request' = [request EXCEPT ![q] = [pc |-> "insert", cb |-> cb]]
    BY <1>2 DEF Receive
  <2>2. [pc |-> "insert", cb |-> cb] \in InsertType
    BY DEF InsertType
  <2>3. rivals' \in SUBSET Calls
    BY <1>2, CallbackTyped DEF Receive, TypeOK
  <2> QED BY <1>1, <2>1, <2>2, <2>3, RowsTyped DEF TypeOK
<1>3. CASE Match(cb) # {}
  <2>1. PICK r \in Match(cb) : /\ rows' = [rows EXCEPT ![r] = Merge(rows[r], rows[r], cb)]
                               /\ CountRun(cb, ~rows[r].final)
                               /\ UNCHANGED <<request, rivals>>
    BY <1>3 DEF Receive
  <2>2. r \in DOMAIN rows /\ rows[r] \in RowType
    BY MatchedTyped DEF TypeOK
  <2>3. Merge(rows[r], rows[r], cb) \in RowType
    BY <2>2, MergeTyped
  <2>4. rows' \in Seq(RowType) /\ DOMAIN rows' = DOMAIN rows
    BY <2>1, <2>2, <2>3 DEF TypeOK
  <2>5. runs' \in [Calls -> Nat]
    BY <2>1, RunTyped
  <2> QED BY <1>1, <2>1, <2>4, <2>5 DEF TypeOK
<1> QED BY <1>2, <1>3

LEMMA InsertTyped ==
  ASSUME TypeOK, NEW q \in Requests, Insert(q)
  PROVE  TypeOK'
<1> DEFINE cb == request[q].cb
<1>1. cb \in Callback /\ UNCHANGED <<received, raced, rivals, crossed>>
  BY RequestTyped DEF Insert
<1>2. CASE KeyMatches(cb) = {}
  <2>1. /\ rows' = Append(rows, NewRow(cb)) /\ request' = [request EXCEPT ![q] = Idle]
        /\ runs' \in [Calls -> Nat]
    BY <1>1, <1>2, RunTyped DEF Insert
  <2>2. /\ rows' \in Seq(RowType) /\ Len(rows') = Len(rows) + 1 /\ Len(rows) \in Nat
    BY <1>1, <2>1, NewRowTyped DEF TypeOK
  <2>3. MergeType(Len(rows)) \subseteq MergeType(Len(rows'))
    BY <2>2 DEF MergeType
  <2>4. request' \in [Requests -> {Idle} \cup InsertType \cup MergeType(Len(rows'))]
    BY <2>1, <2>3, RowsTyped
  <2> HIDE DEF cb
  <2> QED BY <1>1, <2>1, <2>2, <2>4, RowsTyped DEF TypeOK, InsertType, MergeType
<1>3. CASE KeyMatches(cb) # {}
  <2>1. PICK r \in KeyMatches(cb) :
          request' = [request EXCEPT ![q] = [pc |-> "merge", cb |-> cb, row |-> r, seen |-> rows[r]]]
    BY <1>3 DEF Insert
  <2>2. UNCHANGED <<rows, runs>>
    BY <1>3 DEF Insert
  <2>3. r \in 1 .. Len(rows) /\ rows[r] \in RowType
    BY DEF KeyMatches, TypeOK
  <2> HIDE DEF cb
  <2>4. [pc |-> "merge", cb |-> cb, row |-> r, seen |-> rows[r]] \in MergeType(Len(rows))
    BY <1>1, <2>3 DEF MergeType
  <2>5. request' \in [Requests -> {Idle} \cup InsertType \cup MergeType(Len(rows))]
    BY <2>1, <2>4, RowsTyped
  <2> QED BY <1>1, <2>2, <2>5, RowsTyped DEF TypeOK, InsertType, MergeType
<1> QED BY <1>2, <1>3

LEMMA UnlockedMergeTyped ==
  ASSUME TypeOK, NEW q \in Requests, UnlockedMerge(q)
  PROVE  TypeOK'
<1> DEFINE cb == request[q].cb  r == request[q].row  seen == request[q].seen
           new == Merge(rows[r], seen, cb)
<1>1. cb \in Callback /\ r \in DOMAIN rows /\ seen \in RowType /\ cb.call \in Calls
  BY RequestTyped, CallbackTyped DEF UnlockedMerge
<1>2. new \in RowType
  <2>1. rows[r] \in RowType
    BY <1>1 DEF TypeOK
  <2> HIDE DEF cb, r, seen
  <2> QED BY <1>1, <2>1, MergeTyped
<1>3. /\ rows' = [rows EXCEPT ![r] = new] /\ request' = [request EXCEPT ![q] = Idle]
      /\ raced' = raced \cup {cb.call} /\ UNCHANGED <<received, rivals, crossed>>
  BY DEF UnlockedMerge
<1>4. runs' \in [Calls -> Nat]
  BY <1>1, RunTyped DEF UnlockedMerge
<1> HIDE DEF new, cb, r, seen
<1>5. rows' \in Seq(RowType) /\ DOMAIN rows' = DOMAIN rows
  BY <1>1, <1>2, <1>3 DEF TypeOK
<1> QED BY <1>1, <1>3, <1>4, <1>5 DEF TypeOK

LEMMA TwelveHoursTyped ==
  ASSUME TypeOK, NEW r \in DOMAIN rows, TwelveHoursPass(r)
  PROVE  TypeOK'
<1>1. [rows[r] EXCEPT !.recent = FALSE] \in RowType
  <2>1. rows[r] \in RowType
    BY DEF TypeOK
  <2> QED BY <2>1 DEF RowType
<1>2. /\ rows' = [rows EXCEPT ![r] = [rows[r] EXCEPT !.recent = FALSE]]
      /\ UNCHANGED <<request, received, runs, raced, rivals, crossed>>
  BY DEF TwelveHoursPass
<1>3. rows' \in Seq(RowType) /\ DOMAIN rows' = DOMAIN rows
  BY <1>1, <1>2 DEF TypeOK
<1> QED BY <1>2, <1>3 DEF TypeOK

LEMMA NextTyped == TypeOK /\ [Next]_vars => TypeOK'
<1>1. TypeOK /\ UNCHANGED vars => TypeOK'
  BY DEF vars, TypeOK
<1> QED BY <1>1, ReceiveTyped, InsertTyped, UnlockedMergeTyped, TwelveHoursTyped DEF Next

(* Every variable keeps its type, for any calls, leads and callbacks.       *)
THEOREM RowsKeepType == Spec => []TypeOK
BY InitTyped, NextTyped, PTL DEF Spec

----------------------------------------------------------------------------
LEMMA InitIInv == Init => IInv
<1> SUFFICES ASSUME Init PROVE IInv
  OBVIOUS
<1>1. /\ rows = <<>> /\ \A q \in Requests : request[q].pc = "idle"
      /\ \A c \in Calls : runs[c] = 0
  BY DEF Init, Idle
<1>2. KeyInv /\ OneRow /\ RivalInv /\ InsertInv /\ NoneLeftWaiting /\ PipelineInv
  BY <1>1 DEF KeyInv, OneRow, RivalInv, InsertInv, NoneLeftWaiting, PipelineInv
<1> QED BY <1>2, InitTyped DEF IInv, RowsInv

LEMMA NextIInv == IInv /\ [Next]_vars => IInv'
<1> SUFFICES ASSUME IInv, [Next]_vars PROVE IInv'
  OBVIOUS
<1>1. TypeOK'
  BY NextTyped DEF IInv, RowsInv
<1>2. ASSUME NEW q \in Requests, NEW cb \in Callback, Receive(q, cb) PROVE IInv'
  <2>1. CASE Match(cb) = {}
    BY <1>1, <1>2, <2>1, ReceiveInsertsStep
  <2>2. CASE Match(cb) # {}
    <3>1. PICK r \in Match(cb) : /\ rows' = [rows EXCEPT ![r] = Merge(rows[r], rows[r], cb)]
                                 /\ CountRun(cb, ~rows[r].final)
                                 /\ UNCHANGED <<request, rivals>>
      BY <1>2, <2>2 DEF Receive
    <3>2. raced' = raced /\ crossed' = crossed \cup Crossing(cb)
      BY <1>2 DEF Receive
    <3> QED BY <1>1, <3>1, <3>2, ReceiveMergesStep
  <2> QED BY <2>1, <2>2
<1>3. ASSUME NEW q \in Requests, Insert(q) PROVE IInv'
  BY <1>1, <1>3, InsertAppendsStep, InsertFetchesStep DEF Insert
<1>4. ASSUME NEW q \in Requests, UnlockedMerge(q) PROVE IInv'
  BY <1>1, <1>4, UnlockedMergeStep
<1>5. ASSUME NEW r \in DOMAIN rows, TwelveHoursPass(r) PROVE IInv'
  BY <1>1, <1>5, TwelveHoursStep
<1>6. CASE UNCHANGED vars
  <2>1. UNCHANGED <<rows, request, runs, raced, rivals, crossed>>
    BY <1>6 DEF vars
  <2>2. KeyInv'
    BY <2>1 DEF IInv, RowsInv, KeyInv
  <2>3. OneRow' /\ PipelineInv'
    BY <2>1 DEF IInv, RowsInv, OneRow, PipelineInv
  <2>4. RivalInv' /\ InsertInv'
    BY <2>1 DEF IInv, RowsInv, RivalInv, InsertInv
  <2>5. NoneLeftWaiting'
    BY <2>1 DEF IInv, RowsInv, NoneLeftWaiting
  <2> QED BY <1>1, <2>2, <2>3, <2>4, <2>5 DEF IInv, RowsInv
<1> QED BY <1>2, <1>3, <1>4, <1>5, <1>6 DEF Next

LEMMA RowsInvariant == Spec => []IInv
BY InitIInv, NextIInv, PTL DEF Spec

(* Callbacks that know a call by different identifiers, or by its lead,     *)
(* meet in one row, and callbacks of two calls in none, for any calls, also *)
(* several of one lead and agent, and any identifiers: save for the calls   *)
(* of one lead that a disposition may have mixed, those inserted by rivals, *)
(* and those with callbacks that share no identifier (webhooks.py:264-444). *)
THEOREM RowsFitCalls == Spec => []RowsAreCalls
<1>1. IInv => RowsAreCalls
  <2> SUFFICES ASSUME IInv PROVE RowsAreCalls
    OBVIOUS
  <2>1. \A r \in DOMAIN rows : Sound(rows[r], crossed)
    BY DEF IInv, RowsInv, KeyInv
  <2>2. RowHoldsOneCall
    BY <2>1 DEF RowHoldsOneCall, Sound
  <2>3. OneRowPerCall
    <3> SUFFICES ASSUME NEW r \in DOMAIN rows, NEW s \in DOMAIN rows, NEW c \in Calls,
                        c \in rows[r].of, c \in rows[s].of, c \notin rivals,
                        c \notin UNION crossed, Linked(c)
                 PROVE  r = s
      BY DEF OneRowPerCall, Mistaken
    <3>1. CallOf(rows[r]) = c /\ CallOf(rows[s]) = c
      BY <2>1, SoundOfOne
    <3> QED BY <3>1 DEF IInv, RowsInv, OneRow, Plain
  <2> QED BY <2>2, <2>3 DEF RowsAreCalls, IInv, RowsInv
<1> QED BY <1>1, RowsInvariant, PTL

(* Duplicate dispositions start the pipeline of a call once, unless one of  *)
(* them was merged without the row lock or inserted by a rival, or the call *)
(* was mistaken for another of its lead (webhooks.py:425-444).              *)
THEOREM PipelineOnce == Spec => []PipelineOncePerCall
<1>1. IInv => PipelineOncePerCall
  <2> SUFFICES ASSUME IInv, NEW c \in Calls, c \notin raced, c \notin rivals,
                      c \notin UNION crossed, Linked(c)
               PROVE  runs[c] <= 1
    BY DEF PipelineOncePerCall, Mistaken
  <2>1. Plain(c, crossed, rivals)
    BY DEF Plain
  <2> QED BY <2>1 DEF IInv, PipelineInv
<1> QED BY <1>1, RowsInvariant, PTL

(* No step takes the finality of a row back, not even the merge of a        *)
(* request that read the row while it was provisional.                      *)
LEMMA FinalKeptStep ==
  ASSUME TypeOK, [Next]_vars, NEW r \in DOMAIN rows, rows[r].final
  PROVE  rows'[r].final
<1>1. rows \in Seq(RowType) /\ \A s \in DOMAIN rows : rows[s] \in RowType
  BY DEF TypeOK
<1>2. ASSUME NEW s \in DOMAIN rows, NEW seen \in RowType, NEW cb \in Callback,
             rows' = [rows EXCEPT ![s] = Merge(rows[s], seen, cb)]
      PROVE  rows'[r].final
  BY <1>1, <1>2, MergeTyped
<1>3. ASSUME NEW q \in Requests, NEW cb \in Callback, Receive(q, cb) PROVE rows'[r].final
  <2>1. CASE Match(cb) = {}
    BY <1>3, <2>1 DEF Receive
  <2>2. CASE Match(cb) # {}
    <3>1. PICK s \in Match(cb) : rows' = [rows EXCEPT ![s] = Merge(rows[s], rows[s], cb)]
      BY <1>3, <2>2 DEF Receive
    <3> QED BY <1>1, <1>2, <3>1, MatchedTyped
  <2> QED BY <2>1, <2>2
<1>4. ASSUME NEW q \in Requests, Insert(q) PROVE rows'[r].final
  <2>1. rows' = rows \/ rows' = Append(rows, NewRow(request[q].cb))
    BY <1>4 DEF Insert
  <2>2. NewRow(request[q].cb) \in RowType
    BY <1>4, RequestTyped, NewRowTyped DEF Insert
  <2> HIDE DEF NewRow
  <2> QED BY <1>1, <2>1, <2>2
<1>5. ASSUME NEW q \in Requests, UnlockedMerge(q) PROVE rows'[r].final
  <2>1. /\ request[q].cb \in Callback /\ request[q].row \in DOMAIN rows
        /\ request[q].seen \in RowType
    BY <1>5, RequestTyped DEF UnlockedMerge
  <2>2. rows' = [rows EXCEPT ![request[q].row] =
                   Merge(rows[request[q].row], request[q].seen, request[q].cb)]
    BY <1>5 DEF UnlockedMerge
  <2> QED BY <1>2, <2>1, <2>2
<1>6. ASSUME NEW s \in DOMAIN rows, TwelveHoursPass(s) PROVE rows'[r].final
  <2>1. rows' = [rows EXCEPT ![s] = [rows[s] EXCEPT !.recent = FALSE]]
    BY <1>6 DEF TwelveHoursPass
  <2>2. [rows[s] EXCEPT !.recent = FALSE].final = rows[s].final
    BY <1>1 DEF RowType
  <2> QED BY <1>1, <2>1, <2>2
<1>7. CASE UNCHANGED vars
  BY <1>7 DEF vars
<1> QED BY <1>3, <1>4, <1>5, <1>6, <1>7 DEF Next

(* A row that was finalized is never provisional again, whatever requests   *)
(* read it before and save it after (webhooks.py:366-420).                  *)
THEOREM FinalStays == Spec => FinalNeverLost
<1>1. TypeOK /\ [Next]_vars => [\A r \in DOMAIN rows : rows[r].final => rows'[r].final]_rows
  BY FinalKeptStep
<1> QED BY <1>1, InitTyped, NextTyped, PTL DEF Spec, FinalNeverLost

----------------------------------------------------------------------------
(***************************************************************************)
(* CallLibrary: playback.  What a reply announced is a fact of the header  *)
(* and of the size that was read; how much of it is sent is a fact of the  *)
(* file that was opened.  The two files are one unless one was replaced.   *)
(***************************************************************************)
Versions == [version : Nat, size : Sizes]
Reply == [step : {"sized", "open", "done"}, asked : Header \cup {Blank},
          status : {200, 206, 416}, start : Nat, size : Sizes, length : Int, sent : Nat,
          of : Versions]

StreamTyped == /\ file \in Versions /\ replaced \in BOOLEAN
               /\ stream = Silent \/ stream \in Reply

\* The bytes announced are the bytes asked for.
Announced(s) ==
  /\ s.status = 416 => s.step = "done" /\ Asked(s.asked, s.size) = {}
  /\ s.status = 200 => s.asked = Blank /\ s.start = 0 /\ s.length = s.size
  /\ s.status = 206 => /\ s.length > 0 /\ s.start + s.length <= s.size
                       /\ Asked(s.asked, s.size) = s.start .. (s.start + s.length - 1)

\* The bytes sent lie in the open file, and sending ends with it or with the range.
Sent(s) ==
  /\ s.step = "sized" => s.sent = 0
  /\ s.sent = 0 \/ s.start + s.sent <= s.of.size
  /\ s.status = 206 => s.sent <= s.length
  /\ s.step = "done" /\ s.status # 416 =>
       s.start + s.sent >= s.of.size \/ (s.status = 206 /\ s.sent >= s.length)

OneFile ==
  ~replaced => IF stream.step = "sized" THEN file.size = stream.size
               ELSE stream.of.size = stream.size

PlaybackIInv == StreamTyped /\ (stream # Silent => Announced(stream) /\ Sent(stream) /\ OneFile)

LEMMA BlocksTyped ==
  /\ Sizes \subseteq Nat /\ Offsets \subseteq Nat /\ Chunk \in Nat \ {0} /\ Blank \notin Nat
BY LibraryAssumption

(* _range_bounds: the range is inside the file and holds the bytes asked    *)
(* for; there are none when it answers None.                                *)
LEMMA RangeFacts ==
  ASSUME NEW h \in Header, h # Blank, NEW size \in Nat
  PROVE  LET r == RangeBounds(h, size) IN
         \/ r.status = 416 /\ r.start = 0 /\ r.end = 0 /\ Asked(h, size) = {}
         \/ /\ r.status = 206 /\ r.start \in Nat /\ r.end \in Nat
            /\ r.start <= r.end /\ r.end < size
            /\ Asked(h, size) = r.start .. r.end
<1>1. /\ h.first = Blank \/ h.first \in Nat
      /\ h.last = Blank \/ h.last \in Nat
      /\ Blank \notin Nat
  BY BlocksTyped DEF Header
<1> DEFINE end == IF h.last = Blank \/ h.last >= size THEN size - 1 ELSE h.last
           suffix == IF h.last > size THEN 0 ELSE size - h.last
<1>2. Asked(h, size) = {b \in 0 .. (size - 1) :
        IF h.first = Blank THEN h.last # Blank /\ b >= size - h.last
        ELSE b >= h.first /\ (h.last = Blank \/ b <= h.last)}
  BY DEF Asked
<1>3. CASE size <= 0 \/ (h.first = Blank /\ h.last \in {Blank, 0})
  <2>1. RangeBounds(h, size) = NoRange
    BY <1>3 DEF RangeBounds
  <2>2. Asked(h, size) = {}
    BY <1>1, <1>2, <1>3
  <2> QED BY <2>1, <2>2 DEF NoRange
<1>4. CASE size > 0 /\ h.first = Blank /\ h.last \notin {Blank, 0}
  <2>1. h.last \in Nat /\ suffix \in Nat /\ suffix <= size - 1
    BY <1>1, <1>4
  <2>2. RangeBounds(h, size) = [status |-> 206, start |-> suffix, end |-> size - 1]
    BY <1>1, <1>4 DEF RangeBounds
  <2>3. \A b \in 0 .. (size - 1) : b >= size - h.last <=> b >= suffix
    BY <2>1
  <2>4. Asked(h, size) = {b \in 0 .. (size - 1) : b >= suffix}
    BY <1>1, <1>2, <1>4, <2>1, <2>3
  <2> HIDE DEF suffix
  <2>5. Asked(h, size) = suffix .. (size - 1)
    BY <2>1, <2>4
  <2> QED BY <1>4, <2>1, <2>2, <2>5
<1>5. CASE size > 0 /\ h.first \in Nat /\ (h.first >= size \/ end < h.first)
  <2>1. RangeBounds(h, size) = NoRange
    BY <1>1, <1>5 DEF RangeBounds
  <2>2. Asked(h, size) = {}
    BY <1>1, <1>2, <1>5
  <2> QED BY <2>1, <2>2 DEF NoRange
<1>6. CASE size > 0 /\ h.first \in Nat /\ ~(h.first >= size \/ end < h.first)
  <2>1. RangeBounds(h, size) = [status |-> 206, start |-> h.first, end |-> end]
    BY <1>1, <1>6 DEF RangeBounds
  <2>2. end \in Nat /\ h.first <= end /\ end < size
    BY <1>1, <1>6
  <2>3. Asked(h, size) = h.first .. end
    BY <1>1, <1>2, <1>6
  <2> QED BY <1>6, <2>1, <2>2, <2>3
<1> QED BY <1>1, <1>3, <1>4, <1>5, <1>6

LEMMA AskStep ==
  ASSUME PlaybackIInv, Ask
  PROVE  PlaybackIInv'
<1>1. PICK h \in Header \cup {Blank} :
        LET bounds == IF h = Blank THEN [status |-> 200, start |-> 0, end |-> file.size - 1]
                      ELSE RangeBounds(h, file.size) IN
        stream' = [step |-> IF bounds.status = 416 THEN "done" ELSE "sized", asked |-> h,
                   status |-> bounds.status, start |-> bounds.start, size |-> file.size,
                   length |-> bounds.end - bounds.start + 1, sent |-> 0, of |-> file]
  BY Zenon DEF Ask
<1>2. PICK bounds :
        bounds = IF h = Blank THEN [status |-> 200, start |-> 0, end |-> file.size - 1]
                 ELSE RangeBounds(h, file.size)
  BY Zenon
<1>3. stream' = [step |-> IF bounds.status = 416 THEN "done" ELSE "sized", asked |-> h,
                 status |-> bounds.status, start |-> bounds.start, size |-> file.size,
                 length |-> bounds.end - bounds.start + 1, sent |-> 0, of |-> file]
  BY <1>1, <1>2
<1>4. /\ replaced' = FALSE /\ file' = file /\ file \in Versions
      /\ file.size \in Sizes /\ file.size \in Nat
  <2>1. replaced' = FALSE /\ file' = file
    BY DEF Ask
  <2>2. file \in Versions
    BY DEF PlaybackIInv, StreamTyped
  <2> QED BY <2>1, <2>2, BlocksTyped DEF Versions
<1>5. \/ /\ bounds.status = 416 /\ bounds.start = 0 /\ bounds.end = 0
         /\ Asked(h, file.size) = {}
      \/ /\ bounds.status = 206 /\ bounds.start \in Nat /\ bounds.end \in Nat
         /\ bounds.start <= bounds.end /\ bounds.end < file.size
         /\ Asked(h, file.size) = bounds.start .. bounds.end
      \/ /\ bounds.status = 200 /\ h = Blank /\ bounds.start = 0
         /\ bounds.end = file.size - 1
  <2>1. CASE h = Blank
    BY <1>2, <2>1
  <2>2. CASE h # Blank
    <3>1. bounds = RangeBounds(h, file.size) /\ h \in Header
      BY <1>2, <2>2
    <3> QED BY <1>4, <2>2, <3>1, RangeFacts
  <2> QED BY <2>1, <2>2
<1>6. PICK n : n = stream'
  OBVIOUS
<1>7. /\ n.step = IF bounds.status = 416 THEN "done" ELSE "sized"
      /\ n.asked = h /\ n.status = bounds.status /\ n.start = bounds.start
      /\ n.size = file.size /\ n.length = bounds.end - bounds.start + 1 /\ n.sent = 0
      /\ n.of = file
  BY <1>3, <1>6
<1>8. n \in Reply
  BY <1>3, <1>4, <1>5, <1>6 DEF Reply
<1>9. Announced(n)
  <2>1. n.status = 416 => n.step = "done" /\ Asked(n.asked, n.size) = {}
    BY <1>5, <1>7
  <2>2. n.status = 200 => n.asked = Blank /\ n.start = 0 /\ n.length = n.size
    BY <1>4, <1>5, <1>7
  <2>3. n.status = 206 => /\ n.length > 0 /\ n.start + n.length <= n.size
                          /\ Asked(n.asked, n.size) = n.start .. (n.start + n.length - 1)
    <3>1. n.status = 206 => /\ bounds.start \in Nat /\ bounds.end \in Nat
                            /\ bounds.start <= bounds.end /\ bounds.end < file.size
                            /\ Asked(h, file.size) = bounds.start .. bounds.end
      BY <1>5, <1>7
    <3>2. n.status = 206 => n.start + n.length - 1 = bounds.end
      BY <1>7, <3>1
    <3> QED BY <1>4, <1>7, <3>1, <3>2
  <2> QED BY <2>1, <2>2, <2>3 DEF Announced
<1>10. Sent(n)
  BY <1>4, <1>5, <1>7, <1>8 DEF Sent, Reply
<1>11. OneFile'
  BY <1>4, <1>6, <1>7 DEF OneFile
<1> QED BY <1>4, <1>6, <1>8, <1>9, <1>10, <1>11 DEF PlaybackIInv, StreamTyped

(* A reply in progress is a record of its type.                             *)
LEMMA PlayingFacts ==
  ASSUME PlaybackIInv, stream # Silent
  PROVE  stream \in Reply /\ Announced(stream) /\ Sent(stream) /\ OneFile
BY DEF PlaybackIInv, StreamTyped

LEMMA OpenFileStep ==
  ASSUME PlaybackIInv, OpenFile
  PROVE  PlaybackIInv'
<1>1. stream # Silent /\ stream.step = "sized"
  BY DEF OpenFile, Silent
<1>2. PICK s \in Reply : s = stream
  BY <1>1, PlayingFacts
<1>3. Announced(s) /\ Sent(s) /\ OneFile
  BY <1>1, <1>2, PlayingFacts
<1>4. PICK n : n = [s EXCEPT !.step = "open", !.of = file]
  OBVIOUS
<1>5. stream' = n /\ file' = file /\ replaced' = replaced /\ file \in Versions
      /\ replaced \in BOOLEAN
  BY <1>2, <1>4 DEF OpenFile, PlaybackIInv, StreamTyped
<1>6. /\ n \in Reply /\ n.step = "open" /\ n.asked = s.asked /\ n.status = s.status
      /\ n.start = s.start /\ n.size = s.size /\ n.length = s.length /\ n.sent = s.sent
      /\ n.of = file
  BY <1>4, <1>5 DEF Reply
<1>7. s.step = "sized"
  BY <1>1, <1>2
<1>8. Announced(n)
  BY <1>3, <1>6, <1>7 DEF Announced
<1>9. Sent(n)
  BY <1>3, <1>6, <1>7 DEF Sent
<1>10. OneFile'
  BY <1>2, <1>3, <1>5, <1>6, <1>7 DEF OneFile
<1> QED BY <1>5, <1>6, <1>8, <1>9, <1>10 DEF PlaybackIInv, StreamTyped

LEMMA SendStep ==
  ASSUME PlaybackIInv, Send
  PROVE  PlaybackIInv'
<1>1. stream # Silent /\ stream.step = "open"
  BY DEF Send, Silent
<1>2. PICK s \in Reply : s = stream
  BY <1>1, PlayingFacts
<1>3. Announced(s) /\ Sent(s) /\ OneFile
  BY <1>1, <1>2, PlayingFacts
<1>4. /\ s.of.size \in Nat /\ s.start \in Nat /\ s.sent \in Nat /\ s.length \in Int
      /\ s.status \in {200, 206, 416} /\ s.step = "open"
  BY <1>1, <1>2, BlocksTyped DEF Reply, Versions
<1> DEFINE left == s.of.size - (s.start + s.sent)
           wanted == IF s.status = 200 THEN left ELSE s.length - s.sent
           least(a, b) == IF a < b THEN a ELSE b
<1>5. PICK n : n = least(Chunk, least(wanted, left))
  OBVIOUS
<1>6. stream' = IF n <= 0 THEN [s EXCEPT !.step = "done"] ELSE [s EXCEPT !.sent = s.sent + n]
  BY <1>2, <1>5 DEF Send
<1>7. file' = file /\ replaced' = replaced /\ file \in Versions /\ replaced \in BOOLEAN
  BY DEF Send, PlaybackIInv, StreamTyped
<1>8. /\ n \in Int
      /\ n <= left /\ n <= wanted
      /\ n <= 0 => left <= 0 \/ wanted <= 0
  BY <1>4, <1>5, BlocksTyped
<1>9. s.status # 416
  BY <1>3, <1>4 DEF Announced
<1>10. CASE n <= 0
  <2>1. PICK m : m = [s EXCEPT !.step = "done"]
    OBVIOUS
  <2>2. /\ m \in Reply /\ m.step = "done" /\ m.asked = s.asked /\ m.status = s.status
        /\ m.start = s.start /\ m.size = s.size /\ m.length = s.length /\ m.sent = s.sent
        /\ m.of = s.of
    BY <2>1 DEF Reply
  <2>3. stream' = m
    BY <1>6, <1>10, <2>1
  <2>4. Announced(m)
    BY <1>3, <1>9, <2>2 DEF Announced
  <2>5. s.start + s.sent >= s.of.size \/ (s.status = 206 /\ s.sent >= s.length)
    BY <1>4, <1>8, <1>9, <1>10
  <2>6. Sent(m)
    BY <1>3, <2>2, <2>5 DEF Sent
  <2>7. OneFile'
    BY <1>2, <1>3, <1>4, <1>7, <2>2, <2>3 DEF OneFile
  <2> QED BY <1>7, <2>2, <2>3, <2>4, <2>6, <2>7 DEF PlaybackIInv, StreamTyped
<1>11. CASE n > 0
  <2>1. PICK m : m = [s EXCEPT !.sent = s.sent + n]
    OBVIOUS
  <2>2. s.sent + n \in Nat /\ s.start + (s.sent + n) <= s.of.size
    BY <1>4, <1>8, <1>11
  <2>3. /\ m \in Reply /\ m.step = "open" /\ m.asked = s.asked /\ m.status = s.status
        /\ m.start = s.start /\ m.size = s.size /\ m.length = s.length
        /\ m.sent = s.sent + n /\ m.of = s.of
    BY <1>4, <2>1, <2>2 DEF Reply
  <2>4. stream' = m
    BY <1>6, <1>8, <1>11, <2>1
  <2>5. Announced(m)
    BY <1>3, <1>9, <2>3 DEF Announced
  <2>6. s.status = 206 => s.sent + n <= s.length
    BY <1>4, <1>8
  <2>7. Sent(m)
    BY <2>2, <2>3, <2>6 DEF Sent
  <2>8. OneFile'
    BY <1>2, <1>3, <1>4, <1>7, <2>3, <2>4 DEF OneFile
  <2> QED BY <1>7, <2>3, <2>4, <2>5, <2>7, <2>8 DEF PlaybackIInv, StreamTyped
<1> QED BY <1>8, <1>10, <1>11

LEMMA ReplaceStep ==
  ASSUME PlaybackIInv, Replace
  PROVE  PlaybackIInv'
<1>1. file' \in Versions
  BY DEF Replace, PlaybackIInv, StreamTyped, Versions
<1>2. stream' = stream /\ replaced' = (stream.step = "sized" \/ replaced)
  BY DEF Replace
<1>3. replaced' \in BOOLEAN
  BY <1>2
<1>4. OneFile => OneFile'
  BY <1>2 DEF OneFile
<1> QED BY <1>1, <1>2, <1>3, <1>4 DEF PlaybackIInv, StreamTyped

LEMMA PlaybackNextIInv == PlaybackIInv /\ [PlaybackNext]_libraryVars => PlaybackIInv'
<1>1. ASSUME PlaybackIInv, Close PROVE PlaybackIInv'
  BY <1>1 DEF Close, PlaybackIInv, StreamTyped
<1>2. ASSUME PlaybackIInv, UNCHANGED libraryVars PROVE PlaybackIInv'
  BY <1>2 DEF libraryVars, PlaybackIInv, StreamTyped, OneFile
<1> QED BY <1>1, <1>2, AskStep, OpenFileStep, SendStep, ReplaceStep DEF PlaybackNext

LEMMA ServedFromIInv == PlaybackIInv => ServedAsAnnounced
<1> SUFFICES ASSUME PlaybackIInv, stream.step = "done"
             PROVE  LET served == stream.start..(stream.start + stream.sent - 1) IN
                    IF stream.status = 416 THEN Asked(stream.asked, stream.size) = {}
                    ELSE /\ served \subseteq 0..(stream.of.size - 1)
                         /\ stream.status = 206 => stream.sent <= stream.length
                         /\ replaced \/ (served = Asked(stream.asked, stream.size)
                                         /\ stream.sent = stream.length)
  BY Zenon DEF ServedAsAnnounced
<1>1. stream # Silent
  BY DEF Silent
<1>2. PICK s \in Reply : s = stream
  BY <1>1, PlayingFacts
<1>3. Announced(s) /\ Sent(s) /\ OneFile /\ s.step = "done"
  BY <1>1, <1>2, PlayingFacts
<1>4. /\ s.of.size \in Nat /\ s.size \in Nat /\ s.start \in Nat /\ s.sent \in Nat
      /\ s.length \in Int /\ s.status \in {200, 206, 416}
  BY <1>2, BlocksTyped DEF Reply, Versions
<1>5. s.status = 416 => Asked(s.asked, s.size) = {}
  BY <1>3 DEF Announced
<1>6. s.start .. (s.start + s.sent - 1) \subseteq 0 .. (s.of.size - 1)
  BY <1>3, <1>4 DEF Sent
<1>7. s.status = 206 => s.sent <= s.length
  BY <1>3 DEF Sent
<1>8. ASSUME s.status # 416, ~replaced
      PROVE  s.start .. (s.start + s.sent - 1) = Asked(s.asked, s.size) /\ s.sent = s.length
  <2>1. s.of.size = s.size
    BY <1>2, <1>3, <1>8 DEF OneFile
  <2>2. CASE s.status = 200
    <3>1. s.asked = Blank /\ s.start = 0 /\ s.length = s.size
      BY <1>3, <2>2 DEF Announced
    <3>2. s.sent = s.size
      BY <1>3, <1>4, <2>1, <2>2, <3>1 DEF Sent
    <3> QED BY <1>4, <3>1, <3>2 DEF Asked
  <2>3. CASE s.status = 206
    <3>1. /\ s.length > 0 /\ s.start + s.length <= s.size
          /\ Asked(s.asked, s.size) = s.start .. (s.start + s.length - 1)
      BY <1>3, <2>3 DEF Announced
    <3>2. s.sent = s.length
      BY <1>3, <1>4, <1>7, <2>1, <2>3, <3>1 DEF Sent
    <3> QED BY <3>1, <3>2
  <2> QED BY <1>4, <1>8, <2>2, <2>3
<1> QED BY <1>2, <1>5, <1>6, <1>7, <1>8

(* A reply holds the bytes that were asked for and as many as it announces, *)
(* unless the file was replaced between the reading of its size and its     *)
(* opening; and it is refused only when there are none (views.py:1375-1440).*)
THEOREM RangesServed == PlaybackSpec => []ServedAsAnnounced
<1>1. LibraryInit => PlaybackIInv
  <2>1. [version : {0}, size : Sizes] \subseteq Versions
    BY DEF Versions
  <2> QED BY <2>1 DEF LibraryInit, PlaybackIInv, StreamTyped
<1> QED BY <1>1, PlaybackNextIInv, ServedFromIInv, PTL DEF PlaybackSpec

----------------------------------------------------------------------------
(***************************************************************************)
(* CallLibrary: the list and the dialog of its filters.  A column that is  *)
(* not crowded is offered whole (LeadingWhole), up to the spelling of its  *)
(* words (SpellingExists); and what is offered is listed, because only     *)
(* words without blanks around them come back as they were offered.        *)
(***************************************************************************)
LEMMA WordsTyped ==
  /\ Words \subseteq Nat /\ Empty \in Words /\ Limit \in Nat \ {0}
  /\ Fold \in [Words -> Words] /\ Strip \in [Words -> Words]
BY LibraryAssumption

LEMMA CaseKeepsBlanks ==
  \A v, w \in Words : Fold[v] = Fold[w] => (Strip[v] = v <=> Strip[w] = w)
BY LibraryAssumption

LibraryTyped == calls \in Seq(LibraryRow) /\ theme \in Themes

LEMMA ListTyped ==
  ASSUME LibraryTyped
  PROVE  /\ IsFiniteSet(DOMAIN calls) /\ DOMAIN calls = 1 .. Len(calls)
         /\ \A i \in DOMAIN calls : calls[i] \in LibraryRow /\ calls[i] \in Rows
         /\ Rows \subseteq LibraryRow
<1>1. /\ Len(calls) \in Nat /\ DOMAIN calls = 1 .. Len(calls)
      /\ \A i \in DOMAIN calls : calls[i] \in LibraryRow
  BY DEF LibraryTyped
<1>2. IsFiniteSet(DOMAIN calls)
  <2>1. IsFiniteSet(1 .. Len(calls))
    BY <1>1, FS_Interval
  <2> QED BY <1>1, <2>1
<1>3. /\ \A i \in DOMAIN calls : calls[i] \in Rows
      /\ Rows \subseteq LibraryRow
  BY <1>1, Zenon DEF Rows
<1> QED BY <1>1, <1>2, <1>3

(* The values of a function on a finite set are finitely many.              *)
LEMMA ValuesFinite ==
  ASSUME NEW D, IsFiniteSet(D), NEW f, f = [x \in D |-> f[x]]
  PROVE  IsFiniteSet({f[x] : x \in D})
<1> DEFINE T == {f[x] : x \in D}
<1>1. f \in Surjection(D, T)
  BY DEF Surjection
<1> QED BY <1>1, FS_Surjection

(* A set of no more words than the limit is not cut.                        *)
LEMMA LeadingWhole ==
  ASSUME NEW U, IsFiniteSet(U), Cardinality(U) <= Limit, NEW S, S \subseteq U, S \subseteq Nat
  PROVE  Leading(S) = S
<1>1. IsFiniteSet(S) /\ Cardinality(S) <= Cardinality(U) /\ Cardinality(U) \in Nat
  BY FS_Subset, FS_CardinalityType
<1>2. ASSUME NEW w \in S PROVE Cardinality({v \in S : v < w}) < Limit
  <2>1. IsFiniteSet(S \ {w}) /\ Cardinality(S \ {w}) = Cardinality(S) - 1
    BY <1>1, FS_RemoveElement
  <2>2. {v \in S : v < w} \subseteq S \ {w}
    OBVIOUS
  <2>3. Cardinality({v \in S : v < w}) <= Cardinality(S \ {w})
    BY <2>1, <2>2, FS_Subset
  <2>4. /\ Cardinality(S) \in Nat
        /\ Cardinality({v \in S : v < w}) \in Nat
    BY <1>1, <2>1, <2>2, FS_Subset, FS_CardinalityType
  <2> QED BY <1>1, <2>1, <2>3, <2>4, WordsTyped
<1> QED BY <1>2 DEF Leading

(* One spelling of every word of such a set is offered.                     *)
LEMMA SpellingExists ==
  ASSUME NEW U, IsFiniteSet(U), Cardinality(U) <= Limit, NEW S, S \subseteq U, S \subseteq Words,
         NEW word \in S
  PROVE  \E w \in CaseInsensitive(S) : Fold[w] = Fold[word]
<1> DEFINE alike == {v \in S : Fold[v] = Fold[word]}
           least == {w \in S : \A v \in S : Fold[v] = Fold[w] => w <= v}
<1>1. alike \subseteq Nat /\ alike # {}
  BY WordsTyped
<1>2. PICK w \in alike : \A v \in alike : w <= v
  BY <1>1, FirstExists
<1>3. w \in least /\ Fold[w] = Fold[word]
  BY <1>2
<1>4. least \subseteq U /\ least \subseteq Nat
  BY WordsTyped
<1>5. Leading(least) = least
  <2> HIDE DEF least
  <2> QED BY <1>4, LeadingWhole
<1> QED BY <1>3, <1>5 DEF CaseInsensitive

(* A word without blanks around it comes back as it was offered.            *)
LEMMA ValueKept ==
  ASSUME NEW w \in Words, Strip[w] = w
  PROVE  Values({w}) = {w} \ {Empty}
BY DEF Values

LEMMA NoValues == Values({}) = {}
BY DEF Values

(* A row lies within its own times.                                         *)
OwnTimes(p, row) ==
  /\ p.date_from \in {Blank, Received(row)} /\ p.date_to \in {Blank, Received(row)}
  /\ p.talk_time_min \in {Blank, row.talk_time} /\ p.talk_time_max \in {Blank, row.talk_time}

LEMMA OwnTimesFit ==
  ASSUME NEW row \in LibraryRow, NEW p, OwnTimes(p, row)
  PROVE  /\ Within(Received(row), p.date_from, p.date_to)
         /\ Within(row.talk_time, p.talk_time_min, p.talk_time_max)
<1>1. Received(row) \in Nat /\ row.talk_time \in Nat
  BY DEF LibraryRow, Received
<1> QED BY <1>1 DEF Within, OwnTimes

(* Each filter alone, at the row's own times or at any, lists the row that  *)
(* holds its value.                                                         *)
LEMMA AgentLists ==
  ASSUME NEW row \in LibraryRow, NEW w \in Words, Strip[w] = w,
         row.agent_name = w \/ (row.agent_name = Empty /\ row.agent_user = w),
         NEW p, p.agent = {w}, p.team = {}, p.plain = AllCalls.plain, OwnTimes(p, row)
  PROVE  ListsCall(p, row)
<1>1. Values(p.agent) = {w} \ {Empty} /\ Values(p.team) = {}
  BY ValueKept, NoValues
<1>2. \A d \in Exact \cup Folded : Values(p.plain[d]) = {}
  BY NoValues DEF AllCalls
<1>3. Fits(Values(p.agent), AgentFits(row, Values(p.agent)))
  BY <1>1 DEF Fits, AgentFits
<1> QED BY <1>1, <1>2, <1>3, OwnTimesFit DEF ListsCall, Fits

LEMMA TeamLists ==
  ASSUME NEW row \in LibraryRow, NEW w \in Words, Strip[w] = w,
         \/ Fold[w] = Fold[row.team_name]
         \/ row.team # NoTeamRow /\ Fold[w] = Fold[row.team],
         NEW p, p.team = {w}, p.agent = {}, p.plain = AllCalls.plain, OwnTimes(p, row)
  PROVE  ListsCall(p, row)
<1>1. Values(p.team) = {w} \ {Empty} /\ Values(p.agent) = {}
  BY ValueKept, NoValues
<1>2. \A d \in Exact \cup Folded : Values(p.plain[d]) = {}
  BY NoValues DEF AllCalls
<1>3. Fits(Values(p.team), TeamFits(row, Values(p.team)))
  BY <1>1 DEF Fits, TeamFits
<1> QED BY <1>1, <1>2, <1>3, OwnTimesFit DEF ListsCall, Fits

LEMMA PlainLists ==
  ASSUME NEW row \in LibraryRow, NEW w \in Words, Strip[w] = w, NEW d \in Exact \cup Folded,
         row.plain[d] = w \/ (d \in Folded /\ Fold[w] = Fold[row.plain[d]]),
         NEW p, p.plain = [AllCalls.plain EXCEPT ![d] = {w}], p.agent = {}, p.team = {},
         OwnTimes(p, row)
  PROVE  ListsCall(p, row)
<1>1. Values(p.team) = {} /\ Values(p.agent) = {}
  BY NoValues
<1>2. /\ Values(p.plain[d]) = {w} \ {Empty}
      /\ \A e \in Exact \cup Folded : e # d => Values(p.plain[e]) = {}
  BY ValueKept, NoValues DEF AllCalls
<1>3. Exact \cap Folded = {}
  BY DEF Exact, Folded
<1>4. \A e \in Exact : Fits(Values(p.plain[e]), row.plain[e] \in Values(p.plain[e]))
  BY <1>2, <1>3 DEF Fits
<1>5. \A e \in Folded :
        Fits(Values(p.plain[e]), \E v \in Values(p.plain[e]) : Fold[v] = Fold[row.plain[e]])
  BY <1>2, <1>3 DEF Fits
<1> QED BY <1>1, <1>4, <1>5, OwnTimesFit DEF ListsCall, Fits

(* What is offered is some row's value.                                     *)
LEMMA OfferedAgentsFound ==
  ASSUME LibraryTyped, NEW w \in OfferedAgents, ~Padded(w)
  PROVE  FindsAgent(w)
<1> DEFINE p == [AllCalls EXCEPT !.agent = {w}]
<1>1. \/ \E row \in Rows : row.agent_name = w
      \/ \E i \in DOMAIN calls : calls[i].agent_name = Empty /\ calls[i].agent_user = w
  BY DEF OfferedAgents, Leading, Choices, RecentUnnamed, Unnamed
<1>2. PICK row \in Rows : row.agent_name = w \/ (row.agent_name = Empty /\ row.agent_user = w)
  BY <1>1, ListTyped
<1>3. row \in LibraryRow /\ w \in Words /\ Strip[w] = w
  BY <1>2, ListTyped DEF LibraryRow, Padded
<1>4. /\ p.agent = {w} /\ p.team = {} /\ p.plain = AllCalls.plain /\ OwnTimes(p, row)
  BY DEF AllCalls, OwnTimes
<1>5. ListsCall(p, row)
  <2> HIDE DEF p
  <2> QED BY <1>2, <1>3, <1>4, AgentLists
<1> QED BY <1>2, <1>5 DEF FindsAgent, Finds

LEMMA OfferedTeamsFound ==
  ASSUME LibraryTyped, NEW w \in OfferedTeams, ~Padded(w)
  PROVE  FindsTeam(w)
<1> DEFINE p == [AllCalls EXCEPT !.team = {w}]
<1>1. PICK row \in Rows : (row.team # NoTeamRow /\ row.team = w) \/ row.team_name = w
  BY DEF OfferedTeams, CaseInsensitive, Leading, Choices
<1>2. row \in LibraryRow /\ w \in Words /\ Strip[w] = w
  BY <1>1, ListTyped DEF LibraryRow, Padded, TeamNames
<1>3. /\ p.team = {w} /\ p.agent = {} /\ p.plain = AllCalls.plain /\ OwnTimes(p, row)
  BY DEF AllCalls, OwnTimes
<1>4. ListsCall(p, row)
  <2> HIDE DEF p
  <2> QED BY <1>1, <1>2, <1>3, TeamLists
<1> QED BY <1>4 DEF FindsTeam, Finds

LEMMA OfferedPlainFound ==
  ASSUME LibraryTyped, NEW d \in Exact \cup Folded, NEW w \in OfferedPlain(d), ~Padded(w)
  PROVE  FindsPlain(d, w)
<1> DEFINE p == [AllCalls EXCEPT !.plain[d] = {w}]
<1>1. PICK row \in Rows : row.plain[d] = w
  BY DEF OfferedPlain, CaseInsensitive, Leading, Choices
<1>2. row \in LibraryRow /\ w \in Words /\ Strip[w] = w
  BY <1>1, ListTyped DEF LibraryRow, Padded
<1>3. /\ p.plain = [AllCalls.plain EXCEPT ![d] = {w}] /\ p.agent = {} /\ p.team = {}
      /\ OwnTimes(p, row)
  BY DEF AllCalls, OwnTimes
<1>4. ListsCall(p, row)
  <2> HIDE DEF p
  <2> QED BY <1>1, <1>2, <1>3, PlainLists
<1> QED BY <1>4 DEF FindsPlain, Finds

(* A column holds finitely many words.                                      *)
LEMMA ColumnFinite ==
  ASSUME LibraryTyped, NEW D, D \subseteq Rows, NEW f, f = [row \in D |-> f[row]]
  PROVE  IsFiniteSet({f[row] : row \in D})
<1>1. calls = [i \in DOMAIN calls |-> calls[i]]
  BY DEF LibraryTyped
<1>2. IsFiniteSet(Rows)
  <2>1. IsFiniteSet({calls[i] : i \in DOMAIN calls})
    BY <1>1, ListTyped, ValuesFinite
  <2> QED BY <2>1 DEF Rows
<1>3. IsFiniteSet(D)
  BY <1>2, FS_Subset
<1> QED BY <1>3, ValuesFinite

LEMMA NotCrowded ==
  ASSUME NEW S, IsFiniteSet(S), ~Crowded(S)
  PROVE  IsFiniteSet(S \ {Empty}) /\ Cardinality(S \ {Empty}) <= Limit
<1>1. IsFiniteSet(S \ {Empty})
  BY FS_RemoveElement
<1>2. Cardinality(S \ {Empty}) \in Nat
  BY <1>1, FS_CardinalityType
<1> QED BY <1>1, <1>2, WordsTyped DEF Crowded

(* What a row shows is offered, unless its column is too long.              *)
LEMMA AgentOffered ==
  ASSUME LibraryTyped, NEW i \in DOMAIN calls, NEW w, w # Empty,
         IF calls[i].agent_name = Empty THEN w = calls[i].agent_user ELSE w = calls[i].agent_name,
         i \notin Unnamed \ RecentUnnamed,
         ~Crowded({r.agent_name : r \in Rows} \cup {calls[j].agent_user : j \in Unnamed})
  PROVE  w \in OfferedAgents
<1> DEFINE names == {r.agent_name : r \in Rows}
           users == {calls[j].agent_user : j \in Unnamed}
           recent == {calls[j].agent_user : j \in RecentUnnamed}
           U == (names \cup users) \ {Empty}
<1>1. IsFiniteSet(names)
  <2> DEFINE f == [r \in Rows |-> r.agent_name]
  <2>1. f = [r \in Rows |-> f[r]] /\ names = {f[r] : r \in Rows}
    OBVIOUS
  <2> HIDE DEF f
  <2>2. IsFiniteSet({f[r] : r \in Rows})
    BY <2>1, ColumnFinite
  <2> QED BY <2>1, <2>2
<1>2. IsFiniteSet(users)
  <2> DEFINE f == [j \in Unnamed |-> calls[j].agent_user]
  <2>1. f = [j \in Unnamed |-> f[j]] /\ users = {f[j] : j \in Unnamed}
    OBVIOUS
  <2>2. IsFiniteSet(Unnamed)
    BY ListTyped, FS_Subset DEF Unnamed
  <2> HIDE DEF f
  <2> QED BY <2>1, <2>2, ValuesFinite
<1>3. IsFiniteSet(U) /\ Cardinality(U) <= Limit
  <2>1. IsFiniteSet(names \cup users)
    BY <1>1, <1>2, FS_Union
  <2> QED BY <2>1, NotCrowded
<1>4. names \subseteq Nat /\ recent \subseteq users /\ users \subseteq Nat /\ Empty \notin users
  BY ListTyped, WordsTyped DEF LibraryRow, RecentUnnamed, Unnamed
<1>5. Choices(names) = names \ {Empty}
  <2>1. names \ {Empty} \subseteq U /\ names \ {Empty} \subseteq Nat
    BY <1>4
  <2> QED BY <1>3, <2>1, LeadingWhole DEF Choices
<1>6. OfferedAgents = (names \ {Empty}) \cup recent
  <2>1. OfferedAgents = Leading(Choices(names) \cup recent)
    BY DEF OfferedAgents
  <2>2. (names \ {Empty}) \cup recent \subseteq U /\ (names \ {Empty}) \cup recent \subseteq Nat
    BY <1>4
  <2> QED BY <1>3, <1>5, <2>1, <2>2, LeadingWhole
<1>7. calls[i] \in Rows
  BY ListTyped
<1>8. w \in (names \ {Empty}) \cup recent
  BY <1>7 DEF Unnamed
<1> QED BY <1>6, <1>8

LEMMA TeamOffered ==
  ASSUME LibraryTyped, NEW row \in Rows, NEW word, word # Empty,
         word = (IF row.team = NoTeamRow THEN row.team_name ELSE row.team),
         ~Crowded({r.team : r \in {s \in Rows : s.team # NoTeamRow}} \cup
                  {r.team_name : r \in Rows})
  PROVE  \E w \in OfferedTeams : Fold[w] = Fold[word] /\ w \in Words /\ w # Empty
<1> DEFINE teams == {r.team : r \in {s \in Rows : s.team # NoTeamRow}}
           names == {r.team_name : r \in Rows}
           plain == {r.team_name : r \in {s \in Rows : s.team = NoTeamRow}}
           U == (teams \cup names) \ {Empty}
           offered == teams \cup (plain \ {Empty})
<1>1. IsFiniteSet(teams)
  <2> DEFINE D == {s \in Rows : s.team # NoTeamRow}
             f == [r \in D |-> r.team]
  <2>1. f = [r \in D |-> f[r]] /\ teams = {f[r] : r \in D} /\ D \subseteq Rows
    OBVIOUS
  <2> HIDE DEF f, D
  <2> QED BY <2>1, ColumnFinite
<1>2. IsFiniteSet(names)
  <2> DEFINE f == [r \in Rows |-> r.team_name]
  <2>1. f = [r \in Rows |-> f[r]] /\ names = {f[r] : r \in Rows}
    OBVIOUS
  <2> HIDE DEF f
  <2>2. IsFiniteSet({f[r] : r \in Rows})
    BY <2>1, ColumnFinite
  <2> QED BY <2>1, <2>2
<1>3. IsFiniteSet(U) /\ Cardinality(U) <= Limit
  <2>1. IsFiniteSet(teams \cup names)
    BY <1>1, <1>2, FS_Union
  <2> QED BY <2>1, NotCrowded
<1>4. /\ teams \subseteq Words \ {Empty} /\ names \subseteq Words /\ plain \subseteq names
      /\ Words \subseteq Nat
  <2>1. \A r \in Rows : r.team_name \in Words /\ r.team \in TeamNames \cup {NoTeamRow}
    BY ListTyped DEF LibraryRow
  <2>2. TeamNames \subseteq Words \ {Empty}
    BY DEF TeamNames
  <2>3. plain \subseteq names /\ names \subseteq Words
    BY <2>1
  <2>4. teams \subseteq TeamNames
    BY <2>1
  <2>5. teams \subseteq Words \ {Empty}
    BY <2>2, <2>4, Zenon
  <2>6. Words \subseteq Nat
    BY WordsTyped
  <2> QED BY <2>3, <2>5, <2>6
<1>5. Leading(teams) = teams
  <2>1. teams \subseteq U /\ teams \subseteq Nat
    <3> HIDE DEF teams, names
    <3> QED BY <1>4
  <2> HIDE DEF U, teams
  <2> QED BY <1>3, <2>1, LeadingWhole
<1>6. Choices(plain) = plain \ {Empty}
  <2>1. plain \ {Empty} \subseteq U /\ plain \ {Empty} \subseteq Nat
    BY <1>4
  <2> QED BY <1>3, <2>1, LeadingWhole DEF Choices
<1>7. OfferedTeams = CaseInsensitive(offered)
  BY <1>5, <1>6 DEF OfferedTeams
<1>8. offered \subseteq U /\ offered \subseteq Words \ {Empty}
  BY <1>4
<1>9. word \in offered
  BY DEF LibraryRow
<1> HIDE DEF U, offered
<1>10. PICK w \in CaseInsensitive(offered) : Fold[w] = Fold[word]
  BY <1>3, <1>8, <1>9, SpellingExists
<1>11. w \in offered
  BY <1>10 DEF CaseInsensitive, Leading
<1> QED BY <1>7, <1>8, <1>10, <1>11

LEMMA PlainOffered ==
  ASSUME LibraryTyped, NEW row \in Rows, NEW d \in Exact \cup Folded, row.plain[d] # Empty,
         ~Crowded({r.plain[d] : r \in Rows})
  PROVE  \E w \in OfferedPlain(d) :
           /\ w \in Words /\ w # Empty
           /\ w = row.plain[d] \/ (d \in Folded /\ Fold[w] = Fold[row.plain[d]])
<1> DEFINE column == {r.plain[d] : r \in Rows}
           U == column \ {Empty}
<1>1. IsFiniteSet(column)
  <2> DEFINE f == [r \in Rows |-> r.plain[d]]
  <2>1. f = [r \in Rows |-> f[r]] /\ column = {f[r] : r \in Rows}
    OBVIOUS
  <2> HIDE DEF f
  <2>2. IsFiniteSet({f[r] : r \in Rows})
    BY <2>1, ColumnFinite
  <2> QED BY <2>1, <2>2
<1>2. IsFiniteSet(U) /\ Cardinality(U) <= Limit
  BY <1>1, NotCrowded
<1>3. U \subseteq Words \ {Empty} /\ Words \subseteq Nat /\ row.plain[d] \in U
  BY ListTyped, WordsTyped DEF LibraryRow
<1>4. OfferedPlain(d) = IF d \in Folded THEN CaseInsensitive(Choices(column)) ELSE Choices(column)
  BY DEF OfferedPlain
<1> HIDE DEF U
<1>5. Choices(column) = U
  <2>1. Choices(column) = Leading(U)
    BY DEF Choices, U
  <2> QED BY <1>2, <1>3, <2>1, LeadingWhole
<1>6. CASE d \in Folded
  <2>1. PICK w \in CaseInsensitive(U) : Fold[w] = Fold[row.plain[d]]
    BY <1>2, <1>3, SpellingExists
  <2>2. w \in U
    BY <2>1 DEF CaseInsensitive, Leading
  <2> QED BY <1>3, <1>4, <1>5, <1>6, <2>1, <2>2
<1>7. CASE d \notin Folded
  BY <1>3, <1>4, <1>5, <1>7
<1> QED BY <1>6, <1>7

(* Every row is listed under values that are offered, together with its     *)
(* own times.                                                               *)
LEMMA RowIsListed ==
  ASSUME LibraryTyped, NEW i \in DOMAIN calls
  PROVE  LET row == calls[i]
             own(p) == [p EXCEPT !.date_from = Received(row), !.date_to = Received(row),
                                 !.talk_time_min = row.talk_time, !.talk_time_max = row.talk_time]
             shown == IF row.agent_name = Empty THEN row.agent_user ELSE row.agent_name IN
         /\ \/ shown = Empty \/ Padded(shown) \/ i \in (Unnamed \ RecentUnnamed)
            \/ Crowded({r.agent_name : r \in Rows} \cup {calls[j].agent_user : j \in Unnamed})
            \/ \E w \in OfferedAgents : ListsCall(own([AllCalls EXCEPT !.agent = {w}]), row)
         /\ \/ row.team = NoTeamRow /\ (row.team_name = Empty \/ Padded(row.team_name))
            \/ Crowded({r.team : r \in {s \in Rows : s.team # NoTeamRow}} \cup
                       {r.team_name : r \in Rows})
            \/ \E w \in OfferedTeams : ListsCall(own([AllCalls EXCEPT !.team = {w}]), row)
         /\ \A d \in Exact \cup Folded :
              \/ row.plain[d] = Empty \/ Padded(row.plain[d]) \/ Crowded({r.plain[d] : r \in Rows})
              \/ \E w \in OfferedPlain(d) : ListsCall(own([AllCalls EXCEPT !.plain[d] = {w}]), row)
<1> DEFINE row == calls[i]
           own(p) == [p EXCEPT !.date_from = Received(row), !.date_to = Received(row),
                               !.talk_time_min = row.talk_time, !.talk_time_max = row.talk_time]
           shown == IF row.agent_name = Empty THEN row.agent_user ELSE row.agent_name
<1>1. row \in LibraryRow /\ row \in Rows
  BY ListTyped
<1>2. ASSUME shown # Empty, ~Padded(shown), i \notin Unnamed \ RecentUnnamed,
             ~Crowded({r.agent_name : r \in Rows} \cup {calls[j].agent_user : j \in Unnamed})
      PROVE  \E w \in OfferedAgents : ListsCall(own([AllCalls EXCEPT !.agent = {w}]), row)
  <2> DEFINE p == own([AllCalls EXCEPT !.agent = {shown}])
  <2>1. shown \in OfferedAgents
    BY <1>2, AgentOffered
  <2>2. /\ shown \in Words /\ Strip[shown] = shown
        /\ row.agent_name = shown \/ (row.agent_name = Empty /\ row.agent_user = shown)
    BY <1>1, <1>2 DEF LibraryRow, Padded
  <2>3. p.agent = {shown} /\ p.team = {} /\ p.plain = AllCalls.plain /\ OwnTimes(p, row)
    BY DEF AllCalls, OwnTimes
  <2>4. ListsCall(p, row)
    <3> HIDE DEF p, shown, row
    <3> QED BY <1>1, <2>2, <2>3, AgentLists
  <2> QED BY <2>1, <2>4
<1>3. ASSUME ~(row.team = NoTeamRow /\ (row.team_name = Empty \/ Padded(row.team_name))),
             ~Crowded({r.team : r \in {s \in Rows : s.team # NoTeamRow}} \cup
                      {r.team_name : r \in Rows})
      PROVE  \E w \in OfferedTeams : ListsCall(own([AllCalls EXCEPT !.team = {w}]), row)
  <2> DEFINE word == IF row.team = NoTeamRow THEN row.team_name ELSE row.team
  <2>1. word \in Words /\ word # Empty /\ Strip[word] = word
    BY <1>1, <1>3 DEF LibraryRow, Padded, TeamNames
  <2>2. PICK w \in OfferedTeams : Fold[w] = Fold[word] /\ w \in Words /\ w # Empty
    <3> HIDE DEF row
    <3> QED BY <1>1, <1>3, <2>1, TeamOffered
  <2> DEFINE p == own([AllCalls EXCEPT !.team = {w}])
  <2>3. Strip[w] = w
    BY <2>1, <2>2, CaseKeepsBlanks
  <2>4. p.team = {w} /\ p.agent = {} /\ p.plain = AllCalls.plain /\ OwnTimes(p, row)
    BY DEF AllCalls, OwnTimes
  <2>5. ListsCall(p, row)
    <3>1. Fold[w] = Fold[row.team_name] \/ (row.team # NoTeamRow /\ Fold[w] = Fold[row.team])
      BY <2>2
    <3> HIDE DEF p, row
    <3> QED BY <1>1, <2>2, <2>3, <2>4, <3>1, TeamLists
  <2> QED BY <2>5
<1>4. ASSUME NEW d \in Exact \cup Folded, row.plain[d] # Empty, ~Padded(row.plain[d]),
             ~Crowded({r.plain[d] : r \in Rows})
      PROVE  \E w \in OfferedPlain(d) : ListsCall(own([AllCalls EXCEPT !.plain[d] = {w}]), row)
  <2>1. PICK w \in OfferedPlain(d) :
          /\ w \in Words /\ w # Empty
          /\ w = row.plain[d] \/ (d \in Folded /\ Fold[w] = Fold[row.plain[d]])
    <3> HIDE DEF row
    <3> QED BY <1>1, <1>4, PlainOffered
  <2> DEFINE p == own([AllCalls EXCEPT !.plain[d] = {w}])
  <2>2. row.plain[d] \in Words /\ Strip[row.plain[d]] = row.plain[d]
    BY <1>1, <1>4 DEF LibraryRow, Padded
  <2>3. Strip[w] = w
    BY <2>1, <2>2, CaseKeepsBlanks
  <2>4. /\ p.plain = [AllCalls.plain EXCEPT ![d] = {w}] /\ p.agent = {} /\ p.team = {}
        /\ OwnTimes(p, row)
    BY DEF AllCalls, OwnTimes
  <2>5. ListsCall(p, row)
    <3> HIDE DEF p, row
    <3> QED BY <1>1, <2>1, <2>3, <2>4, PlainLists
  <2> QED BY <2>5
<1> QED BY <1>2, <1>3, <1>4, Zenon

(* The list (views.py:1168-1288) and the dialog (views.py:1291-1357) agree  *)
(* on every table of calls, of any length: what is offered finds a call,    *)
(* and each call is found by what is offered.                               *)
THEOREM OptionsFit == LibrarySpec => []OptionsFindCalls
<1>1. LibraryInit => LibraryTyped
  BY DEF LibraryInit, LibraryTyped
<1>2. LibraryTyped /\ [LibraryNext]_libraryVars => LibraryTyped'
  <2> SUFFICES ASSUME LibraryTyped, [LibraryNext]_libraryVars PROVE LibraryTyped'
    OBVIOUS
  <2>1. CASE CallArrives
    <3>1. RowsOf[theme] \subseteq LibraryRow
      BY LibraryAssumption DEF LibraryTyped
    <3>2. PICK row \in RowsOf[theme] : calls' = Append(calls, row)
      BY <2>1 DEF CallArrives
    <3>3. row \in LibraryRow
      BY <3>1, <3>2
    <3>4. calls' \in Seq(LibraryRow)
      BY <3>2, <3>3 DEF LibraryTyped
    <3> QED BY <2>1, <3>4 DEF CallArrives, LibraryTyped
  <2>2. CASE UNCHANGED libraryVars
    BY <2>2 DEF libraryVars, LibraryTyped
  <2> QED BY <2>1, <2>2 DEF LibraryNext
<1>3. LibraryTyped => OptionsFindCalls
  <2> SUFFICES ASSUME LibraryTyped PROVE OptionsFindCalls
    OBVIOUS
  <2>1. \A w \in OfferedAgents : Padded(w) \/ FindsAgent(w)
    BY OfferedAgentsFound
  <2>2. \A w \in OfferedTeams : Padded(w) \/ FindsTeam(w)
    BY OfferedTeamsFound
  <2>3. \A d \in Exact \cup Folded : \A w \in OfferedPlain(d) : Padded(w) \/ FindsPlain(d, w)
    BY OfferedPlainFound
  <2> QED BY <2>1, <2>2, <2>3, RowIsListed, Zenon DEF OptionsFindCalls
<1> QED BY <1>1, <1>2, <1>3, PTL DEF LibrarySpec

----------------------------------------------------------------------------
(* DialerReports.  Nothing but the answer changes, so that the invariant    *)
(* is what the reports were at the start and how the answer was computed.  *)
Situation == [event : Event, transfers : Seq(Transfer), recordings : Seq(Recording)]
ReportsInv ==
  /\ shift \in Int
  /\ \E s \in Situations :
       /\ event = s.event
       /\ report = [happened |-> s.transfers, transfers |-> Dated(s.transfers),
                    recordings |-> Started(s.recordings)]
  /\ found \in {NotLooked, [of |-> "recording", row |-> ChooseRecording],
                [of |-> "preset", row |-> LatestPreset]}

LEMMA ReportsInit == ReportsStart => ReportsInv
BY ReportsAssumption DEF ReportsStart, ReportsInv

LEMMA ReportsStep == ReportsInv /\ [LookupNext]_reportVars => ReportsInv'
<1> SUFFICES ASSUME ReportsInv, [LookupNext]_reportVars PROVE ReportsInv'
  OBVIOUS
<1>1. shift' = shift /\ event' = event /\ report' = report
  BY DEF LookupNext, LookupRecording, LookupPreset, reportVars
<1>2. CallDate' = CallDate /\ WindowStart' = WindowStart
  BY <1>1 DEF CallDate, WindowStart, LocalizeWallTime, Wall
<1>3. ChooseRecording' = ChooseRecording
  BY <1>1, <1>2 DEF ChooseRecording, Recordings, LocalizeWallTime, Wall, FirstBest, LastBest
<1>4. LatestPreset' = LatestPreset
  BY <1>1, <1>2 DEF LatestPreset, Wall, FirstBest
<1>5. found' = found \/ found' = [of |-> "recording", row |-> ChooseRecording]
      \/ found' = [of |-> "preset", row |-> LatestPreset]
  BY DEF LookupNext, LookupRecording, LookupPreset, reportVars
<1>6. \A s : Dated(s.transfers)' = Dated(s.transfers) /\ Started(s.recordings)' = Started(s.recordings)
  BY <1>1 DEF Dated, Started, Wall
<1>7. /\ shift' \in Int
      /\ \E s \in Situations :
       /\ event' = s.event
       /\ report' = [happened |-> s.transfers, transfers |-> Dated(s.transfers)',
                    recordings |-> Started(s.recordings)']
  BY <1>1, <1>6 DEF ReportsInv
<1>8. found' \in {NotLooked, [of |-> "recording", row |-> ChooseRecording'],
                [of |-> "preset", row |-> LatestPreset']}
  BY <1>3, <1>4, <1>5 DEF ReportsInv
<1> QED BY <1>7, <1>8 DEF ReportsInv, NotLooked

(* The instant that is read out of a time on the wall shows that time, and  *)
(* none that does is closer to the reference.                               *)
LEMMA Localized ==
  ASSUME shift \in Int, NEW value \in Int, NEW reference \in Int,
         NEW own \in Instants, Wall(own) = value
  PROVE  /\ LocalizeWallTime(value, reference) \in Instants
         /\ Wall(LocalizeWallTime(value, reference)) = value
         /\ Apart(LocalizeWallTime(value, reference), reference) <= Apart(own, reference)
<1> DEFINE candidates == {t \in Instants : Wall(t) = value}
           closer(t, u) == \/ Apart(t, reference) < Apart(u, reference)
                           \/ Apart(t, reference) = Apart(u, reference) /\ t <= u
           distances == {Apart(t, reference) : t \in candidates}
<1>1. \A t \in candidates : t \in Int /\ Apart(t, reference) \in Nat
  BY ReportsAssumption DEF Apart
<1>2. PICK d \in distances : \A e \in distances : d <= e
  <2>1. distances \subseteq Nat /\ distances # {}
    BY <1>1
  <2> HIDE DEF distances
  <2> QED BY <2>1, FirstExists
<1>3. PICK t \in candidates : \A u \in candidates : closer(t, u)
  <2>1. PICK s \in candidates : d = Apart(s, reference)
    BY <1>2
  <2>2. \A u \in candidates : d <= Apart(u, reference) /\ d \in Int
    BY <1>1, <1>2
  <2>3. \A u \in candidates : Apart(u, reference) = d => u = reference - d \/ u = reference + d
    BY <1>1 DEF Apart
  <2> HIDE DEF candidates
  <2>4. CASE reference - d \in candidates
    <3>1. Apart(reference - d, reference) = d
      BY <1>1, <2>2, <2>4, <2>1 DEF Apart
    <3>2. \A u \in candidates : closer(reference - d, u)
      <4> TAKE u \in candidates
      <4> u \in Int /\ d \in Int /\ d <= Apart(u, reference) /\ Apart(u, reference) \in Int /\ d \in Nat
        BY <1>1, <2>1, <2>2
      <4> QED BY <3>1, <2>3
    <3> QED BY <2>4, <3>2
  <2>5. CASE reference - d \notin candidates
    <3>1. \A u \in candidates : closer(s, u)
      <4> TAKE u \in candidates
      <4> u \in Int /\ s \in Int /\ d <= Apart(u, reference) /\ Apart(u, reference) \in Int /\ d \in Int
        BY <1>1, <2>2
      <4> QED BY <2>1, <2>3, <2>5
    <3> QED BY <3>1
  <2> QED BY <2>4, <2>5
<1> DEFINE least == CHOOSE x \in candidates : \A u \in candidates : closer(x, u)
<1>4. LocalizeWallTime(value, reference) = least
  BY <1>3, Zenon DEF LocalizeWallTime
<1>5. least \in candidates /\ \A u \in candidates : closer(least, u)
  <2> HIDE DEF closer, candidates
  <2> QED BY <1>3
<1>6. own \in candidates
  OBVIOUS
<1> HIDE DEF least
<1>7. closer(least, own)
  BY <1>5, <1>6
<1>8. Apart(least, reference) \in Nat /\ Apart(own, reference) \in Nat
  BY <1>1, <1>5, <1>6
<1>9. Apart(least, reference) <= Apart(own, reference)
  BY <1>7, <1>8
<1> QED BY <1>4, <1>5, <1>9

(* A time that no instant shows is none.                                    *)
LEMMA NotLocalized ==
  ASSUME NEW value, NEW reference, ~\E t \in Instants : Wall(t) = value
  PROVE  LocalizeWallTime(value, reference) = NoTime
BY Zenon DEF LocalizeWallTime

(* What a report says of this call.                                         *)
LEMMA ReportTyped ==
  ASSUME ReportsInv
  PROVE  /\ shift \in Int /\ event \in Event
         /\ event.talk_time <= event.finalized - event.start
         /\ report.happened \in Seq(Transfer)
         /\ report.transfers = Dated(report.happened)
         /\ DOMAIN report.transfers = DOMAIN report.happened
         /\ \A i \in DOMAIN report.happened :
              report.transfers[i] = [report.happened[i] EXCEPT !.at = Wall(@)]
         /\ report.recordings \in Seq(Recording)
         /\ \A i, j \in DOMAIN report.recordings :
              report.recordings[i].id = report.recordings[j].id => i = j
<1>1. PICK s \in Situations :
       /\ event = s.event
       /\ report = [happened |-> s.transfers, transfers |-> Dated(s.transfers),
                    recordings |-> Started(s.recordings)]
  BY DEF ReportsInv
<1>2. s \in Situation /\ s.event.talk_time <= s.event.finalized - s.event.start
      /\ \A i, j \in DOMAIN s.recordings :
           s.recordings[i].id = s.recordings[j].id => i = j
  BY ReportsAssumption DEF Situation
<1>3. event \in Event /\ s.transfers \in Seq(Transfer) /\ s.recordings \in Seq(Recording)
  BY <1>1, <1>2 DEF Situation
<1>4. shift \in Int /\ \A t \in Int : Wall(t) \in Int
  BY ReportsAssumption DEF ReportsInv, Wall
<1>5. /\ DOMAIN report.transfers = DOMAIN report.happened
      /\ report.transfers = Dated(report.happened)
      /\ \A i \in DOMAIN report.happened :
           report.transfers[i] = [report.happened[i] EXCEPT !.at = Wall(@)]
  BY <1>1 DEF Dated
<1>6. /\ report.recordings = [i \in 1 .. Len(s.recordings) |->
                                [s.recordings[i] EXCEPT !.start = Wall(@)]]
      /\ \A i \in 1 .. Len(s.recordings) :
           /\ s.recordings[i] \in Recording
           /\ [s.recordings[i] EXCEPT !.start = Wall(@)] \in Recording
           /\ [s.recordings[i] EXCEPT !.start = Wall(@)].id = s.recordings[i].id
  <2>1. DOMAIN s.recordings = 1 .. Len(s.recordings)
    BY <1>3
  <2>2. \A i \in 1 .. Len(s.recordings) : s.recordings[i] \in Recording
    BY <1>3
  <2>3. ASSUME NEW r \in Recording PROVE /\ [r EXCEPT !.start = Wall(@)] \in Recording
                                         /\ [r EXCEPT !.start = Wall(@)].id = r.id
    <3>1. r.start \in Int
      BY DEF Recording
    <3>2. Wall(r.start) \in Int
      BY <1>4, <3>1
    <3> QED BY <3>2 DEF Recording
  <2> QED BY <1>1, <2>1, <2>2, <2>3 DEF Started
<1>7. report.recordings \in Seq(Recording)
  BY <1>3, <1>6
<1>8. \A i, j \in DOMAIN report.recordings :
         report.recordings[i].id = report.recordings[j].id => i = j
  BY <1>2, <1>3, <1>6
<1> QED BY <1>1, <1>2, <1>3, <1>4, <1>5, <1>7, <1>8

(* The date of a call shows the wall time of its start.                     *)
LEMMA CallDated ==
  ASSUME ReportsInv
  PROVE  IF event.dated
         THEN CallDate \in Instants /\ CallDate # NoTime /\ Wall(CallDate) = Wall(event.start)
         ELSE CallDate = NoTime
<1>1. /\ shift \in Int /\ event.start \in Instants /\ event.start \in Int
      /\ event.received \in Int /\ NoTime \notin Instants
  BY ReportTyped, ReportsAssumption DEF Event
<1>2. Wall(event.start) \in Int
  BY <1>1, ReportsAssumption DEF Wall
<1>3. CASE event.dated
  <2>1. CallDate = LocalizeWallTime(Wall(event.start), event.received)
    BY <1>3 DEF CallDate
  <2>2. CallDate \in Instants /\ Wall(CallDate) = Wall(event.start)
    BY <1>1, <1>2, <2>1, Localized
  <2> QED BY <1>1, <1>3, <2>2
<1>4. CASE ~event.dated
  BY <1>4 DEF CallDate
<1> QED BY <1>3, <1>4

(* The recording of the call is chosen by its number, or by its start.      *)
LEMMA OwnRecordingChosen ==
  ASSUME ReportsInv, NEW i \in Recordings, report.recordings[i].id = 1
  PROVE  \/ ChooseRecording = report.recordings[i]
         \/ /\ event.recording # 1
            /\ \/ ~report.recordings[i].agent \/ ~event.dated
               \/ report.recordings[i].start # Wall(event.start)
               \/ \E j \in Recordings \ {i} : report.recordings[j].start = report.recordings[i].start
<1> DEFINE lines == report.recordings
           named == {j \in Recordings : lines[j].id = event.recording}
           agents == {j \in Recordings : lines[j].agent}
           candidates == IF agents = {} THEN Recordings ELSE agents
           start == [j \in candidates |-> LocalizeWallTime(lines[j].start, CallDate)]
           nearer(j, k) == /\ start[j] # NoTime
                           /\ start[k] = NoTime \/ Apart(start[j], CallDate) < Apart(start[k], CallDate)
<1>1. /\ Recordings \subseteq Nat /\ lines \in Seq(Recording) /\ shift \in Int /\ event \in Event
      /\ \A j, k \in Recordings : lines[j].id = lines[k].id => j = k
      /\ \A j \in Recordings : lines[j] \in Recording
  BY ReportTyped DEF Recordings
<1>2. CASE event.recording = 1
  <2>1. named = {i}
    BY <1>1, <1>2
  <2>2. ChooseRecording = lines[CHOOSE k \in named : \A j \in named : IF j < k THEN k < j ELSE ~(j < k)]
    BY <2>1, Zenon DEF ChooseRecording, FirstBest
  <2>3. (CHOOSE k \in named : \A j \in named : IF j < k THEN k < j ELSE ~(j < k)) = i
    BY <1>1, <2>1
  <2> QED BY <2>2, <2>3
<1>3. CASE /\ event.recording = 0
           /\ lines[i].agent /\ event.dated /\ lines[i].start = Wall(event.start)
           /\ \A j \in Recordings \ {i} : lines[j].start # lines[i].start
  <2>1. named = {}
    BY <1>1, <1>3 DEF Recording
  <2>2. i \in agents /\ candidates = agents /\ candidates \subseteq Recordings
    BY <1>3
  <2>3. /\ CallDate \in Instants /\ CallDate # NoTime /\ CallDate \in Int
        /\ Wall(CallDate) = Wall(event.start)
    BY <1>3, CallDated, ReportsAssumption
  <2> HIDE DEF candidates
  <2>4. ChooseRecording =
          lines[CHOOSE k \in candidates : \A j \in candidates :
                 IF j < k THEN nearer(k, j) ELSE ~nearer(j, k)]
    <3> HIDE DEF agents
    <3>1. candidates # {}
      BY <2>2
    <3>2. ChooseRecording =
            IF named # {}
            THEN lines[CHOOSE k \in named : \A j \in named : IF j < k THEN k < j ELSE ~(j < k)]
            ELSE IF candidates = {} THEN NoRow
            ELSE IF CallDate = NoTime
            THEN lines[CHOOSE k \in candidates : \A j \in candidates :
                 IF j > k THEN lines[k].start > lines[j].start ELSE ~(lines[j].start > lines[k].start)]
            ELSE lines[CHOOSE k \in candidates : \A j \in candidates :
                 IF j < k THEN nearer(k, j) ELSE ~nearer(j, k)]
      BY Zenon DEF ChooseRecording, FirstBest, LastBest, candidates, agents
    <3> HIDE DEF named
    <3> QED BY <2>1, <2>3, <3>1, <3>2
  <2>5. start[i] = CallDate
    <3>1. lines[i].start \in Int
      BY <1>1 DEF Recording
    <3>2. Apart(CallDate, CallDate) = 0
      BY <2>3 DEF Apart
    <3>3. /\ LocalizeWallTime(lines[i].start, CallDate) \in Instants
          /\ Apart(LocalizeWallTime(lines[i].start, CallDate), CallDate) <= 0
      BY <1>1, <1>3, <2>3, <3>1, <3>2, Localized
    <3>4. LocalizeWallTime(lines[i].start, CallDate) = CallDate
      <4>1. \A t \in Int : Apart(t, CallDate) <= 0 => t = CallDate
        BY <2>3 DEF Apart
      <4> QED BY <3>3, <4>1, ReportsAssumption
    <3> QED BY <2>2, <3>4
  <2>6. \A j \in candidates : j # i =>
          start[j] = NoTime \/ (start[j] \in Instants /\ start[j] # CallDate)
    <3> TAKE j \in candidates
    <3> HAVE j # i
    <3>1. lines[j].start \in Int /\ lines[j].start # Wall(CallDate)
      BY <1>1, <1>3, <2>2, <2>3 DEF Recording
    <3>2. CASE \E t \in Instants : Wall(t) = lines[j].start
      <4>1. /\ LocalizeWallTime(lines[j].start, CallDate) \in Instants
            /\ Wall(LocalizeWallTime(lines[j].start, CallDate)) = lines[j].start
        BY <1>1, <2>3, <3>1, <3>2, Localized
      <4> QED BY <3>1, <4>1
    <3>3. CASE ~\E t \in Instants : Wall(t) = lines[j].start
      BY <3>3, NotLocalized
    <3> QED BY <3>2, <3>3
  <2>7. Apart(CallDate, CallDate) = 0 /\ NoTime \notin Int
    BY <2>3, ReportsAssumption DEF Apart
  <2>8. \A t \in Instants : t # CallDate => Apart(t, CallDate) \in Nat /\ Apart(t, CallDate) > 0
    BY <2>3, ReportsAssumption DEF Apart
  <2> HIDE DEF start
  <2>9. \A j \in candidates : j # i => nearer(i, j) /\ ~nearer(j, i)
    <3> TAKE j \in candidates
    <3> HAVE j # i
    <3>1. CallDate # NoTime /\ CallDate \in Int
      BY <2>3
    <3>2. CASE start[j] = NoTime
      BY <2>5, <3>1, <3>2
    <3>3. CASE start[j] # NoTime
      <4>1. Apart(start[j], CallDate) \in Nat /\ Apart(start[j], CallDate) > 0
        BY <2>6, <2>8, <3>3
      <4> QED BY <2>5, <2>7, <3>1, <3>3, <4>1
    <3> QED BY <3>2, <3>3
  <2>10. ~nearer(i, i)
    BY <2>3, <2>5, <2>7
  <2>11. (CHOOSE k \in candidates : \A j \in candidates :
                 IF j < k THEN nearer(k, j) ELSE ~nearer(j, k)) = i
    <3> HIDE DEF nearer
    <3>1. candidates \subseteq Nat /\ i \in candidates
      BY <1>1, <2>2
    <3>2. ASSUME NEW k \in candidates, \A j \in candidates : IF j < k THEN nearer(k, j) ELSE ~nearer(j, k)
          PROVE  k = i
      <4>1. k \in Nat /\ i \in Nat
        BY <3>1
      <4>2. k # i => nearer(i, k) /\ ~nearer(k, i)
        BY <2>9
      <4>3. IF i < k THEN nearer(k, i) ELSE ~nearer(i, k)
        BY <3>1, <3>2
      <4> QED BY <4>1, <4>2, <4>3
    <3>3. \A j \in candidates : IF j < i THEN nearer(i, j) ELSE ~nearer(j, i)
      <4> TAKE j \in candidates
      <4>1. j \in Nat /\ i \in Nat
        BY <3>1
      <4>2. j = i \/ j # i
        OBVIOUS
      <4> QED BY <2>9, <2>10, <4>1, <4>2
    <3> QED BY <3>1, <3>2, <3>3
  <2> QED BY <2>4, <2>11
<1>4. event.recording \in {0, 1} /\ \A j \in Recordings : lines[j].agent \in BOOLEAN
  BY <1>1 DEF Event, Recording
<1> QED BY <1>2, <1>3, <1>4

(* Where the start of a call can be known, the window of its transfers      *)
(* begins at that time on the wall.                                         *)
LEMMA WindowOnTheWall ==
  ASSUME ReportsInv, StartKnown
  PROVE  Wall(WindowStart) = Wall(event.start)
<1>1. /\ event.start \in Int /\ event.finalized \in Int /\ event.talk_time \in Int
      /\ event.finalized - event.talk_time >= event.start
  BY ReportTyped, ReportsAssumption DEF Event
<1>2. CASE event.heard
  BY <1>2 DEF WindowStart
<1>3. CASE ~event.heard
  <2> DEFINE talked == event.finalized - event.talk_time
  <2>1. WindowStart = IF CallDate = NoTime THEN talked ELSE Least(CallDate, talked)
    BY <1>3 DEF WindowStart
  <2>2. CASE event.dated
    <3>1. CallDate \in Int /\ CallDate # NoTime /\ Wall(CallDate) = Wall(event.start)
      BY <2>2, CallDated, ReportsAssumption
    <3>2. talked = event.start \/ CallDate = event.start
      BY <1>1, <1>3 DEF StartKnown
    <3> HIDE DEF talked
    <3>3. talked \in Int /\ talked >= event.start
      BY <1>1 DEF talked
    <3>4. WindowStart \in {CallDate, event.start}
      BY <1>1, <2>1, <3>1, <3>2, <3>3 DEF Least
    <3> QED BY <3>1, <3>4
  <2>3. CASE ~event.dated
    <3>1. CallDate = NoTime
      BY <2>3, CallDated
    <3>2. talked = event.start
      BY <1>1, <1>3, <2>3 DEF StartKnown
    <3> QED BY <2>1, <3>1, <3>2
  <2> QED BY <2>2, <2>3
<1> QED BY <1>2, <1>3

(* Near the call the clock on the wall only goes forward.                   *)
LEMMA WallForward ==
  ASSUME ReportsInv, ~SetBack
  PROVE  /\ \A t, u \in event.start .. event.finalized : t < u => Wall(t) < Wall(u)
         /\ \A t \in event.start .. event.finalized : /\ Wall(event.start) <= Wall(t)
                                                       /\ Wall(t) <= Wall(event.finalized)
<1>1. /\ shift \in Int /\ event.start \in Int /\ event.finalized \in Int
      /\ Change \in Int /\ Skew \in Nat
  BY ReportTyped, ReportsAssumption DEF Event
<1>2. \/ shift >= 0
      \/ event.start - Skew >= Change
      \/ event.finalized + Skew < Change
  BY <1>1 DEF SetBack, During
<1>3. \A t, u \in event.start .. event.finalized : t < u => Wall(t) < Wall(u)
  BY <1>1, <1>2 DEF Wall
<1>4. \A t \in event.start .. event.finalized : /\ Wall(event.start) <= Wall(t)
                                                /\ Wall(t) <= Wall(event.finalized)
  BY <1>1, <1>2 DEF Wall
<1> QED BY <1>3, <1>4

LEMMA OwnPresetFound ==
  ASSUME ReportsInv, Own # {}, StartKnown, ~SetBack
  PROVE  \E i \in DOMAIN report.happened :
           /\ LatestPreset = report.transfers[i]
           /\ IF i \in Own THEN \A j \in Own : report.happened[j].at <= report.happened[i].at
              ELSE report.transfers[i].at \in
                     (Wall(event.start) - Skew) .. (Wall(event.finalized) + Skew)
<1> DEFINE lines == report.transfers
           happened == report.happened
           candidates == {i \in DOMAIN lines :
                            /\ lines[i].transfer /\ lines[i].lead /\ lines[i].preset
                            /\ lines[i].at >= Wall(WindowStart) - Skew
                            /\ lines[i].at <= Wall(event.finalized) + Skew}
           best == CHOOSE k \in candidates : \A j \in candidates :
                     IF j < k THEN lines[k].at > lines[j].at ELSE ~(lines[j].at > lines[k].at)
<1>1. /\ event.start \in Int /\ event.finalized \in Int /\ Skew \in Nat /\ shift \in Int /\ Change \in Int
      /\ DOMAIN lines = DOMAIN happened /\ DOMAIN happened \subseteq Nat
      /\ \A i \in DOMAIN happened :
           /\ happened[i] \in Transfer
           /\ lines[i] = [happened[i] EXCEPT !.at = Wall(@)]
  <2>1. event.start \in Int /\ event.finalized \in Int /\ Skew \in Nat /\ shift \in Int
        /\ Change \in Int
    BY ReportTyped, ReportsAssumption DEF Event
  <2>2. DOMAIN happened \subseteq Nat /\ \A i \in DOMAIN happened : happened[i] \in Transfer
    BY ReportTyped
  <2> QED BY <2>1, <2>2, ReportTyped
<1>2. \A t \in Int : Wall(t) \in Int
  BY <1>1 DEF Wall
<1>3. \A i \in DOMAIN happened :
        /\ happened[i].at \in Int /\ lines[i].at = Wall(happened[i].at) /\ lines[i].at \in Int
        /\ lines[i].transfer = happened[i].transfer /\ lines[i].lead = happened[i].lead
        /\ lines[i].preset = happened[i].preset
  <2>1. ASSUME NEW t \in Transfer
        PROVE  LET row == [t EXCEPT !.at = Wall(@)] IN
               /\ t.at \in Int /\ row.at = Wall(t.at) /\ row.at \in Int
               /\ row.transfer = t.transfer /\ row.lead = t.lead /\ row.preset = t.preset
    BY <1>2 DEF Transfer
  <2> QED BY <1>1, <2>1
<1>4. Wall(WindowStart) = Wall(event.start)
  BY WindowOnTheWall
<1>5. Own \subseteq candidates
  <2>1. ASSUME NEW i \in Own PROVE i \in candidates
    <3>1. /\ i \in DOMAIN happened /\ happened[i].at \in event.start .. event.finalized
          /\ happened[i].transfer /\ happened[i].lead /\ happened[i].preset
      BY DEF Own
    <3>2. lines[i].at >= Wall(event.start) /\ lines[i].at <= Wall(event.finalized)
      BY <1>3, <3>1, WallForward
    <3>3. Wall(event.start) \in Int /\ Wall(event.finalized) \in Int /\ lines[i].at \in Int
      BY <1>1, <1>2, <1>3, <3>1
    <3>4. lines[i].at >= Wall(WindowStart) - Skew /\ lines[i].at <= Wall(event.finalized) + Skew
      BY <1>1, <1>4, <3>2, <3>3
    <3> QED BY <1>1, <1>3, <3>1, <3>4
  <2> QED BY <2>1
<1>6. LatestPreset = lines[best]
  <2>1. candidates # {}
    BY <1>5
  <2>2. LatestPreset = IF candidates = {} THEN NoRow ELSE lines[best]
    BY Zenon DEF LatestPreset, FirstBest
  <2> HIDE DEF candidates, best
  <2> QED BY <2>1, <2>2
<1>7. best \in candidates /\ \A j \in candidates : lines[j].at <= lines[best].at
  <2>1. candidates \subseteq Nat /\ candidates # {} /\ candidates \subseteq DOMAIN happened
        /\ \A i \in candidates : /\ lines[i].at \in Int
                                 /\ lines[i].at <= Wall(event.finalized) + Skew
    BY <1>1, <1>3, <1>5
  <2>2. Wall(event.finalized) + Skew \in Int
    BY <1>1, <1>2
  <2> HIDE DEF candidates
  <2> DEFINE last == Wall(event.finalized) + Skew
             ages == {last - lines[i].at : i \in candidates}
  <2>3. PICK x \in ages : \A y \in ages : x <= y
    <3>1. ages \subseteq Nat /\ ages # {}
      <4>1. \A i \in candidates : last - lines[i].at \in Nat
        BY <2>1, <2>2
      <4> QED BY <2>1, <4>1
    <3> HIDE DEF ages
    <3> QED BY <3>1, FirstExists
  <2> DEFINE newest == {i \in candidates : last - lines[i].at = x}
  <2>4. PICK k \in newest : \A j \in newest : k <= j
    <3>1. newest \subseteq Nat /\ newest # {}
      BY <2>1, <2>3
    <3> HIDE DEF newest
    <3> QED BY <3>1, FirstExists
  <2>5. \A j \in candidates : last - lines[k].at <= last - lines[j].at
    BY <2>3, <2>4
  <2>6. \A j \in candidates : lines[j].at <= lines[k].at /\ (lines[j].at = lines[k].at => k <= j)
    <3> TAKE j \in candidates
    <3>1. lines[j].at \in Int /\ lines[k].at \in Int /\ last \in Int
      BY <2>1, <2>2, <2>4
    <3>2. lines[j].at <= lines[k].at
      BY <2>5, <3>1
    <3>3. ASSUME lines[j].at = lines[k].at PROVE k <= j
      <4>1. j \in newest
        BY <2>4, <3>3
      <4> QED BY <2>4, <4>1
    <3> QED BY <3>2, <3>3
  <2> DEFINE fits(i) == \A j \in candidates :
               IF j < i THEN lines[i].at > lines[j].at ELSE ~(lines[j].at > lines[i].at)
  <2>7. fits(k)
    <3> TAKE j \in candidates
    <3>1. lines[j].at \in Int /\ lines[k].at \in Int /\ j \in Nat /\ k \in Nat
      BY <2>1, <2>4
    <3> QED BY <2>6, <3>1
  <2>8. best \in candidates /\ fits(best)
    <3> best = CHOOSE i \in candidates : fits(i)
      OBVIOUS
    <3> HIDE DEF fits, best
    <3> QED BY <2>4, <2>7
  <2> HIDE DEF best
  <2>9. \A j \in candidates : lines[j].at <= lines[best].at
    <3> TAKE j \in candidates
    <3>1. lines[j].at \in Int /\ lines[best].at \in Int
      BY <2>1, <2>8
    <3> QED BY <2>8, <3>1
  <2> QED BY <2>8, <2>9
<1> HIDE DEF best
<1>8. best \in DOMAIN happened
  BY <1>1, <1>7
<1>9. CASE best \in Own
  <2>1. ASSUME NEW j \in Own PROVE happened[j].at <= happened[best].at
    <3>1. lines[j].at <= lines[best].at
      BY <1>5, <1>7
    <3>2. /\ j \in DOMAIN happened
          /\ happened[j].at \in event.start .. event.finalized
          /\ happened[best].at \in event.start .. event.finalized
      BY <1>9 DEF Own
    <3>3. happened[best].at < happened[j].at => lines[best].at < lines[j].at
      BY <1>3, <1>8, <3>2, WallForward
    <3>4. /\ happened[j].at \in Int /\ happened[best].at \in Int
          /\ lines[j].at \in Int /\ lines[best].at \in Int
      BY <1>3, <1>8, <3>2
    <3> QED BY <3>1, <3>3, <3>4
  <2> QED BY <1>6, <1>8, <1>9, <2>1
<1>10. CASE best \notin Own
  <2>1. /\ lines[best].at \in Int /\ lines[best].at >= Wall(event.start) - Skew
        /\ lines[best].at <= Wall(event.finalized) + Skew
    BY <1>3, <1>4, <1>7, <1>8
  <2>2. Wall(event.start) - Skew \in Int /\ Wall(event.finalized) + Skew \in Int
    BY <1>1, <1>2
  <2> QED BY <1>6, <1>8, <1>10, <2>1, <2>2
<1> QED BY <1>9, <1>10

(* What is read out of a report is about the call: parse_latest_preset and  *)
(* choose_recording find its own transfer and recording, for any report,    *)
(* any change of the clock and any delays.                                  *)
THEOREM ReportsOfCall == ReportsSpec => []ReportedOfThisCall
<1>1. ReportsInv => ReportedOfThisCall
  <2> SUFFICES ASSUME ReportsInv PROVE ReportedOfThisCall
    OBVIOUS
  <2>1. ASSUME found.of = "preset", Own # {}, StartKnown, ~SetBack
        PROVE  /\ found.row # NoRow
               /\ \E i \in DOMAIN report.happened :
                    LET at == report.happened[i].at IN
                    /\ report.transfers[i] = found.row
                    /\ IF i \in Own THEN \A j \in Own : report.happened[j].at <= at
                       ELSE found.row.at \in (Wall(event.start) - Skew)..(Wall(event.finalized) + Skew)
    <3>1. found.row = LatestPreset
      BY <2>1 DEF ReportsInv, NotLooked
    <3>2. PICK i \in DOMAIN report.happened :
           /\ LatestPreset = report.transfers[i]
           /\ IF i \in Own THEN \A j \in Own : report.happened[j].at <= report.happened[i].at
              ELSE report.transfers[i].at \in
                     (Wall(event.start) - Skew) .. (Wall(event.finalized) + Skew)
      BY <2>1, OwnPresetFound
    <3>3. report.transfers[i] # NoRow
      <4>1. /\ report.happened[i] \in Transfer /\ shift \in Int
            /\ report.transfers[i] = [report.happened[i] EXCEPT !.at = Wall(@)]
        BY ReportTyped
      <4>2. Wall(report.happened[i].at) \in Int
        BY <4>1, ReportsAssumption DEF Transfer, Wall
      <4>3. report.transfers[i] \in Transfer
        BY <4>1, <4>2 DEF Transfer
      <4> QED BY <4>3, ReportsAssumption
    <3> QED BY <3>1, <3>2, <3>3
  <2>2. ASSUME found.of = "recording", NEW i \in Recordings, report.recordings[i].id = 1,
               found.row # report.recordings[i]
        PROVE  /\ event.recording # 1
               /\ \/ ~report.recordings[i].agent \/ ~event.dated
                  \/ report.recordings[i].start # Wall(event.start)
                  \/ \E j \in Recordings \ {i} :
                       report.recordings[j].start = report.recordings[i].start
    <3>1. found.row = ChooseRecording
      BY <2>2 DEF ReportsInv, NotLooked
    <3> QED BY <2>2, <3>1, OwnRecordingChosen
  <2> QED BY <2>1, <2>2 DEF ReportedOfThisCall
<1> QED BY <1>1, ReportsInit, ReportsStep, PTL DEF ReportsSpec
=============================================================================
