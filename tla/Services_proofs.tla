--------------------------- MODULE Services_proofs ---------------------------
(***************************************************************************)
(* The services around the calls, proved for any number of turns, workers, *)
(* users and browsers: the invariants behind HistoryIsWhole,               *)
(* AnswersUnderOneScope, AnswerFitsContract, PrimaryIsTried,               *)
(* DisabledHasNoViewer, AttentionKept, BellIsRight, TemporaryMustChange    *)
(* and PictureExists.  Each says what a request or a message that is under *)
(* way remembers, and that what comes of that memory does no harm.         *)
(***************************************************************************)
EXTENDS Conversation, GrafanaViewer, Investigation, Inbox, Account, FiniteSetTheorems, TLAPS

----------------------------------------------------------------------------
(* Account.                                                                *)

Kinds == {"sign_in", "logout", "change", "rehash", "appearance", "avatar", "name", "remove",
          "delete", "edit"}
Job == [kind : Kinds, row : AccountRow]

AccountTyped ==
  /\ user \in AccountRow /\ work \in [Clients -> {NoWork} \cup Job]
  /\ passwords \in PasswordNumbers /\ pictures \in 0 .. MaxPictures
  /\ temporary \in SUBSET (0 .. passwords)

\* What every row is, the saved one and the copies: it names a password and a picture that
\* were given out, and carries the flag if the password is a temporary one.
Exposed(row) == row.password \in temporary \ waived
FitRow(row) ==
  /\ row.password <= passwords /\ row.picture \in (1 .. pictures) \cup {NoPicture}
  /\ Exposed(row) => row.must

RowsInv ==
  /\ FitRow(user)
  /\ \A c \in Clients : work[c] # NoWork => FitRow(work[c].row)

KindInv == \A b \in Browsers : work[b] # NoWork /\ Exposed(work[b].row) =>
  work[b].kind \in {"sign_in", "logout", "change"}

\* A picture about to be named is stored, and nobody else knows of it.
NameInv == \A b \in Browsers : Doing(b, "name") =>
  LET p == work[b].row.picture IN
  /\ p \in stored /\ p # NoPicture /\ user.picture # p
  /\ \A c \in Clients \ {b} : work[c] # NoWork => work[c].row.picture # p

\* A picture about to be deleted is no longer the one the row names.
DeleteInv == \A b \in Browsers : Doing(b, "delete") =>
  work[b].row.picture \in {NoPicture} \cup undone \/ user.picture # work[b].row.picture

AccountIInv == AccountTyped /\ RowsInv /\ KindInv /\ NameInv /\ DeleteInv /\ PictureExists

----------------------------------------------------------------------------
(* Conversation.                                                           *)

TurnRow == [pc : {"new", "read", "lock", "snapshot", "asking", "check", "create", "save",
                  "release", "unlock", "done"},
            on : Conversations \cup {NoConversation}, locked : BOOLEAN,
            scope : Scopes \cup {Revoked}, history : SUBSET Turns, data : SUBSET Scopes]
Talk == [there : BOOLEAN, scope : Scopes \cup {Revoked}, turns : SUBSET Turns]

\* A turn that has the lock of a conversation is in it, and one that has it to give back
\* has it.
Placed(r) ==
  /\ r.pc \in {"read", "lock"} \/ r.locked => r.on \in Conversations
  /\ r.pc \in {"read", "lock", "create"} => ~r.locked
  /\ r.pc = "new" => ~r.locked /\ r.on = NoConversation
  /\ r.pc = "create" => r.on = NoConversation
  /\ r.pc = "save" => r.on \in Conversations
  /\ r.pc = "unlock" => r.locked
TurnInv == \A t \in Turns : Placed(turn[t])

\* A turn that has been saved is over.
Over(r) == r.pc \in {"release", "unlock", "done"}
SavedInv == \A c \in Conversations : \A t \in talk[c].turns : Over(turn[t])

\* The cache has the token of whoever stands between acquiring and releasing.
LockInv == \A t \in Turns : Protected(t) /\ turn[t].on \notin outdated => lock[turn[t].on] = t

\* A turn that waits for the lock has read all there is, or it is late.
ReadAll(r) == r.pc = "lock" => talk[r.on].turns \subseteq r.history
WaitInv == \A t \in Turns \ late : ReadAll(turn[t])

\* A turn that did not drift works in the scope of its conversation, and on its data only.
InScope(r) ==
  /\ r.pc \in {"read", "lock", "snapshot"} =>
       scope # Revoked /\ (r.on \in Conversations => talk[r.on].scope = scope)
  /\ r.pc \in {"asking", "check", "save"} /\ r.on \in Conversations =>
       talk[r.on].scope = r.scope
  /\ r.pc \in {"asking", "check"} /\ scope = r.scope => r.data = {r.scope}
  /\ r.pc \in {"create", "save"} => r.data = {r.scope}
ScopeInv == \A t \in Turns \ drifted : InScope(turn[t])

\* A conversation that was started keeps its scope for good.
Started(r) ==
  /\ r.pc \notin {"new", "done"} /\ r.on \in Conversations => talk[r.on].scope # Revoked
  /\ r.pc \in {"asking", "check", "create", "save"} => r.scope # Revoked
KeptInv ==
  /\ \A c \in Conversations : talk[c].there => talk[c].scope # Revoked
  /\ \A t \in Turns : Started(turn[t])

\* A turn that has the lock has read every locked turn that is saved.
ReadWhole == \A t \in Turns \ late : Protected(t) /\ turn[t].on \notin outdated =>
  \A u \in talk[turn[t].on].turns \ {t} : turn[u].locked => u \in turn[t].history

ChatIInv == /\ ChatTypeOK /\ TurnInv /\ SavedInv /\ LockInv /\ WaitInv /\ ScopeInv /\ KeptInv
            /\ ReadWhole /\ AnswersUnderOneScope

----------------------------------------------------------------------------
(* GrafanaViewer.                                                          *)

SyncTask == [pc : {"remove", "clear", "rename", "lookup", "create", "lookup_again", "password",
                   "store"},
             row : Companies, id : 1..MaxAccounts \cup {NoValue}]
Viewer == [login : Logins, password : Passwords]
ViewerTyped ==
  /\ ViewerTypeOK /\ sync \in [Workers -> {Idle} \cup SyncTask]
  /\ \A w \in Workers : sync[w].pc \notin {"idle", "remove", "clear"} => Configured(sync[w].row)

\* The ids in use are those of accounts that were created.
Ids == (1 .. created) \cup {NoValue}
IdInv ==
  /\ company.id \in Ids /\ (admin # NoValue => admin.id \in Ids)
  /\ \A w \in Workers : sync[w].pc # "idle" => sync[w].row.id \in Ids /\ sync[w].id \in Ids

OneLogin == \A i, j \in DOMAIN grafana : grafana[i].login = grafana[j].login => i = j

\* The account a task found has the login of its row; the one it removed is gone.
FoundInv == \A w \in Workers :
  /\ sync[w].pc \in {"password", "store"} /\ sync[w].id \in DOMAIN grafana =>
       grafana[sync[w].id].login = sync[w].row.login
  /\ sync[w].pc = "clear" => sync[w].row.id \notin DOMAIN grafana

\* An account is the company's, or lost, or a task is about to remember it.
Remembers(r, i) ==
  \/ r.pc \in {"password", "store"} /\ r.id = i
  \/ r.pc = "lookup_again" /\ r.row.login = grafana[i].login
KnownInv == \A i \in DOMAIN grafana :
  i \in lost \/ company.id = i \/ \E w \in Workers : Remembers(sync[w], i)

\* A company switched off has its account removed by the tasks that run, and one to come.
OffInv == Off(company) /\ ~crossed =>
  /\ \A w \in Workers : sync[w].pc \in {"idle", "remove", "clear"}
  /\ company.id # NoValue /\ ~gaveUp => queued \/ \E w \in Workers : sync[w].pc # "idle"

ViewerIInv == ViewerTyped /\ IdInv /\ OneLogin /\ FoundInv /\ KnownInv /\ OffInv

----------------------------------------------------------------------------
(* Inbox.                                                                  *)

Row == [version : Nat, open : BOOLEAN, to : SUBSET People, read : SUBSET People]
Message == [about : Notices, type : {"updated", "resolved"}]

InboxTyped ==
  /\ notice \in [Notices -> Row]
  /\ marked \in [People -> [Notices -> Nat]]
  /\ DOMAIN marking = People
  /\ \A u \in People : /\ DOMAIN marking[u] \subseteq Notices
                      /\ \A k \in DOMAIN marking[u] : marking[u][k] \in Nat

\* A row that has been queued is addressed to somebody, unless it is one of unknown teams;
\* an announcement keeps the recipients it was found with.
VersionInv ==
  /\ \A k \in Notices :
       /\ notice[k].version = 0 => ~notice[k].open /\ notice[k].to = {}
       /\ notice[k].version > 0 /\ notice[k].to = {} => CategoryOf[k] = "unknown_team"
  /\ \A u \in People : \A k \in DOMAIN marking[u] : CategoryOf[k] = "custom" =>
       u \in notice[k].to /\ notice[k].version > 0

AttentionIInv == InboxTyped /\ VersionInv /\ AttentionKept

PortalTyped ==
  /\ \A m \in unsent : m.about \in Notices /\ m.type \in {"updated", "resolved"}
  /\ channel \in [People -> Seq(Message)]
  /\ bell \in [People -> [Notices -> {"none", "unread", "read"}]]
  /\ reloads \in [People -> [asked : BOOLEAN, answers : SUBSET [Notices -> Row]]]

\* A message about a row is still to be sent; is in a channel; is the last one there.
Pending(k) == \E m \in unsent : m.about = k
About(s, k) == \E i \in DOMAIN s : s[i].about = k
Latest(s, k, i) ==
  /\ i \in DOMAIN s /\ s[i].about = k
  /\ \A j \in DOMAIN s : j > i => s[j].about # k

\* The portal of a user hears of a row, and has what it was told of it in order.
Follows(u, k) == <<u, k>> \notin astray /\ (u \in Superusers => notice[k].to = {})

\* Whoever a row is not addressed to, or no longer, does not have it.
StrangerInv == \A u \in People \ Superusers, k \in Notices :
  u \notin notice[k].to /\ <<u, k>> \notin astray =>
    bell[u][k] = "none" /\ ~About(channel[u], k)

\* With no other message about a row to be sent, the last one on its way says how the row is.
LastWord == \A u \in People, k \in Notices : \A i \in DOMAIN channel[u] :
  ~Pending(k) /\ Follows(u, k) /\ Latest(channel[u], k, i) =>
    (channel[u][i].type = "updated" <=> notice[k].open)

\* BellIsRight for one row at a time: no message about it and no list on its way.
RowRight == \A u \in People, k \in Notices :
  /\ ~Pending(k) /\ ~About(channel[u], k) /\ Follows(u, k)
  /\ ~reloads[u].asked /\ reloads[u].answers = {}
  => (bell[u][k] # "none" <=> Shows(u, k))

BellIInv == PortalTyped /\ StrangerInv /\ LastWord /\ RowRight

InboxIInv == AttentionIInv /\ BellIInv

----------------------------------------------------------------------------
(* Investigation.                                                          *)

Scope == [leader : Leaders \cup {Nothing}, dialer : Dialers \cup {Nothing},
          place : Places \cup {Nothing}]

\* Every part of the scope was confirmed by a directory, inherited, or named in the question.
Inherited == IF contract.inherits THEN {contract.dialer} ELSE {}
Grounded ==
  /\ resolved.leader \in {Nothing} \cup confirmed
  /\ resolved.dialer \in {Nothing} \cup confirmed \cup Inherited
  /\ resolved.place \in {Nothing, contract.place}

AskTyped == contract \in ContractType /\ resolved \in Scope /\ Grounded

\* Every query is one audited attempt.
Tallied ==
  /\ IsFiniteSet(outputs) /\ attempts \in Nat /\ audits \in Nat
  /\ Cardinality(outputs) <= audits /\ audits <= attempts

\* Until the finalizer has its turn, two attempts are left.
ReserveInv ==
  /\ stage \in {"asked", "project", "round", "calls", "finalize", "query", "done"}
  /\ stage \in {"asked", "project"} => attempts = 0
  /\ stage \in {"round", "calls", "finalize"} => attempts <= MaxCalls - 2
  /\ stage = "query" => attempts < MaxCalls
  /\ attempts <= MaxCalls

\* The finalizer alone replies, and once.
OpenInv == stage # "done" => reply = NoReply

AskIInv ==
  AskTyped /\ Tallied /\ ReserveInv /\ OpenInv /\ PrimaryIsTried /\ AnswerFitsContract

----------------------------------------------------------------------------
(* Account: one lemma for each way a request touches the row.              *)

(* A request that begins with a copy of the row, or ends, and writes neither   *)
(* the row nor the storage keeps the invariant: nobody has yet promised a new  *)
(* picture, and a fresh copy is as sound as the row.                           *)
LEMMA QuietStep ==
  ASSUME AccountIInv, NEW c \in Clients, NEW w, Does(c, w),
         \/ w = NoWork
         \/ /\ w \in Job /\ w.row = user /\ w.kind \notin {"name", "delete"}
            /\ c \in Browsers /\ Exposed(user) => w.kind \in {"sign_in", "logout", "change"},
         UNCHANGED <<user, stored, accountHistory, passwords, pictures>>
  PROVE  AccountIInv'
<1>1. AccountTyped'
  BY DEF AccountIInv, AccountTyped, Does, accountHistory
<1>2. \A d \in Clients : work'[d] = IF d = c THEN w ELSE work[d]
  BY DEF AccountIInv, AccountTyped, Does
<1>3. RowsInv'
  BY <1>2 DEF AccountIInv, RowsInv, FitRow, Exposed, accountHistory
<1>4. KindInv'
  BY <1>2 DEF AccountIInv, KindInv, Exposed, accountHistory, Clients
<1>5. NameInv'
  BY <1>2 DEF AccountIInv, NameInv, Doing, Clients
<1>6. DeleteInv' /\ PictureExists'
  BY <1>2 DEF AccountIInv, DeleteInv, PictureExists, Doing, Clients, accountHistory
<1> QED
  BY <1>1, <1>3, <1>4, <1>5, <1>6 DEF AccountIInv

(* A password the user chose is a new one, which no administrator gave out.    *)
LEMMA ChangeSound ==
  ASSUME AccountIInv, NEW b \in Browsers, ChangePassword(b)
  PROVE  AccountIInv'
<1>1. /\ passwords \in Nat /\ passwords' = passwords + 1 /\ passwords' \in PasswordNumbers
      /\ user' \in AccountRow /\ user'.password = passwords' /\ user'.picture = user.picture
      /\ temporary \in SUBSET (0 .. passwords) /\ b \in Clients
  <2>1. passwords \in Nat /\ MaxPasswords \in Nat
    BY AccountAssumption DEF AccountAssumption, AccountIInv, AccountTyped, PasswordNumbers
  <2>2. passwords' = passwords + 1 /\ passwords' \in PasswordNumbers
    BY <2>1 DEF ChangePassword, PasswordNumbers
  <2> QED
    BY <2>1, <2>2 DEF AccountIInv, AccountTyped, ChangePassword, AccountRow, Clients
<1>2. /\ [kind |-> "rehash", row |-> user'] \in Job
      /\ \A d \in Clients : work'[d] = IF d = b THEN [kind |-> "rehash", row |-> user']
                                       ELSE work[d]
  BY <1>1 DEF AccountIInv, AccountTyped, ChangePassword, Does, Job, Kinds
<1>3. AccountTyped'
  BY <1>1, <1>2 DEF AccountIInv, AccountTyped, ChangePassword, Does, accountHistory
<1>4. user'.password \notin temporary
  BY <1>1
<1>5. RowsInv'
  <2>1. FitRow(user)'
    BY <1>1, <1>4 DEF AccountIInv, RowsInv, FitRow, Exposed, ChangePassword, accountHistory
  <2>2. ASSUME NEW d \in Clients, work'[d] # NoWork
        PROVE  FitRow(work[d].row)'
    <3>1. CASE d = b
      BY <1>2, <2>1, <3>1 DEF FitRow, Exposed
    <3>2. CASE d # b
      <4>1. work'[d] = work[d] /\ FitRow(work[d].row) /\ work[d].row \in AccountRow
        BY <1>2, <2>2, <3>2 DEF AccountIInv, AccountTyped, RowsInv, Job
      <4> QED
        BY <1>1, <4>1
        DEF FitRow, Exposed, ChangePassword, accountHistory, AccountRow, PasswordNumbers
    <3> QED
      BY <3>1, <3>2
  <2> QED
    BY <2>1, <2>2 DEF RowsInv
<1>6. /\ work'[b].kind = "rehash" /\ work'[b].row = user' /\ Browsers \subseteq Clients
      /\ \A d \in Clients \ {b} : work'[d] = work[d]
  BY <1>1, <1>2 DEF Clients
<1>7. KindInv'
  BY <1>1, <1>4, <1>6 DEF AccountIInv, KindInv, Exposed, ChangePassword, accountHistory
<1>8. NameInv'
  <2>1. ASSUME NEW a \in Browsers, Doing(a, "name")'
        PROVE  a # b /\ work'[a] = work[a] /\ Doing(a, "name")
    BY <1>6, <2>1 DEF Doing
  <2>2. ASSUME NEW a \in Browsers, Doing(a, "name")', NEW d \in Clients \ {a}, work'[d] # NoWork
        PROVE  work'[d].row.picture # work'[a].row.picture
    BY <1>1, <1>6, <2>1, <2>2 DEF AccountIInv, NameInv
  <2>3. stored' = stored /\ user'.picture = user.picture
    BY <1>1 DEF ChangePassword
  <2> QED
    BY <2>1, <2>2, <2>3 DEF AccountIInv, NameInv
<1>9. DeleteInv' /\ PictureExists'
  BY <1>1, <1>6 DEF AccountIInv, DeleteInv, PictureExists, Doing, ChangePassword, accountHistory
<1> QED
  BY <1>3, <1>5, <1>7, <1>8, <1>9 DEF AccountIInv

(* What a save of the whole row does to the pictures, whoever saves: the one   *)
(* it writes is the row's, or it is recorded as written back.                  *)
LEMMA WriteBackSound ==
  ASSUME AccountIInv, NEW c \in Clients, work[c] # NoWork, ~Doing(c, "name"), ~Doing(c, "delete"),
         Done(c), user'.picture = work[c].row.picture, undone' = WritesBack(work[c].row),
         UNCHANGED stored
  PROVE  NameInv' /\ DeleteInv' /\ PictureExists'
<1>1. \A d \in Clients : work'[d] = IF d = c THEN NoWork ELSE work[d]
  BY DEF AccountIInv, AccountTyped, Does, Done
<1>2. NameInv'
  BY <1>1 DEF AccountIInv, NameInv, Doing, Clients
<1>3. DeleteInv'
  BY <1>1 DEF AccountIInv, DeleteInv, Doing, Clients, WritesBack
<1>4. PictureExists'
  BY DEF AccountIInv, PictureExists, WritesBack
<1> QED
  BY <1>2, <1>3, <1>4

(* The form of the appearance saves a copy that was never exposed.             *)
LEMMA AppearanceSound ==
  ASSUME AccountIInv, NEW b \in Browsers, SaveAppearance(b)
  PROVE  AccountIInv'
<1>1. /\ b \in Clients /\ work[b] # NoWork /\ work[b] \in Job
      /\ FitRow(work[b].row) /\ ~Doing(b, "name") /\ ~Doing(b, "delete")
  BY DEF AccountIInv, AccountTyped, RowsInv, SaveAppearance, Doing, Clients
<1>2. \A d \in Clients : work'[d] = IF d = b THEN NoWork ELSE work[d]
  BY DEF AccountIInv, AccountTyped, SaveAppearance, Done, Does
<1>3. AccountTyped'
  BY <1>1, <1>2 DEF AccountIInv, AccountTyped, SaveAppearance, Done, Does, Job
<1>4. RowsInv'
  BY <1>1, <1>2 DEF AccountIInv, RowsInv, FitRow, Exposed, SaveAppearance
<1>5. KindInv'
  BY <1>2 DEF AccountIInv, KindInv, Exposed, Clients, SaveAppearance
<1>6. NameInv' /\ DeleteInv' /\ PictureExists'
  BY <1>1, WriteBackSound DEF SaveAppearance
<1> QED
  BY <1>3, <1>4, <1>5, <1>6 DEF AccountIInv

(* The administrator's form: a new password takes the flag with it, and a flag *)
(* that is taken away waives the password.                                     *)
LEMMA EditSound ==
  ASSUME AccountIInv, SaveEdit
  PROVE  AccountIInv'
<1> DEFINE c == Administrator
           row == work[c].row
<1>1. /\ c \in Clients /\ work[c] # NoWork /\ row \in AccountRow
      /\ FitRow(row) /\ ~Doing(c, "name") /\ ~Doing(c, "delete") /\ Done(c)
  BY DEF AccountIInv, AccountTyped, RowsInv, SaveEdit, Doing, Clients, Job
<1>2. \A d \in Clients : work'[d] = IF d = c THEN NoWork ELSE work[d]
  BY <1>1 DEF AccountIInv, AccountTyped, Done, Does
<1>3. PICK active \in BOOLEAN, flag \in BOOLEAN :
        LET formed == [row EXCEPT !.active = active, !.must = flag] IN
        \/ /\ passwords < MaxPasswords /\ passwords' = passwords + 1
           /\ user' = WithPassword(formed, flag, passwords')
           /\ temporary' = temporary \cup {passwords'} /\ waived' = waived
        \/ /\ user' = formed /\ UNCHANGED <<passwords, temporary>>
           /\ waived' = IF flag THEN waived ELSE waived \cup {row.password}
  BY DEF SaveEdit
<1>4. /\ passwords \in Nat /\ MaxPasswords \in Nat /\ passwords <= MaxPasswords
      /\ temporary \in SUBSET (0 .. passwords) /\ row.password \in 0 .. MaxPasswords
  BY <1>1, AccountAssumption DEF AccountAssumption, AccountIInv, AccountTyped, PasswordNumbers, AccountRow
<1>5. /\ passwords' \in PasswordNumbers /\ user' \in AccountRow /\ passwords <= passwords'
      /\ user'.picture = row.picture /\ temporary' \in SUBSET (0 .. passwords')
      /\ user'.password <= passwords'
      /\ user'.password \in temporary' \ waived' => user'.must
      /\ \A p \in 0 .. passwords : p \in temporary' \ waived' => p \in temporary \ waived
  <2>1. CASE /\ passwords < MaxPasswords /\ passwords' = passwords + 1
             /\ user' = WithPassword([row EXCEPT !.active = active, !.must = flag], flag, passwords')
             /\ temporary' = temporary \cup {passwords'} /\ waived' = waived
    <3>1. passwords' \in PasswordNumbers /\ passwords' \in Nat /\ passwords <= passwords'
      BY <1>4, <2>1 DEF PasswordNumbers
    <3>2. /\ user' \in AccountRow /\ user'.picture = row.picture
          /\ user'.password = passwords' /\ user'.must
      BY <1>1, <2>1, <3>1 DEF WithPassword, AccountRow
    <3>3. temporary' \in SUBSET (0 .. passwords')
      BY <1>4, <2>1, <3>1
    <3> QED
      BY <1>4, <2>1, <3>1, <3>2, <3>3
  <2>2. CASE /\ user' = [row EXCEPT !.active = active, !.must = flag]
             /\ UNCHANGED <<passwords, temporary>>
             /\ waived' = IF flag THEN waived ELSE waived \cup {row.password}
    <3>1. /\ user' \in AccountRow /\ user'.picture = row.picture
          /\ user'.password = row.password /\ user'.must = flag
      BY <1>1, <2>2 DEF AccountRow
    <3>2. row.password <= passwords
      BY <1>1 DEF FitRow
    <3> QED
      BY <1>4, <2>2, <3>1, <3>2 DEF PasswordNumbers
  <2> QED
    BY <1>3, <2>1, <2>2
<1>6. AccountTyped'
  <2>1. work' \in [Clients -> {NoWork} \cup Job]
    BY <1>1 DEF AccountIInv, AccountTyped, Done, Does
  <2> QED
    BY <1>5, <2>1 DEF AccountIInv, AccountTyped, SaveEdit
<1>7. ASSUME NEW d \in Clients, work'[d] # NoWork
      PROVE  /\ work'[d] = work[d] /\ work[d] # NoWork /\ FitRow(work[d].row)
             /\ work[d].row.password \in 0 .. passwords /\ work[d] \in Job
  BY <1>2, <1>4, <1>7
  DEF AccountIInv, AccountTyped, RowsInv, FitRow, Job, AccountRow, PasswordNumbers
<1>8. RowsInv'
  <2>1. FitRow(user)'
    BY <1>1, <1>5 DEF FitRow, Exposed, SaveEdit
  <2>2. ASSUME NEW d \in Clients, work'[d] # NoWork
        PROVE  FitRow(work[d].row)'
    <3>1. work'[d].row.password <= passwords'
      BY <1>4, <1>5, <1>7, <2>2 DEF AccountIInv, AccountTyped, PasswordNumbers
    <3> QED
      BY <1>5, <1>7, <2>2, <3>1 DEF FitRow, Exposed, SaveEdit
  <2> QED
    BY <2>1, <2>2 DEF RowsInv
<1>9. KindInv'
  BY <1>5, <1>7 DEF AccountIInv, KindInv, Exposed, Clients
<1>10. NameInv' /\ DeleteInv' /\ PictureExists'
  BY <1>1, <1>5, WriteBackSound DEF SaveEdit
<1> QED
  BY <1>6, <1>8, <1>9, <1>10 DEF AccountIInv

(* An upload stores a picture with a name nobody has.                          *)
LEMMA UploadSound ==
  ASSUME AccountIInv, NEW b \in Browsers, Upload(b)
  PROVE  AccountIInv'
<1> DEFINE p == pictures + 1
           w == [kind |-> "name", row |-> [work[b].row EXCEPT !.picture = p]]
<1>1. /\ pictures \in Nat /\ p \in 1 .. MaxPictures /\ p # NoPicture /\ p \notin 1 .. pictures
      /\ pictures' = p /\ stored' = stored \cup {p}
  BY AccountAssumption DEF AccountAssumption, AccountIInv, AccountTyped, Upload
<1>2. /\ b \in Clients /\ work[b] \in Job /\ FitRow(work[b].row) /\ work[b].kind = "avatar"
      /\ work[b] # NoWork /\ Does(b, w)
  BY <1>1 DEF AccountIInv, AccountTyped, RowsInv, Upload, Doing, Clients
<1>3. w \in Job /\ w.kind = "name" /\ w.row.picture = p /\ w.row.password = work[b].row.password
      /\ w.row.must = work[b].row.must
  BY <1>1, <1>2 DEF Job, Kinds, AccountRow
<1> HIDE DEF w, p
<1>4. work'[b] = w /\ \A d \in Clients \ {b} : work'[d] = work[d]
  BY <1>2 DEF AccountIInv, AccountTyped, Does
<1>5. AccountTyped'
  <2>1. work' \in [Clients -> {NoWork} \cup Job]
    BY <1>2, <1>3 DEF AccountIInv, AccountTyped, Does
  <2> QED
    BY <1>1, <2>1 DEF AccountIInv, AccountTyped, Upload, accountHistory
<1>6. (1 .. pictures) \subseteq 1 .. pictures' /\ p \in 1 .. pictures'
  BY <1>1
<1>7. RowsInv'
  BY <1>1, <1>2, <1>3, <1>4, <1>6
  DEF AccountIInv, RowsInv, FitRow, Exposed, Upload, accountHistory
<1>8. KindInv'
  <2>1. ~Exposed(work[b].row)
    BY <1>2 DEF AccountIInv, KindInv
  <2> QED
    BY <1>3, <1>4, <2>1 DEF AccountIInv, KindInv, Exposed, Clients, Upload, accountHistory
<1>9. \A d \in Clients : work[d] # NoWork => work[d].row.picture # p
  BY <1>1 DEF AccountIInv, RowsInv, FitRow
<1>10. user.picture # p
  BY <1>1 DEF AccountIInv, RowsInv, FitRow
<1>11. NameInv'
  <2>1. ASSUME NEW a \in Browsers \ {b}, Doing(a, "name")',
               NEW d \in Clients \ {a}, work'[d] # NoWork
        PROVE  /\ Doing(a, "name") /\ work'[a] = work[a] 
               /\ work'[d].row.picture # work[a].row.picture
    BY <1>3, <1>4, <1>9, <2>1 DEF AccountIInv, NameInv, Doing, Clients
  <2>2. ASSUME NEW a \in Browsers \ {b}, Doing(a, "name")'
        PROVE  /\ Doing(a, "name") /\ work'[a] = work[a]
    BY <1>4, <2>2 DEF Doing, Clients
  <2>3. ASSUME NEW d \in Clients \ {b}, work'[d] # NoWork
        PROVE  work'[d].row.picture # p
    BY <1>4, <1>9, <2>3
  <2>4. user' = user
    BY DEF Upload
  <2> QED
    BY <1>1, <1>3, <1>4, <1>10, <2>1, <2>2, <2>3, <2>4 DEF AccountIInv, NameInv
<1>12. DeleteInv' /\ PictureExists'
  BY <1>1, <1>3, <1>4
  DEF AccountIInv, DeleteInv, PictureExists, Doing, Clients, Upload, accountHistory
<1> QED
  BY <1>5, <1>7, <1>8, <1>11, <1>12 DEF AccountIInv

(* Then the row names it, and no request knows it besides.                     *)
LEMMA NameSound ==
  ASSUME AccountIInv, NEW b \in Browsers, NamePicture(b)
  PROVE  AccountIInv'
<1> DEFINE p == work[b].row.picture
<1>1. /\ b \in Clients /\ work[b] # NoWork /\ work[b] \in Job /\ FitRow(work[b].row)
      /\ p \in stored /\ p # NoPicture
      /\ \A d \in Clients \ {b} : work[d] # NoWork => work[d].row.picture # p
  BY DEF AccountIInv, AccountTyped, RowsInv, NameInv, NamePicture, Doing, Clients
<1>2. \A d \in Clients : work'[d] = IF d = b THEN NoWork ELSE work[d]
  BY DEF AccountIInv, AccountTyped, NamePicture, Done, Does
<1>3. /\ user' \in AccountRow /\ user'.picture = p /\ user'.password = user.password
      /\ user'.must = user.must
  BY <1>1 DEF AccountIInv, AccountTyped, AccountRow, Job, NamePicture
<1>4. AccountTyped'
  BY <1>1, <1>3 DEF AccountIInv, AccountTyped, NamePicture, Done, Does, accountHistory
<1>5. RowsInv'
  BY <1>1, <1>2, <1>3 DEF AccountIInv, RowsInv, FitRow, Exposed, NamePicture, accountHistory
<1>6. KindInv'
  BY <1>2 DEF AccountIInv, KindInv, Exposed, Clients, NamePicture, accountHistory
<1>7. NameInv'
  BY <1>1, <1>2, <1>3 DEF AccountIInv, NameInv, Doing, Clients, NamePicture
<1>8. DeleteInv' /\ PictureExists'
  BY <1>1, <1>2, <1>3
  DEF AccountIInv, DeleteInv, PictureExists, Doing, Clients, NamePicture, accountHistory
<1> QED
  BY <1>4, <1>5, <1>6, <1>7, <1>8 DEF AccountIInv

(* A picture is deleted after the row forgot it, and an uploaded one never.    *)
LEMMA RemoveSound ==
  ASSUME AccountIInv, NEW b \in Browsers, RemovePicture(b)
  PROVE  AccountIInv'
<1> DEFINE w == [kind |-> "delete", row |-> work[b].row]
<1>1. /\ b \in Clients /\ work[b] # NoWork /\ work[b] \in Job /\ FitRow(work[b].row)
      /\ work[b].kind = "remove" /\ w \in Job /\ w.kind = "delete" /\ w.row = work[b].row
  BY DEF AccountIInv, AccountTyped, RowsInv, RemovePicture, Doing, Clients, Job, Kinds
<1> HIDE DEF w
<1>2. work'[b] = w /\ \A d \in Clients \ {b} : work'[d] = work[d]
  BY <1>1 DEF AccountIInv, AccountTyped, RemovePicture, Does, w
<1>3. /\ user' \in AccountRow /\ user'.picture = NoPicture /\ user'.password = user.password
      /\ user'.must = user.must
  BY DEF AccountIInv, AccountTyped, AccountRow, RemovePicture, Forget
<1>4. AccountTyped'
  <2>1. work' \in [Clients -> {NoWork} \cup Job]
    BY <1>1 DEF AccountIInv, AccountTyped, RemovePicture, Does, w
  <2> QED
    BY <1>3, <2>1 DEF AccountIInv, AccountTyped, RemovePicture, accountHistory
<1>5. RowsInv'
  BY <1>1, <1>2, <1>3 DEF AccountIInv, RowsInv, FitRow, Exposed, RemovePicture, accountHistory
<1>6. KindInv'
  BY <1>1, <1>2 DEF AccountIInv, KindInv, Exposed, Clients, RemovePicture, accountHistory
<1>7. NameInv'
  <2>1. ASSUME NEW a \in Browsers, Doing(a, "name")'
        PROVE  a # b /\ work'[a] = work[a] /\ Doing(a, "name")
    BY <1>1, <1>2, <2>1 DEF Doing, Clients
  <2> QED
    BY <1>1, <1>2, <1>3, <2>1 DEF AccountIInv, NameInv, Clients, RemovePicture
<1>8. DeleteInv' /\ PictureExists'
  BY <1>1, <1>2, <1>3
  DEF AccountIInv, DeleteInv, PictureExists, Doing, Clients, RemovePicture, accountHistory
<1> QED
  BY <1>4, <1>5, <1>6, <1>7, <1>8 DEF AccountIInv

LEMMA DeleteSound ==
  ASSUME AccountIInv, NEW b \in Browsers, DeleteFile(b)
  PROVE  AccountIInv'
<1>1. /\ b \in Clients /\ work[b] # NoWork /\ Doing(b, "delete") /\ ~Doing(b, "name")
      /\ stored' = stored \ {work[b].row.picture}
  BY DEF DeleteFile, Doing, Clients
<1>2. \A d \in Clients : work'[d] = IF d = b THEN NoWork ELSE work[d]
  BY DEF AccountIInv, AccountTyped, DeleteFile, Done, Does
<1>3. AccountTyped'
  BY DEF AccountIInv, AccountTyped, DeleteFile, Done, Does, accountHistory
<1>4. RowsInv' /\ KindInv'
  BY <1>2
  DEF AccountIInv, RowsInv, KindInv, FitRow, Exposed, Clients, DeleteFile, accountHistory
<1>5. NameInv'
  BY <1>1, <1>2 DEF AccountIInv, NameInv, Doing, Clients, DeleteFile
<1>6. DeleteInv' /\ PictureExists'
  BY <1>1, <1>2
  DEF AccountIInv, DeleteInv, PictureExists, Doing, Clients, DeleteFile, accountHistory
<1> QED
  BY <1>3, <1>4, <1>5, <1>6 DEF AccountIInv

LEMMA AccountStarts == AccountInit => AccountIInv
<1> SUFFICES ASSUME AccountInit
             PROVE  AccountIInv
  OBVIOUS
<1>1. AccountTyped
  BY AccountAssumption
  DEF AccountAssumption, AccountInit, AccountTyped, AccountRow, PasswordNumbers
<1>2. \A c \in Clients : work[c] = NoWork
  BY DEF AccountInit
<1>3. RowsInv /\ KindInv /\ NameInv /\ DeleteInv
  BY <1>1, <1>2, AccountAssumption
  DEF AccountAssumption, AccountTyped, PasswordNumbers, AccountInit, RowsInv, KindInv, NameInv,
      DeleteInv, FitRow, Exposed, Doing, Clients
<1>4. PictureExists
  BY DEF AccountInit, PictureExists
<1> QED
  BY <1>1, <1>3, <1>4 DEF AccountIInv

LEMMA AccountStep == AccountIInv /\ [AccountNext]_accountVars => AccountIInv'
<1> SUFFICES ASSUME AccountIInv, [AccountNext]_accountVars
             PROVE  AccountIInv'
  OBVIOUS
<1> USE DEF Clients
<1>1. user \in AccountRow /\ (Exposed(user) => user.must)
  BY DEF AccountIInv, AccountTyped, RowsInv, FitRow
<1>2. ASSUME NEW b \in Browsers, SignIn(b)
      PROVE  AccountIInv'
  <2>1. [kind |-> "sign_in", row |-> user] \in Job
    BY <1>1 DEF Job, Kinds
  <2> QED
    BY <1>2, <2>1, QuietStep DEF SignIn
<1>3. ASSUME NEW b \in Browsers, Ask(b)
      PROVE  AccountIInv'
  <2>1. PICK kind \in {"logout", "change", "appearance", "avatar", "remove"} :
          Passes(kind, user) /\ Does(b, [kind |-> kind, row |-> user])
    BY <1>3 DEF Ask
  <2>2. [kind |-> kind, row |-> user] \in Job
    BY <1>1 DEF Job, Kinds
  <2>3. Exposed(user) => kind \in {"logout", "change"}
    BY <1>1, <2>1 DEF Passes
  <2> QED
    BY <1>3, <2>1, <2>2, <2>3, QuietStep DEF Ask
<1>4. ASSUME Edit
      PROVE  AccountIInv'
  <2>1. [kind |-> "edit", row |-> user] \in Job
    BY <1>1 DEF Job, Kinds
  <2> QED
    BY <1>4, <2>1, QuietStep, AccountAssumption DEF Edit, AccountAssumption, accountHistory
<1>5. ASSUME NEW c \in Clients, Done(c),
             UNCHANGED <<user, stored, accountHistory, passwords, pictures>>
      PROVE  AccountIInv'
  BY <1>5, QuietStep DEF Done
<1>6. ASSUME UNCHANGED <<user, work, stored, accountHistory, passwords, pictures>>
      PROVE  AccountIInv'
  BY <1>6
  DEF AccountIInv, AccountTyped, RowsInv, KindInv, NameInv, DeleteInv, PictureExists, FitRow,
      Exposed, Doing, accountHistory
<1>7. ASSUME NEW b \in Browsers, OpenSession(b) \/ Logout(b) \/ Rehash(b)
      PROVE  AccountIInv'
  BY <1>5, <1>7 DEF OpenSession, Logout, Rehash
<1>8. ASSUME NEW c \in Clients, Die(c)
      PROVE  AccountIInv'
  BY <1>5, <1>8 DEF Die
<1>9. ASSUME SendLink \/ ConfirmReset \/ UNCHANGED accountVars
      PROVE  AccountIInv'
  BY <1>6, <1>9 DEF SendLink, ConfirmReset, accountVars, accountHistory
<1> QED
  BY <1>2, <1>3, <1>4, <1>7, <1>8, <1>9, ChangeSound, AppearanceSound, EditSound, UploadSound,
     NameSound, RemoveSound, DeleteSound
  DEF AccountNext

LEMMA AccountHolds == AccountSpec => []AccountIInv
BY AccountStarts, AccountStep, PTL DEF AccountSpec

(* A password that an administrator gave out keeps its flag, and no request    *)
(* but a sign-in, a sign-out or the change works from a row with it, however   *)
(* the saves of columns and of whole rows cross (middleware.py:4-30,           *)
(* api_serializers.py:603-607), for any number of browsers and bounds.         *)
THEOREM TemporaryPasswords == AccountSpec => []TemporaryMustChange
<1>1. AccountIInv => TemporaryMustChange
  BY DEF AccountIInv, RowsInv, FitRow, KindInv, Exposed, TemporaryMustChange
<1> QED
  BY <1>1, AccountHolds, PTL

(* The picture a row names is in storage, unless a save of the whole row wrote *)
(* back the name of a removed one (services.py:40-45, views.py:293-298).       *)
THEOREM PicturesStored == AccountSpec => []PictureExists
<1>1. AccountIInv => PictureExists
  BY DEF AccountIInv
<1> QED
  BY <1>1, AccountHolds, PTL

----------------------------------------------------------------------------
(* Conversation: the types first.                                          *)

LEMMA ChatTyped == ChatTypeOK =
  /\ scope \in Scopes \cup {Revoked} /\ talk \in [Conversations -> Talk]
  /\ lock \in [Conversations -> Turns \cup {Unlocked}] /\ turn \in [Turns -> TurnRow]
  /\ outdated \in SUBSET Conversations /\ drifted \in SUBSET Turns /\ late \in SUBSET Turns
  /\ changes \in 0..MaxScopeChanges /\ expiries \in 0..MaxExpiries /\ kills \in 0..MaxKills
BY DEF ChatTypeOK, Talk, TurnRow

(* A step of a request keeps every variable in its type.                       *)
LEMMA RequestTyped ==
  ASSUME ChatTypeOK, TurnInv, NEW t \in Turns, Request(t)
  PROVE  ChatTypeOK'
<1>1. turn[t] \in TurnRow /\ scope \in Scopes \cup {Revoked} /\ talk \in [Conversations -> Talk]
  BY ChatTyped
<1>2. ASSUME NEW r \in TurnRow, turn' = [turn EXCEPT ![t] = r],
             talk' \in [Conversations -> Talk],
             lock' \in [Conversations -> Turns \cup {Unlocked}], late' \in SUBSET Turns,
             UNCHANGED <<scope, outdated, drifted, counters>>
      PROVE  ChatTypeOK'
  BY <1>2 DEF ChatTypeOK, TurnRow, Talk, counters
<1>3. ASSUME NEW pc \in {"snapshot", "asking", "check", "create", "save", "release", "unlock",
                         "done"}, Goto(t, pc),
             talk' \in [Conversations -> Talk],
             lock' \in [Conversations -> Turns \cup {Unlocked}], late' \in SUBSET Turns,
             UNCHANGED <<scope, outdated, drifted, counters>>
      PROVE  ChatTypeOK'
  <2>1. [turn[t] EXCEPT !.pc = pc] \in TurnRow
    BY <1>1 DEF TurnRow
  <2> QED
    BY <1>2, <1>3, <2>1 DEF Goto
<1>4. /\ lock \in [Conversations -> Turns \cup {Unlocked}] /\ late \in SUBSET Turns
      /\ turn \in [Turns -> TurnRow]
  BY ChatTyped
<1>5. CASE Open(t)
  <2>1. ASSUME NEW c \in Conversations, 
               turn' = [turn EXCEPT ![t] = [@ EXCEPT !.pc = "read", !.on = c]]
        PROVE  ChatTypeOK'
    <3>1. [turn[t] EXCEPT !.pc = "read", !.on = c] \in TurnRow
      BY <1>1 DEF TurnRow
    <3> QED
      BY <1>1, <1>2, <1>4, <1>5, <2>1, <3>1 DEF Open
  <2> QED
    BY <1>1, <1>3, <1>4, <1>5, <2>1 DEF Open
<1>6. CASE ReadHistory(t)
  <2>1. talk[turn[t].on].turns \in SUBSET Turns
    BY <1>1, <1>6 DEF TurnInv, Placed, ReadHistory, Talk
  <2>2. [turn[t] EXCEPT !.pc = "lock", !.history = talk[turn[t].on].turns] \in TurnRow
    BY <1>1, <2>1 DEF TurnRow
  <2> QED
    BY <1>1, <1>2, <1>4, <1>6, <2>2 DEF ReadHistory
<1>7. CASE Acquire(t)
  <2>1. [turn[t] EXCEPT !.pc = "snapshot", !.locked = TRUE] \in TurnRow
    BY <1>1 DEF TurnRow
  <2> QED
    BY <1>1, <1>2, <1>3, <1>4, <1>7, <2>1 DEF Acquire
<1>8. CASE Snapshot(t)
  <2>1. scope # Revoked =>
          [turn[t] EXCEPT !.pc = "asking", !.scope = scope, !.data = {scope}] \in TurnRow
    BY <1>1 DEF TurnRow
  <2> QED
    BY <1>1, <1>2, <1>3, <1>4, <1>8, <2>1 DEF Snapshot
<1>9. CASE Infer(t) \/ CheckScope(t) \/ ReleaseGet(t)
  BY <1>1, <1>3, <1>4, <1>9 DEF Infer, CheckScope, ReleaseGet, Step
<1>10. CASE CreateConversation(t)
  <2>1. PICK c \in Conversations :
          /\ talk' = [talk EXCEPT ![c] = [there |-> TRUE, scope |-> turn[t].scope, turns |-> {}]]
          /\ turn' = [turn EXCEPT ![t] = [@ EXCEPT !.pc = "save", !.on = c]]
    BY <1>10 DEF CreateConversation
  <2>2. /\ [there |-> TRUE, scope |-> turn[t].scope, turns |-> {}] \in Talk
        /\ [turn[t] EXCEPT !.pc = "save", !.on = c] \in TurnRow
    BY <1>1 DEF TurnRow, Talk
  <2>3. talk' \in [Conversations -> Talk]
    BY <1>1, <2>1, <2>2
  <2> QED
    BY <1>2, <1>4, <1>10, <2>1, <2>2, <2>3 DEF CreateConversation
<1>11. CASE SaveTurn(t)
  <2>1. turn[t].on \in Conversations
    BY <1>11 DEF TurnInv, Placed, SaveTurn, Step
  <2>2. [talk[turn[t].on] EXCEPT !.turns = @ \cup {t}] \in Talk
    BY <1>1, <2>1 DEF Talk
  <2>3. talk' \in [Conversations -> Talk]
    BY <1>1, <1>11, <2>2 DEF SaveTurn
  <2> QED
    BY <1>3, <1>4, <1>11, <2>3 DEF SaveTurn, Step
<1>12. CASE ReleaseDelete(t)
  BY <1>1, <1>3, <1>4, <1>12 DEF ReleaseDelete, Step
<1> QED
  BY <1>5, <1>6, <1>7, <1>8, <1>9, <1>10, <1>11, <1>12 DEF Request

(* And so does a step of the world around it.                                  *)
LEMMA WorldTyped ==
  ASSUME ChatTypeOK,
         \/ \E t \in Turns : Kill(t)
         \/ \E c \in Conversations : Expire(c) \/ DeleteConversation(c) \/ PruneConversation(c)
         \/ ScopeChanges
         \/ UNCHANGED chatVars
  PROVE  ChatTypeOK'
<1>1. /\ scope \in Scopes \cup {Revoked} /\ talk \in [Conversations -> Talk]
      /\ lock \in [Conversations -> Turns \cup {Unlocked}] /\ turn \in [Turns -> TurnRow]
      /\ changes \in Nat /\ expiries \in Nat /\ kills \in Nat
  <2>1. changes \in Nat /\ expiries \in Nat /\ kills \in Nat
    BY ConversationAssumption DEF ConversationAssumption, ChatTypeOK
  <2> QED
    BY <2>1, ChatTyped
<1>2. ASSUME NEW t \in Turns, Kill(t)
      PROVE  ChatTypeOK'
  <2>1. [turn[t] EXCEPT !.pc = "done"] \in TurnRow
    BY <1>1 DEF TurnRow
  <2>2. kills' \in 0 .. MaxKills
    BY <1>1, <1>2, ConversationAssumption DEF ConversationAssumption, Kill
  <2> QED
    BY <1>1, <1>2, <2>1, <2>2 DEF Kill, Goto, ChatTypeOK, TurnRow
<1>3. ASSUME NEW c \in Conversations, Expire(c)
      PROVE  ChatTypeOK'
  <2>1. expiries' \in 0 .. MaxExpiries
    BY <1>1, <1>3, ConversationAssumption DEF ConversationAssumption, Expire
  <2> QED
    BY <1>1, <1>3, <2>1 DEF Expire, ChatTypeOK
<1>4. ASSUME NEW c \in Conversations, DeleteConversation(c) \/ PruneConversation(c)
      PROVE  ChatTypeOK'
  <2>1. [talk[c] EXCEPT !.there = FALSE, !.turns = {}] \in Talk
    BY <1>1 DEF Talk
  <2> QED
    BY <1>1, <1>4, <2>1 DEF DeleteConversation, PruneConversation, Remove, counters, ChatTypeOK, Talk
<1>5. CASE ScopeChanges
  <2>1. PICK s \in (Scopes \cup {Revoked}) \ {scope} :
          /\ scope' = s /\ drifted' \in SUBSET Turns
          /\ turn' = [t \in Turns |->
                        IF turn[t].pc = "asking" /\ s # Revoked
                        THEN [turn[t] EXCEPT !.data = @ \cup {s}] ELSE turn[t]]
    BY <1>5 DEF ScopeChanges, ChatTypeOK
  <2>2. ASSUME NEW t \in Turns
        PROVE  turn'[t] \in TurnRow
    <3>1. turn[t] \in TurnRow
      BY <1>1
    <3>2. s # Revoked => [turn[t] EXCEPT !.data = @ \cup {s}] \in TurnRow
      BY <3>1 DEF TurnRow
    <3>3. turn'[t] = IF turn[t].pc = "asking" /\ s # Revoked
                     THEN [turn[t] EXCEPT !.data = @ \cup {s}] ELSE turn[t]
      BY <2>1
    <3> QED
      BY <3>1, <3>2, <3>3
  <2>3. changes' \in 0 .. MaxScopeChanges
    BY <1>1, <1>5, ConversationAssumption DEF ConversationAssumption, ScopeChanges
  <2> QED
    BY <1>1, <1>5, <2>1, <2>2, <2>3 DEF ScopeChanges, ChatTypeOK, TurnRow
<1>6. CASE UNCHANGED chatVars
  BY <1>6 DEF chatVars, counters, ChatTypeOK
<1> QED
  BY <1>2, <1>3, <1>4, <1>5, <1>6

----------------------------------------------------------------------------
(* Conversation: the invariant.                                            *)

(* A step that moves one turn, and neither takes a lock nor saves, keeps the   *)
(* invariant if what the turn becomes fits the conversation it is in.          *)
LEMMA OneTurn ==
  ASSUME ChatIInv, ChatTypeOK', NEW t \in Turns, NEW r,
         turn' = [turn EXCEPT ![t] = r],
         UNCHANGED <<scope, talk, lock, outdated, drifted, late>>,
         Placed(r), Started(r), t \notin late => ReadAll(r), t \notin drifted => InScope(r),
         r.locked = turn[t].locked,
         Over(turn[t]) => Over(r) /\ r.data = turn[t].data,
         r.locked /\ r.pc # "done" =>
           turn[t].pc # "done" /\ r.on = turn[t].on /\ r.history = turn[t].history
  PROVE  ChatIInv'
<1>1. turn'[t] = r /\ \A u \in Turns \ {t} : turn'[u] = turn[u]
  BY DEF ChatIInv, ChatTypeOK
<1>2. TurnInv'
  BY <1>1 DEF ChatIInv, TurnInv
<1>3. SavedInv'
  BY <1>1 DEF ChatIInv, SavedInv, ChatTypeOK
<1>4. LockInv'
  BY <1>1 DEF ChatIInv, LockInv, Protected
<1>5. WaitInv'
  BY <1>1 DEF ChatIInv, WaitInv, ReadAll
<1>6. ScopeInv'
  BY <1>1 DEF ChatIInv, ScopeInv, InScope
<1>7. KeptInv'
  BY <1>1 DEF ChatIInv, KeptInv, Started
<1>8. ReadWhole'
  BY <1>1 DEF ChatIInv, ReadWhole, Protected
<1>9. AnswersUnderOneScope'
  BY <1>1 DEF ChatIInv, AnswersUnderOneScope, SavedInv, ChatTypeOK
<1> QED
  BY <1>2, <1>3, <1>4, <1>5, <1>6, <1>7, <1>8, <1>9 DEF ChatIInv

(* A turn that is nowhere yet opens a conversation of the present scope, or none. *)
LEMMA OpenSound ==
  ASSUME ChatIInv, ChatTypeOK', NEW t \in Turns, Open(t)
  PROVE  ChatIInv'
<1>1. turn[t] \in TurnRow /\ turn[t].pc = "new" /\ Placed(turn[t]) /\ scope # Revoked
  BY ChatTyped DEF ChatIInv, TurnInv, Open
<1>2. ASSUME NEW c \in Conversations, Found(c),
             turn' = [turn EXCEPT ![t] = [@ EXCEPT !.pc = "read", !.on = c]]
      PROVE  ChatIInv'
  <2> DEFINE r == [turn[t] EXCEPT !.pc = "read", !.on = c]
  <2>1. /\ r.pc = "read" /\ r.on = c /\ ~r.locked /\ r.locked = turn[t].locked
        /\ turn' = [turn EXCEPT ![t] = r]
    BY <1>1, <1>2 DEF TurnRow, Placed
  <2>2. talk[c].scope = scope /\ talk[c].there /\ ~Over(turn[t])
    BY <1>1, <1>2 DEF Found, Over
  <2> HIDE DEF r
  <2> QED
    BY <1>1, <2>1, <2>2, OneTurn DEF Open, Placed, Started, ReadAll, InScope
<1>3. ASSUME Goto(t, "snapshot")
      PROVE  ChatIInv'
  <2> DEFINE r == [turn[t] EXCEPT !.pc = "snapshot"]
  <2>1. /\ r.pc = "snapshot" /\ r.on = NoConversation /\ ~r.locked /\ r.locked = turn[t].locked
        /\ turn' = [turn EXCEPT ![t] = r] /\ NoConversation \notin Conversations
    BY <1>1, <1>3, ConversationAssumption DEF ConversationAssumption, TurnRow, Placed, Goto
  <2>2. ~Over(turn[t])
    BY <1>1 DEF Over
  <2> HIDE DEF r
  <2> QED
    BY <1>1, <2>1, <2>2, OneTurn DEF Open, Placed, Started, ReadAll, InScope
<1> QED
  BY <1>2, <1>3 DEF Open

LEMMA ReadHistorySound ==
  ASSUME ChatIInv, ChatTypeOK', NEW t \in Turns, ReadHistory(t)
  PROVE  ChatIInv'
<1> DEFINE r == [turn[t] EXCEPT !.pc = "lock", !.history = talk[turn[t].on].turns]
<1>1. /\ turn[t] \in TurnRow /\ turn[t].pc = "read" /\ Placed(turn[t]) /\ Started(turn[t])
      /\ t \notin drifted => InScope(turn[t])
  BY ChatTyped DEF ChatIInv, TurnInv, KeptInv, ScopeInv, ReadHistory
<1>2. /\ r.pc = "lock" /\ r.on = turn[t].on /\ ~r.locked /\ r.locked = turn[t].locked
      /\ r.history = talk[r.on].turns /\ turn' = [turn EXCEPT ![t] = r]
  <2>1. ~turn[t].locked
    BY <1>1 DEF Placed
  <2>2. r.pc = "lock" /\ r.on = turn[t].on /\ r.locked = turn[t].locked
    BY <1>1 DEF TurnRow
  <2>3. r.history = talk[turn[t].on].turns
    BY <1>1 DEF TurnRow
  <2>4. turn' = [turn EXCEPT ![t] = r]
    BY DEF ReadHistory
  <2> QED
    BY <2>1, <2>2, <2>3, <2>4
<1>3. ~Over(turn[t])
  BY <1>1 DEF Over
<1> HIDE DEF r
<1>4. Placed(r) /\ Started(r) /\ ReadAll(r)
  BY <1>1, <1>2 DEF Placed, Started, ReadAll
<1>5. t \notin drifted => InScope(r)
  BY <1>1, <1>2 DEF InScope
<1> QED
  BY <1>2, <1>3, <1>4, <1>5, OneTurn DEF ReadHistory

(* A turn that ends keeps the invariant, whatever it leaves behind.            *)
LEMMA EndSound ==
  ASSUME ChatIInv, ChatTypeOK', NEW t \in Turns, Goto(t, "done"), turn[t].pc # "new",
         UNCHANGED <<scope, talk, lock, outdated, drifted, late>>
  PROVE  ChatIInv'
<1> DEFINE r == [turn[t] EXCEPT !.pc = "done"]
<1>1. turn[t] \in TurnRow /\ Placed(turn[t])
  BY ChatTyped DEF ChatIInv, TurnInv
<1>2. /\ r.pc = "done" /\ r.on = turn[t].on /\ r.locked = turn[t].locked
      /\ r.data = turn[t].data /\ turn' = [turn EXCEPT ![t] = r]
  BY <1>1 DEF TurnRow, Goto
<1> HIDE DEF r
<1> QED
  BY <1>1, <1>2, OneTurn DEF Placed, Started, ReadAll, InScope, Over

(* From the fingerprint on, a turn works in one scope: it asks, and what it     *)
(* goes on with passed the check, or is nothing.                                *)
LEMMA AskingSound ==
  ASSUME ChatIInv, ChatTypeOK', NEW t \in Turns, Snapshot(t) \/ Infer(t) \/ CheckScope(t)
  PROVE  ChatIInv'
<1>1. /\ turn[t] \in TurnRow /\ Placed(turn[t]) /\ Started(turn[t])
      /\ t \notin drifted => InScope(turn[t])
  BY ChatTyped DEF ChatIInv, TurnInv, KeptInv, ScopeInv
<1>2. ASSUME NEW pc \in {"check", "create", "save", "release"}, Goto(t, pc),
             turn[t].pc \in {"asking", "check"},
             UNCHANGED <<scope, talk, lock, outdated, drifted, late>>,
             pc \in {"create", "save"} => scope = turn[t].scope,
             pc = "create" => turn[t].on = NoConversation, pc = "save" => turn[t].on # NoConversation
      PROVE  ChatIInv'
  <2> DEFINE r == [turn[t] EXCEPT !.pc = pc]
  <2>1. /\ r.pc = pc /\ r.on = turn[t].on /\ r.locked = turn[t].locked /\ r.scope = turn[t].scope
        /\ r.history = turn[t].history /\ r.data = turn[t].data /\ turn' = [turn EXCEPT ![t] = r]
    BY <1>1, <1>2 DEF TurnRow, Goto
  <2>2. /\ ~Over(turn[t]) /\ turn[t].on \in Conversations \cup {NoConversation}
        /\ NoConversation \notin Conversations
    BY <1>1, <1>2, ConversationAssumption DEF ConversationAssumption, Over, TurnRow
  <2> HIDE DEF r
  <2>3. Placed(r) /\ Started(r)
    BY <1>1, <1>2, <2>1, <2>2 DEF Placed, Started
  <2>4. t \notin drifted => InScope(r)
    BY <1>1, <1>2, <2>1, <2>2 DEF InScope
  <2> QED
    BY <1>1, <1>2, <2>1, <2>2, <2>3, <2>4, OneTurn DEF ReadAll
<1>3. CASE Snapshot(t) /\ scope # Revoked
  <2> DEFINE r == [turn[t] EXCEPT !.pc = "asking", !.scope = scope, !.data = {scope}]
  <2>1. /\ r.pc = "asking" /\ r.on = turn[t].on /\ r.locked = turn[t].locked /\ r.scope = scope
        /\ r.history = turn[t].history /\ r.data = {scope} /\ turn' = [turn EXCEPT ![t] = r]
        /\ turn[t].pc = "snapshot" /\ ~Over(turn[t])
    BY <1>1, <1>3 DEF TurnRow, Snapshot, Goto, Over
  <2> HIDE DEF r
  <2>2. Placed(r) /\ Started(r)
    BY <1>1, <1>3, <2>1 DEF Placed, Started
  <2>3. t \notin drifted => InScope(r)
    BY <1>1, <1>3, <2>1 DEF InScope
  <2> QED
    BY <1>3, <2>1, <2>2, <2>3, OneTurn DEF ReadAll, Snapshot
<1>4. CASE Snapshot(t) /\ scope = Revoked
  BY <1>4, EndSound DEF Snapshot
<1>5. CASE Infer(t)
  BY <1>2, <1>5 DEF Infer, Step
<1>6. CASE CheckScope(t)
  BY <1>2, <1>6 DEF CheckScope, Step
<1> QED
  BY <1>3, <1>4, <1>5, <1>6

LEMMA ReleaseGetSound ==
  ASSUME ChatIInv, ChatTypeOK', NEW t \in Turns, ReleaseGet(t)
  PROVE  ChatIInv'
<1> DEFINE r == [turn[t] EXCEPT !.pc = "unlock"]
<1>1. turn[t] \in TurnRow /\ Placed(turn[t]) /\ Started(turn[t]) /\ turn[t].pc = "release"
  BY ChatTyped DEF ChatIInv, TurnInv, KeptInv, ReleaseGet, Step
<1>2. CASE turn[t].locked /\ lock[turn[t].on] = t
  <2>1. /\ r.pc = "unlock" /\ r.on = turn[t].on /\ r.locked /\ r.locked = turn[t].locked
        /\ r.history = turn[t].history /\ r.data = turn[t].data /\ turn' = [turn EXCEPT ![t] = r]
    BY <1>1, <1>2 DEF TurnRow, ReleaseGet, Step, Goto
  <2> HIDE DEF r
  <2> QED
    BY <1>1, <2>1, OneTurn DEF Placed, Started, ReadAll, InScope, Over, ReleaseGet
<1>3. CASE ~(turn[t].locked /\ lock[turn[t].on] = t)
  BY <1>1, <1>3, EndSound DEF ReleaseGet, Step
<1> QED
  BY <1>2, <1>3

(* The token in the cache tells two turns apart.                               *)
LEMMA LockTellsApart ==
  ASSUME ChatIInv
  PROVE  TurnsExclusive
BY DEF ChatIInv, LockInv, TurnsExclusive

(* Who acquires the lock has read every turn, and whoever had it before has    *)
(* finished, or his lock expired.                                              *)
LEMMA AcquireSound ==
  ASSUME ChatIInv, ChatTypeOK', NEW t \in Turns, Acquire(t)
  PROVE  ChatIInv'
<1> DEFINE r == [turn[t] EXCEPT !.pc = "snapshot", !.locked = TRUE]
<1>1. /\ turn[t] \in TurnRow /\ Placed(turn[t]) /\ Started(turn[t]) /\ turn[t].pc = "lock"
      /\ t \notin drifted => InScope(turn[t])
      /\ t \notin late => ReadAll(turn[t])
      /\ turn[t].on \in Conversations /\ ~turn[t].locked
  BY ChatTyped DEF ChatIInv, TurnInv, KeptInv, ScopeInv, WaitInv, Acquire, Placed
<1>2. CASE turn' = [turn EXCEPT ![t] = r] /\ lock[turn[t].on] = Unlocked
           /\ lock' = [lock EXCEPT ![turn[t].on] = t]
  <2>1. /\ r.pc = "snapshot" /\ r.on = turn[t].on /\ r.locked
        /\ r.history = turn[t].history /\ r.data = turn[t].data
    BY <1>1 DEF TurnRow
  <2> HIDE DEF r
  <2>2. turn'[t] = r /\ \A u \in Turns \ {t} : turn'[u] = turn[u]
    BY <1>2 DEF ChatIInv, ChatTypeOK
  <2>3. UNCHANGED <<scope, talk, outdated, drifted, late>>
    BY DEF Acquire
  <2>4. Placed(r) /\ Started(r) /\ (t \notin drifted => InScope(r))
    BY <1>1, <2>1 DEF Placed, Started, InScope
  <2>5. TurnInv' /\ KeptInv'
    BY <2>2, <2>3, <2>4 DEF ChatIInv, TurnInv, KeptInv, Started
  <2>6. ~Over(turn[t]) /\ SavedInv'
    BY <1>1, <2>2, <2>3 DEF ChatIInv, SavedInv, Over, ChatTypeOK
  <2>7. LockInv'
    <3>1. lock'[turn[t].on] = t /\ \A c \in Conversations \ {turn[t].on} : lock'[c] = lock[c]
      BY <1>1, <1>2 DEF ChatIInv, ChatTypeOK
    <3>2. ASSUME NEW u \in Turns \ {t}, Protected(u), turn[u].on \notin outdated
          PROVE  turn[u].on \in Conversations \ {turn[t].on} /\ lock[turn[u].on] = u
      BY <1>1, <1>2, <3>2, ConversationAssumption
      DEF ConversationAssumption, ChatIInv, LockInv, TurnInv, Placed, Protected
    <3> QED
      BY <2>1, <2>2, <2>3, <3>1, <3>2 DEF LockInv, Protected
  <2>8. WaitInv'
    BY <2>1, <2>2, <2>3 DEF ChatIInv, WaitInv, ReadAll
  <2>9. ScopeInv'
    BY <2>2, <2>3, <2>4 DEF ChatIInv, ScopeInv, InScope
  <2>10. ReadWhole'
    <3>1. t \notin late => talk[r.on].turns \subseteq r.history
      BY <1>1, <2>1 DEF ReadAll
    <3>2. ASSUME NEW u \in Turns \ {t}, u \notin late, Protected(u), turn[u].on \notin outdated,
                 NEW v \in talk[turn[u].on].turns \ {u}, turn'[v].locked
          PROVE  v \in turn[u].history
      <4>1. v # t /\ v \in Turns
        BY <2>6, <3>2 DEF ChatIInv, SavedInv, ChatTypeOK, TurnInv, Placed, Protected
      <4> QED
        BY <2>2, <3>2, <4>1 DEF ChatIInv, ReadWhole
    <3> QED
      BY <2>2, <2>3, <3>1, <3>2 DEF ReadWhole, Protected
  <2>11. AnswersUnderOneScope'
    BY <2>1, <2>2, <2>3 DEF ChatIInv, AnswersUnderOneScope, ChatTypeOK
  <2> QED
    BY <2>5, <2>6, <2>7, <2>8, <2>9, <2>10, <2>11 DEF ChatIInv
<1>3. CASE lock' = lock /\ Goto(t, "done")
  BY <1>1, <1>3, EndSound DEF Acquire
<1> QED
  BY <1>2, <1>3 DEF Acquire

(* A new conversation is one that nobody is in.                                *)
LEMMA CreateConversationSound ==
  ASSUME ChatIInv, ChatTypeOK', NEW t \in Turns, CreateConversation(t)
  PROVE  ChatIInv'
<1>1. PICK c \in Conversations :
        /\ talk[c] = Missing
        /\ talk' = [talk EXCEPT ![c] = [there |-> TRUE, scope |-> turn[t].scope, turns |-> {}]]
        /\ turn' = [turn EXCEPT ![t] = [@ EXCEPT !.pc = "save", !.on = c]]
  BY DEF CreateConversation
<1>r. PICK r : r = [turn[t] EXCEPT !.pc = "save", !.on = c]
  OBVIOUS
<1>2. /\ turn[t] \in TurnRow /\ Placed(turn[t]) /\ Started(turn[t]) /\ turn[t].pc = "create"
      /\ t \notin drifted => InScope(turn[t])
  BY ChatTyped DEF ChatIInv, TurnInv, KeptInv, ScopeInv, CreateConversation
<1>3. /\ r.pc = "save" /\ r.on = c /\ r.locked = turn[t].locked /\ r.scope = turn[t].scope
      /\ r.data = turn[t].data
  BY <1>2, <1>r DEF TurnRow
<1>4. ~turn[t].locked /\ turn[t].scope # Revoked /\ ~Over(turn[t])
  BY <1>2 DEF Placed, Started, Over
<1>5. turn' = [turn EXCEPT ![t] = r]
  BY <1>1, <1>r
<1>6. turn'[t] = r /\ \A u \in Turns \ {t} : turn'[u] = turn[u]
  BY <1>5 DEF ChatIInv, ChatTypeOK
<1>7. /\ talk'[c].there /\ talk'[c].scope = turn[t].scope /\ talk'[c].turns = {}
      /\ \A d \in Conversations \ {c} : talk'[d] = talk[d]
  BY <1>1 DEF ChatIInv, ChatTypeOK
<1>8. UNCHANGED <<scope, lock, outdated, drifted, late>>
  BY DEF CreateConversation
<1>9. \A u \in Turns : turn[u].pc \notin {"new", "done"} /\ turn[u].on \in Conversations =>
        turn[u].on # c
  BY <1>1 DEF ChatIInv, KeptInv, Started, Missing
<1>10. TurnInv'
  BY <1>3, <1>4, <1>6 DEF ChatIInv, TurnInv, Placed
<1>11. SavedInv'
  BY <1>4, <1>6, <1>7 DEF ChatIInv, SavedInv, ChatTypeOK
<1>12. LockInv'
  BY <1>3, <1>4, <1>6, <1>8 DEF ChatIInv, LockInv, Protected
<1>13. WaitInv'
  BY <1>3, <1>6, <1>7, <1>8, <1>9 DEF ChatIInv, WaitInv, ReadAll, TurnInv, Placed
<1>14. ScopeInv'
  <2>1. t \notin drifted => InScope(r)'
    BY <1>2, <1>3, <1>4, <1>7 DEF InScope
  <2>2. ASSUME NEW u \in Turns \ {t}, u \notin drifted
        PROVE  InScope(turn[u])'
    BY <1>6, <1>7, <1>8, <1>9, <2>2 DEF ChatIInv, ScopeInv, InScope
  <2> QED
    BY <1>6, <1>8, <2>1, <2>2 DEF ScopeInv, InScope
<1>15. KeptInv'
  <2>1. Started(r)'
    BY <1>3, <1>4, <1>7 DEF Started
  <2>2. ASSUME NEW u \in Turns \ {t}
        PROVE  Started(turn[u])'
    BY <1>6, <1>7, <1>9 DEF ChatIInv, KeptInv, Started
  <2> QED
    BY <1>4, <1>6, <1>7, <2>1, <2>2 DEF ChatIInv, KeptInv, Started
<1>16. ReadWhole'
  <2>1. ASSUME NEW u \in Turns, Protected(u)'
        PROVE  u # t /\ Protected(u) /\ turn[u].on \in Conversations \ {c}
    BY <1>3, <1>4, <1>6, <1>9, <2>1 DEF ChatIInv, TurnInv, Placed, Protected
  <2>2. ASSUME NEW u \in Turns \ late, Protected(u)', turn'[u].on \notin outdated,
               NEW v \in talk'[turn'[u].on].turns \ {u}, turn'[v].locked
        PROVE  v \in turn'[u].history
    <3>1. /\ turn'[u] = turn[u] /\ talk'[turn[u].on] = talk[turn[u].on] /\ Protected(u)
          /\ turn[u].on \in Conversations
      BY <1>6, <1>7, <2>1, <2>2
    <3>2. v \in Turns
      BY <2>2, <3>1 DEF ChatIInv, ChatTypeOK
    <3>3. turn[v].locked
      BY <1>3, <1>4, <1>6, <2>2, <3>2
    <3> QED
      BY <2>2, <3>1, <3>3 DEF ChatIInv, ReadWhole
  <2> QED
    BY <1>8, <2>2 DEF ReadWhole
<1>17. AnswersUnderOneScope'
  <2>1. \A d \in Conversations : \A u \in talk[d].turns : u \in Turns /\ turn'[u].data = turn[u].data
    BY <1>3, <1>6 DEF ChatIInv, ChatTypeOK
  <2> QED
    BY <1>7, <1>8, <2>1 DEF ChatIInv, AnswersUnderOneScope
<1> QED
  BY <1>10, <1>11, <1>12, <1>13, <1>14, <1>15, <1>16, <1>17 DEF ChatIInv

(* Who saves has the lock, has none, or lost it: no turn that answers besides  *)
(* misses what is saved, and one that waits is late from then on.              *)
LEMMA SaveTurnSound ==
  ASSUME ChatIInv, ChatTypeOK', NEW t \in Turns, SaveTurn(t)
  PROVE  ChatIInv'
<1> DEFINE c == turn[t].on
<1>r. PICK r : r = [turn[t] EXCEPT !.pc = "release"]
  OBVIOUS
<1>1. /\ turn[t] \in TurnRow /\ Placed(turn[t]) /\ Started(turn[t]) /\ turn[t].pc = "save"
      /\ t \notin drifted => InScope(turn[t])
      /\ c \in Conversations
  BY ChatTyped DEF ChatIInv, TurnInv, KeptInv, ScopeInv, SaveTurn, Step, Placed
<1>2. /\ r.pc = "release" /\ r.on = c /\ r.locked = turn[t].locked /\ r.scope = turn[t].scope
      /\ r.history = turn[t].history /\ r.data = turn[t].data
      /\ turn' = [turn EXCEPT ![t] = r]
  BY <1>1, <1>r DEF TurnRow, SaveTurn, Step, Goto
<1>3. turn'[t] = r /\ \A u \in Turns \ {t} : turn'[u] = turn[u]
  BY <1>2 DEF ChatIInv, ChatTypeOK
<1>4. /\ \A d \in Conversations : /\ talk'[d].scope = talk[d].scope
                                  /\ talk'[d].there = talk[d].there
      /\ \A d \in Conversations \ {c} : talk'[d] = talk[d]
      /\ talk'[c].turns = IF talk[c].there THEN talk[c].turns \cup {t} ELSE talk[c].turns
  <2>1. talk[c] \in Talk /\ talk \in [Conversations -> Talk]
    BY <1>1 DEF ChatIInv, ChatTypeOK, Talk
  <2> QED
    BY <1>1, <2>1 DEF SaveTurn, Talk
<1>5. /\ UNCHANGED <<scope, lock, outdated, drifted>>
      /\ late' = late \cup {u \in Turns : turn[u].pc = "lock" /\ turn[u].on = c}
  BY DEF SaveTurn
<1>6. TurnInv'
  BY <1>1, <1>2, <1>3 DEF ChatIInv, TurnInv, Placed
<1>7. SavedInv'
  BY <1>2, <1>3, <1>4 DEF ChatIInv, SavedInv, ChatTypeOK, Over
<1>8. LockInv'
  BY <1>1, <1>2, <1>3, <1>5 DEF ChatIInv, LockInv, Protected
<1>9. WaitInv'
  BY <1>2, <1>3, <1>4, <1>5 DEF ChatIInv, WaitInv, ReadAll, TurnInv, Placed
<1>10. ScopeInv'
  BY <1>2, <1>3, <1>4, <1>5 DEF ChatIInv, ScopeInv, InScope
<1>11. KeptInv'
  BY <1>1, <1>2, <1>3, <1>4 DEF ChatIInv, KeptInv, Started
<1>12. ReadWhole'
  <2>1. ASSUME NEW u \in Turns, u \notin late', Protected(u)', turn'[u].on \notin outdated,
               NEW v \in talk'[turn'[u].on].turns \ {u}, turn'[v].locked
        PROVE  v \in turn'[u].history
    <3>1. /\ Protected(u) /\ turn'[u].on = turn[u].on /\ turn'[u].history = turn[u].history
          /\ u \notin late /\ turn[u].on \in Conversations
      BY <1>1, <1>2, <1>3, <1>5, <2>1 DEF ChatIInv, TurnInv, Placed, Protected
    <3>2. CASE v = t
      <4>1. (Protected(t) /\ turn[t].on = turn[u].on) \/ v \in talk[turn[u].on].turns
        BY <1>1, <1>2, <1>3, <1>4, <2>1, <3>1, <3>2 DEF Protected
      <4>2. v \notin talk[turn[u].on].turns
        BY <1>1, <3>1, <3>2 DEF ChatIInv, SavedInv, Over
      <4> QED
        BY <2>1, <3>1, <3>2, <4>1, <4>2, LockTellsApart DEF TurnsExclusive
    <3>3. CASE v # t
      <4>1. v \in talk[turn[u].on].turns \ {u} /\ v \in Turns
        BY <1>4, <2>1, <3>1, <3>3 DEF ChatIInv, ChatTypeOK
      <4>2. turn[v].locked
        BY <1>3, <2>1, <3>3, <4>1
      <4> QED
        BY <2>1, <3>1, <4>1, <4>2 DEF ChatIInv, ReadWhole
    <3> QED
      BY <3>2, <3>3
  <2> QED
    BY <1>5, <2>1 DEF ReadWhole
<1>13. AnswersUnderOneScope'
  <2>1. ASSUME NEW d \in Conversations, talk[d].there, NEW u \in talk'[d].turns \ drifted
        PROVE  turn'[u].data = {talk[d].scope}
    <3>1. CASE u = t /\ d = c
      BY <1>1, <1>2, <1>3, <2>1, <3>1 DEF InScope
    <3>2. CASE ~(u = t /\ d = c)
      <4>1. u \in talk[d].turns /\ u \in Turns
        BY <1>4, <2>1, <3>2 DEF ChatIInv, ChatTypeOK
      <4>2. u # t
        BY <1>1, <2>1, <4>1 DEF ChatIInv, SavedInv, Over
      <4> QED
        BY <1>3, <2>1, <4>1, <4>2 DEF ChatIInv, AnswersUnderOneScope
    <3> QED
      BY <3>1, <3>2
  <2> QED
    BY <1>4, <1>5, <2>1 DEF AnswersUnderOneScope
<1> QED
  BY <1>6, <1>7, <1>8, <1>9, <1>10, <1>11, <1>12, <1>13 DEF ChatIInv

(* The key is deleted by its holder, or it had expired under him.              *)
LEMMA ReleaseDeleteSound ==
  ASSUME ChatIInv, ChatTypeOK', NEW t \in Turns, ReleaseDelete(t)
  PROVE  ChatIInv'
<1>r. PICK r : r = [turn[t] EXCEPT !.pc = "done"]
  OBVIOUS
<1>1. turn[t] \in TurnRow /\ turn[t].pc = "unlock" /\ turn[t].locked /\ turn[t].on \in Conversations
  BY ChatTyped DEF ChatIInv, TurnInv, ReleaseDelete, Step, Placed
<1>2. /\ r.pc = "done" /\ r.on = turn[t].on /\ r.locked = turn[t].locked
      /\ r.data = turn[t].data /\ turn' = [turn EXCEPT ![t] = r]
  BY <1>1, <1>r DEF TurnRow, ReleaseDelete, Step, Goto
<1>3. turn'[t] = r /\ \A u \in Turns \ {t} : turn'[u] = turn[u]
  BY <1>2 DEF ChatIInv, ChatTypeOK
<1>4. /\ UNCHANGED <<scope, talk, outdated, drifted, late>>
      /\ \A c \in Conversations \ {turn[t].on} : lock'[c] = lock[c]
  BY DEF ReleaseDelete, ChatIInv, ChatTypeOK
<1>5. LockInv'
  <2>1. ASSUME NEW u \in Turns \ {t}, Protected(u), turn[u].on \notin outdated
        PROVE  turn[u].on \in Conversations \ {turn[t].on}
    BY <1>1, <2>1, LockTellsApart DEF TurnsExclusive, Protected, ChatIInv, TurnInv, Placed
  <2> QED
    BY <1>2, <1>3, <1>4, <2>1 DEF ChatIInv, LockInv, Protected
<1>6. TurnInv' /\ KeptInv'
  BY <1>1, <1>2, <1>3, <1>4 DEF ChatIInv, TurnInv, KeptInv, Placed, Started
<1>7. SavedInv'
  BY <1>2, <1>3, <1>4 DEF ChatIInv, SavedInv, ChatTypeOK, Over
<1>8. WaitInv' /\ ScopeInv'
  BY <1>2, <1>3, <1>4 DEF ChatIInv, WaitInv, ScopeInv, ReadAll, InScope
<1>9. ReadWhole'
  BY <1>2, <1>3, <1>4 DEF ChatIInv, ReadWhole, Protected
<1>10. AnswersUnderOneScope'
  BY <1>2, <1>3, <1>4 DEF ChatIInv, AnswersUnderOneScope, ChatTypeOK
<1> QED
  BY <1>5, <1>6, <1>7, <1>8, <1>9, <1>10 DEF ChatIInv

(* What expires under a turn that is not done is recorded as outdated.         *)
LEMMA ExpireSound ==
  ASSUME ChatIInv, ChatTypeOK', NEW c \in Conversations, Expire(c)
  PROVE  ChatIInv'
<1>1. /\ UNCHANGED <<scope, talk, turn, drifted, late>>
      /\ \A d \in Conversations \ {c} : lock'[d] = lock[d]
      /\ lock[c] \in Turns
      /\ outdated' = IF Protected(lock[c]) THEN outdated \cup {c} ELSE outdated
  BY DEF Expire, ChatIInv, ChatTypeOK
<1>2. LockInv'
  BY <1>1 DEF ChatIInv, LockInv, Protected, TurnInv, Placed
<1>3. TurnInv' /\ SavedInv' /\ WaitInv' /\ ScopeInv' /\ KeptInv' /\ AnswersUnderOneScope'
  BY <1>1 
  DEF ChatIInv, TurnInv, SavedInv, WaitInv, ScopeInv, KeptInv, AnswersUnderOneScope, ReadAll,
      InScope, Started
<1>4. ReadWhole'
  BY <1>1 DEF ChatIInv, ReadWhole, Protected
<1> QED
  BY <1>2, <1>3, <1>4 DEF ChatIInv

(* Removing a conversation removes its turns and keeps its scope.              *)
LEMMA RemovalSound ==
  ASSUME ChatIInv, ChatTypeOK', NEW c \in Conversations,
         DeleteConversation(c) \/ PruneConversation(c)
  PROVE  ChatIInv'
<1>1. UNCHANGED <<scope, lock, turn, outdated, drifted, late>>
  BY DEF DeleteConversation, PruneConversation
<1>2. /\ talk'[c].turns = {} /\ talk'[c].scope = talk[c].scope /\ ~talk'[c].there
      /\ \A d \in Conversations \ {c} : talk'[d] = talk[d]
  <2>1. talk \in [Conversations -> Talk] /\ talk[c] \in Talk
    BY ChatTyped DEF ChatIInv
  <2> QED
    BY <2>1 DEF DeleteConversation, PruneConversation, Remove, Talk
<1>3. TurnInv' /\ LockInv'
  BY <1>1 DEF ChatIInv, TurnInv, LockInv, Protected
<1>4. SavedInv' /\ AnswersUnderOneScope'
  BY <1>1, <1>2 DEF ChatIInv, SavedInv, AnswersUnderOneScope
<1>5. WaitInv'
  BY <1>1, <1>2 DEF ChatIInv, WaitInv, ReadAll, TurnInv, Placed
<1>6. ScopeInv'
  BY <1>1, <1>2 DEF ChatIInv, ScopeInv, InScope
<1>7. KeptInv'
  BY <1>1, <1>2 DEF ChatIInv, KeptInv, Started
<1>8. ReadWhole'
  BY <1>1, <1>2 DEF ChatIInv, ReadWhole, Protected, TurnInv, Placed
<1> QED
  BY <1>3, <1>4, <1>5, <1>6, <1>7, <1>8 DEF ChatIInv

(* A scope that changes catches each turn before its fingerprint (it drifts),  *)
(* before its check (which refuses it, unless the scope comes back), or after  *)
(* the check, with the data of one scope.                                      *)
LEMMA ScopeChangesSound ==
  ASSUME ChatIInv, ChatTypeOK', ScopeChanges
  PROVE  ChatIInv'
<1>1. PICK s \in (Scopes \cup {Revoked}) \ {scope} :
        /\ scope' = s
        /\ drifted' = drifted \cup {t \in Turns :
                                      \/ turn[t].pc \in {"read", "lock", "snapshot"}
                                      \/ turn[t].pc \in {"asking", "check"} /\ turn[t].scope = s}
        /\ turn' = [t \in Turns |->
                      IF turn[t].pc = "asking" /\ s # Revoked
                      THEN [turn[t] EXCEPT !.data = @ \cup {s}] ELSE turn[t]]
  BY DEF ScopeChanges
<1>2. UNCHANGED <<talk, lock, outdated, late>>
  BY DEF ScopeChanges
<1>3. ASSUME NEW t \in Turns
      PROVE  /\ turn'[t].pc = turn[t].pc /\ turn'[t].on = turn[t].on
             /\ turn'[t].locked = turn[t].locked /\ turn'[t].scope = turn[t].scope
             /\ turn'[t].history = turn[t].history
             /\ turn[t].pc # "asking" => turn'[t] = turn[t]
  <2>1. turn[t] \in TurnRow
    BY ChatTyped DEF ChatIInv
  <2>2. turn'[t] = IF turn[t].pc = "asking" /\ s # Revoked
                   THEN [turn[t] EXCEPT !.data = @ \cup {s}] ELSE turn[t]
    BY <1>1
  <2> QED
    BY <2>1, <2>2 DEF TurnRow
<1>4. TurnInv' /\ LockInv'
  BY <1>2, <1>3 DEF ChatIInv, TurnInv, LockInv, Protected, Placed
<1>5. SavedInv' /\ AnswersUnderOneScope'
  <2>1. \A c \in Conversations : \A t \in talk[c].turns : t \in Turns /\ turn'[t] = turn[t]
    BY <1>3 DEF ChatIInv, SavedInv, Over, ChatTypeOK
  <2> QED
    BY <1>1, <1>2, <2>1 DEF ChatIInv, SavedInv, AnswersUnderOneScope, Over
<1>6. WaitInv'
  BY <1>2, <1>3 DEF ChatIInv, WaitInv, ReadAll
<1>7. ScopeInv'
  <2>1. ASSUME NEW t \in Turns, t \notin drifted'
        PROVE  InScope(turn[t])'
    <3>1. /\ t \notin drifted /\ turn[t].pc \notin {"read", "lock", "snapshot"}
          /\ turn[t].pc \in {"asking", "check"} => turn[t].scope # scope'
      BY <1>1, <2>1
    <3>2. /\ turn[t].pc \in {"create", "save"} => turn[t].data = {turn[t].scope}
          /\ turn[t].pc \in {"asking", "check", "save"} /\ turn[t].on \in Conversations =>
               talk[turn[t].on].scope = turn[t].scope
      BY <3>1 DEF ChatIInv, ScopeInv, InScope
    <3> QED
      BY <1>2, <1>3, <3>1, <3>2 DEF InScope
  <2> QED
    BY <2>1 DEF ScopeInv
<1>8. KeptInv'
  BY <1>2, <1>3 DEF ChatIInv, KeptInv, Started
<1>9. ReadWhole'
  <2>1. \A c \in Conversations : talk[c].turns \subseteq Turns
    BY DEF ChatIInv, ChatTypeOK
  <2> QED
    BY <1>2, <1>3, <2>1 DEF ChatIInv, ReadWhole, Protected, TurnInv, Placed
<1> QED
  BY <1>4, <1>5, <1>6, <1>7, <1>8, <1>9 DEF ChatIInv

LEMMA ChatStarts == ChatInit => ChatIInv
<1> SUFFICES ASSUME ChatInit
             PROVE  ChatIInv
  OBVIOUS
<1>1. PICK c \in Conversations :
        talk = [d \in Conversations |->
                  IF d = c THEN [there |-> TRUE, scope |-> scope, turns |-> {}] ELSE Missing]
  BY DEF ChatInit
<1>2. \A d \in Conversations : talk[d] \in Talk /\ talk[d].turns = {}
  BY <1>1 DEF ChatInit, Talk, Missing
<1>3. Waiting \in TurnRow
  BY DEF Waiting, TurnRow
<1>4. ChatTypeOK
  <2>1. changes \in 0..MaxScopeChanges /\ expiries \in 0..MaxExpiries /\ kills \in 0..MaxKills
    BY ConversationAssumption DEF ChatInit, ConversationAssumption
  <2>2. talk \in [Conversations -> Talk] /\ turn \in [Turns -> TurnRow]
    BY <1>1, <1>2, <1>3 DEF ChatInit
  <2> QED
    BY <2>1, <2>2 DEF ChatTypeOK, ChatInit, TurnRow, Talk
<1>5. \A t \in Turns : turn[t].pc = "new" /\ ~turn[t].locked /\ turn[t].on = NoConversation
  BY DEF ChatInit, Waiting
<1>6. TurnInv /\ LockInv /\ WaitInv /\ ReadWhole /\ ScopeInv
  BY <1>5 DEF TurnInv, LockInv, WaitInv, ReadWhole, ScopeInv, Placed, Protected, ReadAll, InScope
<1>7. KeptInv
  BY <1>1, <1>5, ConversationAssumption
  DEF ConversationAssumption, KeptInv, Started, ChatInit, Missing
<1>8. SavedInv /\ AnswersUnderOneScope
  BY <1>2 DEF SavedInv, AnswersUnderOneScope
<1> QED
  BY <1>4, <1>6, <1>7, <1>8 DEF ChatIInv

LEMMA ChatStep == ChatIInv /\ [ChatNext]_chatVars => ChatIInv'
<1> SUFFICES ASSUME ChatIInv, [ChatNext]_chatVars
             PROVE  ChatIInv'
  OBVIOUS
<1>1. ChatTypeOK'
  BY RequestTyped, WorldTyped DEF ChatIInv, ChatNext
<1>2. ASSUME NEW t \in Turns, Request(t)
      PROVE  ChatIInv'
  BY <1>1, <1>2, OpenSound, ReadHistorySound, AcquireSound, AskingSound, CreateConversationSound,
     SaveTurnSound, ReleaseGetSound, ReleaseDeleteSound
  DEF Request
<1>3. ASSUME NEW t \in Turns, Kill(t)
      PROVE  ChatIInv'
  BY <1>1, <1>3, EndSound DEF Kill
<1>4. CASE UNCHANGED chatVars
  BY <1>1, <1>4
  DEF chatVars, ChatIInv, TurnInv, SavedInv, LockInv, WaitInv, ScopeInv, KeptInv, ReadWhole,
      AnswersUnderOneScope, Protected, Placed, Over, ReadAll, InScope, Started
<1> QED
  BY <1>1, <1>2, <1>3, <1>4, ExpireSound, RemovalSound, ScopeChangesSound DEF ChatNext

LEMMA ChatHolds == ChatSpec => []ChatIInv
BY ChatStarts, ChatStep, PTL DEF ChatSpec

(* Every variable of the assistant's conversations keeps its type, for any     *)
(* turns, conversations, scopes and bounds.                                    *)
THEOREM TurnsTyped == ChatSpec => []ChatTypeOK
<1>1. ChatIInv => ChatTypeOK
  BY DEF ChatIInv
<1> QED
  BY <1>1, ChatHolds, PTL

(* Turns of a conversation do not overlap, and a turn that answers has read    *)
(* every turn saved in it (views.py:109-115, 149-152), but for the late        *)
(* readers, the first turn and a lock that ended under its holder.             *)
THEOREM HistoriesWhole == ChatSpec => []HistoryIsWhole
<1>1. ChatIInv => HistoryIsWhole
  BY LockTellsApart DEF ChatIInv, ReadWhole, HistoryIsWhole
<1> QED
  BY <1>1, ChatHolds, PTL

(* An answer that is kept was computed from data of the one scope of the       *)
(* conversation that shows it (views.py:125-130), whatever changed meanwhile.  *)
THEOREM OneScope == ChatSpec => []AnswersUnderOneScope
<1>1. ChatIInv => AnswersUnderOneScope
  BY DEF ChatIInv
<1> QED
  BY <1>1, ChatHolds, PTL

----------------------------------------------------------------------------
(* GrafanaViewer.                                                          *)

(* A worker that moves on keeps the invariant if no account appears, the row's *)
(* switches stay, and nobody forgets what it knew.                             *)
LEMMA MoveSound ==
  ASSUME ViewerIInv, NEW w \in Workers, NEW r \in {Idle} \cup SyncTask,
         sync' = [sync EXCEPT ![w] = r], UNCHANGED <<created, admin, crossed>>,
         queued' \in BOOLEAN, gaveUp' \in BOOLEAN,
         company' \in Companies, company'.id \in Ids, Off(company') = Off(company),
         lost \subseteq lost', lost' \subseteq 1 .. created,
         DOMAIN grafana' \subseteq DOMAIN grafana,
         \A i \in DOMAIN grafana' : /\ grafana'[i] \in Viewer
                                    /\ grafana'[i].login = grafana[i].login,
         r.pc \notin {"idle", "remove", "clear"} => Configured(r.row),
         r.pc # "idle" => r.row.id \in Ids /\ r.id \in Ids,
         r.pc \in {"password", "store"} /\ r.id \in DOMAIN grafana' =>
           grafana[r.id].login = r.row.login,
         r.pc = "clear" => r.row.id \notin DOMAIN grafana',
         \A i \in DOMAIN grafana' : company.id = i \/ Remembers(sync[w], i) =>
           i \in lost' \/ company'.id = i \/ Remembers(r, i),
         Off(company) /\ ~crossed =>
           /\ r.pc \in {"idle", "remove", "clear"}
           /\ company'.id # NoValue /\ ~gaveUp' => queued' \/ r.pc # "idle"
  PROVE  ViewerIInv'
<1>1. sync'[w] = r /\ \A v \in Workers \ {w} : sync'[v] = sync[v]
  BY DEF ViewerIInv, ViewerTyped
<1>2. ViewerTypeOK'
  BY DEF ViewerIInv, ViewerTyped, ViewerTypeOK, Viewer
<1>3. ViewerTyped'
  BY <1>1, <1>2 DEF ViewerIInv, ViewerTyped, Configured
<1>4. IdInv'
  BY <1>1 DEF ViewerIInv, IdInv, Ids
<1>5. OneLogin'
  BY DEF ViewerIInv, OneLogin
<1>6. FoundInv'
  BY <1>1 DEF ViewerIInv, FoundInv
<1>7. KnownInv'
  <2>1. ASSUME NEW i \in DOMAIN grafana'
        PROVE  i \in lost' \/ company'.id = i \/ \E v \in Workers : Remembers(sync[v], i)'
    <3>1. i \in DOMAIN grafana /\ grafana'[i].login = grafana[i].login
      BY <2>1
    <3>2. CASE i \in lost \/ company.id = i
      BY <1>1, <2>1, <3>1, <3>2 DEF Remembers
    <3>3. CASE \E v \in Workers : Remembers(sync[v], i)
      BY <1>1, <2>1, <3>1, <3>3 DEF Remembers
    <3> QED
      BY <3>1, <3>2, <3>3 DEF ViewerIInv, KnownInv
  <2> QED
    BY <2>1 DEF KnownInv, Remembers
<1>8. OffInv'
  BY <1>1 DEF ViewerIInv, OffInv, Off
<1> QED
  BY <1>3, <1>4, <1>5, <1>6, <1>7, <1>8 DEF ViewerIInv

(* What the invariant says of a worker that has a task, and of its next place. *)
LEMMA BusyWorker ==
  ASSUME ViewerIInv, NEW w \in Workers, sync[w].pc # "idle"
  PROVE  /\ sync[w] \in SyncTask
         /\ sync[w].row \in Companies /\ sync[w].row.id \in Ids /\ sync[w].id \in Ids
<1>1. sync[w] \in SyncTask
  BY DEF ViewerIInv, ViewerTyped, Idle
<1>2. sync[w].row.id \in Ids /\ sync[w].id \in Ids
  BY DEF ViewerIInv, IdInv
<1> QED
  BY <1>1, <1>2 DEF SyncTask

LEMMA NextPlace ==
  ASSUME ViewerIInv, NEW w \in Workers, sync[w].pc # "idle",
         NEW pc \in {"clear", "lookup", "create", "lookup_again", "password", "store"},
         NEW r, r = At(w, pc)
  PROVE  r.pc = pc /\ r.row = sync[w].row /\ r.id = sync[w].id /\ r \in SyncTask
BY BusyWorker DEF SyncTask, At

(* A task begins with a copy of the row.                                       *)
LEMMA TakeSound ==
  ASSUME ViewerIInv, NEW w \in Workers, Take(w)
  PROVE  ViewerIInv'
<1>1. PICK r : r = IF FirstStep(company) = "idle" THEN Idle
                   ELSE [pc |-> FirstStep(company), row |-> company, id |-> NoValue]
  OBVIOUS
<1>2. /\ sync[w].pc = "idle" /\ sync' = [sync EXCEPT ![w] = r]
      /\ company \in Companies /\ company.id \in Ids
      /\ \A i \in DOMAIN grafana : grafana[i] \in Viewer
  BY <1>1 DEF Take, Move, ViewerIInv, ViewerTyped, ViewerTypeOK, IdInv, Viewer
<1>3. /\ r.pc = FirstStep(company) /\ r.pc \in {"idle", "remove", "rename", "lookup"}
      /\ r.pc # "idle" => r.row = company /\ r.id = NoValue
      /\ r \in {Idle} \cup SyncTask
  BY <1>1, <1>2 DEF FirstStep, Idle, SyncTask
<1>4. r.pc \in {"rename", "lookup"} => Configured(company) /\ ~Off(company)
  BY <1>3 DEF FirstStep
<1>5. Off(company) /\ company.id # NoValue => r.pc = "remove"
  BY <1>3 DEF FirstStep
<1>6. \A i \in DOMAIN grafana : ~Remembers(sync[w], i)
  BY <1>2 DEF Remembers
<1>7. lost \subseteq 1 .. created /\ queued' \in BOOLEAN /\ gaveUp' \in BOOLEAN
  BY DEF Take, ViewerIInv, ViewerTyped, ViewerTypeOK
<1>8. UNCHANGED <<company, grafana, created, admin, lost, crossed, gaveUp>>
  BY DEF Take
<1> QED
  BY <1>2, <1>3, <1>4, <1>5, <1>6, <1>7, <1>8, MoveSound DEF Ids

(* An account is removed: who remembers it, or does not, keeps being right.    *)
LEMMA RemovalOfAccountSound ==
  ASSUME ViewerIInv, NEW w \in Workers, RemoveAccount(w) \/ RemoveRenamed(w)
  PROVE  ViewerIInv'
<1>p. PICK pc \in {"clear", "lookup"} :
        /\ sync[w].pc = (IF pc = "clear" THEN "remove" ELSE "rename")
        /\ sync' = [sync EXCEPT ![w] = At(w, pc)]
  BY DEF RemoveAccount, RemoveRenamed, Move
<1>1. PICK r : /\ r = At(w, pc) /\ sync' = [sync EXCEPT ![w] = r]
               /\ sync[w].pc \in {"remove", "rename"}
  BY <1>p
<1>2. /\ r.pc = pc
      /\ r.row = sync[w].row /\ r.id = sync[w].id /\ r \in SyncTask
      /\ r.row.id \in Ids /\ r.id \in Ids
  <2>1. sync[w].pc # "idle"
    BY <1>1
  <2>2. sync[w].row.id \in Ids /\ sync[w].id \in Ids
    BY <2>1, BusyWorker
  <2>3. r.pc = pc /\ r.row = sync[w].row /\ r.id = sync[w].id /\ r \in SyncTask
    BY <1>1, <2>1, NextPlace
  <2> QED
    BY <2>2, <2>3
<1>3. grafana' = Without(r.row.id) /\ UNCHANGED Local
  BY <1>1, <1>2 DEF RemoveAccount, RemoveRenamed, Move
<1>4. /\ DOMAIN grafana' = DOMAIN grafana \ {r.row.id}
      /\ \A i \in DOMAIN grafana' : grafana'[i] = grafana[i] /\ grafana[i] \in Viewer
  BY <1>3 DEF Without, ViewerIInv, ViewerTyped, ViewerTypeOK, Viewer
<1>5. \A i \in DOMAIN grafana : ~Remembers(sync[w], i)
  BY <1>1 DEF Remembers
<1>6. /\ lost \subseteq 1 .. created /\ queued \in BOOLEAN /\ gaveUp \in BOOLEAN
      /\ company \in Companies /\ company.id \in Ids
      /\ r.pc = "lookup" => Configured(r.row) /\ ~(Off(company) /\ ~crossed)
  BY <1>p, <1>1, <1>2 DEF ViewerIInv, ViewerTyped, ViewerTypeOK, IdInv, OffInv
<1>7. UNCHANGED <<company, created, queued, admin, lost, crossed, gaveUp>>
  BY <1>3 DEF Local
<1> QED
  BY <1>1, <1>2, <1>4, <1>5, <1>6, <1>7, MoveSound

(* The account of a login is found, at once or after it was created: there is  *)
(* only one of that login.                                                     *)
LEMMA LookupSound ==
  ASSUME ViewerIInv, NEW w \in Workers, Lookup(w) \/ LookupAgain(w)
  PROVE  ViewerIInv'
<1>1. /\ lost \subseteq 1 .. created /\ queued \in BOOLEAN /\ gaveUp \in BOOLEAN
      /\ company \in Companies /\ company.id \in Ids
      /\ DOMAIN grafana \subseteq Ids /\ DOMAIN grafana \subseteq 1 .. MaxAccounts
      /\ \A i \in DOMAIN grafana : grafana[i] \in Viewer
      /\ UNCHANGED <<company, grafana, created, queued, admin, lost, crossed, gaveUp>>
  BY ViewerAssumption
  DEF ViewerAssumption, ViewerIInv, ViewerTyped, ViewerTypeOK, IdInv, Lookup, LookupAgain, Local,
      Viewer, Ids
<1>2. sync[w].pc \in {"lookup", "lookup_again"}
  BY DEF Lookup, LookupAgain
<1>3. Configured(sync[w].row) /\ ~(Off(company) /\ ~crossed)
  BY <1>2 DEF ViewerIInv, ViewerTyped, OffInv
<1>4. ASSUME sync[w].pc = "lookup", sync' = [sync EXCEPT ![w] = At(w, "create")]
      PROVE  ViewerIInv'
  <2>1. PICK r : r = At(w, "create")
    OBVIOUS
  <2>2. r.pc = "create" /\ r.row = sync[w].row /\ r \in SyncTask /\ r.row.id \in Ids /\ r.id \in Ids
    BY <1>2, <2>1, BusyWorker, NextPlace
  <2>3. \A i \in DOMAIN grafana : ~Remembers(sync[w], i)
    BY <1>4 DEF Remembers
  <2> QED
    BY <1>1, <1>3, <1>4, <2>1, <2>2, <2>3, MoveSound
<1>5. ASSUME NEW i \in Accounts(sync[w].row.login),
             sync' = [sync EXCEPT ![w] = [At(w, "password") EXCEPT !.id = i]]
      PROVE  ViewerIInv'
  <2>1. PICK r : r = [At(w, "password") EXCEPT !.id = i]
    OBVIOUS
  <2>2. /\ i \in DOMAIN grafana /\ grafana[i].login = sync[w].row.login
        /\ i \in Ids /\ i \in 1 .. MaxAccounts
    BY <1>1 DEF Accounts
  <2>3. /\ r.pc = "password" /\ r.row = sync[w].row /\ r.id = i /\ r \in SyncTask
        /\ r.row.id \in Ids
    <3>1. sync[w].pc # "idle"
      BY <1>2
    <3>2. r.pc = "password" /\ r.row = sync[w].row /\ r.id = i /\ r \in SyncTask
      BY <2>1, <2>2, <3>1, BusyWorker DEF At, SyncTask
    <3>3. sync[w].row.id \in Ids
      BY <3>1, BusyWorker
    <3> QED
      BY <3>2, <3>3
  <2>4. \A j \in DOMAIN grafana : Remembers(sync[w], j) => Remembers(r, j)
    BY <1>2, <2>2, <2>3 DEF Remembers, ViewerIInv, OneLogin
  <2>5. /\ sync' = [sync EXCEPT ![w] = r] /\ r \in {Idle} \cup SyncTask
        /\ r.pc \notin {"idle", "remove", "clear"} => Configured(r.row)
        /\ r.pc # "idle" => r.row.id \in Ids /\ r.id \in Ids
        /\ r.pc \in {"password", "store"} /\ r.id \in DOMAIN grafana' =>
              grafana[r.id].login = r.row.login
        /\ r.pc = "clear" => r.row.id \notin DOMAIN grafana'
    BY <1>3, <1>5, <2>1, <2>2, <2>3
  <2>6. \A j \in DOMAIN grafana : company.id = j \/ Remembers(sync[w], j) =>
          j \in lost \/ company.id = j \/ Remembers(r, j)
    BY <2>4
  <2> QED
    BY <1>1, <1>3, <2>5, <2>6, MoveSound
<1> QED
  BY <1>4, <1>5 DEF Lookup, LookupAgain, Move

LEMMA UpdatePasswordSound ==
  ASSUME ViewerIInv, NEW w \in Workers, UpdatePassword(w)
  PROVE  ViewerIInv'
<1>1. PICK r : r = At(w, "store")
  OBVIOUS
<1>2. sync[w].pc = "password" /\ sync' = [sync EXCEPT ![w] = r]
  BY <1>1 DEF UpdatePassword, Move
<1>3. /\ r.pc = "store" /\ r.row = sync[w].row /\ r.id = sync[w].id /\ r \in SyncTask
      /\ r.row.id \in Ids /\ r.id \in Ids
  BY <1>1, <1>2, BusyWorker, NextPlace
<1>4. /\ Configured(r.row) /\ ~(Off(company) /\ ~crossed) /\ r.row.password \in Passwords
      /\ r.id \in DOMAIN grafana => grafana[r.id].login = r.row.login
  BY <1>2, <1>3 DEF ViewerIInv, ViewerTyped, OffInv, FoundInv, Configured, SyncTask, Companies
<1>5. /\ DOMAIN grafana' = DOMAIN grafana
      /\ \A i \in DOMAIN grafana : grafana'[i] \in Viewer /\ grafana'[i].login = grafana[i].login
  <2>1. \A i \in DOMAIN grafana : grafana[i] \in Viewer
    BY DEF ViewerIInv, ViewerTyped, ViewerTypeOK, Viewer
  <2> QED
    BY <1>3, <1>4, <2>1 DEF UpdatePassword, Viewer
<1>6. \A i \in DOMAIN grafana : Remembers(sync[w], i) => Remembers(r, i)
  BY <1>2, <1>3 DEF Remembers
<1>7. /\ lost \subseteq 1 .. created /\ queued \in BOOLEAN /\ gaveUp \in BOOLEAN
      /\ company \in Companies /\ company.id \in Ids
      /\ UNCHANGED <<company, created, queued, admin, lost, crossed, gaveUp>>
  BY DEF ViewerIInv, ViewerTyped, ViewerTypeOK, IdInv, UpdatePassword, Local
<1> QED
  BY <1>2, <1>3, <1>4, <1>5, <1>6, <1>7, MoveSound

(* A task that ends without an id to store was told of a row that is off.      *)
LEMMA ClearRowSound ==
  ASSUME ViewerIInv, NEW w \in Workers, ClearRow(w)
  PROVE  ViewerIInv'
<1>1. sync[w].pc = "clear" /\ sync' = [sync EXCEPT ![w] = Idle]
  BY DEF ClearRow, Move
<1>2. /\ sync[w].row.id \notin DOMAIN grafana /\ sync[w].row.id \in Ids
      /\ company.id \in Ids /\ lost \subseteq 1 .. created
      /\ \A i \in DOMAIN grafana : grafana[i] \in Viewer
      /\ queued \in BOOLEAN /\ gaveUp \in BOOLEAN
  BY <1>1 DEF ViewerIInv, FoundInv, IdInv, ViewerTyped, ViewerTypeOK, Viewer
<1>3. /\ company' \in Companies /\ company'.id = NoValue
      /\ company'.enabled = company.enabled /\ company'.active = company.active
  BY DEF ViewerIInv, ViewerTyped, ViewerTypeOK, ClearRow, Companies
<1>4. /\ lost \subseteq lost' /\ lost' \subseteq 1 .. created
      /\ \A i \in DOMAIN grafana : company.id = i => i \in lost'
  BY <1>2, ViewerAssumption
  DEF ViewerAssumption, ClearRow, Ids, ViewerIInv, ViewerTyped, ViewerTypeOK
<1>5. \A i \in DOMAIN grafana : ~Remembers(sync[w], i)
  BY <1>1 DEF Remembers
<1>6. UNCHANGED <<grafana, created, queued, admin, crossed, gaveUp>>
  BY DEF ClearRow
<1>7. Off(company') = Off(company) /\ NoValue \in Ids /\ Idle.pc = "idle"
  BY <1>3 DEF Off, Ids, Idle
<1>8. Idle \in {Idle} \cup SyncTask
  OBVIOUS
<1> HIDE DEF Idle
<1> QED
  BY <1>1, <1>2, <1>3, <1>4, <1>5, <1>6, <1>7, <1>8, MoveSound

(* The id that is stored is remembered by the row from then on.                *)
LEMMA StoreIdSound ==
  ASSUME ViewerIInv, NEW w \in Workers, StoreId(w)
  PROVE  ViewerIInv'
<1>1. sync[w].pc = "store" /\ sync' = [sync EXCEPT ![w] = Idle]
  BY DEF StoreId, Move
<1>2. /\ sync[w] \in SyncTask /\ sync[w].id \in Ids /\ Configured(sync[w].row)
      /\ company.id \in Ids /\ lost \subseteq 1 .. created
      /\ \A i \in DOMAIN grafana : grafana[i] \in Viewer
      /\ queued \in BOOLEAN /\ gaveUp \in BOOLEAN /\ ~(Off(company) /\ ~crossed)
  BY <1>1, BusyWorker DEF ViewerIInv, OffInv, IdInv, ViewerTyped, ViewerTypeOK, Viewer
<1>3. /\ company' \in Companies /\ company'.id = sync[w].id
      /\ company'.enabled = company.enabled /\ company'.active = company.active
  BY <1>2 DEF ViewerIInv, ViewerTyped, ViewerTypeOK, StoreId, Companies, SyncTask
<1>4. /\ lost \subseteq lost' /\ lost' \subseteq 1 .. created
      /\ \A i \in DOMAIN grafana : company.id = i => i \in lost' \/ company'.id = i
  BY <1>2, <1>3, ViewerAssumption
  DEF ViewerAssumption, StoreId, Ids, ViewerIInv, ViewerTyped, ViewerTypeOK
<1>5. \A i \in DOMAIN grafana : Remembers(sync[w], i) => company'.id = i
  BY <1>1, <1>3 DEF Remembers
<1>6. UNCHANGED <<grafana, created, queued, admin, crossed, gaveUp>>
  BY DEF StoreId
<1>7. Off(company') = Off(company) /\ NoValue \in Ids /\ Idle.pc = "idle"
  BY <1>3 DEF Off, Ids, Idle
<1>8. Idle \in {Idle} \cup SyncTask
  OBVIOUS
<1> QED
  BY <1>1, <1>2, <1>3, <1>4, <1>5, <1>6, <1>7, <1>8, MoveSound

(* A task that fails loses what it knew, and is queued again or given up.      *)
LEMMA FailSound ==
  ASSUME ViewerIInv, NEW w \in Workers, Fail(w)
  PROVE  ViewerIInv'
<1>1. sync[w].pc # "idle" /\ sync' = [sync EXCEPT ![w] = Idle]
  BY DEF Fail
<1>2. /\ company \in Companies /\ company.id \in Ids /\ lost \subseteq 1 .. created
      /\ \A i \in DOMAIN grafana : grafana[i] \in Viewer
      /\ DOMAIN grafana \subseteq 1 .. created /\ gaveUp \in BOOLEAN /\ queued \in BOOLEAN
  BY DEF ViewerIInv, IdInv, ViewerTyped, ViewerTypeOK, Viewer
<1>3. /\ UNCHANGED <<company, grafana, created, admin, crossed>>
      /\ queued' \in BOOLEAN /\ gaveUp' \in BOOLEAN /\ (queued' \/ gaveUp')
  BY <1>2 DEF Fail
<1>4. /\ lost \subseteq lost' /\ lost' \subseteq 1 .. created
      /\ \A i \in DOMAIN grafana : grafana[i].login = sync[w].row.login =>
           i \in lost' \/ company.id = i
  BY <1>2 DEF Fail, Forgotten, Accounts
<1>5. \A i \in DOMAIN grafana : Remembers(sync[w], i) => grafana[i].login = sync[w].row.login
  <2>1. sync[w].pc \in {"password", "store"} /\ sync[w].id \in DOMAIN grafana =>
          grafana[sync[w].id].login = sync[w].row.login
    BY DEF ViewerIInv, FoundInv
  <2> QED
    BY <2>1 DEF Remembers
<1>6. \A i \in DOMAIN grafana' : company.id = i \/ Remembers(sync[w], i) =>
        i \in lost' \/ company'.id = i
  BY <1>3, <1>4, <1>5
<1>7. /\ company' \in Companies /\ company'.id \in Ids /\ Off(company') = Off(company)
      /\ DOMAIN grafana' \subseteq DOMAIN grafana
      /\ \A i \in DOMAIN grafana' : /\ grafana'[i] \in Viewer
                                  /\ grafana'[i].login = grafana[i].login
  BY <1>2, <1>3 DEF Off
<1>8. PICK r : r = Idle
  OBVIOUS
<1>9. r.pc = "idle" /\ r \in {Idle} \cup SyncTask /\ sync' = [sync EXCEPT ![w] = r]
  BY <1>1, <1>8 DEF Idle
<1>10. Off(company) /\ ~crossed => (company'.id # NoValue /\ ~gaveUp' => queued')
  BY <1>3
<1> QED
  <2>1. UNCHANGED <<created, admin, crossed>> /\ queued' \in BOOLEAN /\ gaveUp' \in BOOLEAN
    BY <1>3
  <2>2. lost \subseteq lost' /\ lost' \subseteq 1 .. created
    BY <1>4
  <2> QED
    BY <1>6, <1>7, <1>9, <1>10, <2>1, <2>2, MoveSound

(* A new account has an id that nobody uses and a login no other account has,  *)
(* and the task that created it remembers it.                                  *)
LEMMA CreateSound ==
  ASSUME ViewerIInv, NEW w \in Workers, Create(w)
  PROVE  ViewerIInv'
<1>1. /\ sync[w].pc = "create" /\ sync[w] \in SyncTask /\ Configured(sync[w].row)
      /\ ~(Off(company) /\ ~crossed)
  BY BusyWorker DEF Create, ViewerIInv, ViewerTyped, OffInv
<1>2. /\ created \in Nat /\ MaxAccounts \in Nat /\ created' = created + 1
      /\ created' \in 1 .. MaxAccounts
      /\ created' \notin 1 .. created /\ created' # NoValue
      /\ 1 .. created \subseteq 1 .. created' /\ created' \in 1 .. created'
      /\ DOMAIN grafana \subseteq 1 .. created
  BY ViewerAssumption
  DEF ViewerAssumption, Create, ViewerIInv, ViewerTyped, ViewerTypeOK
<1>3. created' \notin Ids /\ created' \notin DOMAIN grafana /\ Ids \subseteq Ids' /\ created' \in Ids'
  BY <1>2 DEF Ids
<1>4. PICK r \in SyncTask :
        /\ sync' = [sync EXCEPT ![w] = r] /\ r.row = sync[w].row
        /\ \/ r.pc = "password" /\ r.id = created'
           \/ r.pc = "lookup_again" /\ r.id = sync[w].id
  <2>1. CASE Move(w, "create", [At(w, "password") EXCEPT !.id = created'])
    <3>1. PICK r : r = [At(w, "password") EXCEPT !.id = created']
      OBVIOUS
    <3> QED
      <4>1. r \in SyncTask /\ r.pc = "password" /\ r.id = created' /\ r.row = sync[w].row
        BY <1>1, <1>2, <3>1 DEF At, SyncTask
      <4> QED
        BY <2>1, <3>1, <4>1 DEF Move
  <2>2. CASE Move(w, "create", At(w, "lookup_again"))
    <3>1. PICK r : r = At(w, "lookup_again")
      OBVIOUS
    <3> QED
      BY <1>1, <2>2, <3>1, NextPlace DEF Move
  <2> QED
    BY <2>1, <2>2 DEF Create
<1>5. sync'[w] = r /\ \A v \in Workers \ {w} : sync'[v] = sync[v]
  BY <1>4 DEF ViewerIInv, ViewerTyped
<1>6. /\ DOMAIN grafana' = DOMAIN grafana \cup {created'}
      /\ \A i \in DOMAIN grafana : grafana'[i] = grafana[i]
      /\ grafana'[created'].login = sync[w].row.login /\ grafana'[created'] \in Viewer
      /\ \A i \in DOMAIN grafana : grafana[i].login # sync[w].row.login
  <2>1. sync[w].row.login \in Logins /\ sync[w].row.password \in Passwords
    BY <1>1 DEF Configured, SyncTask, Companies
  <2>2. grafana' = [i \in DOMAIN grafana \cup {created'} |->
                     IF i = created' THEN [login |-> sync[w].row.login,
                                           password |-> sync[w].row.password]
                     ELSE grafana[i]]
    BY DEF Create
  <2> QED
    BY <1>3, <2>1, <2>2 DEF Create, Viewer, Accounts
<1>7. UNCHANGED <<company, queued, admin, lost, crossed, gaveUp>>
  BY DEF Create
<1>8. ViewerTypeOK'
  BY <1>2, <1>6, <1>7 DEF ViewerIInv, ViewerTyped, ViewerTypeOK, Viewer
<1>9. ViewerTyped'
  BY <1>1, <1>4, <1>5, <1>8 DEF ViewerIInv, ViewerTyped, Configured
<1>10. IdInv'
  <2>1. \A v \in Workers : sync'[v].pc # "idle" => sync'[v].row.id \in Ids' /\ sync'[v].id \in Ids'
    BY <1>1, <1>3, <1>4, <1>5 DEF ViewerIInv, IdInv
  <2> QED
    BY <1>3, <1>7, <2>1 DEF ViewerIInv, IdInv
<1>11. OneLogin'
  BY <1>6 DEF ViewerIInv, OneLogin
<1>12. FoundInv'
  <2>1. ASSUME NEW v \in Workers \ {w}, sync[v].pc # "idle"
        PROVE  sync[v].row.id # created' /\ sync[v].id # created'
    BY <1>3, <2>1 DEF ViewerIInv, IdInv
  <2> QED
    BY <1>4, <1>5, <1>6, <2>1 DEF ViewerIInv, FoundInv
<1>13. KnownInv'
  <2>1. ASSUME NEW i \in DOMAIN grafana, NEW v \in Workers, Remembers(sync[v], i)
        PROVE  v # w /\ Remembers(sync[v], i)'
    <3>1. v # w
      BY <1>1, <2>1 DEF Remembers
    <3> QED
      BY <1>5, <1>6, <2>1, <3>1 DEF Remembers
  <2>2. ASSUME NEW i \in DOMAIN grafana
        PROVE  i \in lost' \/ company'.id = i \/ \E v \in Workers : Remembers(sync[v], i)'
    BY <1>7, <2>1, <2>2 DEF ViewerIInv, KnownInv
  <2>3. ASSUME NEW i, i = created'
        PROVE  Remembers(sync[w], i)'
    BY <1>4, <1>5, <1>6, <2>3 DEF Remembers
  <2> QED
    BY <1>6, <1>7, <2>2, <2>3 DEF KnownInv, Remembers
<1>14. OffInv'
  BY <1>1, <1>7 DEF OffInv, Off
<1> QED
  BY <1>9, <1>10, <1>11, <1>12, <1>13, <1>14 DEF ViewerIInv

(* The administrator's save writes the id of its copy over the row's.          *)
LEMMA AdminSavesSound ==
  ASSUME ViewerIInv, AdminSaves
  PROVE  ViewerIInv'
<1>1. PICK form \in Form :
        /\ company' = [admin EXCEPT !.enabled = form.enabled, !.active = form.active,
                                    !.login = form.login, !.password = form.password]
        /\ queued' = (queued \/ Queues(company'))
        /\ crossed' = (Off(company') /\ \E w \in Workers : sync[w].pc # "idle")
  BY DEF AdminSaves, Saveable
<1>2. /\ admin \in Companies /\ admin.id \in Ids /\ company.id \in Ids
      /\ lost \subseteq 1 .. created /\ queued \in BOOLEAN /\ admin # NoValue
  BY DEF AdminSaves, ViewerIInv, ViewerTyped, ViewerTypeOK, IdInv
<1>3. company' \in Companies /\ company'.id = admin.id
  BY <1>1, <1>2 DEF Form, Companies
<1>4. /\ UNCHANGED <<grafana, created, sync>> /\ admin' = NoValue /\ gaveUp' = FALSE
      /\ lost \subseteq lost' /\ lost' \subseteq 1 .. created
      /\ \A i \in 1 .. created : company.id = i => i \in lost' \/ company'.id = i
  <2>1. UNCHANGED <<grafana, created, sync>> /\ admin' = NoValue /\ gaveUp' = FALSE
    BY DEF AdminSaves
  <2>2. lost' = IF company.id \in {NoValue, admin.id} THEN lost ELSE lost \cup {company.id}
    BY DEF AdminSaves
  <2>3. company.id # NoValue => company.id \in 1 .. created
    BY <1>2 DEF Ids
  <2>4. \A i \in 1 .. created : i # NoValue
    BY ViewerAssumption DEF ViewerAssumption, ViewerIInv, ViewerTyped, ViewerTypeOK
  <2> QED
    BY <1>2, <1>3, <2>1, <2>2, <2>3, <2>4
<1>5. ViewerTyped'
  BY <1>1, <1>2, <1>3, <1>4
  DEF ViewerIInv, ViewerTyped, ViewerTypeOK, Queues, Off, Configured
<1>6. IdInv'
  BY <1>1, <1>2, <1>3, <1>4 DEF ViewerIInv, IdInv, Ids
<1>7. OneLogin' /\ FoundInv'
  BY <1>4 DEF ViewerIInv, OneLogin, FoundInv
<1>8. KnownInv'
  BY <1>1, <1>4 DEF ViewerIInv, ViewerTyped, ViewerTypeOK, KnownInv, Remembers
<1>9. OffInv'
  BY <1>1, <1>4 DEF OffInv, Queues
<1> QED
  BY <1>5, <1>6, <1>7, <1>8, <1>9 DEF ViewerIInv

(* What touches neither the tasks nor the row.                                 *)
LEMMA BackgroundSound ==
  ASSUME ViewerIInv, AdminLoads \/ SyncAll \/ GrafanaRestarts \/ UNCHANGED viewerVars
  PROVE  ViewerIInv'
<1>1. /\ UNCHANGED <<company, created, sync, lost, crossed, gaveUp>>
      /\ admin' \in {admin, company} /\ queued' \in BOOLEAN /\ (queued => queued')
      /\ grafana' = grafana \/ DOMAIN grafana' = {}
  BY DEF AdminLoads, SyncAll, GrafanaRestarts, viewerVars, ViewerIInv, ViewerTyped, ViewerTypeOK
<1>2. ViewerTyped'
  BY <1>1 DEF ViewerIInv, ViewerTyped, ViewerTypeOK, Configured
<1>3. IdInv'
  BY <1>1 DEF ViewerIInv, IdInv, Ids
<1>4. OneLogin' /\ FoundInv'
  BY <1>1 DEF ViewerIInv, OneLogin, FoundInv
<1>5. KnownInv'
  <2>1. CASE grafana' = grafana
    BY <1>1, <2>1 DEF ViewerIInv, KnownInv, Remembers
  <2>2. CASE DOMAIN grafana' = {}
    BY <2>2 DEF KnownInv
  <2> QED
    BY <1>1, <2>1, <2>2
<1>6. OffInv'
  BY <1>1 DEF ViewerIInv, OffInv, Off
<1> QED
  BY <1>2, <1>3, <1>4, <1>5, <1>6 DEF ViewerIInv

LEMMA ViewerStarts == ViewerInit => ViewerIInv
<1> SUFFICES ASSUME ViewerInit
             PROVE  ViewerIInv
  OBVIOUS
<1>1. /\ created = 0 /\ DOMAIN grafana = {} /\ lost = {} /\ admin = NoValue
      /\ queued = TRUE /\ crossed = FALSE /\ gaveUp = FALSE /\ sync = [w \in Workers |-> Idle]
      /\ \A w \in Workers : sync[w].pc = "idle"
  BY DEF ViewerInit, Idle
<1>2. company \in Companies /\ company.id = NoValue /\ ~Off(company)
  <2>1. PICK l \in Logins, p \in Passwords :
          company = [enabled |-> TRUE, active |-> TRUE, login |-> l, password |-> p,
                     id |-> NoValue, synced |-> NoValue]
    BY DEF ViewerInit
  <2>2. company.id = NoValue /\ ~Off(company)
    BY <2>1 DEF Off
  <2>3. company \in Companies
    BY <2>1 DEF Companies
  <2> QED
    BY <2>2, <2>3
<1>3. ViewerTypeOK
  <2>1. created \in 0 .. MaxAccounts
    BY <1>1, ViewerAssumption DEF ViewerAssumption
  <2> QED
    BY <1>1, <1>2, <2>1 DEF ViewerTypeOK
<1>4. ViewerTyped /\ IdInv
  BY <1>1, <1>2, <1>3 DEF ViewerTyped, IdInv, Ids
<1>5. OneLogin /\ FoundInv /\ KnownInv /\ OffInv
  BY <1>1, <1>2 DEF OneLogin, FoundInv, KnownInv, OffInv
<1> QED
  BY <1>4, <1>5 DEF ViewerIInv

LEMMA ViewerStep == ViewerIInv /\ [ViewerNext]_viewerVars => ViewerIInv'
BY AdminSavesSound, BackgroundSound, TakeSound, RemovalOfAccountSound, ClearRowSound,
   LookupSound, CreateSound, UpdatePasswordSound, StoreIdSound, FailSound
DEF ViewerNext, WorkerStep

LEMMA ViewerHolds == ViewerSpec => []ViewerIInv
BY ViewerStarts, ViewerStep, PTL DEF ViewerSpec

(* Once analytics is off and nothing is in flight, Grafana holds no viewer but *)
(* the lost ones (api_serializers.py:132), for any workers, logins, passwords  *)
(* and faults: every account is the row's, or lost, or a task will store it.   *)
THEOREM NoViewerWhenOff == ViewerSpec => []DisabledHasNoViewer
<1>1. ViewerIInv => DisabledHasNoViewer
  <2> SUFFICES ASSUME ViewerIInv, ~InFlight, Off(company), ~crossed, ~gaveUp,
                      NEW i \in DOMAIN grafana
               PROVE  i \in lost
    BY DEF DisabledHasNoViewer
  <2>1. ~queued /\ \A w \in Workers : sync[w].pc = "idle"
    BY DEF InFlight
  <2>2. company.id = NoValue
    BY <2>1 DEF ViewerIInv, OffInv
  <2>3. i # NoValue
    BY ViewerAssumption DEF ViewerAssumption, ViewerIInv, ViewerTyped, ViewerTypeOK
  <2>4. \A w \in Workers : ~Remembers(sync[w], i)
    BY <2>1 DEF Remembers
  <2> QED
    BY <2>2, <2>3, <2>4 DEF ViewerIInv, KnownInv
<1> QED
  BY <1>1, ViewerHolds, PTL

(* Every variable of the viewer's synchronisation keeps its type: no id is     *)
(* used that Grafana did not give out, no account has no login.                *)
THEOREM ViewersTyped == ViewerSpec => []ViewerTypeOK
<1>1. ViewerIInv => ViewerTypeOK
  BY DEF ViewerIInv, ViewerTyped
<1> QED
  BY <1>1, ViewerHolds, PTL

----------------------------------------------------------------------------
(* Inbox: what a transaction may leave of a row, and what a request marks.     *)

(* The recipients of an announcement are people, and none of them a superuser. *)
LEMMA ReachedPeople ==
  \A a \in Announcements : Reached(a) \subseteq People \ Superusers
BY InboxAssumption DEF InboxAssumption, Reached, Superusers

(* What queueing, resolving and announcing leave of a row.                     *)
Leaves(k, row) ==
  /\ row \in Row /\ row.version > 0
  /\ row.to = {} => CategoryOf[k] = "unknown_team"
  /\ row.open => row.to \cap row.read = {}
  /\ CategoryOf[k] = "custom" => notice[k].version = 0 /\ row.read = {}

LEMMA Transactions ==
  ASSUME AttentionIInv, NEW k \in Notices,
         Queue(k) \/ Resolve(k) \/ Close(k) \/ Announce(k)
  PROVE  \E row : \E type \in {"updated", "resolved"} : Leaves(k, row) /\ Commit(k, row, type)
<1> USE DEF Row, Leaves
<1>1. /\ notice[k] \in Row
      /\ CategoryOf[k] \in {"report", "missing_preset", "unknown_team", "custom"}
      /\ notice[k].version = 0 => ~notice[k].open /\ notice[k].to = {}
      /\ notice[k].version > 0 /\ notice[k].to = {} => CategoryOf[k] = "unknown_team"
  BY InboxAssumption
  DEF AttentionIInv, InboxTyped, VersionInv, InboxAssumption
<1>2. CASE Queue(k)
  <2>1. PICK to \in RecipientsOf[k] : Commit(k, Requeued(k, to), "updated")
    BY <1>2 DEF Queue
  <2>2. to \in SUBSET People /\ (to = {} => CategoryOf[k] = "unknown_team")
    BY <1>1, <1>2, <2>1, InboxAssumption DEF InboxAssumption, Queue
  <2>3. PICK row : row = Requeued(k, to)
    OBVIOUS
  <2>4. /\ row \in Row /\ row.version > 0 /\ row.to = to
        /\ row.to \cap row.read = {}
    BY <1>1, <2>2, <2>3 DEF Requeued
  <2> QED
    BY <1>2, <2>1, <2>2, <2>3, <2>4 DEF Queue
<1>3. CASE Resolve(k)
  <2>1. PICK row : row = [notice[k] EXCEPT !.open = FALSE]
    OBVIOUS
  <2>2. /\ Commit(k, row, "resolved") /\ notice[k].open /\ CategoryOf[k] # "custom"
    BY <1>3, <2>1 DEF Resolve
  <2>3. /\ row \in Row
        /\ row.version = notice[k].version /\ row.to = notice[k].to /\ ~row.open
    BY <1>1, <2>1
  <2> QED
    BY <1>1, <2>2, <2>3
<1>4. CASE Close(k)
  <2>1. PICK u \in notice[k].to :
          /\ CategoryOf[k] = "report"
          /\ Commit(k, [notice[k] EXCEPT !.open = FALSE, !.read = @ \cup {u}], "resolved")
    BY <1>4 DEF Close
  <2>2. PICK r : r = notice[k].read \cup {u}
    OBVIOUS
  <2>3. PICK row : row = [notice[k] EXCEPT !.open = FALSE, !.read = r]
    OBVIOUS
  <2>4. Commit(k, row, "resolved")
    BY <2>1, <2>2, <2>3
  <2>5. r \in SUBSET People
    BY <1>1, <2>1, <2>2
  <2>6. /\ row \in Row
        /\ row.version = notice[k].version /\ row.to = notice[k].to /\ ~row.open
    BY <1>1, <2>3, <2>5
  <2> QED
    BY <1>1, <2>1, <2>4, <2>6
<1>5. CASE Announce(k)
  <2>1. PICK a \in Announcements :
          /\ Acceptable(a)
          /\ Commit(k, [version |-> 1, open |-> TRUE, to |-> Reached(a), read |-> {}], "updated")
    BY <1>5 DEF Announce
  <2>2. Reached(a) \in SUBSET People /\ Reached(a) # {}
    BY <2>1, ReachedPeople DEF Acceptable
  <2>3. PICK row : row = [version |-> 1, open |-> TRUE, to |-> Reached(a), read |-> {}]
    OBVIOUS
  <2>4. row \in Row /\ row.version > 0 /\ row.read = {} /\ row.to # {}
    BY <2>2, <2>3
  <2>5. CategoryOf[k] = "custom" /\ notice[k].version = 0
    BY <1>5 DEF Announce
  <2> QED
    BY <2>1, <2>3, <2>4, <2>5
<1> QED
  BY <1>2, <1>3, <1>4, <1>5

(* Such a transaction keeps what is known of marks: the row it leaves open has *)
(* no reader among its recipients, and an announcement is made only once.      *)
LEMMA CommitKeepsAttention ==
  ASSUME AttentionIInv, NEW k \in Notices, NEW row, NEW type, Commit(k, row, type),
         Leaves(k, row)
  PROVE  AttentionIInv'
<1>1. /\ notice' = [notice EXCEPT ![k] = row]
      /\ UNCHANGED <<marking, marked, slipped>>
  BY DEF Commit, reading
<1>2. /\ notice'[k] = row /\ DOMAIN notice' = Notices
      /\ \A j \in Notices \ {k} : notice'[j] = notice[j]
  BY <1>1 DEF AttentionIInv, InboxTyped, Row
<1>3. InboxTyped'
  BY <1>1 DEF AttentionIInv, InboxTyped, Row, Leaves
<1>4. \A j \in Notices :
        /\ notice'[j].version = 0 => ~notice'[j].open /\ notice'[j].to = {}
        /\ notice'[j].version > 0 /\ notice'[j].to = {} => CategoryOf[j] = "unknown_team"
  BY <1>2 DEF AttentionIInv, VersionInv, Leaves, Row
<1>5. \A u \in People : \A j \in DOMAIN marking[u] : CategoryOf[j] = "custom" => j # k
  BY DEF AttentionIInv, InboxTyped, VersionInv, Leaves
<1>6. VersionInv'
  <2>1. ASSUME NEW u \in People, NEW j \in DOMAIN marking'[u], CategoryOf[j] = "custom"
        PROVE  u \in notice'[j].to /\ notice'[j].version > 0
    <3>1. j \in DOMAIN marking[u] /\ j \in Notices \ {k}
      BY <1>1, <1>5, <2>1 DEF AttentionIInv, InboxTyped, Row
    <3>2. u \in notice[j].to /\ notice[j].version > 0
      BY <2>1, <3>1 DEF AttentionIInv, VersionInv
    <3> QED
      BY <1>2, <3>1, <3>2
  <2> QED
    BY <1>4, <2>1 DEF VersionInv
<1>7. AttentionKept'
  BY <1>1, <1>2 DEF AttentionIInv, AttentionKept, Leaves
<1> QED
  BY <1>3, <1>6, <1>7 DEF AttentionIInv

(* A mark is meant for the version that was found, or noted as slipped.        *)
LEMMA MarksKeepAttention ==
  ASSUME AttentionIInv, (\E k \in Notices : Act(k)) \/ (\E u \in People : Mark(u))
  PROVE  AttentionIInv'
<1>1. PICK k \in Notices, u \in People :
        /\ notice' = [notice EXCEPT ![k].read = @ \cup {u}]
        /\ \E n \in Nat :
             /\ marked' = [marked EXCEPT ![u][k] = n]
             /\ n = notice[k].version \/ <<u, k, notice[k].version>> \in slipped'
        /\ slipped \subseteq slipped'
        /\ CategoryOf[k] = "custom" => u \in notice[k].to
        /\ \/ UNCHANGED marking
           \/ marking' = [marking EXCEPT ![u] = [j \in DOMAIN marking[u] \ {k} |-> marking[u][j]]]
  <2>1. ASSUME NEW k \in Notices, Act(k)
        PROVE  \E u \in People :
                 /\ notice' = [notice EXCEPT ![k].read = @ \cup {u}]
                 /\ marked' = [marked EXCEPT ![u][k] = notice[k].version]
                 /\ notice[k].version \in Nat
                 /\ UNCHANGED <<slipped, marking>> /\ CategoryOf[k] # "custom"
    <3>1. notice[k].to \subseteq People /\ notice[k].version \in Nat
      BY DEF AttentionIInv, InboxTyped, Row
    <3> QED
      BY <2>1, <3>1 DEF Act
  <2>2. ASSUME NEW u \in People, Mark(u)
        PROVE  \E k \in Notices :
                 /\ notice' = [notice EXCEPT ![k].read = @ \cup {u}]
                 /\ marked' = [marked EXCEPT ![u][k] = marking[u][k]]
                 /\ marking[u][k] \in Nat
                 /\ marking[u][k] = notice[k].version \/ <<u, k, notice[k].version>> \in slipped'
                 /\ slipped \subseteq slipped'
                 /\ CategoryOf[k] = "custom" => u \in notice[k].to
                 /\ marking' = [marking EXCEPT ![u] = [j \in DOMAIN marking[u] \ {k} |-> marking[u][j]]]
    <3>1. PICK k \in DOMAIN marking[u] :
            /\ notice' = [notice EXCEPT ![k].read = @ \cup {u}]
            /\ marked' = [marked EXCEPT ![u][k] = marking[u][k]]
            /\ slipped' = IF marking[u][k] = notice[k].version THEN slipped
                          ELSE slipped \cup {<<u, k, notice[k].version>>}
            /\ marking' = [marking EXCEPT ![u] = [j \in DOMAIN marking[u] \ {k} |-> marking[u][j]]]
      BY <2>2 DEF Mark
    <3>2. k \in Notices /\ marking[u][k] \in Nat
      BY DEF AttentionIInv, InboxTyped, Row
    <3>3. CategoryOf[k] = "custom" => u \in notice[k].to
      BY DEF AttentionIInv, VersionInv
    <3> QED
      BY <3>1, <3>2, <3>3
  <2>3. CASE \E k \in Notices : Act(k)
    <3>1. PICK k \in Notices : Act(k)
      BY <2>3
    <3> QED
      BY <2>1, <3>1
  <2>4. CASE \E u \in People : Mark(u)
    <3>1. PICK u \in People : Mark(u)
      BY <2>4
    <3>2. PICK k \in Notices :
            /\ notice' = [notice EXCEPT ![k].read = @ \cup {u}]
            /\ marked' = [marked EXCEPT ![u][k] = marking[u][k]]
            /\ marking[u][k] \in Nat
            /\ marking[u][k] = notice[k].version \/ <<u, k, notice[k].version>> \in slipped'
            /\ slipped \subseteq slipped'
            /\ CategoryOf[k] = "custom" => u \in notice[k].to
            /\ marking' = [marking EXCEPT ![u] = [j \in DOMAIN marking[u] \ {k} |-> marking[u][j]]]
      BY <2>2, <3>1
    <3> QED
      BY <3>2
  <2> QED
    BY <2>3, <2>4
<1>2. PICK n \in Nat :
        /\ marked' = [marked EXCEPT ![u][k] = n]
        /\ n = notice[k].version \/ <<u, k, notice[k].version>> \in slipped'
  BY <1>1
<1>3. /\ DOMAIN notice' = Notices
      /\ \A j \in Notices :
           /\ notice'[j].version = notice[j].version
           /\ notice'[j].open = notice[j].open
           /\ notice'[j].to = notice[j].to
           /\ notice'[j].read = IF j = k THEN notice[j].read \cup {u} ELSE notice[j].read
  <2>1. DOMAIN notice = Notices /\ \A j \in Notices :
          notice[j] \in Row
    BY DEF AttentionIInv, InboxTyped, Row
  <2>2. PICK r : r = notice[k].read \cup {u}
    OBVIOUS
  <2>3. PICK row : row = [notice[k] EXCEPT !.read = r]
    OBVIOUS
  <2>4. notice' = [notice EXCEPT ![k] = row]
    BY <1>1, <2>2, <2>3
  <2>5. /\ row.version = notice[k].version /\ row.open = notice[k].open
        /\ row.to = notice[k].to /\ row.read = r
    BY <2>1, <2>3
  <2> QED
    BY <2>1, <2>2, <2>4, <2>5
<1>4. \A v \in People, j \in Notices :
        marked'[v][j] = IF v = u /\ j = k THEN n ELSE marked[v][j]
  <2>1. DOMAIN marked = People /\ \A v \in People : DOMAIN marked[v] = Notices
    BY DEF AttentionIInv, InboxTyped, Row
  <2>2. PICK m : m = [marked[u] EXCEPT ![k] = n]
    OBVIOUS
  <2>3. marked' = [marked EXCEPT ![u] = m]
    BY <1>2, <2>2
  <2> QED
    BY <2>1, <2>2, <2>3
<1>5. /\ DOMAIN marking' = People
      /\ \A v \in People : /\ DOMAIN marking'[v] \subseteq DOMAIN marking[v]
                          /\ \A j \in DOMAIN marking'[v] : marking'[v][j] = marking[v][j]
  <2>1. PICK f : f = [j \in DOMAIN marking[u] \ {k} |-> marking[u][j]]
    OBVIOUS
  <2>2. /\ DOMAIN f \subseteq DOMAIN marking[u]
        /\ \A j \in DOMAIN f : f[j] = marking[u][j]
    BY <2>1
  <2>3. UNCHANGED marking \/ marking' = [marking EXCEPT ![u] = f]
    BY <1>1, <2>1
  <2>4. DOMAIN marking = People
    BY DEF AttentionIInv, InboxTyped, Row
  <2>5. CASE UNCHANGED marking
    BY <2>4, <2>5
  <2>6. CASE marking' = [marking EXCEPT ![u] = f]
    BY <2>2, <2>4, <2>6
  <2> QED
    BY <2>3, <2>5, <2>6
<1>6. InboxTyped'
  <2>1. notice' \in [Notices -> Row]
    BY <1>1 DEF AttentionIInv, InboxTyped, Row
  <2>2. marked' \in [People -> [Notices -> Nat]]
    BY <1>2 DEF AttentionIInv, InboxTyped, Row
  <2>3. \A v \in People : /\ DOMAIN marking'[v] \subseteq Notices
                         /\ \A j \in DOMAIN marking'[v] : marking'[v][j] \in Nat
    BY <1>5 DEF AttentionIInv, InboxTyped, Row
  <2> QED
    BY <1>5, <2>1, <2>2, <2>3 DEF InboxTyped
<1>7. VersionInv'
  <2>1. \A v \in People : \A j \in DOMAIN marking'[v] : j \in DOMAIN marking[v] /\ j \in Notices
    BY <1>5 DEF AttentionIInv, InboxTyped, Row
  <2>2. \A v \in People : \A j \in DOMAIN marking'[v] : CategoryOf[j] = "custom" =>
          v \in notice[j].to /\ notice[j].version > 0
    BY <2>1 DEF AttentionIInv, VersionInv
  <2> QED
    BY <1>3, <2>1, <2>2 DEF AttentionIInv, VersionInv
<1>8. AttentionKept'
  <2>1. ASSUME NEW j \in Notices, notice'[j].open, NEW v \in notice'[j].to \cap notice'[j].read
        PROVE  marked'[v][j] = notice'[j].version \/ <<v, j, notice'[j].version>> \in slipped'
    <3>1. v \in People /\ v \in notice[j].to /\ notice[j].open
      BY <1>3, <2>1 DEF AttentionIInv, InboxTyped, Row
    <3>2. CASE v = u /\ j = k
      <4>1. marked'[u][k] = n /\ notice'[k].version = notice[k].version
        BY <1>3, <1>4
      <4> QED
        BY <1>2, <3>2, <4>1
    <3>3. CASE ~(v = u /\ j = k)
      <4>1. v \in notice[j].to \cap notice[j].read
        BY <1>3, <2>1, <3>1, <3>3
      <4> QED
        BY <1>1, <1>3, <1>4, <3>1, <3>3, <4>1 DEF AttentionIInv, AttentionKept
    <3> QED
      BY <3>2, <3>3
  <2>2. ASSUME NEW j \in Notices, CategoryOf[j] = "custom"
        PROVE  notice'[j].read \subseteq notice'[j].to
    BY <1>1, <1>3, <2>2 DEF AttentionIInv, AttentionKept
  <2> QED
    BY <2>1, <2>2 DEF AttentionKept
<1> QED
  BY <1>6, <1>7, <1>8 DEF AttentionIInv

(* A request finds rows that are shown to its user, in the version they have.  *)
LEMMA FindKeepsAttention ==
  ASSUME AttentionIInv, NEW u \in People, FindRows(u)
  PROVE  AttentionIInv'
<1>1. PICK found \in {{k} : k \in Notices} \cup {Notices} :
        marking' = [marking EXCEPT ![u] = [k \in {j \in found : Shows(u, j)} |-> notice[k].version]]
  BY DEF FindRows
<1>2. UNCHANGED <<notice, marked, slipped>>
  BY DEF FindRows
<1>3. PICK rows : rows = {j \in found : Shows(u, j)}
  OBVIOUS
<1>4. rows \subseteq Notices /\ \A k \in rows : Shows(u, k)
  BY <1>3
<1>5. /\ DOMAIN marking' = People /\ marking'[u] = [k \in rows |-> notice[k].version]
      /\ \A v \in People \ {u} : marking'[v] = marking[v]
  BY <1>1, <1>3 DEF AttentionIInv, InboxTyped, Row
<1>6. InboxTyped'
  <2>1. /\ DOMAIN marking'[u] \subseteq Notices
        /\ \A k \in DOMAIN marking'[u] : marking'[u][k] \in Nat
    BY <1>4, <1>5 DEF AttentionIInv, InboxTyped, Row
  <2> QED
    BY <1>2, <1>5, <2>1 DEF AttentionIInv, InboxTyped, Row
<1>7. \A k \in rows : CategoryOf[k] = "custom" => u \in notice[k].to /\ notice[k].version > 0
  BY <1>4 DEF Shows
<1>8. \A v \in People : \A k \in DOMAIN marking'[v] : CategoryOf[k] = "custom" =>
        v \in notice[k].to /\ notice[k].version > 0
  BY <1>5, <1>7 DEF AttentionIInv, VersionInv
<1> QED
  BY <1>2, <1>6, <1>8 DEF AttentionIInv, VersionInv, AttentionKept

LEMMA AttentionStep == AttentionIInv /\ [InboxNext]_inboxVars => AttentionIInv'
<1> SUFFICES ASSUME AttentionIInv, [InboxNext]_inboxVars
             PROVE  AttentionIInv'
  OBVIOUS
<1>1. CASE UNCHANGED <<notice, marked, marking, slipped>>
  BY <1>1 DEF AttentionIInv, InboxTyped, Row, VersionInv, AttentionKept
<1>2. ASSUME NEW u \in People, Hear(u) \/ Reconnect(u) \/ List(u) \/ Load(u)
      PROVE  UNCHANGED <<notice, marked, marking, slipped>>
  BY <1>2 DEF Hear, Reconnect, List, Load, reading
<1>3. Broadcast \/ Lose \/ UNCHANGED inboxVars => UNCHANGED <<notice, marked, marking, slipped>>
  BY DEF Broadcast, Lose, reading, inboxVars
<1> QED
  BY <1>1, <1>2, <1>3, Transactions, CommitKeepsAttention, MarksKeepAttention, FindKeepsAttention DEF InboxNext

(* A notification that is queued again asks for attention again                *)
(* (services.py:125-126, :246, :355-356), for any people, rows, announcements  *)
(* and recipients, one time these and another time those: to be queued again   *)
(* takes the recipients out of the readers and gives the row a version no      *)
(* request has found.                                                          *)
THEOREM AttentionStays == InboxSpec => []AttentionKept
<1>1. InboxInit => AttentionIInv
  BY DEF InboxInit, AttentionIInv, InboxTyped, Row, VersionInv, AttentionKept, NoNotice, NothingFound
<1>2. AttentionIInv => AttentionKept
  BY DEF AttentionIInv
<1> QED
  BY <1>1, <1>2, AttentionStep, PTL DEF InboxSpec

----------------------------------------------------------------------------
(* Inbox: the bell.  One lemma for each way news reaches a portal.             *)

LEMMA AboutAppend ==
  ASSUME NEW S, NEW s \in Seq(S), NEW m \in S, NEW k
  PROVE  About(Append(s, m), k) <=> About(s, k) \/ m.about = k
<1>1. /\ DOMAIN s = 1 .. Len(s) /\ DOMAIN Append(s, m) = 1 .. Len(s) + 1 /\ Len(s) \in Nat
      /\ Append(s, m)[Len(s) + 1] = m
      /\ \A i \in 1 .. Len(s) : Append(s, m)[i] = s[i]
  OBVIOUS
<1> QED
  BY <1>1 DEF About

LEMMA LatestAppend ==
  ASSUME NEW S, NEW s \in Seq(S), NEW m \in S, NEW k,
         NEW i \in DOMAIN Append(s, m), Latest(Append(s, m), k, i)
  PROVE  IF m.about = k THEN Append(s, m)[i] = m
         ELSE Latest(s, k, i) /\ Append(s, m)[i] = s[i]
<1>1. /\ DOMAIN s = 1 .. Len(s) /\ DOMAIN Append(s, m) = 1 .. Len(s) + 1 /\ Len(s) \in Nat
      /\ Append(s, m)[Len(s) + 1] = m
      /\ \A j \in 1 .. Len(s) : Append(s, m)[j] = s[j]
  OBVIOUS
<1>2. PICK t : t = Append(s, m)
  OBVIOUS
<1> QED
  BY <1>1, <1>2 DEF Latest

LEMMA AboutTail ==
  ASSUME NEW S, NEW s \in Seq(S), s # <<>>, NEW k
  PROVE  /\ Head(s) \in S /\ 1 \in DOMAIN s /\ Head(s) = s[1]
         /\ About(s, k) <=> About(Tail(s), k) \/ Head(s).about = k
         /\ ~About(Tail(s), k) /\ Head(s).about = k => Latest(s, k, 1)
         /\ \A i \in DOMAIN Tail(s) :
              /\ i + 1 \in DOMAIN s /\ Tail(s)[i] = s[i + 1]
              /\ Latest(Tail(s), k, i) => Latest(s, k, i + 1)
<1>1. /\ Len(s) \in Nat /\ Len(s) > 0 /\ DOMAIN s = 1 .. Len(s)
      /\ Head(s) = s[1] /\ DOMAIN Tail(s) = 1 .. Len(s) - 1
      /\ \A i \in 1 .. Len(s) - 1 : Tail(s)[i] = s[i + 1]
      /\ \A i \in 1 .. Len(s) : s[i] \in S
  OBVIOUS
<1>2. PICK t : t = Tail(s)
  OBVIOUS
<1>3. DOMAIN t = 1 .. Len(s) - 1 /\ \A i \in 1 .. Len(s) - 1 : t[i] = s[i + 1]
  BY <1>1, <1>2
<1>4. \A j \in 1 .. Len(s) : j = 1 \/ (j - 1 \in 1 .. Len(s) - 1 /\ s[j] = t[j - 1])
  BY <1>1, <1>3
<1>5. About(s, k) <=> About(t, k) \/ Head(s).about = k
  <2>1. ASSUME About(s, k) PROVE About(t, k) \/ Head(s).about = k
    BY <1>1, <1>3, <1>4, <2>1 DEF About
  <2>2. ASSUME About(t, k) PROVE About(s, k)
    BY <1>1, <1>3, <2>2 DEF About
  <2>3. ASSUME Head(s).about = k PROVE About(s, k)
    BY <1>1, <2>3 DEF About
  <2> QED
    BY <2>1, <2>2, <2>3
<1>6. ~About(t, k) /\ Head(s).about = k => Latest(s, k, 1)
  BY <1>1, <1>3, <1>4 DEF About, Latest
<1>7. ASSUME NEW i \in DOMAIN t, Latest(t, k, i)
      PROVE  Latest(s, k, i + 1)
  BY <1>1, <1>3, <1>4, <1>7 DEF Latest
<1> QED
  BY <1>1, <1>2, <1>3, <1>5, <1>6, <1>7

LEMMA ChannelTyped ==
  ASSUME PortalTyped, NEW u \in People
  PROVE  /\ channel[u] \in Seq(Message)
         /\ \A i \in DOMAIN channel[u] : channel[u][i] \in Message /\ channel[u][i].about \in Notices
<1>1. channel[u] \in Seq(Message)
  BY DEF PortalTyped
<1>2. PICK S : S = Message
  OBVIOUS
<1>3. \A i \in DOMAIN channel[u] : channel[u][i] \in S
  BY <1>1, <1>2
<1>4. \A x \in S : x.about \in Notices
  BY <1>2 DEF Message
<1> QED
  BY <1>1, <1>2, <1>3, <1>4

LEMMA UnderwayIs ==
  \A u \in People, k \in Notices :
    Underway(u, k) <=> About(channel[u], k) \/ (u \in Addressed(k) /\ Pending(k))
BY DEF Underway, Coming, Pending, About

(* Those a row is addressed to, or nobody who is not an administrator.         *)
LEMMA StrangersUnaddressed ==
  \A u \in People, k \in Notices :
    Follows(u, k) /\ u \notin Addressed(k) => u \notin Superusers /\ u \notin notice[k].to
BY DEF Follows, Addressed

(* A transaction leaves a message to be sent; whoever its row is taken from    *)
(* does not have it, or is noted as astray.                                    *)
LEMMA CommitKeepsBells ==
  ASSUME InboxIInv, NEW k \in Notices, NEW row, NEW type \in {"updated", "resolved"},
         Leaves(k, row), Commit(k, row, type)
  PROVE  BellIInv'
<1>1. /\ UNCHANGED <<channel, bell, reloads>>
      /\ astray' = astray \cup {<<u, k>> : u \in {v \in notice[k].to \ row.to : Has(v, k)}}
      /\ \E m : m.about = k /\ m.type = type /\ unsent' = unsent \cup {m}
  BY DEF Commit, portals
<1>2. /\ notice'[k] = row /\ \A j \in Notices \ {k} : notice'[j] = notice[j]
  BY DEF Commit, InboxIInv, AttentionIInv, InboxTyped
<1>3. Pending(k)' /\ \A j : Pending(j) => Pending(j)'
  BY <1>1 DEF Pending
<1>4. PortalTyped'
  BY <1>1 DEF InboxIInv, BellIInv, PortalTyped
<1>5. \A u \in People : \A j \in Notices \ {k} : Follows(u, j)' <=> Follows(u, j)
  BY <1>1, <1>2 DEF Follows
<1>6. StrangerInv'
  <2> SUFFICES ASSUME NEW u \in People \ Superusers, NEW j \in Notices,
                      u \notin notice'[j].to, <<u, j>> \notin astray'
               PROVE  bell[u][j] = "none" /\ ~About(channel[u], j)
    BY <1>1 DEF StrangerInv
  <2>1. <<u, j>> \notin astray
    BY <1>1
  <2>2. CASE u \notin notice[j].to
    BY <2>1, <2>2 DEF InboxIInv, BellIInv, StrangerInv
  <2>3. CASE u \in notice[j].to
    <3>1. j = k /\ u \in notice[k].to \ row.to
      BY <1>2, <2>3
    <3>2. ~Has(u, k)
      BY <1>1, <3>1
    <3> QED
      BY <3>1, <3>2 DEF Has, Coming, About
  <2> QED
    BY <2>2, <2>3
<1>7. LastWord'
  <2> SUFFICES ASSUME NEW u \in People, NEW j \in Notices, NEW i \in DOMAIN channel'[u],
                      ~Pending(j)', Follows(u, j)', Latest(channel[u], j, i)
               PROVE  channel'[u][i].type = "updated" <=> notice'[j].open
    BY <1>1 DEF LastWord
  <2>1. j # k /\ ~Pending(j) /\ Follows(u, j) /\ notice'[j] = notice[j]
    BY <1>2, <1>3, <1>5
  <2> QED
    BY <1>1, <2>1 DEF InboxIInv, BellIInv, LastWord
<1>8. RowRight'
  <2> SUFFICES ASSUME NEW u \in People, NEW j \in Notices,
                      ~Pending(j)', ~About(channel[u], j), Follows(u, j)',
                      ~reloads[u].asked, reloads[u].answers = {}
               PROVE  bell[u][j] # "none" <=> Shows(u, j)'
    BY <1>1 DEF RowRight
  <2>1. j # k /\ ~Pending(j) /\ Follows(u, j) /\ notice'[j] = notice[j]
    BY <1>2, <1>3, <1>5
  <2>2. Shows(u, j)' <=> Shows(u, j)
    BY <2>1 DEF Shows
  <2> QED
    BY <2>1, <2>2 DEF InboxIInv, BellIInv, RowRight
<1> QED
  BY <1>4, <1>6, <1>7, <1>8 DEF BellIInv

(* Marking and finding rows tells portals nothing: a bell's unread row turns   *)
(* read.                                                                       *)
LEMMA ReadingKeepsBells ==
  ASSUME InboxIInv, DOMAIN notice' = Notices,
         \A k \in Notices : /\ notice'[k].version = notice[k].version
                            /\ notice'[k].open = notice[k].open
                            /\ notice'[k].to = notice[k].to,
         UNCHANGED <<unsent, channel, reloads, astray>>,
         bell' \in [People -> [Notices -> {"none", "unread", "read"}]],
         \A u \in People, k \in Notices : bell'[u][k] = "none" <=> bell[u][k] = "none"
  PROVE  BellIInv'
<1>1. PortalTyped'
  BY DEF InboxIInv, BellIInv, PortalTyped
<1>2. \A k \in Notices : Pending(k)' = Pending(k)
  BY DEF Pending
<1>3. \A u \in People, k \in Notices :
        /\ Follows(u, k)' <=> Follows(u, k)
        /\ Shows(u, k)' <=> Shows(u, k)
  BY DEF Follows, Shows
<1>4. StrangerInv'
  BY DEF InboxIInv, BellIInv, StrangerInv
<1>5. LastWord'
  BY <1>2, <1>3 DEF InboxIInv, BellIInv, LastWord
<1>6. RowRight'
  BY <1>2, <1>3 DEF InboxIInv, BellIInv, RowRight
<1> QED
  BY <1>1, <1>4, <1>5, <1>6 DEF BellIInv

(* A message is sent to whom the row has now, and is the last word on it       *)
(* unless the row has changed since: then it is noted as astray.               *)
LEMMA BroadcastKeepsBells ==
  ASSUME InboxIInv, Broadcast
  PROVE  BellIInv'
<1>1. PICK m \in unsent :
        /\ unsent' = unsent \ {m}
        /\ channel' = [u \in People |-> IF u \in Addressed(m.about)
                                        THEN Append(channel[u], [about |-> m.about, type |-> m.type])
                                        ELSE channel[u]]
        /\ astray' = IF (m.type = "updated") = notice[m.about].open
                     THEN astray \ (Addressed(m.about) \X {m.about})
                     ELSE astray \cup (Addressed(m.about) \X {m.about})
        /\ UNCHANGED <<notice, bell, reloads>>
  BY DEF Broadcast
<1>2. PICK k \in Notices : k = m.about /\ m.type \in {"updated", "resolved"}
  BY DEF InboxIInv, BellIInv, PortalTyped
<1>3. PICK x : x = [about |-> m.about, type |-> m.type]
  OBVIOUS
<1>4. x \in Message /\ x.about = k /\ x.type = m.type
  BY <1>2, <1>3 DEF Message
<1>5. \A u \in People : /\ channel[u] \in Seq(Message)
                        /\ channel'[u] = IF u \in Addressed(k) THEN Append(channel[u], x)
                                         ELSE channel[u]
  BY <1>1, <1>2, <1>3 DEF InboxIInv, BellIInv, PortalTyped
<1>6. \A j : Addressed(j)' = Addressed(j)
  BY <1>1 DEF Addressed
<1>7. \A j \in Notices \ {k} : Pending(j)' <=> Pending(j)
  BY <1>1, <1>2 DEF Pending
<1>8. /\ \A u \in People, j \in Notices \ {k} : Follows(u, j)' <=> Follows(u, j)
      /\ \A u \in People \ Addressed(k) : Follows(u, k)' <=> Follows(u, k)
  BY <1>1, <1>2 DEF Follows
<1>9. \A u \in Addressed(k) : Follows(u, k)' => (m.type = "updated" <=> notice[k].open)
  <2>1. notice[k].open \in BOOLEAN
    BY DEF InboxIInv, AttentionIInv, InboxTyped, Row
  <2>2. CASE (m.type = "updated") = notice[k].open
    BY <2>2
  <2>3. CASE (m.type = "updated") # notice[k].open
    BY <1>1, <1>2, <2>3 DEF Follows
  <2> QED
    BY <2>2, <2>3
<1>10. PortalTyped'
  <2>1. channel' \in [People -> Seq(Message)]
    BY <1>1, <1>3, <1>4 DEF InboxIInv, BellIInv, PortalTyped
  <2> QED
    BY <1>1, <2>1 DEF InboxIInv, BellIInv, PortalTyped
<1>11. StrangerInv'
  <2> SUFFICES ASSUME NEW u \in People \ Superusers, NEW j \in Notices,
                      u \notin notice[j].to, <<u, j>> \notin astray'
               PROVE  bell[u][j] = "none" /\ ~About(channel'[u], j)
    BY <1>1 DEF StrangerInv
  <2>1. u \in Addressed(k) => j # k
    BY DEF Addressed
  <2>2. <<u, j>> \notin astray
    BY <1>1, <1>2, <2>1
  <2>3. bell[u][j] = "none" /\ ~About(channel[u], j)
    BY <2>2 DEF InboxIInv, BellIInv, StrangerInv
  <2>4. ~About(channel'[u], j)
    <3>1. CASE u \in Addressed(k)
      BY <1>4, <1>5, <2>1, <2>3, <3>1, AboutAppend
    <3>2. CASE u \notin Addressed(k)
      BY <1>5, <2>3, <3>2
    <3> QED
      BY <3>1, <3>2
  <2> QED
    BY <2>3, <2>4
<1>12. ASSUME NEW u \in People \ Addressed(k), Follows(u, k)
       PROVE  ~About(channel[u], k) /\ bell[u][k] = "none" /\ ~Shows(u, k)
  <2>1. u \notin Superusers /\ u \notin notice[k].to /\ <<u, k>> \notin astray
    BY <1>12, StrangersUnaddressed DEF Follows
  <2> QED
    BY <2>1 DEF Shows, InboxIInv, BellIInv, StrangerInv
<1>13. LastWord'
  <2> SUFFICES ASSUME NEW u \in People, NEW j \in Notices, NEW i \in DOMAIN channel'[u],
                      ~Pending(j)', Follows(u, j)', Latest(channel'[u], j, i)
               PROVE  channel'[u][i].type = "updated" <=> notice[j].open
    BY <1>1 DEF LastWord, Latest
  <2>1. CASE u \in Addressed(k)
    <3>1. IF j = k THEN channel'[u][i] = x
          ELSE Latest(channel[u], j, i) /\ channel'[u][i] = channel[u][i]
      <4>1. channel'[u] = Append(channel[u], x) /\ channel[u] \in Seq(Message)
        BY <1>5, <2>1
      <4>2. Latest(Append(channel[u], x), j, i) /\ i \in DOMAIN Append(channel[u], x)
        BY <4>1
      <4>3. IF x.about = j THEN Append(channel[u], x)[i] = x
            ELSE Latest(channel[u], j, i) /\ Append(channel[u], x)[i] = channel[u][i]
        BY <1>4, <4>1, <4>2, LatestAppend
      <4> QED
        BY <1>4, <4>1, <4>3
    <3>2. CASE j = k
      BY <1>4, <1>9, <2>1, <3>1, <3>2
    <3>3. CASE j # k
      <4>1. ~Pending(j) /\ Follows(u, j) /\ Latest(channel[u], j, i) /\ i \in DOMAIN channel[u]
        BY <1>7, <1>8, <3>1, <3>3 DEF Latest
      <4> QED
        BY <3>1, <3>3, <4>1 DEF InboxIInv, BellIInv, LastWord
    <3> QED
      BY <3>2, <3>3
  <2>2. CASE u \notin Addressed(k)
    <3>1. channel'[u] = channel[u] /\ Follows(u, j)
      BY <1>5, <1>8, <2>2
    <3>2. j # k
      BY <1>12, <2>2, <3>1 DEF Latest, About
    <3> QED
      BY <1>7, <3>1, <3>2 DEF InboxIInv, BellIInv, LastWord
  <2> QED
    BY <2>1, <2>2
<1>14. RowRight'
  <2> SUFFICES ASSUME NEW u \in People, NEW j \in Notices,
                      ~Pending(j)', ~About(channel'[u], j), Follows(u, j)',
                      ~reloads[u].asked, reloads[u].answers = {}
               PROVE  bell[u][j] # "none" <=> Shows(u, j)
    BY <1>1 DEF RowRight, About, Shows
  <2>1. ~About(channel[u], j) /\ (u \in Addressed(k) => j # k)
    <3>1. CASE u \in Addressed(k)
      BY <1>4, <1>5, <3>1, AboutAppend
    <3>2. CASE u \notin Addressed(k)
      BY <1>5, <3>2
    <3> QED
      BY <3>1, <3>2
  <2>2. CASE j = k
    BY <1>8, <1>12, <2>1, <2>2
  <2>3. CASE j # k
    BY <1>7, <1>8, <2>1, <2>3 DEF InboxIInv, BellIInv, RowRight
  <2> QED
    BY <2>2, <2>3
<1> QED
  BY <1>10, <1>11, <1>13, <1>14 DEF BellIInv

(* When a message is lost, those it was for are noted as astray; the others    *)
(* do not have the row.                                                        *)
LEMMA LoseKeepsBells ==
  ASSUME InboxIInv, Lose
  PROVE  BellIInv'
<1>1. PICK m \in unsent :
        /\ unsent' = unsent \ {m}
        /\ astray' = astray \cup (Addressed(m.about) \X {m.about})
        /\ UNCHANGED <<notice, channel, bell, reloads>>
  BY DEF Lose, portals
<1>2. PICK k \in Notices : k = m.about
  BY DEF InboxIInv, BellIInv, PortalTyped
<1>3. PortalTyped' /\ StrangerInv'
  BY <1>1 DEF InboxIInv, BellIInv, PortalTyped, StrangerInv
<1>4. /\ \A j \in Notices \ {k} : Pending(j)' <=> Pending(j)
      /\ \A u \in People, j \in Notices : Shows(u, j)' <=> Shows(u, j)
  BY <1>1, <1>2 DEF Pending, Shows
<1>5. ASSUME NEW u \in People, NEW j \in Notices, Follows(u, j)'
      PROVE  Follows(u, j) /\ (j = k => u \notin Addressed(k))
  BY <1>1, <1>2, <1>5 DEF Follows
<1>6. ASSUME NEW u \in People, Follows(u, k)'
      PROVE  ~About(channel[u], k) /\ bell[u][k] = "none" /\ ~Shows(u, k)
  <2>1. u \notin Superusers /\ u \notin notice[k].to /\ <<u, k>> \notin astray
    BY <1>5, <1>6, StrangersUnaddressed DEF Follows
  <2> QED
    BY <2>1 DEF Shows, InboxIInv, BellIInv, StrangerInv
<1>7. LastWord'
  <2> SUFFICES ASSUME NEW u \in People, NEW j \in Notices, NEW i \in DOMAIN channel[u],
                      ~Pending(j)', Follows(u, j)', Latest(channel[u], j, i)
               PROVE  channel[u][i].type = "updated" <=> notice[j].open
    BY <1>1 DEF LastWord
  <2>1. j # k
    BY <1>6 DEF Latest, About
  <2> QED
    BY <1>4, <1>5, <2>1 DEF InboxIInv, BellIInv, LastWord
<1>8. RowRight'
  <2> SUFFICES ASSUME NEW u \in People, NEW j \in Notices,
                      ~Pending(j)', ~About(channel[u], j), Follows(u, j)',
                      ~reloads[u].asked, reloads[u].answers = {}
               PROVE  bell[u][j] # "none" <=> Shows(u, j)
    BY <1>1, <1>4 DEF RowRight
  <2>1. CASE j = k
    BY <1>6, <2>1
  <2>2. CASE j # k
    BY <1>4, <1>5, <2>2 DEF InboxIInv, BellIInv, RowRight
  <2> QED
    BY <2>1, <2>2
<1> QED
  BY <1>3, <1>7, <1>8 DEF BellIInv

(* A portal shows what the last message about a row says; without a list to    *)
(* come that is an update, and the row is open.                                *)
LEMMA HearKeepsBells ==
  ASSUME InboxIInv, NEW u \in People, Hear(u)
  PROVE  BellIInv'
<1>1. PICK m : m = Head(channel[u])
  OBVIOUS
<1>2. /\ bell' = [bell EXCEPT ![u][m.about] = IF m.type = "updated" THEN "unread" ELSE "none"]
      /\ reloads' = IF m.type = "updated" THEN reloads ELSE [reloads EXCEPT ![u].asked = TRUE]
      /\ channel' = [channel EXCEPT ![u] = Tail(channel[u])]
      /\ channel[u] # <<>> /\ UNCHANGED <<notice, unsent, astray>>
  BY <1>1 DEF Hear
<1>3. /\ channel[u] \in Seq(Message) /\ channel'[u] = Tail(channel[u])
      /\ \A v \in People \ {u} : channel'[v] = channel[v]
  BY <1>2 DEF InboxIInv, BellIInv, PortalTyped
<1>4. m \in Message /\ m = channel[u][1] /\ 1 \in DOMAIN channel[u]
  BY <1>1, <1>2, <1>3, AboutTail
<1>5. \A i \in DOMAIN channel'[u], j \in Notices :
        /\ i + 1 \in DOMAIN channel[u] /\ channel'[u][i] = channel[u][i + 1]
        /\ Latest(channel'[u], j, i) => Latest(channel[u], j, i + 1)
  <2>1. \A j \in Notices : \A i \in DOMAIN Tail(channel[u]) :
          /\ i + 1 \in DOMAIN channel[u] /\ Tail(channel[u])[i] = channel[u][i + 1]
          /\ Latest(Tail(channel[u]), j, i) => Latest(channel[u], j, i + 1)
    BY <1>2, <1>3, AboutTail
  <2> QED
    BY <1>3, <2>1
<1>6. PICK k \in Notices : k = m.about
  BY <1>4 DEF Message
<1>7. About(channel[u], k)
  BY <1>4, <1>6 DEF About
<1>8. /\ bell' \in [People -> [Notices -> {"none", "unread", "read"}]]
      /\ \A v \in People, j \in Notices :
           bell'[v][j] = IF v = u /\ j = k THEN IF m.type = "updated" THEN "unread" ELSE "none"
                         ELSE bell[v][j]
  <2>1. PICK b : b = [bell[u] EXCEPT ![k] = IF m.type = "updated" THEN "unread" ELSE "none"]
    OBVIOUS
  <2>2. bell' = [bell EXCEPT ![u] = b]
    BY <1>2, <1>6, <2>1
  <2>3. bell \in [People -> [Notices -> {"none", "unread", "read"}]]
    BY DEF InboxIInv, BellIInv, PortalTyped
  <2>4. /\ b \in [Notices -> {"none", "unread", "read"}]
        /\ \A j \in Notices : b[j] = IF j = k THEN IF m.type = "updated" THEN "unread" ELSE "none"
                                     ELSE bell[u][j]
    BY <2>1, <2>3
  <2> QED
    BY <2>2, <2>3, <2>4
<1>9. /\ reloads' \in [People -> [asked : BOOLEAN, answers : SUBSET [Notices -> Row]]]
      /\ \A v \in People : /\ reloads'[v].answers = reloads[v].answers
                           /\ reloads[v].asked => reloads'[v].asked
      /\ ~reloads'[u].asked => m.type = "updated"
  <2>1. reloads \in [People -> [asked : BOOLEAN, answers : SUBSET [Notices -> Row]]]
    BY DEF InboxIInv, BellIInv, PortalTyped
  <2>2. PICK r : r = [reloads[u] EXCEPT !.asked = TRUE]
    OBVIOUS
  <2>3. PICK A : A = SUBSET [Notices -> Row]
    OBVIOUS
  <2>4. r \in [asked : BOOLEAN, answers : A] /\ r.asked /\ r.answers = reloads[u].answers
    BY <2>1, <2>2, <2>3
  <2>5. reloads' = IF m.type = "updated" THEN reloads ELSE [reloads EXCEPT ![u] = r]
    BY <1>2, <2>2
  <2> QED
    BY <2>1, <2>3, <2>4, <2>5
<1>10. PortalTyped'
  <2>1. channel' \in [People -> Seq(Message)]
    BY <1>2, <1>3 DEF InboxIInv, BellIInv, PortalTyped
  <2> QED
    BY <1>2, <1>8, <1>9, <2>1 DEF InboxIInv, BellIInv, PortalTyped
<1>11. \A j : /\ Pending(j)' <=> Pending(j)
              /\ \A v : /\ Follows(v, j)' <=> Follows(v, j)
                        /\ Shows(v, j)' <=> Shows(v, j)
  BY <1>2 DEF Pending, Follows, Shows
<1>12. StrangerInv'
  <2> SUFFICES ASSUME NEW v \in People \ Superusers, NEW j \in Notices,
                      v \notin notice[j].to, <<v, j>> \notin astray
               PROVE  bell'[v][j] = "none" /\ ~About(channel'[v], j)
    BY <1>2 DEF StrangerInv
  <2>1. bell[v][j] = "none" /\ ~About(channel[v], j)
    BY DEF InboxIInv, BellIInv, StrangerInv
  <2>2. ~(v = u /\ j = k)
    BY <1>7, <2>1
  <2>3. ~About(channel'[v], j)
    BY <1>1, <1>2, <1>3, <2>1, AboutTail
  <2> QED
    BY <1>8, <2>1, <2>2, <2>3
<1>13. LastWord'
  <2> SUFFICES ASSUME NEW v \in People, NEW j \in Notices, NEW i \in DOMAIN channel'[v],
                      ~Pending(j), Follows(v, j), Latest(channel'[v], j, i)
               PROVE  channel'[v][i].type = "updated" <=> notice[j].open
    BY <1>2, <1>11 DEF LastWord, Latest
  <2>1. CASE v = u
    <3>1. /\ i + 1 \in DOMAIN channel[u] /\ channel'[u][i] = channel[u][i + 1]
          /\ Latest(channel[u], j, i + 1)
      BY <1>5, <2>1
    <3> QED
      BY <2>1, <3>1 DEF InboxIInv, BellIInv, LastWord
  <2> QED
    BY <1>3, <2>1 DEF InboxIInv, BellIInv, LastWord
<1>14. RowRight'
  <2> SUFFICES ASSUME NEW v \in People, NEW j \in Notices,
                      ~Pending(j), ~About(channel'[v], j), Follows(v, j),
                      ~reloads'[v].asked, reloads'[v].answers = {}
               PROVE  bell'[v][j] # "none" <=> Shows(v, j)
    BY <1>11 DEF RowRight, About
  <2>1. ~reloads[v].asked /\ reloads[v].answers = {}
    <3>1. /\ reloads'[v].answers = reloads[v].answers
          /\ reloads[v].asked => reloads'[v].asked
      BY <1>9
    <3>2. reloads[v].asked \in BOOLEAN
      BY DEF InboxIInv, BellIInv, PortalTyped
    <3> QED
      BY <3>1, <3>2
  <2>2. CASE v = u /\ j = k
    <3>1. m.type = "updated" /\ Latest(channel[u], k, 1)
      <4>1. m.type = "updated" /\ ~About(Tail(channel[u]), k)
        BY <1>3, <1>9, <2>2
      <4>2. Head(channel[u]).about = k
        BY <1>1, <1>6
      <4> QED
        BY <1>2, <1>3, <4>1, <4>2, AboutTail
    <3>2. notice[k].open
      BY <1>4, <2>2, <3>1 DEF InboxIInv, BellIInv, LastWord
    <3>3. Shows(u, k)
      <4>1. notice[k].version > 0 /\ (notice[k].to = {} => CategoryOf[k] # "custom")
        BY <3>2 DEF InboxIInv, AttentionIInv, InboxTyped, Row, VersionInv
      <4>2. u \notin Superusers => u \in notice[k].to
        BY <1>7, <2>2 DEF Follows, InboxIInv, BellIInv, StrangerInv
      <4>3. u \in Superusers => notice[k].to = {}
        BY <2>2 DEF Follows
      <4> QED
        BY <3>2, <4>1, <4>2, <4>3 DEF Shows
    <3> QED
      BY <1>8, <2>2, <3>1, <3>3
  <2>3. CASE ~(v = u /\ j = k)
    <3>1. ~About(channel[v], j)
      <4>1. CASE v = u
        BY <1>1, <1>2, <1>3, <1>6, <2>3, <4>1, AboutTail
      <4> QED
        BY <1>3, <4>1
    <3> QED
      BY <1>8, <2>1, <2>3, <3>1 DEF InboxIInv, BellIInv, RowRight
  <2> QED
    BY <2>2, <2>3
<1> QED
  BY <1>10, <1>12, <1>13, <1>14 DEF BellIInv

(* A portal that is connected again, or whose list is read, has a list to come. *)
LEMMA ReloadKeepsBells ==
  ASSUME InboxIInv, NEW u \in People, Reconnect(u) \/ List(u)
  PROVE  BellIInv'
<1>1. /\ UNCHANGED <<notice, unsent, bell, astray>>
      /\ \A v \in People \ {u} : channel'[v] = channel[v] /\ reloads'[v] = reloads[v]
      /\ channel'[u] = <<>> \/ channel'[u] = channel[u]
      /\ channel' \in [People -> Seq(Message)]
  <2>1. /\ channel \in [People -> Seq(Message)] /\ DOMAIN reloads = People
        /\ <<>> \in Seq(Message)
    BY DEF InboxIInv, BellIInv, PortalTyped
  <2>2. CASE Reconnect(u)
    BY <2>1, <2>2 DEF Reconnect
  <2>3. CASE List(u)
    <3>1. /\ UNCHANGED <<notice, unsent, bell, astray, channel>>
          /\ \A v \in People \ {u} : reloads'[v] = reloads[v]
      BY <2>1, <2>3 DEF List
    <3> QED
      BY <2>1, <3>1
  <2> QED
    BY <2>2, <2>3
<1>2. /\ reloads' \in [People -> [asked : BOOLEAN, answers : SUBSET [Notices -> Row]]]
      /\ reloads'[u].asked \/ reloads'[u].answers # {}
      /\ reloads'[u].answers \subseteq reloads[u].answers \cup {notice}
  <2>1. PICK A : A = SUBSET [Notices -> Row]
    OBVIOUS
  <2>2. /\ reloads \in [People -> [asked : BOOLEAN, answers : A]]
        /\ reloads[u].answers \cup {notice} \in A
    BY <2>1 DEF InboxIInv, BellIInv, PortalTyped, AttentionIInv, InboxTyped
  <2>3. PICK a : a = reloads[u].answers \cup {notice}
    OBVIOUS
  <2>4. CASE Reconnect(u)
    <3>1. PICK r : r = [reloads[u] EXCEPT !.asked = TRUE]
      OBVIOUS
    <3>2. reloads' = [reloads EXCEPT ![u] = r]
      BY <2>4, <3>1 DEF Reconnect
    <3>3. r \in [asked : BOOLEAN, answers : A] /\ r.asked /\ r.answers = reloads[u].answers
      BY <2>2, <3>1
    <3> QED
      BY <2>1, <2>2, <3>2, <3>3
  <2>5. CASE List(u)
    <3>1. PICK r : r = [reloads[u] EXCEPT !.asked = FALSE, !.answers = a]
      OBVIOUS
    <3>2. reloads' = [reloads EXCEPT ![u] = r]
      <4>1. reloads' = [reloads EXCEPT ![u].asked = FALSE, ![u].answers = @ \cup {notice}]
        BY <2>5 DEF List
      <4> QED
        BY <2>2, <2>3, <3>1, <4>1
    <3>3. r \in [asked : BOOLEAN, answers : A] /\ r.answers = a
      BY <2>2, <2>3, <3>1
    <3>4. reloads'[u] = r
      BY <2>2, <3>2
    <3> QED
      BY <2>1, <2>2, <2>3, <3>2, <3>3, <3>4
  <2> QED
    BY <2>4, <2>5
<1>3. PortalTyped'
  BY <1>1, <1>2 DEF InboxIInv, BellIInv, PortalTyped
<1>4. \A j : /\ Pending(j)' <=> Pending(j)
             /\ \A v : /\ Follows(v, j)' <=> Follows(v, j)
                       /\ Shows(v, j)' <=> Shows(v, j)
  BY <1>1 DEF Pending, Follows, Shows
<1>5. StrangerInv'
  <2>1. \A v \in People, j \in Notices : About(channel'[v], j) => About(channel[v], j)
    BY <1>1 DEF About
  <2> QED
    BY <1>1, <2>1 DEF InboxIInv, BellIInv, StrangerInv
<1>6. LastWord'
  <2> SUFFICES ASSUME NEW v \in People, NEW j \in Notices, NEW i \in DOMAIN channel'[v],
                      ~Pending(j), Follows(v, j), Latest(channel'[v], j, i)
               PROVE  channel'[v][i].type = "updated" <=> notice[j].open
    BY <1>1, <1>4 DEF LastWord, Latest
  <2>1. channel'[v] = channel[v]
    BY <1>1
  <2> QED
    BY <2>1 DEF InboxIInv, BellIInv, LastWord
<1>7. RowRight'
  <2> SUFFICES ASSUME NEW v \in People, NEW j \in Notices,
                      ~Pending(j), ~About(channel'[v], j), Follows(v, j),
                      ~reloads'[v].asked, reloads'[v].answers = {}
               PROVE  bell[v][j] # "none" <=> Shows(v, j)
    BY <1>1, <1>4 DEF RowRight, About
  <2>1. v # u
    BY <1>2
  <2> QED
    BY <1>1, <2>1 DEF InboxIInv, BellIInv, RowRight
<1> QED
  BY <1>3, <1>5, <1>6, <1>7 DEF BellIInv

(* A list that is loaded shows a row as it is, or news of the row is on its    *)
(* way, or the row is noted as astray.                                         *)
LEMMA LoadKeepsBells ==
  ASSUME InboxIInv, NEW u \in People, Load(u)
  PROVE  BellIInv'
<1>1. PICK rows \in reloads[u].answers :
        /\ reloads' = [reloads EXCEPT ![u].answers = @ \ {rows}]
        /\ bell' = [bell EXCEPT ![u] = [k \in Notices |-> ShownIn(rows, u, k)]]
        /\ astray' = {x \in astray : x[1] = u => Underway(u, x[2])} \cup
                     {<<u, k>> : k \in {j \in Notices : Outdated(rows, j) /\ ~Underway(u, j)}}
        /\ UNCHANGED <<notice, unsent, channel>>
  BY DEF Load
<1>2. /\ rows \in [Notices -> Row]
      /\ \A k \in Notices : notice[k].open => notice[k].version > 0
  BY DEF InboxIInv, BellIInv, PortalTyped, AttentionIInv, InboxTyped, Row, VersionInv
<1>3. /\ bell' \in [People -> [Notices -> {"none", "unread", "read"}]]
      /\ \A v \in People \ {u} : bell'[v] = bell[v]
      /\ \A k \in Notices : bell'[u][k] = ShownIn(rows, u, k)
  <2>1. PICK b : b = [k \in Notices |-> ShownIn(rows, u, k)]
    OBVIOUS
  <2>2. b \in [Notices -> {"none", "unread", "read"}]
    BY <2>1 DEF ShownIn
  <2>3. bell' = [bell EXCEPT ![u] = b]
    BY <1>1, <2>1
  <2>4. \A k \in Notices : b[k] = ShownIn(rows, u, k)
    BY <2>1
  <2> QED
    BY <2>2, <2>3, <2>4 DEF InboxIInv, BellIInv, PortalTyped
<1>4. \A k \in Notices : ShownIn(rows, u, k) # "none" <=>
        rows[k].open /\ (u \in rows[k].to \/ (u \in Superusers /\ CategoryOf[k] # "custom"))
  BY DEF ShownIn
<1>5. /\ reloads' \in [People -> [asked : BOOLEAN, answers : SUBSET [Notices -> Row]]]
      /\ \A v \in People \ {u} : reloads'[v] = reloads[v]
      /\ reloads'[u].answers \subseteq reloads[u].answers
  <2>1. PICK A : A = SUBSET [Notices -> Row]
    OBVIOUS
  <2>2. PICK a : a = reloads[u].answers \ {rows}
    OBVIOUS
  <2>3. /\ reloads \in [People -> [asked : BOOLEAN, answers : A]]
        /\ a \in A
    BY <2>1, <2>2 DEF InboxIInv, BellIInv, PortalTyped
  <2>4. PICK r : r = [reloads[u] EXCEPT !.answers = a]
    OBVIOUS
  <2>5. reloads' = [reloads EXCEPT ![u] = r]
    BY <1>1, <2>2, <2>4
  <2>6. r \in [asked : BOOLEAN, answers : A] /\ r.answers = a
    BY <2>3, <2>4
  <2> QED
    BY <2>1, <2>2, <2>3, <2>5, <2>6
<1>6. PortalTyped'
  BY <1>1, <1>3, <1>5 DEF InboxIInv, BellIInv, PortalTyped
<1>7. \A j : /\ Pending(j)' <=> Pending(j)
             /\ \A v : Shows(v, j)' <=> Shows(v, j)
  BY <1>1 DEF Pending, Shows
<1>8. \A v \in People \ {u}, j \in Notices :
        /\ Follows(v, j)' <=> Follows(v, j)
        /\ <<v, j>> \notin astray' <=> <<v, j>> \notin astray
  BY <1>1 DEF Follows
<1>9. ASSUME NEW j \in Notices, <<u, j>> \notin astray'
      PROVE  IF Underway(u, j) THEN <<u, j>> \notin astray
             ELSE rows[j].open = notice[j].open /\ rows[j].to = notice[j].to
  <2>1. CASE Underway(u, j)
    BY <1>1, <1>9, <2>1
  <2>2. CASE ~Underway(u, j)
    BY <1>1, <1>9, <2>2 DEF Outdated
  <2> QED
    BY <2>1, <2>2
<1>10. StrangerInv'
  <2> SUFFICES ASSUME NEW v \in People \ Superusers, NEW j \in Notices,
                      v \notin notice[j].to, <<v, j>> \notin astray'
               PROVE  bell'[v][j] = "none" /\ ~About(channel[v], j)
    BY <1>1 DEF StrangerInv
  <2>1. CASE v = u
    <3>1. u \notin Addressed(j)
      BY <2>1 DEF Addressed
    <3>2. ~About(channel[u], j)
      <4>1. SUFFICES ASSUME About(channel[u], j) PROVE FALSE
        OBVIOUS
      <4>2. <<u, j>> \notin astray
        BY <1>9, <2>1, <4>1, UnderwayIs
      <4> QED
        BY <2>1, <4>1, <4>2 DEF InboxIInv, BellIInv, StrangerInv
    <3>3. rows[j].to = notice[j].to
      BY <1>9, <2>1, <3>1, <3>2, UnderwayIs
    <3> QED
      BY <1>3, <1>4, <2>1, <3>2, <3>3
  <2>2. CASE v # u
    <3>1. bell[v][j] = "none" /\ ~About(channel[v], j)
      BY <1>8, <2>2 DEF InboxIInv, BellIInv, StrangerInv
    <3> QED
      BY <1>3, <2>2, <3>1
  <2> QED
    BY <2>1, <2>2
<1>11. LastWord'
  <2> SUFFICES ASSUME NEW v \in People, NEW j \in Notices, NEW i \in DOMAIN channel[v],
                      ~Pending(j), Follows(v, j)', Latest(channel[v], j, i)
               PROVE  channel[v][i].type = "updated" <=> notice[j].open
    BY <1>1, <1>7 DEF LastWord
  <2>1. About(channel[v], j)
    BY DEF About, Latest
  <2>2. Follows(v, j)
    <3>1. CASE v = u
      <4>1. <<u, j>> \notin astray' /\ (u \in Superusers => notice[j].to = {})
        BY <1>1, <3>1 DEF Follows
      <4> QED
        BY <1>9, <2>1, <3>1, <4>1, UnderwayIs DEF Follows
    <3>2. CASE v # u
      BY <1>8, <3>2
    <3> QED
      BY <3>1, <3>2
  <2> QED
    BY <2>2 DEF InboxIInv, BellIInv, LastWord
<1>12. RowRight'
  <2> SUFFICES ASSUME NEW v \in People, NEW j \in Notices,
                      ~Pending(j), ~About(channel[v], j), Follows(v, j)',
                      ~reloads'[v].asked, reloads'[v].answers = {}
               PROVE  bell'[v][j] # "none" <=> Shows(v, j)
    BY <1>1, <1>7 DEF RowRight
  <2>1. CASE v = u
    <3>1. ~Underway(u, j)
      BY <2>1, UnderwayIs
    <3>2. rows[j].open = notice[j].open /\ rows[j].to = notice[j].to
      BY <1>9, <2>1, <3>1 DEF Follows
    <3>3. bell'[u][j] # "none" <=>
            rows[j].open /\ (u \in rows[j].to \/ (u \in Superusers /\ CategoryOf[j] # "custom"))
      BY <1>3, <1>4
    <3>4. u \in Superusers => notice[j].to = {}
      BY <1>1, <2>1 DEF Follows
    <3> QED
      BY <1>2, <2>1, <3>2, <3>3, <3>4 DEF Shows
  <2>2. CASE v # u
    BY <1>3, <1>5, <1>8, <2>2 DEF InboxIInv, BellIInv, RowRight
  <2> QED
    BY <2>1, <2>2
<1> QED
  BY <1>6, <1>10, <1>11, <1>12 DEF BellIInv

(* The rest: acting on a report, and the two halves of a read request.         *)
LEMMA MarksKeepBells ==
  ASSUME InboxIInv, (\E k \in Notices : Act(k)) \/ (\E u \in People : Mark(u))
  PROVE  BellIInv'
<1>1. PICK k \in Notices, u \in People : notice' = [notice EXCEPT ![k].read = @ \cup {u}]
  <2>1. /\ \A k \in Notices : notice[k].to \subseteq People
        /\ \A u \in People : DOMAIN marking[u] \subseteq Notices
    BY DEF InboxIInv, AttentionIInv, InboxTyped, Row
  <2> QED
    BY <2>1 DEF Act, Mark
<1>2. UNCHANGED <<unsent, channel, bell, reloads, astray>>
  BY DEF Act, Mark, portals
<1>3. PICK row : row = [notice[k] EXCEPT !.read = notice[k].read \cup {u}]
  OBVIOUS
<1>4. notice' = [notice EXCEPT ![k] = row]
  BY <1>1, <1>3
<1>5. \A j \in Notices : notice[j] \in Row /\ DOMAIN notice = Notices
  BY DEF InboxIInv, AttentionIInv, InboxTyped
<1>6. row.version = notice[k].version /\ row.open = notice[k].open /\ row.to = notice[k].to
  BY <1>3, <1>5 DEF Row
<1>7. /\ DOMAIN notice' = Notices
      /\ \A j \in Notices : /\ notice'[j].version = notice[j].version
                            /\ notice'[j].open = notice[j].open
                            /\ notice'[j].to = notice[j].to
  BY <1>4, <1>5, <1>6
<1>8. bell \in [People -> [Notices -> {"none", "unread", "read"}]]
  BY DEF InboxIInv, BellIInv, PortalTyped
<1> QED
  BY <1>2, <1>7, <1>8, ReadingKeepsBells

LEMMA FindKeepsBells ==
  ASSUME InboxIInv, NEW u \in People, FindRows(u)
  PROVE  BellIInv'
<1>1. UNCHANGED <<notice, unsent, channel, reloads, astray>>
  BY DEF FindRows
<1>2. PICK found : bell' = [bell EXCEPT ![u] =
        [k \in Notices |-> IF k \in found /\ @[k] = "unread" THEN "read" ELSE @[k]]]
  BY DEF FindRows
<1>3. bell \in [People -> [Notices -> {"none", "unread", "read"}]]
  BY DEF InboxIInv, BellIInv, PortalTyped
<1>4. PICK b : b = [k \in Notices |-> IF k \in found /\ bell[u][k] = "unread" THEN "read"
                                      ELSE bell[u][k]]
  OBVIOUS
<1>5. bell' = [bell EXCEPT ![u] = b]
  BY <1>2, <1>4
<1>6. /\ b \in [Notices -> {"none", "unread", "read"}]
      /\ \A k \in Notices : b[k] = "none" <=> bell[u][k] = "none"
  BY <1>3, <1>4
<1>7. /\ bell' \in [People -> [Notices -> {"none", "unread", "read"}]]
      /\ \A v \in People, k \in Notices : bell'[v][k] = "none" <=> bell[v][k] = "none"
  BY <1>3, <1>5, <1>6
<1>8. DOMAIN notice' = Notices
  BY <1>1 DEF InboxIInv, AttentionIInv, InboxTyped
<1> QED
  BY <1>1, <1>7, <1>8, ReadingKeepsBells

LEMMA InboxStarts == InboxInit => InboxIInv
<1> SUFFICES ASSUME InboxInit PROVE InboxIInv
  OBVIOUS
<1>1. AttentionIInv
  BY DEF InboxInit, AttentionIInv, InboxTyped, Row, VersionInv, AttentionKept, NoNotice, NothingFound
<1>2. PortalTyped
  BY DEF InboxInit, PortalTyped
<1>3. StrangerInv /\ RowRight
  BY DEF InboxInit, StrangerInv, RowRight, NoNotice, Shows, About
<1>4. LastWord
  BY DEF InboxInit, LastWord
<1> QED
  BY <1>1, <1>2, <1>3, <1>4 DEF InboxIInv, BellIInv

LEMMA InboxStep == InboxIInv /\ [InboxNext]_inboxVars => InboxIInv'
<1> SUFFICES ASSUME InboxIInv, [InboxNext]_inboxVars
             PROVE  BellIInv'
  BY AttentionStep DEF InboxIInv
<1>1. CASE UNCHANGED inboxVars
  <2>1. /\ UNCHANGED <<notice, unsent, channel, reloads, astray, bell>>
        /\ DOMAIN notice = Notices
        /\ bell \in [People -> [Notices -> {"none", "unread", "read"}]]
    BY <1>1 DEF inboxVars, portals, InboxIInv, AttentionIInv, InboxTyped, BellIInv, PortalTyped
  <2> QED
    BY <2>1, ReadingKeepsBells
<1>2. ASSUME NEW k \in Notices, Queue(k) \/ Resolve(k) \/ Close(k) \/ Announce(k)
      PROVE  BellIInv'
  BY <1>2, Transactions, CommitKeepsBells DEF InboxIInv
<1> QED
  BY <1>1, <1>2, MarksKeepBells, BroadcastKeepsBells, LoseKeepsBells, HearKeepsBells,
     ReloadKeepsBells, LoadKeepsBells, FindKeepsBells DEF InboxNext

(* When nothing is on its way to a portal, its bell shows what the database    *)
(* has for the user (consumers.py:69-91, AppShell.tsx:101-186), in any order   *)
(* of transactions, messages, lists and reads and whoever a row is given to:   *)
(* the last message on its way says how its row is, a list that came late has  *)
(* news behind it, and nobody has a row that was given to others.  The portals *)
(* excepted, until news or a list of the row as it is, are those of            *)
(* BellIsRight: told of an update after the resolution, shown a list older     *)
(* than a change, not told that the row was taken from their user, and not     *)
(* told because the process died.                                              *)
THEOREM BellsRight == InboxSpec => []BellIsRight
<1>1. InboxIInv => BellIsRight
  <2> SUFFICES ASSUME InboxIInv, NEW u \in People, NEW k \in Notices,
                      Quiet(u), <<u, k>> \notin astray, u \in Superusers => notice[k].to = {}
               PROVE  (bell[u][k] # "none") = Shows(u, k)
    BY DEF BellIsRight
  <2>1. /\ unsent = {} /\ channel[u] = <<>>
        /\ ~reloads[u].asked /\ reloads[u].answers = {}
    BY DEF Quiet
  <2>2. bell[u][k] # "none" <=> Shows(u, k)
    BY <2>1 DEF InboxIInv, BellIInv, RowRight, Pending, About, Follows
  <2>3. Shows(u, k) \in BOOLEAN
    BY DEF Shows
  <2> QED
    BY <2>2, <2>3
<1> QED
  BY <1>1, InboxStarts, InboxStep, PTL DEF InboxSpec

----------------------------------------------------------------------------
(* Investigation: one lemma for each stage of a question.                      *)

(* The query a contract expects carries of the scope that was resolved what    *)
(* its tool has a parameter for, and the person when the question names one.   *)
LEMMA ExpectedFits ==
  ASSUME contract \in ContractType, resolved \in Scope, Expected # Nothing
  PROVE  /\ Expected.tool = contract.primary
         /\ \A key \in ScopeKeys : Expected[key] \in {Nothing, resolved[key]}
         /\ contract.primary = "backlog" => (Expected.leader # Nothing <=> contract.leader # Nothing)
         /\ \A key \in Parameters(contract.primary) \ {"leader"} : resolved[key] = Expected[key]
         /\ contract.leader # Nothing /\ "leader" \in Parameters(contract.primary) =>
              resolved.leader = Expected.leader
<1>1. PICK s : s = IF contract.leader = Nothing THEN [resolved EXCEPT !.leader = Nothing] ELSE resolved
  OBVIOUS
<1>2. /\ s.dialer = resolved.dialer /\ s.place = resolved.place
      /\ s.leader = IF contract.leader = Nothing THEN Nothing ELSE resolved.leader
  BY <1>1 DEF Scope
<1>3. Expected = Query(contract.primary, s, Nothing)
  BY <1>1 DEF Expected, ExpectedIn
<1>4. contract.leader # Nothing /\ contract.primary = "backlog" => resolved.leader # Nothing
  BY DEF Expected, ExpectedIn
<1>5. /\ Expected.tool = contract.primary
      /\ \A key \in ScopeKeys :
           Expected[key] = IF key \in Parameters(contract.primary) THEN s[key] ELSE Nothing
  BY <1>3 DEF Query, ScopeKeys
<1>6. /\ Parameters(contract.primary) \subseteq ScopeKeys
      /\ contract.primary = "backlog" => Parameters(contract.primary) = ScopeKeys
  BY DEF Parameters, ScopeKeys
<1>7. \A key \in ScopeKeys \ {"leader"} : s[key] = resolved[key]
  BY <1>2 DEF ScopeKeys
<1>8. "leader" \in ScopeKeys /\ Expected["leader"] = Expected.leader /\ s["leader"] = s.leader
  BY DEF ScopeKeys
<1> QED
  BY <1>2, <1>4, <1>5, <1>6, <1>7, <1>8

(* However a call ends, attempts, audit rows and queries keep their order.     *)
LEMMA TallyKept ==
  ASSUME Tallied,
         \/ UNCHANGED <<attempts, audits, outputs>>
         \/ Attempted /\ UNCHANGED <<audits, outputs>>
         \/ Unanswered
         \/ \E query : Recorded(query)
  PROVE  Tallied' /\ (attempts' = attempts \/ attempts' = attempts + 1)
<1>1. CASE UNCHANGED <<attempts, audits, outputs>>
  BY <1>1 DEF Tallied
<1>2. CASE Attempted /\ UNCHANGED <<audits, outputs>>
  BY <1>2, FS_CardinalityType DEF Tallied, Attempted
<1>3. CASE Unanswered
  BY <1>3, FS_CardinalityType DEF Tallied, Unanswered, Attempted
<1>4. CASE \E query : Recorded(query)
  <2>1. PICK query : Recorded(query)
    BY <1>4
  <2>2. /\ IsFiniteSet(outputs \cup {query})
        /\ Cardinality(outputs \cup {query}) <= Cardinality(outputs) + 1
        /\ Cardinality(outputs) \in Nat
    BY FS_AddElement, FS_CardinalityType DEF Tallied
  <2>3. Cardinality(outputs \cup {query}) \in Nat
    BY <2>2, FS_CardinalityType
  <2> QED
    BY <2>1, <2>2, <2>3 DEF Tallied, Recorded, Attempted
<1> QED
  BY <1>1, <1>2, <1>3, <1>4

(* A step that does not settle the answer keeps the invariant if it leaves the *)
(* reserve alone.                                                              *)
LEMMA Undecided ==
  ASSUME AskIInv, stage # "done", UNCHANGED contract, AskTyped',
         Tallied', ReserveInv',
         \/ UNCHANGED reply /\ stage' # "done"
         \/ stage' = "done" /\ reply'.status \notin {"complete", "incomplete"}
  PROVE  AskIInv'
<1>1. UNCHANGED reply => reply'.status \notin {"complete", "incomplete"}
  BY DEF AskIInv, OpenInv, NoReply
<1>2. PrimaryIsTried' /\ AnswerFitsContract'
  BY <1>1 DEF PrimaryIsTried, AnswerFitsContract, Tallied, ReserveInv
<1> QED
  BY <1>2 DEF AskIInv, AskTyped, OpenInv

(* What Abort, a question back and a chat reply: nothing of the contract.      *)
LEMMA Answerless ==
  ASSUME NEW status \in {"failed", "clarification", "conversation"}, Reply(status, Nothing)
  PROVE  stage' = "done" /\ reply'.status \notin {"complete", "incomplete"}
BY DEF Reply

LEMMA BeginKeeps ==
  ASSUME AskIInv, Begin \/ OurProject
  PROVE  AskIInv'
<1>1. /\ attempts = 0 /\ stage # "done" /\ UNCHANGED contract /\ MaxCalls \in Nat /\ MaxCalls > 2
  BY InvestigationAssumption
  DEF Begin, OurProject, dialogue, InvestigationAssumption, AskIInv, ReserveInv
<1>2. AskTyped'
  <2>1. UNCHANGED confirmed /\ (UNCHANGED resolved \/ resolved' = [resolved EXCEPT !.place = contract.place])
    BY DEF Begin, OurProject
  <2> QED
    BY <1>1, <2>1 DEF AskIInv, AskTyped, Grounded, Inherited, Scope, ContractType
<1>3. Tallied' /\ (attempts' = attempts \/ attempts' = attempts + 1)
  <2>1. \/ UNCHANGED <<attempts, audits, outputs>>
        \/ Unanswered
        \/ \E query : Recorded(query)
    BY DEF Begin, OurProject
  <2> QED
    BY <2>1, TallyKept DEF AskIInv
<1>4. \/ UNCHANGED reply /\ stage' \in {"project", "finalize", "round"}
         /\ (stage' = "project" => attempts' = 0)
      \/ stage' = "done" /\ reply'.status \notin {"complete", "incomplete"}
  <2>1. CASE Begin
    BY <1>1, <2>1 DEF Begin, Abort, Reply
  <2>2. CASE OurProject
    BY <2>2 DEF OurProject, Abort, Reply
  <2> QED
    BY <2>1, <2>2
<1>5. ReserveInv'
  BY <1>1, <1>3, <1>4 DEF ReserveInv
<1> QED
  BY <1>1, <1>2, <1>3, <1>4, <1>5, Undecided

(* A call of the model's message: an attempt out of those that are not held    *)
(* back, with a scope resolved by a directory, by the question or before.      *)
LEMMA CallKeeps ==
  ASSUME AskIInv, stage = "calls", Budget, UNCHANGED contract, AskTyped',
         \/ Attempted /\ UNCHANGED <<audits, outputs>>
         \/ Unanswered
         \/ \E query : Recorded(query),
         \/ Continue
         \/ \E status \in {"failed", "clarification", "conversation"} : Reply(status, Nothing)
  PROVE  AskIInv'
<1>1. Tallied' /\ (attempts' = attempts \/ attempts' = attempts + 1)
  BY TallyKept DEF AskIInv
<1>2. \/ UNCHANGED reply /\ stage' \in {"finalize", "round", "calls"}
      \/ stage' = "done" /\ reply'.status \notin {"complete", "incomplete"}
  BY Answerless DEF Continue
<1>3. ReserveInv'
  BY <1>1, <1>2, InvestigationAssumption
  DEF InvestigationAssumption, Budget, ReserveInv, AskIInv, Tallied
<1> QED
  BY <1>1, <1>2, <1>3, Undecided

LEMMA RoundKeeps ==
  ASSUME AskIInv, Round \/ OutOfBudget \/ TimePasses
  PROVE  AskIInv'
<1>1. /\ UNCHANGED <<contract, resolved, confirmed, attempts, audits, outputs>> /\ stage # "done"
      /\ \/ UNCHANGED reply /\ (stage' = stage \/ stage' \in {"finalize", "calls"})
            /\ (stage' # stage => stage \in {"round", "calls"})
         \/ stage' = "done" /\ reply'.status \notin {"complete", "incomplete"}
  BY DEF Round, OutOfBudget, TimePasses, dialogue, Abort, Reply
<1>2. Tallied'
  BY <1>1 DEF AskIInv, Tallied
<1>3. ReserveInv'
  BY <1>1 DEF AskIInv, ReserveInv
<1>4. AskTyped'
  BY <1>1 DEF AskIInv, AskTyped, Grounded, Inherited
<1> QED
  BY <1>1, <1>2, <1>3, <1>4, Undecided

(* A scope is adopted from the question, or from what is confirmed.            *)
LEMMA AdoptedGrounded ==
  ASSUME AskTyped, NEW wanted \in Scope, resolved' = Adopted(wanted), UNCHANGED <<contract, confirmed>>
  PROVE  AskTyped'
<1>1. /\ resolved'.place = (IF PlaceFits(wanted) /\ wanted.place # Nothing THEN wanted.place ELSE resolved.place)
      /\ resolved'.dialer = (IF DialerFits(wanted) /\ wanted.dialer # Nothing THEN wanted.dialer ELSE resolved.dialer)
      /\ resolved'.leader = (IF LeaderFits(wanted) /\ wanted.leader # Nothing THEN wanted.leader ELSE resolved.leader)
      /\ resolved' = [place |-> resolved'.place, dialer |-> resolved'.dialer, leader |-> resolved'.leader]
  BY DEF Adopted
<1>2. /\ PlaceFits(wanted) => wanted.place \in {Nothing, resolved.place, contract.place}
      /\ DialerFits(wanted) => wanted.dialer \in {Nothing, resolved.dialer} \cup confirmed
      /\ LeaderFits(wanted) => wanted.leader \in {Nothing, resolved.leader} \cup confirmed
  BY DEF PlaceFits, DialerFits, LeaderFits
<1>3. Grounded'
  BY <1>1, <1>2 DEF AskTyped, Grounded, Inherited
<1>4. resolved' \in Scope
  BY <1>1 DEF AskTyped, Scope
<1> QED
  BY <1>3, <1>4 DEF AskTyped

LEMMA FiguresKeep ==
  ASSUME AskIInv, AskFigures
  PROVE  AskIInv'
<1>1. PICK tool \in Figures \cap enabled, who \in Leaders \cup {Nothing},
           which \in Dialers \cup {Nothing}, where \in Places \cup {Nothing} :
        LET wanted == [leader |-> who, dialer |-> which, place |-> where]
            query == IF tool = contract.primary THEN ExpectedIn(Adopted(wanted))
                     ELSE Query(tool, wanted, Nothing)
        IN /\ \A key \in ScopeKeys \ Parameters(tool) : wanted[key] = Nothing
           /\ resolved' = Adopted(wanted)
           /\ \/ LeaderFits(wanted) /\ query # Nothing /\ Recorded(query) /\ Continue
              \/ LeaderFits(wanted) /\ query # Nothing /\ ToolFails(query, Continue)
              \/ Attempted /\ Continue /\ UNCHANGED <<audits, outputs>>
  BY Zenon DEF AskFigures
<1>2. PICK wanted : wanted = [leader |-> who, dialer |-> which, place |-> where]
  OBVIOUS
<1>3. wanted \in Scope
  BY <1>2 DEF Scope
<1>4. PICK query : /\ resolved' = Adopted(wanted)
                   /\ \/ Recorded(query) /\ Continue
                      \/ ToolFails(query, Continue)
                      \/ Attempted /\ Continue /\ UNCHANGED <<audits, outputs>>
  BY <1>1, <1>2
<1>5. stage = "calls" /\ Budget /\ UNCHANGED <<contract, confirmed>>
  BY DEF AskFigures, Turn, dialogue
<1>6. AskTyped'
  BY <1>3, <1>4, <1>5, AdoptedGrounded DEF AskIInv
<1> QED
  BY <1>4, <1>5, <1>6, CallKeeps DEF ToolFails, Abort

LEMMA NoQueryKeeps ==
  ASSUME AskIInv, NoQuery
  PROVE  AskIInv'
<1>1. AskTyped'
  BY DEF NoQuery, AskIInv, AskTyped, Grounded, Inherited
<1> QED
  BY <1>1, CallKeeps DEF NoQuery, Turn

(* A search confirms nobody but the one it found, and resolves nobody else.    *)
LEMMA SearchGrounded ==
  ASSUME AskTyped, NEW query, NEW who, NEW found \in Scope, NEW then, UNCHANGED contract,
         Search(query, who, found, then),
         found \in {resolved, [resolved EXCEPT !.leader = who], [resolved EXCEPT !.dialer = who]}
  PROVE  AskTyped'
<1>1. /\ confirmed \subseteq confirmed'
      /\ resolved' = resolved \/ (who \in confirmed' /\ resolved' = found)
  BY DEF Search
<1>2. Grounded'
  BY <1>1 DEF AskTyped, Grounded, Inherited, Scope
<1> QED
  BY <1>1, <1>2 DEF AskTyped

(* A search in a directory resolves the name it searched for, or nothing.      *)
LEMMA DirectoriesKeep ==
  ASSUME AskIInv, AskPeople \/ AskDialers \/ AskPlaces
  PROVE  AskIInv'
<1>1. /\ stage = "calls" /\ Budget /\ UNCHANGED contract /\ resolved \in Scope
      /\ contract \in ContractType /\ AskTyped
  BY DEF AskPeople, AskDialers, AskPlaces, Turn, dialogue, AskIInv, AskTyped
<1>2. CASE AskPeople
  <2>1. PICK who \in Leaders :
          \/ SearchPeople(who, Continue)
          \/ ToolFails(Discovery("people", who), Continue) /\ UNCHANGED <<confirmed, resolved>>
    BY <1>2 DEF AskPeople
  <2>2. [resolved EXCEPT !.leader = who] \in Scope
    BY <1>1 DEF Scope
  <2>3. AskTyped'
    <3>1. CASE SearchPeople(who, Continue)
      BY <1>1, <2>2, <3>1, SearchGrounded DEF SearchPeople
    <3>2. CASE UNCHANGED <<confirmed, resolved>>
      BY <1>1, <3>2 DEF AskTyped, Grounded, Inherited
    <3> QED
      BY <2>1, <3>1, <3>2
  <2> QED
    BY <1>1, <2>1, <2>3, CallKeeps DEF SearchPeople, Search, ToolFails, Abort
<1>3. CASE AskDialers
  <2>1. PICK which \in Dialers :
          \/ SearchDialers(which, Continue)
          \/ ToolFails(Discovery("dialers", which), Continue) /\ UNCHANGED <<confirmed, resolved>>
    BY <1>3 DEF AskDialers
  <2>2. [resolved EXCEPT !.dialer = which] \in Scope
    BY <1>1 DEF Scope
  <2>3. AskTyped'
    <3>1. CASE SearchDialers(which, Continue)
      BY <1>1, <2>2, <3>1, SearchGrounded DEF SearchDialers
    <3>2. CASE UNCHANGED <<confirmed, resolved>>
      BY <1>1, <3>2 DEF AskTyped, Grounded, Inherited
    <3> QED
      BY <2>1, <3>1, <3>2
  <2> QED
    BY <1>1, <2>1, <2>3, CallKeeps DEF SearchDialers, Search, ToolFails, Abort
<1>4. CASE AskPlaces
  <2>1. UNCHANGED confirmed /\ (UNCHANGED resolved \/ resolved' = [resolved EXCEPT !.place = contract.place])
    BY <1>4 DEF AskPlaces
  <2>2. AskTyped'
    BY <1>1, <2>1 DEF AskTyped, Grounded, Inherited, Scope, ContractType
  <2> QED
    BY <1>1, <1>4, <2>2, CallKeeps DEF AskPlaces, ToolFails, Abort
<1> QED
  BY <1>2, <1>3, <1>4

(* The finalizer's answers: the result of the query expected now.              *)
LEMMA ShownFits ==
  ASSUME AskIInv, Expected # Nothing, Reply("complete", Expected), Expected \in outputs',
         UNCHANGED <<contract, resolved, confirmed>>, Tallied', attempts' <= MaxCalls
  PROVE  AskIInv'
<1>1. Expected' = Expected
  BY DEF Expected, ExpectedIn
<1>2. /\ reply'.status = "complete" /\ reply'.shown = Expected /\ reply'.filters = resolved
      /\ stage' = "done"
  BY DEF Reply
<1>3. AnswerFitsContract'
  <2>1. \A key \in ScopeKeys : Expected[key] \in {Nothing, resolved[key]}
    BY ExpectedFits DEF AskIInv, AskTyped
  <2>2. /\ Expected.leader \in {Nothing, resolved.leader}
        /\ Expected.dialer \in {Nothing, resolved.dialer}
        /\ Expected.place \in {Nothing, resolved.place}
    BY <2>1 DEF ScopeKeys
  <2>3. /\ Expected.leader \in {Nothing} \cup confirmed
        /\ Expected.dialer \in {Nothing} \cup confirmed \cup Inherited
        /\ Expected.place \in {Nothing, contract.place}
    BY <2>2 DEF AskIInv, AskTyped, Grounded
  <2>4. UNCHANGED Parameters(contract.primary)
    BY DEF Parameters, ScopeKeys
  <2> QED
    BY <1>1, <1>2, <2>3, <2>4, ExpectedFits DEF AnswerFitsContract, AskIInv, AskTyped, Inherited
<1>4. PrimaryIsTried'
  BY <1>2 DEF PrimaryIsTried, Tallied
<1>5. ReserveInv'
  BY <1>2 DEF ReserveInv
<1> QED
  BY <1>2, <1>3, <1>4, <1>5 DEF AskIInv, AskTyped, OpenInv, Grounded, Inherited

(* An answer left incomplete has its reason.                                   *)
LEMMA IncompleteHasReason ==
  ASSUME AskIInv, Reply("incomplete", Nothing), UNCHANGED contract, AskTyped',
         Tallied', attempts' <= MaxCalls,
         \/ contract.primary = Nothing /\ outputs' = {}
         \/ contract.primary # Nothing /\ (overtime' \/ refused' \/ Expected' = Nothing)
  PROVE  AskIInv'
<1>1. reply'.status = "incomplete" /\ stage' = "done"
  BY DEF Reply
<1>2. AnswerFitsContract' /\ ReserveInv' /\ OpenInv'
  BY <1>1 DEF AnswerFitsContract, ReserveInv, OpenInv
<1>3. PrimaryIsTried'
  BY <1>1 DEF PrimaryIsTried, Tallied
<1> QED
  BY <1>2, <1>3 DEF AskIInv

LEMMA ShowKeeps ==
  ASSUME AskIInv, ShowPrimary \/ ShowNarrative
  PROVE  AskIInv'
<1>1. /\ UNCHANGED <<contract, resolved, confirmed, outputs, attempts, audits>>
      /\ AskTyped' /\ attempts <= MaxCalls /\ stage # "done"
  BY DEF ShowPrimary, ShowNarrative, dialogue, AskIInv, AskTyped, Grounded, Inherited, ReserveInv
<1>2. Tallied'
  BY <1>1 DEF AskIInv, Tallied
<1>3. CASE ShowPrimary
  BY <1>1, <1>2, <1>3, ShownFits DEF ShowPrimary, Answered
<1>4. CASE ShowNarrative
  <2>1. CASE outputs = {}
    BY <1>1, <1>2, <1>4, <2>1, IncompleteHasReason DEF ShowNarrative
  <2>2. CASE outputs # {}
    <3>1. /\ reply'.status = "complete" /\ contract'.primary = Nothing /\ stage' = "done"
      BY <1>1, <1>4, <2>2 DEF ShowNarrative, Reply
    <3>2. PrimaryIsTried' /\ AnswerFitsContract' /\ ReserveInv' /\ OpenInv'
      BY <1>1, <1>2, <3>1 DEF PrimaryIsTried, AnswerFitsContract, ReserveInv, OpenInv, Tallied
    <3> QED
      BY <1>1, <1>2, <3>2 DEF AskIInv
  <2> QED
    BY <2>1, <2>2
<1> QED
  BY <1>3, <1>4

(* The finalizer's own look at the directory, and its own query.               *)
LEMMA FinalizerKeeps ==
  ASSUME AskIInv, FindLeader \/ QueryPrimary
  PROVE  AskIInv'
<1>1. /\ UNCHANGED contract /\ contract \in ContractType /\ resolved \in Scope
      /\ stage \in {"finalize", "query"} /\ MaxCalls \in Nat /\ MaxCalls > 2
      /\ attempts \in Nat /\ attempts < MaxCalls
      /\ stage = "finalize" => attempts <= MaxCalls - 2
  BY InvestigationAssumption
  DEF FindLeader, QueryPrimary, Affordable, LacksLeader, dialogue, AskIInv, AskTyped, ReserveInv,
      Tallied, InvestigationAssumption
<1>2. Tallied' /\ (attempts' = attempts \/ attempts' = attempts + 1)
  <2>1. Unanswered \/ \E query : Recorded(query)
    BY DEF FindLeader, QueryPrimary, SearchPeople, Search
  <2> QED
    BY <2>1, TallyKept DEF AskIInv
<1>3. attempts' <= MaxCalls
  BY <1>1, <1>2
<1>4. CASE FindLeader
  <2>1. contract.primary # Nothing /\ contract.leader \in Leaders /\ stage = "finalize"
    BY <1>1, <1>4, InvestigationAssumption
    DEF FindLeader, LacksLeader, ContractType, Answered, InvestigationAssumption
  <2>2. AskTyped'
    <3>1. [resolved EXCEPT !.leader = contract.leader] \in Scope
      BY <1>1, <2>1 DEF Scope
    <3>2. CASE SearchPeople(contract.leader, stage' = "query" /\ UNCHANGED <<pending, reply>>)
      BY <1>1, <2>1, <3>1, <3>2, SearchGrounded DEF SearchPeople, AskIInv
    <3>3. CASE UNCHANGED <<confirmed, resolved>>
      BY <1>1, <3>3 DEF AskIInv, AskTyped, Grounded, Inherited
    <3> QED
      BY <1>4, <3>2, <3>3 DEF FindLeader
  <2>3. CASE SearchPeople(contract.leader, stage' = "query" /\ UNCHANGED <<pending, reply>>)
    <3>1. \/ stage' = "query" /\ UNCHANGED reply
          \/ stage' = "done" /\ reply'.status \notin {"complete", "incomplete"}
      BY <2>3, Answerless DEF SearchPeople, Search
    <3>2. ReserveInv'
      BY <1>1, <1>2, <2>1, <3>1 DEF ReserveInv
    <3> QED
      BY <1>1, <1>2, <2>2, <3>1, <3>2, Undecided
  <2>4. CASE Unanswered /\ Refuse
    BY <1>1, <1>2, <1>3, <2>1, <2>2, <2>4, IncompleteHasReason DEF Refuse
  <2> QED
    BY <1>4, <2>3, <2>4 DEF FindLeader
<1>5. CASE QueryPrimary
  <2>1. UNCHANGED <<resolved, confirmed>> /\ Expected # Nothing
    BY <1>5 DEF QueryPrimary
  <2>5. AskTyped'
    BY <1>1, <2>1 DEF AskIInv, AskTyped, Grounded, Inherited
  <2>2. CASE Recorded(Expected) /\ Reply("complete", Expected)
    <3>1. Expected \in outputs'
      BY <2>2 DEF Recorded
    <3> QED
      BY <1>1, <1>2, <1>3, <2>1, <2>2, <3>1, ShownFits
  <2>3. CASE Refuse
    <3>1. contract.primary # Nothing
      BY <2>1 DEF Expected, ExpectedIn
    <3> QED
      BY <1>1, <1>2, <1>3, <2>1, <2>3, <2>5, <3>1, IncompleteHasReason DEF Refuse
  <2>4. CASE Abort
    <3>1. stage' = "done" /\ reply'.status \notin {"complete", "incomplete"}
      BY <2>4, Answerless DEF Abort
    <3>2. ReserveInv'
      BY <1>3, <3>1 DEF ReserveInv
    <3> QED
      BY <1>1, <1>2, <2>1, <2>5, <3>1, <3>2, Undecided
  <2> QED
    BY <1>5, <2>2, <2>3, <2>4 DEF QueryPrimary
<1> QED
  BY <1>4, <1>5

(* The finalizer gives up for want of time or scope: attempts it always has.   *)
LEMMA GiveUpKeeps ==
  ASSUME AskIInv, GiveUp
  PROVE  AskIInv'
<1>1. /\ UNCHANGED <<contract, resolved, outputs, attempts, audits, overtime, refused>>
      /\ AskTyped' /\ attempts \in Nat /\ MaxCalls \in Nat
      /\ attempts < MaxCalls /\ Reply("incomplete", Nothing) /\ contract.primary # Nothing
  BY InvestigationAssumption
  DEF GiveUp, dialogue, AskIInv, AskTyped, Grounded, Inherited, ReserveInv, Tallied,
      InvestigationAssumption
<1>2. Tallied'
  BY <1>1 DEF AskIInv, Tallied
<1>3. overtime \/ Expected = Nothing
  BY <1>1 DEF GiveUp, Affordable
<1>4. Expected' = Expected
  BY <1>1 DEF Expected, ExpectedIn
<1> QED
  BY <1>1, <1>2, <1>3, <1>4, IncompleteHasReason

LEMMA AskHolds == AskSpec => []AskIInv
<1>1. AskInit => AskIInv
  <2> SUFFICES ASSUME AskInit PROVE AskIInv
    OBVIOUS
  <2>1. AskTyped
    BY InvestigationAssumption
    DEF AskInit, AskTyped, Grounded, Inherited, InvestigationAssumption, Scope, NoScope, ContractType
  <2>2. Tallied /\ ReserveInv
    BY InvestigationAssumption, FS_EmptySet
    DEF AskInit, Tallied, ReserveInv, InvestigationAssumption
  <2>3. OpenInv /\ PrimaryIsTried /\ AnswerFitsContract
    BY <2>2 DEF AskInit, OpenInv, PrimaryIsTried, AnswerFitsContract, NoReply, Tallied, ReserveInv
  <2> QED
    BY <2>1, <2>2, <2>3 DEF AskIInv
<1>2. AskIInv /\ [AskNext]_askVars => AskIInv'
  <2>1. AskIInv /\ UNCHANGED askVars => AskIInv'
    BY DEF askVars, AskIInv, AskTyped, Grounded, Inherited, Tallied, ReserveInv, OpenInv,
           PrimaryIsTried, AnswerFitsContract, Expected, ExpectedIn
  <2> QED
    BY <2>1, BeginKeeps, RoundKeeps, NoQueryKeeps, DirectoriesKeep, FiguresKeep, ShowKeeps,
       FinalizerKeeps, GiveUpKeeps DEF AskNext
<1> QED
  BY <1>1, <1>2, PTL DEF AskSpec

(* An answer called complete shows a result whose scope was confirmed by the   *)
(* directories, inherited or named in the question, and which is, as far as    *)
(* its tool has the parameter, the scope the next turn inherits                *)
(* (investigation.py:527, :625-641, :661, :703): whatever the model asked for, *)
(* in which order, and whichever names were resolved late.                     *)
THEOREM AnswersFit == AskSpec => []AnswerFitsContract
<1>1. AskIInv => AnswerFitsContract
  BY DEF AskIInv
<1> QED
  BY <1>1, AskHolds, PTL

(* However the model spends its rounds, an answer is left incomplete only for  *)
(* want of time, of a name, or because the tool refused                        *)
(* (investigation.py:450): the reserve of two attempts is never spent before   *)
(* the finalizer needs it.                                                     *)
THEOREM PrimaryTried == AskSpec => []PrimaryIsTried
<1>1. AskIInv => PrimaryIsTried
  BY DEF AskIInv
<1> QED
  BY <1>1, AskHolds, PTL
=============================================================================
