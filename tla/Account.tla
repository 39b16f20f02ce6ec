------------------------------ MODULE Account ------------------------------
(***************************************************************************)
(* One portal account (accounts/views.py, middleware.py, services.py, and  *)
(* the update of UserAdminSerializer): its row, the sessions that were     *)
(* opened with its password, and the picture in storage.  A request loads  *)
(* the row once, when it is authenticated, and writes later from that      *)
(* copy: some of its columns, or all of them.                              *)
(***************************************************************************)
EXTENDS Naturals, FiniteSets

CONSTANTS Browsers, SignedOut, NoPicture, NoWork, NoLink,
          MaxPasswords, MaxPictures, MaxAdminSaves

VARIABLES user,  \* the row: password, must_change_password, is_active, picture
          session,   \* the password under which each browser's session was opened
          work,      \* the request of each browser and of an administrator
          stored,    \* pictures in storage
          link,      \* the reset link that was sent: the password it was made for
          temporary, \* passwords that an administrator set (history)
          waived,    \* ... and allowed to stay (history)
          undone,    \* pictures that a whole-row save wrote back (history)
          passwords, pictures, adminSaves  \* bound counters; a new password or picture is a number

accountVars == <<user, session, work, stored, link, temporary, waived, undone,
                 passwords, pictures, adminSaves>>
accountHistory == <<temporary, waived, undone>>

Administrator == "administrator"
Clients == Browsers \cup {Administrator}
PasswordNumbers == 0..MaxPasswords
AccountRow == [password : PasswordNumbers, must : BOOLEAN, active : BOOLEAN,
        picture : (1..MaxPictures) \cup {NoPicture}]

ASSUME AccountAssumption ==
  /\ Administrator \notin Browsers /\ NoPicture \notin Nat
  /\ {MaxPasswords, MaxPictures, MaxAdminSaves} \subseteq Nat

Doing(c, kind) == work[c] # NoWork /\ work[c].kind = kind
Does(c, w) == work' = [work EXCEPT ![c] = w]
Done(c) == Does(c, NoWork)

----------------------------------------------------------------------------
(* Sessions.                                                               *)

\* authenticate reads the row; login opens the session under that password, and writes
\* last_login, which is not modelled.
SignIn(b) ==
  /\ work[b] = NoWork /\ user.active
  /\ Does(b, [kind |-> "sign_in", row |-> user])
  /\ UNCHANGED <<user, session, stored, link, accountHistory, passwords, pictures, adminSaves>>

OpenSession(b) ==
  /\ Doing(b, "sign_in")
  /\ session' = [session EXCEPT ![b] = work[b].row.password]
  /\ Done(b)
  /\ UNCHANGED <<user, stored, link, accountHistory, passwords, pictures, adminSaves>>

\* The session is valid while the row is active and has the password it was opened under.
Authenticated(b) == session[b] = user.password /\ user.active

\* ForcePasswordChangeMiddleware.
Passes(kind, row) == row.must => kind \in {"logout", "change"}

Ask(b) ==
  /\ work[b] = NoWork /\ Authenticated(b)
  /\ \E kind \in {"logout", "change", "appearance", "avatar", "remove"} :
       Passes(kind, user) /\ Does(b, [kind |-> kind, row |-> user])
  /\ UNCHANGED <<user, session, stored, link, accountHistory, passwords, pictures, adminSaves>>

Logout(b) ==
  /\ Doing(b, "logout")
  /\ session' = [session EXCEPT ![b] = SignedOut] /\ Done(b)
  /\ UNCHANGED <<user, stored, link, accountHistory, passwords, pictures, adminSaves>>

----------------------------------------------------------------------------
(* The password.                                                           *)

\* PasswordChangeView saves the password and the flag, and moves its session along.
ChangePassword(b) ==
  /\ Doing(b, "change") /\ passwords < MaxPasswords /\ passwords' = passwords + 1
  /\ user' = [user EXCEPT !.password = passwords', !.must = FALSE]
  /\ Does(b, [kind |-> "rehash", row |-> user'])
  /\ UNCHANGED <<session, stored, link, accountHistory, pictures, adminSaves>>

Rehash(b) ==
  /\ Doing(b, "rehash")
  /\ session' = [session EXCEPT ![b] = work[b].row.password] /\ Done(b)
  /\ UNCHANGED <<user, stored, link, accountHistory, passwords, pictures, adminSaves>>

\* PasswordResetRequestView: the token is made of the password, and of last_login: that
\* a sign-in spoils it too is left out, a refusal changes nothing.
SendLink ==
  /\ link = NoLink /\ user.active
  /\ link' = [password |-> user.password, confirmed |-> FALSE]
  /\ UNCHANGED <<user, session, work, stored, accountHistory, passwords, pictures, adminSaves>>

LinkIsValid ==
  /\ link # NoLink /\ ~link.confirmed
  /\ link.password = user.password /\ user.active

\* PasswordResetConfirmView: after the row is saved the transaction reaches for
\* user.session_set, which no user has, and is rolled back.
ConfirmReset ==
  /\ LinkIsValid
  /\ link' = [link EXCEPT !.confirmed = TRUE]
  /\ UNCHANGED <<user, session, work, stored, accountHistory, passwords, pictures, adminSaves>>

----------------------------------------------------------------------------
(* Saves of the whole row.                                                 *)

\* What is written back without having been meant.
WritesBack(row) == IF row.picture = user.picture THEN undone ELSE undone \cup {row.picture}

\* AppearanceView: the serializer saves every column of the copy.
SaveAppearance(b) ==
  /\ Doing(b, "appearance") /\ Done(b)
  /\ user' = work[b].row /\ undone' = WritesBack(work[b].row)
  /\ UNCHANGED <<session, stored, link, temporary, waived, passwords, pictures, adminSaves>>

Edit ==
  /\ work[Administrator] = NoWork /\ adminSaves < MaxAdminSaves /\ adminSaves' = adminSaves + 1
  /\ Does(Administrator, [kind |-> "edit", row |-> user])
  /\ UNCHANGED <<user, session, stored, link, accountHistory, passwords, pictures>>

\* Mutant: a new password leaves the flag as the form has it.
WithPasswordOnly(row, flag, new) == [row EXCEPT !.must = flag, !.password = new]

\* A new password is temporary, whatever the form says of the flag.
WithPassword(row, flag, new) == [row EXCEPT !.must = TRUE, !.password = new]

\* UserAdminSerializer.update: the columns of the form, a new password, the whole row.
SaveEdit ==
  LET row == work[Administrator].row IN
  /\ Doing(Administrator, "edit") /\ Done(Administrator)
  /\ \E active, flag \in BOOLEAN :
       LET formed == [row EXCEPT !.active = active, !.must = flag] IN
       \/ /\ passwords < MaxPasswords /\ passwords' = passwords + 1
          /\ user' = WithPassword(formed, flag, passwords')
          /\ temporary' = temporary \cup {passwords'} /\ waived' = waived
       \/ /\ user' = formed /\ UNCHANGED <<passwords, temporary>>
          /\ waived' = IF flag THEN waived ELSE waived \cup {row.password}
  /\ undone' = WritesBack(row)
  /\ UNCHANGED <<session, stored, link, pictures, adminSaves>>

----------------------------------------------------------------------------
(* The picture.                                                            *)

\* replace_profile_picture stores the file before the row names it.  The old picture
\* is never deleted: the object that holds its name is renamed with the new one.
Upload(b) ==
  /\ Doing(b, "avatar") /\ pictures < MaxPictures /\ pictures' = pictures + 1
  /\ stored' = stored \cup {pictures'}
  /\ Does(b, [kind |-> "name", row |-> [work[b].row EXCEPT !.picture = pictures']])
  /\ UNCHANGED <<user, session, link, accountHistory, passwords, adminSaves>>

NamePicture(b) ==
  /\ Doing(b, "name") /\ Done(b)
  /\ user' = [user EXCEPT !.picture = work[b].row.picture]
  /\ UNCHANGED <<session, stored, link, accountHistory, passwords, pictures, adminSaves>>

\* Mutant: the file goes while the row still names it.
ForgetLater(b) == UNCHANGED user

\* ProfileAvatarView.delete: the row first, then the file its copy named.
Forget(b) == user' = [user EXCEPT !.picture = NoPicture]

RemovePicture(b) ==
  /\ Doing(b, "remove") /\ Forget(b)
  /\ Does(b, [kind |-> "delete", row |-> work[b].row])
  /\ UNCHANGED <<session, stored, link, accountHistory, passwords, pictures, adminSaves>>

DeleteFile(b) ==
  /\ Doing(b, "delete") /\ Done(b)
  /\ stored' = stored \ {work[b].row.picture}
  /\ UNCHANGED <<user, session, link, accountHistory, passwords, pictures, adminSaves>>

\* The server process dies: the request is over where it stands.
Die(c) ==
  /\ work[c] # NoWork /\ Done(c)
  /\ UNCHANGED <<user, session, stored, link, accountHistory, passwords, pictures, adminSaves>>

\* create_user: a new account has a temporary password and no picture.
AccountInit ==
  /\ user = [password |-> 0, must |-> TRUE, active |-> TRUE, picture |-> NoPicture]
  /\ session = [b \in Browsers |-> SignedOut] /\ work = [c \in Clients |-> NoWork]
  /\ stored = {} /\ temporary = {0} /\ waived = {} /\ undone = {}
  /\ link \in {NoLink, [password |-> 0, confirmed |-> TRUE]}  \* or one that was used
  /\ passwords \in 0..MaxPasswords /\ pictures \in 0..MaxPictures         \* what is used of
  /\ adminSaves \in 0..MaxAdminSaves                                      \* these bounds

AccountNext ==
  \/ \E b \in Browsers :
       \/ SignIn(b) \/ OpenSession(b) \/ Ask(b) \/ Logout(b) \/ ChangePassword(b) \/ Rehash(b)
       \/ SaveAppearance(b) \/ Upload(b) \/ NamePicture(b) \/ RemovePicture(b) \/ DeleteFile(b)
  \/ Edit \/ SaveEdit \/ SendLink \/ ConfirmReset
  \/ \E c \in Clients : Die(c)

AccountSpec == AccountInit /\ [][AccountNext]_accountVars

----------------------------------------------------------------------------
(* Properties.                                                             *)

\* A password that an administrator gave out must be changed before anything else is
\* done under it (middleware.py:4-30, views.py:221-231, api_serializers.py:603-607):
\* whatever saves of whole rows and of columns cross each other, the row never has such
\* a password without the flag, unless an administrator took the flag away himself, and
\* no request but a sign-in, a sign-out or the change works from such a row.
TemporaryMustChange ==
  LET exposed(row) == row.password \in temporary \ waived IN
  /\ exposed(user) => user.must
  /\ \A b \in Browsers : work[b] # NoWork /\ exposed(work[b].row) =>
       work[b].kind \in {"sign_in", "logout", "change"}

\* The picture a row names is in storage (services.py:40-45, views.py:293-298), through
\* uploads and removals that overlap or are cut off: the exception is a save of the
\* whole row that wrote back the name of a picture that had been removed meanwhile.
PictureExists ==
  user.picture \in stored \cup {NoPicture} \cup undone

\* "Your password has been reset. You can now sign in." (views.py:193)
ResetTakesEffect ==
  [][link # NoLink /\ link' # link /\ link'.confirmed => user'.password # user.password]_accountVars
=============================================================================
