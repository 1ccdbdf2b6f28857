------------------------------ MODULE Accounts ------------------------------
(***************************************************************************)
(* Accounts and sessions of the web site: src/services/auth.service.js,    *)
(* account.service.js and session.service.js over src/db/user.queries.js.  *)
(* Every handler awaits between reading an account, comparing or hashing a *)
(* password, writing, mailing and saving a session, and others run         *)
(* meanwhile; PostgreSQL (READ COMMITTED) holds the row a transaction has  *)
(* written until it ends.  express-session loads a session when a request  *)
(* arrives and, if a handler changed it, saves it when the response ends.  *)
(*                                                                         *)
(* Requests with malformed input, a wrong password or an expired link      *)
(* change nothing and are left out, as are roles and YouList data.  The    *)
(* table public.users is older than the repository's migrations; that it   *)
(* keeps names and addresses unique is taken from duplicateUserMessage.    *)
(***************************************************************************)
EXTENDS Naturals, Sequences, FiniteSets

CONSTANTS
  Users,        \* ids the table can give to rows
  Names, Addresses, Passwords,
  Requests,     \* requests that may be served at once
  None,         \* NULL, and no row
  Sids,         \* bound: ids of sessions in use at a time
  MaxTokens,    \* bound: links made
  MaxFaults     \* bound: mails refused and commits that go wrong

VARIABLES
  users,        \* committed rows of public.users
  spent,        \* ids that were given to a row
  sessions,     \* committed rows of public.session
  mails,        \* links mailed, in the order in which they left
  req,          \* where each request stands
  tokens,       \* tokens made so far; a token is its number, 0 is NULL
  opened,       \* history: accounts and addresses whose link was opened
  faults

vars == <<users, spent, sessions, mails, req, tokens, opened, faults>>

AccountRows ==
  [name : Names, email : Addresses, password : Passwords, verified : BOOLEAN, token : Nat,
   pending : Addresses \cup {None}, pendingToken : Nat]

ASSUME AccountsAssumption ==
  /\ {MaxTokens, MaxFaults} \subseteq Nat
  /\ None \notin Users \cup Names \cup Addresses \cup Passwords
  /\ None \notin AccountRows

Closing == {"rename", "password", "delete"}   \* what ends the open sessions

Idle ==
  [at |-> "idle", kind |-> "none", user |-> None, row |-> None, asked |-> None, known |-> None,
   session |-> None, token |-> 0, doomed |-> {}, overlapped |-> FALSE]

Init ==
  /\ users = [u \in Users |-> None]
  /\ spent = {}
  /\ sessions = {}
  /\ mails = <<>>
  /\ req = [r \in Requests |-> Idle]
  /\ tokens = 0
  /\ opened = {}
  /\ faults = 0

Live == {u \in Users : users[u] # None}

Fault == faults < MaxFaults /\ faults' = faults + 1

-----------------------------------------------------------------------------
(* Rows, locks and unique constraints                                      *)

\* The requests inside a transaction that holds its row.
Holding == {r \in Requests : req[r].at \in {"mail", "clear", "remove", "commit"}}

Locked(u) == \E r \in Holding : req[r].user = u

Clash(row, other) ==
  row # None /\ other # None /\ (row.name = other.name \/ row.email = other.email)

\* A unique index waits for the transactions that write, or give up, a value.
Awaits(row, u) == \E r \in Holding :
  req[r].user # u /\ (Clash(row, req[r].row) \/ Clash(row, users[req[r].user]))

Duplicate(row, u) == \E v \in Users \ {u} : Clash(row, users[v])

\* From here on u changes: what the others have read of u may be outdated.
Changing(r, u, requests) ==
  [q \in Requests |->
    IF q # r /\ requests[q].user = u /\ requests[q].known # None
      THEN [requests[q] EXCEPT !.overlapped = TRUE] ELSE requests[q]]

\* The statement that writes the row, once the locks it needs are free: it
\* raises a duplicate, or the request goes on inside its transaction.
Write(r, u, row, next) ==
  /\ ~Locked(u) /\ ~Awaits(row, u)
  /\ IF Duplicate(row, u)
       THEN req' = [req EXCEPT ![r] = Idle]
       ELSE LET written == [req EXCEPT ![r].at = next, ![r].user = u, ![r].row = row]
            IN req' = IF req[r].kind \in Closing THEN Changing(r, u, written) ELSE written

\* A change of the account is under way that ends its sessions.
BeingClosed(u) == \E q \in Holding : req[q].user = u /\ req[q].kind \in Closing

\* What a handler has read of the account and the password it compared.
Reading(kind, u, asked) ==
  [Idle EXCEPT !.kind = kind, !.user = u, !.asked = asked, !.known = users[u].password,
               !.overlapped = BeingClosed(u)]

Begin(r, kind, u, asked) ==
  /\ req[r] = Idle
  /\ req' = [req EXCEPT ![r] = [Reading(kind, u, asked) EXCEPT !.at = "write"]]
  /\ UNCHANGED <<users, spent, sessions, mails, tokens, opened, faults>>

\* makeVerificationToken, for the handlers that mail a link.
BeginWithToken(r, kind, u, asked) ==
  /\ req[r] = Idle
  /\ tokens < MaxTokens
  /\ tokens' = tokens + 1
  /\ req' = [req EXCEPT ![r] = [Idle EXCEPT !.at = "write", !.kind = kind, !.user = u,
                                            !.asked = asked, !.token = tokens + 1]]
  /\ UNCHANGED <<users, spent, sessions, mails, opened, faults>>

-----------------------------------------------------------------------------
(* Registration and its mails                                              *)

\* registerUser: findUserByUsernameOrEmail, then the password is hashed.
Register(r, name, email) ==
  /\ \A u \in Live : users[u].name # name /\ users[u].email # email
  /\ \E password \in Passwords :
       BeginWithToken(r, "register", None, [name |-> name, email |-> email, password |-> password])

CreateUser(r) ==
  /\ req[r].at = "write" /\ req[r].kind = "register"
  /\ \E u \in Users \ spent :
       /\ Write(r, u, [name |-> req[r].asked.name, email |-> req[r].asked.email,
                       password |-> req[r].asked.password, verified |-> FALSE,
                       token |-> req[r].token, pending |-> None, pendingToken |-> 0],
                "mail")
       /\ spent' = spent \cup {u}
  /\ UNCHANGED <<users, sessions, mails, tokens, opened, faults>>

\* resendVerificationEmail: findUserByEmail.
Resend(r) == \E u \in Live :
  /\ ~users[u].verified
  /\ BeginWithToken(r, "resend", u, None)

\* updateUserVerificationToken: WHERE id = $2 AND email_verified = false.
UpdateVerificationToken(r) ==
  /\ req[r].at = "write" /\ req[r].kind = "resend"
  /\ ~Locked(req[r].user)
  /\ LET u == req[r].user IN
       IF u \in Live /\ ~users[u].verified
         THEN Write(r, u, [users[u] EXCEPT !.token = req[r].token], "mail")
         ELSE req' = [req EXCEPT ![r] = Idle]
  /\ UNCHANGED <<users, spent, sessions, mails, tokens, opened, faults>>

\* sendVerificationEmail and sendEmailChangeVerificationEmail, awaited inside
\* the transaction.
Letter(r) ==
  LET row == req[r].row IN
    [user |-> req[r].user, token |-> req[r].token, committed |-> FALSE,
     address |-> IF req[r].kind = "email" THEN row.pending ELSE row.email,
     purpose |-> IF req[r].kind = "email" THEN "change" ELSE "verify"]

SendMail(r) ==
  /\ req[r].at = "mail"
  /\ mails' = Append(mails, Letter(r))
  /\ req' = [req EXCEPT ![r].at = "commit"]
  /\ UNCHANGED <<users, spent, sessions, tokens, opened, faults>>

\* verifyUserEmailByToken.
VerifyUserEmail(m) ==
  /\ m.purpose = "verify"
  /\ m.user \in Live
  /\ users[m.user].token = m.token
  /\ ~Locked(m.user)
  /\ users' = [users EXCEPT ![m.user].verified = TRUE, ![m.user].token = 0]

\* verifyPendingEmailChangeByToken, with its NOT EXISTS and the unique index.
Confirmed(u) ==
  [users[u] EXCEPT !.email = users[u].pending, !.verified = TRUE, !.pending = None,
                   !.pendingToken = 0]

VerifyPendingEmailChange(m) ==
  /\ m.purpose = "change"
  /\ m.user \in Live
  /\ users[m.user].pending # None
  /\ users[m.user].pendingToken = m.token
  /\ ~Duplicate(Confirmed(m.user), m.user)
  /\ ~Locked(m.user) /\ ~Awaits(Confirmed(m.user), m.user)
  /\ users' = [users EXCEPT ![m.user] = Confirmed(m.user)]

OpenLink ==
  /\ \E i \in DOMAIN mails :
       /\ VerifyUserEmail(mails[i]) \/ VerifyPendingEmailChange(mails[i])
       /\ opened' = opened \cup {<<mails[i].user, mails[i].address>>}
  /\ UNCHANGED <<spent, sessions, mails, req, tokens, faults>>

-----------------------------------------------------------------------------
(* Sessions                                                                *)

\* authenticateUser: the row is read, then its password compared.
Login(r) == \E u \in Live :
  /\ users[u].verified
  /\ req[r] = Idle
  /\ req' = [req EXCEPT ![r] =
       [Reading("login", u, None) EXCEPT !.at = "establish", !.row = users[u]]]
  /\ UNCHANGED <<users, spent, sessions, mails, tokens, opened, faults>>

\* Ids are random: one that a request still carries is not given again.
FreeSids ==
  Sids \ ({s.sid : s \in sessions} \cup {req[q].session.sid : q \in {p \in Requests : req[p].at = "save"}})

\* establishAuthenticatedSession, with what was read of the account.
Establish(r) ==
  /\ req[r].at = "establish"
  /\ \E sid \in FreeSids :
       sessions' = sessions \cup
         {[sid |-> sid, user |-> req[r].user, name |-> req[r].row.name, password |-> req[r].known,
           overlapped |-> req[r].overlapped, rewritten |-> FALSE]}
  /\ req' = [req EXCEPT ![r] = Idle]
  /\ UNCHANGED <<users, spent, mails, tokens, opened, faults>>

\* A signed-in request whose handler changes its session: ensureCsrfToken gives
\* it a token, showLogin a page to return to.
LoadSession(r) == \E s \in sessions :
  /\ req[r] = Idle
  /\ req' = [req EXCEPT ![r] =
       [Idle EXCEPT !.at = "save", !.kind = "page", !.user = s.user, !.known = s.password,
                    !.session = s,
                    !.overlapped = s.overlapped \/ s.rewritten \/ BeingClosed(s.user)]]
  /\ UNCHANGED <<users, spent, sessions, mails, tokens, opened, faults>>

\* The end of its response: connect-pg-simple inserts the row or, where there
\* is one, writes it over, once nobody holds it in order to delete it.
SaveSession(r) ==
  /\ req[r].at = "save"
  /\ \A q \in Requests : \A t \in req[q].doomed : t.sid # req[r].session.sid
  /\ sessions' = {t \in sessions : t.sid # req[r].session.sid}
                   \cup {[req[r].session EXCEPT !.rewritten = req[r].overlapped]}
  /\ req' = [req EXCEPT ![r] = Idle]
  /\ UNCHANGED <<users, spent, mails, tokens, opened, faults>>

\* A logout, the session a new one replaces, two hours without a request.
SessionEnds(s) ==
  /\ sessions' = sessions \ {s}
  /\ UNCHANGED <<users, spent, mails, req, tokens, opened, faults>>

-----------------------------------------------------------------------------
(* The account page, behind requireLogin                                   *)

SignedIn == {u \in Live : \E s \in sessions : s.user = u}

\* changeAccountUsername: findOtherUserByUsername.
Rename(r) == \E u \in SignedIn, name \in Names :
  /\ \A v \in Live : users[v].name # name
  /\ Begin(r, "rename", u, name)

\* requestAccountEmailChange: findOtherUserByEmail.
RequestEmailChange(r) == \E u \in SignedIn, email \in Addresses :
  /\ users[u].email # email
  /\ \A v \in Live \ {u} : users[v].email # email /\ users[v].pending # email
  /\ BeginWithToken(r, "email", u, email)

\* changeAccountPassword.
ChangePassword(r) == \E u \in SignedIn, password \in Passwords :
  /\ users[u].password # password
  /\ Begin(r, "password", u, password)

\* Mutant of Pending: the token of an earlier request is kept.
KeepsToken(row, email, token) ==
  [row EXCEPT !.pending = email,
              !.pendingToken = IF row.pendingToken = 0 THEN token ELSE row.pendingToken]

Pending(row, email, token) == [row EXCEPT !.pending = email, !.pendingToken = token]

\* updateUsername, setPendingEmailChange, updatePasswordHash; a row that has
\* disappeared ends the request.
UpdateUser(r) ==
  /\ req[r].at = "write" /\ req[r].kind \in {"rename", "email", "password"}
  /\ ~Locked(req[r].user)
  /\ LET u == req[r].user
         asked == req[r].asked
     IN IF u \notin Live THEN req' = [req EXCEPT ![r] = Idle]
        ELSE \/ /\ req[r].kind = "rename"
                /\ Write(r, u, [users[u] EXCEPT !.name = asked], "clear")
             \/ /\ req[r].kind = "email"
                /\ Write(r, u, Pending(users[u], asked, req[r].token), "mail")
             \/ /\ req[r].kind = "password"
                /\ Write(r, u, [users[u] EXCEPT !.password = asked], "clear")
  /\ UNCHANGED <<users, spent, sessions, mails, tokens, opened, faults>>

\* deleteAccount: findUserAccountForDeletion holds the row before the password
\* is compared.
DeleteAccount(r) ==
  /\ req[r] = Idle
  /\ \E u \in SignedIn :
       /\ ~Locked(u)
       /\ req' = Changing(r, u, [req EXCEPT ![r] =
            [Idle EXCEPT !.at = "clear", !.kind = "delete", !.user = u, !.row = users[u]]])
  /\ UNCHANGED <<users, spent, sessions, mails, tokens, opened, faults>>

\* Mutant of SessionsOf: sessions under the old name are not found.
SessionsNamed(r) ==
  {s \in sessions : s.user = req[r].user /\ s.name = req[r].row.name}

\* deleteUserSessions: WHERE sess -> 'user' ->> 'id' = $1.
SessionsOf(r) == {s \in sessions : s.user = req[r].user}

\* The sessions that exist now are gone once the transaction commits.
DeleteUserSessions(r) ==
  /\ req[r].at = "clear"
  /\ req' = [req EXCEPT ![r].at = IF req[r].kind = "delete" THEN "remove" ELSE "commit",
                        ![r].doomed = SessionsOf(r)]
  /\ UNCHANGED <<users, spent, sessions, mails, tokens, opened, faults>>

\* deleteUserRecord.
DeleteUserRecord(r) ==
  /\ req[r].at = "remove"
  /\ req' = [req EXCEPT ![r].at = "commit", ![r].row = None]
  /\ UNCHANGED <<users, spent, sessions, mails, tokens, opened, faults>>

-----------------------------------------------------------------------------
Committed(r) ==
  /\ users' = [users EXCEPT ![req[r].user] = req[r].row]
  /\ sessions' = sessions \ req[r].doomed
  /\ mails' = [i \in DOMAIN mails |->
                [mails[i] EXCEPT !.committed = @ \/ mails[i].token = req[r].token]]

\* changeUsername and changePassword of the controller go on with a session.
SignsInAgain(r) ==
  [Idle EXCEPT !.at = "establish", !.kind = req[r].kind, !.user = req[r].user,
               !.row = req[r].row, !.overlapped = req[r].overlapped,
               !.known = IF req[r].kind = "password" THEN req[r].asked ELSE req[r].known]

Commit(r) ==
  /\ req[r].at = "commit"
  /\ Committed(r)
  /\ req' = [req EXCEPT ![r] = IF req[r].kind \in {"rename", "password"} THEN SignsInAgain(r)
                                                                       ELSE Idle]
  /\ UNCHANGED <<spent, tokens, opened, faults>>

\* The answer to COMMIT is lost: the request fails, the change may be there.
CommitFails(r) ==
  /\ req[r].at = "commit"
  /\ Fault
  /\ Committed(r) \/ UNCHANGED <<users, sessions, mails>>
  /\ req' = [req EXCEPT ![r] = Idle]
  /\ UNCHANGED <<spent, tokens, opened>>

\* A mail that is refused, a lost connection: ROLLBACK.
RollBack(r) ==
  /\ r \in Holding
  /\ Fault
  /\ req' = [req EXCEPT ![r] = Idle]
  /\ UNCHANGED <<users, spent, sessions, mails, tokens, opened>>

Next ==
  \/ \E r \in Requests :
       \/ \E name \in Names, email \in Addresses : Register(r, name, email)
       \/ CreateUser(r) \/ Resend(r) \/ UpdateVerificationToken(r) \/ SendMail(r)
       \/ Login(r) \/ Establish(r) \/ LoadSession(r) \/ SaveSession(r)
       \/ Rename(r) \/ RequestEmailChange(r) \/ ChangePassword(r) \/ DeleteAccount(r)
       \/ UpdateUser(r) \/ DeleteUserSessions(r) \/ DeleteUserRecord(r)
       \/ Commit(r) \/ CommitFails(r) \/ RollBack(r)
  \/ OpenLink
  \/ \E s \in sessions : SessionEnds(s)

Spec == Init /\ [][Next]_vars

-----------------------------------------------------------------------------
(* Properties                                                              *)

\* An account counts as verified only for an address from which a link mailed
\* to it was opened, across resends and address changes that overtake each
\* other (verifyUserEmailByToken, verifyPendingEmailChangeByToken).
AddressWasConfirmed == \A u \in Live :
  users[u].verified => <<u, users[u].email>> \in opened

CommittedLinks(u, purpose) ==
  {i \in DOMAIN mails : mails[i].user = u /\ mails[i].purpose = purpose /\ mails[i].committed}

\* The links left in the order of their positions.
Newest(links) == {i \in links : \A j \in links : j <= i}

\* Of the links that left for an account and were committed, the last one is
\* the one that works, and it went to the address it confirms: two resends or
\* two change requests keep the order of their mails and of their commits.
LastLinkWorks == \A u \in Live :
  /\ ~users[u].verified => \E i \in Newest(CommittedLinks(u, "verify")) :
        users[u].token = mails[i].token /\ users[u].email = mails[i].address
  /\ users[u].pending # None => \E i \in Newest(CommittedLinks(u, "change")) :
        users[u].pendingToken = mails[i].token /\ users[u].pending = mails[i].address

\* The links of registration, resending and address change do what they say.
LinksAreSound == AddressWasConfirmed /\ LastLinkWorks

\* A session that outlives a rename, a password change or a deletion of its
\* account was opened, or written back at the end of a response, by a request
\* that overlapped that change: any other session belongs to an account that
\* exists, under its current name, and was opened with its current password
\* (deleteUserSessions inside the transactions of account.service.js).
OnlyOverlappedSessionsAreOutdated == \A s \in sessions :
  ~s.overlapped /\ ~s.rewritten =>
    /\ s.user \in Live
    /\ s.name = users[s.user].name
    /\ s.password = users[s.user].password

=============================================================================
