--------------------------- MODULE AccountsProofs ---------------------------
(***************************************************************************)
(* What Accounts promises for any number of accounts and requests: mailed  *)
(* links confirm what they were mailed for, and a session that nothing     *)
(* overlapped is of an account as it is.                                   *)
(***************************************************************************)
EXTENDS Accounts, TLAPS

-----------------------------------------------------------------------------
(* The inductive invariant: types.                                         *)

Mailing == {"register", "resend", "email"}

Signing == {"login", "rename", "password"}

\* A request that knows a password: it is given its session when it signs in,
\* or loads the one it has.
Knowing == Signing \cup {"page"}

SessionRows ==
  [sid : Sids, user : Users, name : Names, password : Passwords, overlapped : BOOLEAN,
   rewritten : BOOLEAN]

Letters ==
  [user : Users, token : Nat \ {0}, committed : BOOLEAN, address : Addresses,
   purpose : {"verify", "change"}]

NewAccounts == [name : Names, email : Addresses, password : Passwords]

Steps ==
  [at : {"idle", "write", "mail", "clear", "remove", "commit", "establish", "save"},
   kind : {"none", "page"} \cup Mailing \cup Closing \cup Signing,
   user : Users \cup {None}, row : AccountRows \cup {None},
   asked : NewAccounts \cup Names \cup Addresses \cup Passwords \cup {None},
   known : Passwords \cup {None}, session : SessionRows \cup {None}, token : Nat, doomed : SUBSET SessionRows,
   overlapped : BOOLEAN]

Typed ==
  /\ users \in [Users -> AccountRows \cup {None}]
  /\ spent \subseteq Users
  /\ sessions \subseteq SessionRows
  /\ mails \in Seq(Letters)
  /\ req \in [Requests -> Steps]
  /\ tokens \in Nat

-----------------------------------------------------------------------------
(* One request.                                                            *)

Trusted(u) == users[u].verified

\* What a request carries from one await to the next.
Carried(r) ==
  /\ req[r].at = "idle" => req[r].kind = "none"
  /\ req[r].kind = "none" => req[r].at = "idle"
  /\ req[r].at = "write" => req[r].kind \in {"register", "resend", "rename", "email", "password"}
  /\ req[r].at = "mail" => req[r].kind \in Mailing
  /\ req[r].at = "clear" => req[r].kind \in Closing
  /\ req[r].at = "remove" => req[r].kind = "delete"
  /\ req[r].at = "commit" => req[r].kind \in Mailing \cup Closing
  /\ req[r].at = "establish" => req[r].kind \in Signing /\ req[r].row # None
  /\ req[r].kind = "page" <=> req[r].at = "save"
  /\ req[r].kind = "page" => /\ req[r].session \in SessionRows
                            /\ req[r].session.user = req[r].user
                            /\ req[r].session.password = req[r].known
  /\ req[r].kind \in Knowing <=> req[r].known # None
  /\ req[r].token # 0 <=> req[r].kind \in Mailing
  /\ req[r].token <= tokens

\* What was asked for, and the account it is about.
Asked(r) ==
  /\ req[r].kind = "register" => req[r].asked \in NewAccounts
  /\ req[r].kind = "email" => req[r].asked \in Addresses
  /\ req[r].kind = "rename" /\ req[r].at # "establish" => req[r].asked \in Names
  /\ req[r].kind = "password" /\ req[r].at # "establish" => req[r].asked \in Passwords
  /\ req[r].user \notin spent =>
        /\ req[r].user = None
        /\ req[r].at = "idle" \/ (req[r].kind = "register" /\ req[r].at = "write")

\* The row that COMMIT will write, against the one that is there.
NewRow(r) ==
  [name |-> req[r].asked.name, email |-> req[r].asked.email,
   password |-> req[r].asked.password, verified |-> FALSE,
   token |-> req[r].token, pending |-> None, pendingToken |-> 0]

Written(r) == r \in Holding =>
  LET old == users[req[r].user]
      new == req[r].row
  IN /\ req[r].kind = "register" => old = None /\ new = NewRow(r)
     /\ req[r].kind # "register" => old # None
     /\ req[r].kind = "resend" => ~old.verified /\ new = [old EXCEPT !.token = req[r].token]
     /\ req[r].kind = "email" => new = Pending(old, req[r].asked, req[r].token)
     /\ req[r].kind = "rename" => new = [old EXCEPT !.name = req[r].asked]
     /\ req[r].kind = "password" => new = [old EXCEPT !.password = req[r].asked]
     /\ req[r].kind = "delete" => IF req[r].at = "commit" THEN new = None ELSE new = old

\* The sessions that a request will have ended, or never had.
Dooms(r) ==
  /\ req[r].kind \in Closing /\ req[r].at \in {"remove", "commit"} =>
        (\A s \in sessions : s.user = req[r].user /\ ~s.overlapped /\ ~s.rewritten => s \in req[r].doomed)
  /\ req[r].kind = "register" /\ r \in Holding => \A s \in sessions : s.user # req[r].user
  /\ req[r].kind \in Mailing => req[r].doomed = {}

\* What a handler has read is still so, unless something overlapped it.
Reads(r) ==
  /\ req[r].known # None /\ ~req[r].overlapped =>
        /\ req[r].user \in Live
        /\ users[req[r].user].password = req[r].known
        /\ (req[r].at = "establish" => users[req[r].user].name = req[r].row.name)
        /\ (req[r].at = "save" => users[req[r].user].name = req[r].session.name)
  /\ req[r].kind \in Knowing \cup {"email"} /\ req[r].user \in Live =>
        Trusted(req[r].user)

\* A token is in one letter, and that letter is the last one to its account
\* when the transaction commits.
Posted(r) ==
  /\ req[r].kind \in Mailing /\ req[r].at \in {"write", "mail"} =>
        \A i \in DOMAIN mails : mails[i].token # req[r].token
  /\ req[r].kind \in Mailing /\ req[r].at = "commit" =>
        \E i \in DOMAIN mails :
           /\ mails[i] = Letter(r)
           /\ \A j \in DOMAIN mails : j > i => mails[j].user # req[r].user

RequestOK(r) == Carried(r) /\ Asked(r) /\ Written(r) /\ Dooms(r) /\ Reads(r) /\ Posted(r)

\* Two requests: they hold different accounts, have different tokens, and one
\* that reads an account while another ends its sessions knows it.
Apart(r, q) ==
  /\ r \in Holding /\ q \in Holding => req[r].user # req[q].user
  /\ r \in Holding /\ req[r].kind = "register" => req[q].user # req[r].user
  /\ r \in Holding /\ req[r].kind \in Closing /\ req[q].user = req[r].user =>
        (req[q].known # None => req[q].overlapped)
  /\ req[q].token = req[r].token => req[r].token = 0

-----------------------------------------------------------------------------
(* The tables.                                                             *)

Rows ==
  /\ Live \subseteq spent
  /\ \A u \in Live :
        /\ Trusted(u) => users[u].token = 0
        /\ users[u].pending # None => Trusted(u)
  /\ \A s \in sessions :
        /\ s.user \in spent
        /\ s.user \in Live => Trusted(s.user)

OneLetterPerToken ==
  /\ \A i, j \in DOMAIN mails : mails[i].token = mails[j].token => i = j
  /\ \A i \in DOMAIN mails : mails[i].token <= tokens

IInv ==
  /\ Typed
  /\ \A r \in Requests : RequestOK(r)
  /\ \A r \in Requests : \A q \in Requests \ {r} : Apart(r, q)
  /\ Rows /\ OneLetterPerToken
  /\ LinksAreSound /\ OnlyOverlappedSessionsAreOutdated

-----------------------------------------------------------------------------
LEMMA InitIInv == ASSUME Init PROVE IInv
  <1> USE AccountsAssumption
  <1>1. Idle \in Steps
    BY DEF Idle, Steps
  <1>2. Typed
    BY <1>1 DEF Init, Typed
  <1>3. \A r \in Requests : req[r] = Idle
    BY DEF Init
  <1>4. Live = {} /\ sessions = {} /\ mails = <<>> /\ Holding = {}
    BY <1>3 DEF Init, Live, Holding, Idle
  <1>5. ASSUME NEW r \in Requests
        PROVE  RequestOK(r)
    <2>1. Carried(r) /\ Asked(r)
      BY <1>2, <1>3 DEF Carried, Asked, Idle, Mailing, Signing, Knowing, Closing, Typed
    <2>2. Written(r) /\ Dooms(r) /\ Reads(r) /\ Posted(r)
      BY <1>3, <1>4 DEF Written, Dooms, Reads, Posted, Idle, Mailing, Signing, Knowing, Closing
    <2> QED BY <2>1, <2>2 DEF RequestOK
  <1>6. \A r \in Requests : \A q \in Requests \ {r} : Apart(r, q)
    BY <1>3, <1>4 DEF Apart, Idle
  <1>7. Rows /\ OneLetterPerToken
    BY <1>4 DEF Rows, OneLetterPerToken
  <1>8. LinksAreSound /\ OnlyOverlappedSessionsAreOutdated
    BY <1>4 DEF LinksAreSound, AddressWasConfirmed, LastLinkWorks, OnlyOverlappedSessionsAreOutdated
  <1> QED BY <1>2, <1>5, <1>6, <1>7, <1>8 DEF IInv

-----------------------------------------------------------------------------
(* What a step of one request leaves of the others.                        *)

\* As it was, except that something may have overlapped it.
Alike(q) ==
  /\ req'[q].at = req[q].at /\ req'[q].kind = req[q].kind /\ req'[q].user = req[q].user
  /\ req'[q].row = req[q].row /\ req'[q].asked = req[q].asked
  /\ req'[q].known = req[q].known /\ req'[q].token = req[q].token
  /\ req'[q].doomed = req[q].doomed /\ req'[q].session = req[q].session
  /\ req[q].overlapped => req'[q].overlapped

LEMMA LettersTyped ==
  ASSUME Typed, NEW i \in DOMAIN mails
  PROVE  mails[i] \in Letters /\ mails[i].token \in Nat \ {0}
  <1>1. mails[i] \in Letters
    BY DEF Typed
  <1> QED BY <1>1 DEF Letters

LEMMA HoldingIs ==
  ASSUME NEW q \in Requests
  PROVE  q \in Holding <=> req[q].at \in {"mail", "clear", "remove", "commit"}
  BY DEF Holding

LEMMA AlikeHolds ==
  ASSUME NEW q \in Requests, Alike(q)
  PROVE  q \in Holding' <=> q \in Holding
  BY DEF Alike, Holding

LEMMA AlikeCarries ==
  ASSUME NEW q \in Requests, Alike(q), Typed, tokens' \in Nat, tokens <= tokens', spent \subseteq spent',
         Carried(q), Asked(q)
  PROVE  Carried(q)' /\ Asked(q)'
  <1>1. req[q].token \in Nat /\ tokens \in Nat
    BY DEF Typed, Steps
  <1>2. Carried(q)'
    BY <1>1 DEF Alike, Carried
  <1>3. Asked(q)'
    BY DEF Alike, Asked
  <1> QED BY <1>2, <1>3

LEMMA AlikeWritten ==
  ASSUME NEW q \in Requests, Alike(q), Written(q),
         q \in Holding => users'[req[q].user] = users[req[q].user]
  PROVE  Written(q)'
  <1>1. NewRow(q)' = NewRow(q)
    BY DEF Alike, NewRow
  <1>2. q \in Holding' <=> q \in Holding
    BY AlikeHolds
  <1> QED BY <1>1, <1>2 DEF Alike, Written

LEMMA AlikeDooms ==
  ASSUME NEW q \in Requests, Alike(q), Dooms(q), sessions' \subseteq sessions
  PROVE  Dooms(q)'
  BY AlikeHolds DEF Alike, Dooms

\* What matters of an account to who has read it.
SameTo(u) ==
  /\ u \in Live' <=> u \in Live
  /\ u \in Live =>
        /\ users'[u].name = users[u].name /\ users'[u].password = users[u].password
        /\ Trusted(u) => Trusted(u)'

LEMMA AlikeReads ==
  ASSUME NEW q \in Requests, Alike(q), Reads(q), SameTo(req[q].user)
  PROVE  Reads(q)'
  BY DEF Alike, Reads, SameTo

LEMMA AlikeLetter ==
  ASSUME NEW q \in Requests, Alike(q)
  PROVE  Letter(q)' = Letter(q)
  BY DEF Alike, Letter

LEMMA AlikePosted ==
  ASSUME NEW q \in Requests, Alike(q), Posted(q), UNCHANGED mails
  PROVE  Posted(q)'
  <1>1. Letter(q)' = Letter(q)
    BY AlikeLetter
  <1> QED BY <1>1 DEF Alike, Posted

LEMMA AlikeApart ==
  ASSUME NEW q \in Requests, NEW p \in Requests, Alike(q), Alike(p), Apart(q, p)
  PROVE  Apart(q, p)'
  BY AlikeHolds DEF Alike, Apart

\* A step that changes requests only.
LEMMA RequestStepKeeps ==
  ASSUME IInv, NEW r \in Requests,
         UNCHANGED <<users, sessions, mails, opened>>,
         spent \subseteq spent', spent' \subseteq Users, tokens' \in Nat, tokens <= tokens',
         req' \in [Requests -> Steps],
         \A q \in Requests \ {r} : Alike(q),
         RequestOK(r)',
         \A q \in Requests \ {r} : Apart(r, q)' /\ Apart(q, r)'
  PROVE  IInv'
  <1>1. Typed'
    BY DEF IInv, Typed
  <1>2. ASSUME NEW q \in Requests \ {r}
        PROVE  RequestOK(q)'
    <2>1. RequestOK(q) /\ Alike(q) /\ Typed
      BY DEF IInv
    <2>2. SameTo(req[q].user)
      <3>1. Live' = Live
        BY DEF Live
      <3>2. Trusted(req[q].user) => Trusted(req[q].user)'
        <4>1. req'[q].user = req[q].user /\ users' = users
          BY <2>1 DEF Alike
        <4> QED BY <4>1, Zenon DEF Trusted
      <3> QED BY <3>1, <3>2 DEF SameTo
    <2> QED BY <2>1, <2>2, AlikeCarries, AlikeWritten, AlikeDooms, AlikeReads, AlikePosted
            DEF RequestOK
  <1>3. ASSUME NEW q \in Requests, NEW p \in Requests \ {q}
        PROVE  Apart(q, p)'
    <2>1. CASE q = r \/ p = r
      BY <2>1
    <2>2. CASE q # r /\ p # r
      BY <2>2, AlikeApart DEF IInv
    <2> QED BY <2>1, <2>2
  <1>4. Rows'
    <2>1. Live' = Live
      BY DEF Live
    <2>2. \A u : Trusted(u)' = Trusted(u)
      BY Zenon DEF Trusted
    <2> QED BY <2>1, <2>2 DEF IInv, Rows
  <1>5. OneLetterPerToken'
    <2>1. OneLetterPerToken
      BY DEF IInv
    <2>2. ASSUME NEW i \in DOMAIN mails PROVE mails[i].token <= tokens'
      <3>1. mails[i].token \in Nat /\ tokens \in Nat
        BY LettersTyped DEF IInv, Typed
      <3>2. mails[i].token <= tokens
        BY <2>1 DEF OneLetterPerToken
      <3> QED BY <3>1, <3>2
    <2> QED BY <2>1, <2>2 DEF OneLetterPerToken
  <1>6. LinksAreSound' /\ OnlyOverlappedSessionsAreOutdated'
    BY DEF IInv, LinksAreSound, AddressWasConfirmed, LastLinkWorks, Newest, CommittedLinks,
       OnlyOverlappedSessionsAreOutdated, Live
  <1> QED BY <1>1, <1>2, <1>3, <1>4, <1>5, <1>6 DEF IInv

-----------------------------------------------------------------------------
(* A handler begins, or gives up.                                          *)

LEMMA IdleIsOK ==
  ASSUME NEW r \in Requests, req'[r] = Idle, tokens' \in Nat
  PROVE  RequestOK(r)'
  <1> USE AccountsAssumption
  <1>1. r \notin Holding'
    BY DEF Holding, Idle
  <1>2. Carried(r)' /\ Asked(r)'
    BY DEF Carried, Asked, Idle, Mailing, Signing, Knowing, Closing
  <1>3. Written(r)' /\ Dooms(r)' /\ Reads(r)' /\ Posted(r)'
    BY <1>1 DEF Written, Dooms, Reads, Posted, Idle, Mailing, Signing, Knowing, Closing
  <1> QED BY <1>2, <1>3 DEF RequestOK

LEMMA IdleIsApart ==
  ASSUME IInv, NEW r \in Requests, NEW q \in Requests \ {r}, req'[r] = Idle, Alike(q)
  PROVE  Apart(r, q)' /\ Apart(q, r)'
  <1> USE AccountsAssumption
  <1>1. r \notin Holding'
    BY DEF Holding, Idle
  <1>2. (q \in Holding)' => req'[q].user # None
    <2>1. q \in Holding => req[q].user \in spent
      BY HoldingIs DEF IInv, RequestOK, Asked
    <2> QED BY <2>1, AlikeHolds DEF Alike, IInv, Typed
  <1> QED BY <1>1, <1>2 DEF Apart, Idle

LEMMA GivesUp ==
  ASSUME IInv, NEW r \in Requests, req' = [req EXCEPT ![r] = Idle],
         UNCHANGED <<users, sessions, mails, opened, tokens>>,
         spent \subseteq spent', spent' \subseteq Users
  PROVE  IInv'
  <1> USE AccountsAssumption
  <1>1. Idle \in Steps
    BY DEF Idle, Steps
  <1>2. /\ req' \in [Requests -> Steps] /\ req'[r] = Idle
        /\ \A q \in Requests \ {r} : req'[q] = req[q]
    BY <1>1 DEF IInv, Typed
  <1>3. \A q \in Requests \ {r} : Alike(q)
    BY <1>2 DEF Alike
  <1>4. tokens' \in Nat /\ tokens <= tokens'
    BY DEF IInv, Typed
  <1>5. RequestOK(r)'
    BY <1>2, <1>4, IdleIsOK
  <1>6. \A q \in Requests \ {r} : Apart(r, q)' /\ Apart(q, r)'
    BY <1>2, <1>3, IdleIsApart
  <1> QED BY <1>2, <1>3, <1>4, <1>5, <1>6, RequestStepKeeps

\* A handler that has made a token: registration, resending, address change.
LEMMA BeginWithTokenKeeps ==
  ASSUME IInv, NEW r \in Requests, NEW kind, NEW u, NEW asked, BeginWithToken(r, kind, u, asked),
         kind \in Mailing,
         IF kind = "register" THEN u = None ELSE u \in Live,
         kind = "register" => asked \in NewAccounts,
         kind = "resend" => asked = None,
         kind = "email" => asked \in Addresses,
         kind = "email" => Trusted(u)
  PROVE  IInv'
  <1> USE AccountsAssumption
  <1> DEFINE new == [Idle EXCEPT !.at = "write", !.kind = kind, !.user = u,
                                 !.asked = asked, !.token = tokens + 1]
  <1>1. /\ req' = [req EXCEPT ![r] = new] /\ tokens' = tokens + 1
        /\ UNCHANGED <<users, spent, sessions, mails, opened, faults>>
    BY DEF BeginWithToken
  <1>2. /\ tokens \in Nat /\ u \in Users \cup {None}
        /\ u # None => u \in spent
    <2>1. tokens \in Nat /\ Live \subseteq Users /\ Live \subseteq spent
      BY DEF IInv, Typed, Live, Rows
    <2> QED BY <2>1
  <1>3. /\ new.at = "write" /\ new.kind = kind /\ new.user = u /\ new.row = None
        /\ new.asked = asked /\ new.known = None /\ new.token = tokens + 1
        /\ new.doomed = {} /\ new.overlapped = FALSE
    BY DEF Idle
  <1>4. new \in Steps
    <2>1. /\ kind \in Mailing /\ tokens + 1 \in Nat
          /\ asked \in NewAccounts \cup Names \cup Addresses \cup Passwords \cup {None}
      BY <1>2 DEF Mailing
    <2> QED BY <1>2, <2>1 DEF Idle, Steps
  <1> HIDE DEF new
  <1>5. /\ req' \in [Requests -> Steps] /\ req'[r] = new
        /\ \A q \in Requests \ {r} : req'[q] = req[q]
    BY <1>1, <1>4 DEF IInv, Typed
  <1>6. \A q \in Requests \ {r} : Alike(q)
    BY <1>5 DEF Alike
  <1>7. r \notin Holding'
    BY <1>3, <1>5 DEF Holding
  <1>8. RequestOK(r)'
    <2>1. Carried(r)' /\ Asked(r)'
      <3>1. /\ req'[r].at = "write" /\ req'[r].kind = kind /\ req'[r].user = u
            /\ req'[r].asked = asked /\ req'[r].known = None /\ req'[r].token = tokens'
            /\ tokens' # 0 /\ tokens' \in Nat
        BY <1>1, <1>2, <1>3, <1>5
      <3>2. kind \in Mailing /\ kind \notin Knowing /\ kind # "none" /\ kind # "rename"
              /\ kind # "password" /\ kind # "page"
        BY DEF Mailing, Signing, Knowing
      <3>3. Carried(r)'
        BY <3>1, <3>2 DEF Carried, Mailing, Signing, Knowing
      <3>4. kind = "register" \/ u \in spent'
        <4>1. kind # "register" => u \in Live
          OBVIOUS
        <4>2. Live \subseteq Users
          BY DEF Live
        <4> QED BY <1>1, <1>2, <4>1, <4>2
      <3>5. Asked(r)'
        <4> HIDE DEF Live
        <4> QED BY <3>1, <3>2, <3>4 DEF Asked
      <3> QED BY <3>3, <3>5
    <2>2. Written(r)' /\ Dooms(r)'
      BY <1>3, <1>5, <1>7 DEF Written, Dooms, Closing
    <2>3. Reads(r)'
      <3>1. kind = "email" => Trusted(u)'
        BY <1>1, Zenon DEF Trusted
      <3>2. req'[r].kind = kind /\ req'[r].user = u /\ req'[r].known = None
        BY <1>3, <1>5
      <3>3. kind \notin Knowing
        BY DEF Signing, Knowing, Mailing
      <3> QED BY <3>1, <3>2, <3>3, Zenon DEF Reads
    <2>4. Posted(r)'
      <3>1. \A i \in DOMAIN mails : mails[i].token \in Nat /\ mails[i].token <= tokens
        BY LettersTyped DEF IInv, OneLetterPerToken
      <3>2. \A i \in DOMAIN mails : mails[i].token # tokens + 1
        BY <1>2, <3>1
      <3> QED BY <1>1, <1>3, <1>5, <3>2 DEF Posted
    <2> QED BY <2>1, <2>2, <2>3, <2>4 DEF RequestOK
  <1>9. ASSUME NEW q \in Requests \ {r}
        PROVE  Apart(r, q)' /\ Apart(q, r)'
    <2>1. req[q].token \in Nat /\ req[q].token <= tokens
      BY DEF IInv, Typed, Steps, RequestOK, Carried
    <2>2. req'[q].token # req'[r].token
      BY <1>2, <1>3, <1>5, <2>1
    <2>3. q \in Holding' /\ req'[q].kind = "register" => req'[r].user # req'[q].user
      <3>1. q \in Holding /\ req[q].kind = "register" => users[req[q].user] = None
        BY DEF IInv, RequestOK, Written
      <3>2. q \in Holding => req[q].user \in spent
        BY HoldingIs DEF IInv, RequestOK, Asked
      <3> QED BY <1>3, <1>5, <1>6, <3>1, <3>2, AlikeHolds DEF Live, IInv, Typed
    <2> QED BY <1>3, <1>5, <1>7, <2>2, <2>3 DEF Apart
  <1>10. spent \subseteq spent' /\ spent' \subseteq Users /\ tokens' \in Nat /\ tokens <= tokens'
    BY <1>1, <1>2 DEF IInv, Typed
  <1> QED BY <1>1, <1>5, <1>6, <1>8, <1>9, <1>10, RequestStepKeeps

\* A handler that reads an account and compares its password.
HasRead(new, kind, u, asked) ==
  /\ new.at = (IF kind = "login" THEN "establish" ELSE "write")
  /\ new.row = (IF kind = "login" THEN users[u] ELSE None)
  /\ new.kind = kind /\ new.user = u /\ new.known = users[u].password /\ new.token = 0
  /\ new.asked = asked

KnowsOfOverlap(new, u) ==
  \A q \in Holding : req[q].user = u /\ req[q].kind \in Closing => new.overlapped = TRUE

LEMMA ReadingKeeps ==
  ASSUME IInv, NEW r \in Requests, NEW kind \in Signing, NEW u \in Live, NEW asked, NEW new,
         Trusted(u),
         HasRead(new, kind, u, asked), KnowsOfOverlap(new, u), new \in Steps,
         kind = "rename" => asked \in Names,
         kind = "password" => asked \in Passwords,
         req' = [req EXCEPT ![r] = new],
         UNCHANGED <<users, sessions, mails, opened, tokens, spent>>
  PROVE  IInv'
  <1> USE AccountsAssumption
  <1>1. /\ req' \in [Requests -> Steps] /\ req'[r] = new
        /\ \A q \in Requests \ {r} : req'[q] = req[q]
    BY DEF IInv, Typed
  <1>2. \A q \in Requests \ {r} : Alike(q)
    BY <1>1 DEF Alike
  <1> USE DEF HasRead
  <1>3. r \notin Holding'
    BY <1>1 DEF Holding
  <1>4. u \in Users /\ users[u] # None /\ u \in spent /\ users[u].password \in Passwords
    <2>1. u \in Users /\ users[u] # None /\ Live \subseteq spent
      BY DEF Live, IInv, Rows
    <2>2. users[u] \in AccountRows
      BY <2>1 DEF IInv, Typed
    <2> QED BY <2>1, <2>2 DEF AccountRows
  <1>5. RequestOK(r)'
    <2>1. Carried(r)' /\ Asked(r)'
      <3>1. tokens' \in Nat /\ spent' = spent
        BY DEF IInv, Typed
      <3>2. Carried(r)'
        BY <1>1, <1>4, <3>1 DEF Carried, Signing, Knowing, Mailing
      <3>3. Asked(r)'
        BY <1>1, <1>4, <3>1 DEF Asked, Signing, Knowing
      <3> QED BY <3>2, <3>3
    <2>2. Written(r)' /\ Dooms(r)' /\ Posted(r)'
      BY <1>1, <1>3 DEF Written, Dooms, Posted, Signing, Knowing, Closing, Mailing
    <2>3. Reads(r)'
      <3>1. Live' = Live /\ Trusted(u)'
        BY Zenon DEF Live, Trusted
      <3> QED BY <1>1, <3>1 DEF Reads
    <2> QED BY <2>1, <2>2, <2>3 DEF RequestOK
  <1>6. ASSUME NEW q \in Requests \ {r}
        PROVE  Apart(r, q)' /\ Apart(q, r)'
    <2>1. q \in Holding' /\ req'[q].kind = "register" => req'[r].user # req'[q].user
      <3>1. q \in Holding /\ req[q].kind = "register" => users[req[q].user] = None
        BY DEF IInv, RequestOK, Written
      <3> QED BY <1>1, <1>2, <1>4, <3>1, AlikeHolds
    <2>2. q \in Holding' /\ req'[q].kind \in Closing /\ req'[r].user = req'[q].user
            => req'[r].overlapped
      BY <1>1, <1>2, AlikeHolds DEF KnowsOfOverlap
    <2> QED BY <1>1, <1>3, <2>1, <2>2 DEF Apart
  <1>7. spent' \subseteq Users /\ tokens' \in Nat /\ tokens <= tokens'
    BY DEF IInv, Typed
  <1> QED BY <1>1, <1>2, <1>5, <1>6, <1>7, RequestStepKeeps

-----------------------------------------------------------------------------
(* A transaction gets hold of a row, and goes on.                          *)

\* Who has read the account is told that something overlaps.
Told(r, u) == \A q \in Requests \ {r} :
  req[q].user = u /\ req[q].known # None => req'[q].overlapped = TRUE

\* Only what a request is about to write changes.
Rewrites(r, next, u, row) ==
  /\ req'[r].at = next /\ req'[r].user = u /\ req'[r].row = row
  /\ req'[r].kind = req[r].kind /\ req'[r].asked = req[r].asked
  /\ req'[r].known = req[r].known /\ req'[r].token = req[r].token
  /\ req'[r].doomed = req[r].doomed /\ req'[r].overlapped = req[r].overlapped

LEMMA TakesRowKeeps ==
  ASSUME IInv, NEW r \in Requests, NEW u \in Users, ~Locked(u),
         UNCHANGED <<users, sessions, mails, opened, tokens>>,
         spent' = spent \cup {u},
         req' \in [Requests -> Steps],
         \A q \in Requests \ {r} : Alike(q),
         req'[r].kind \in Closing => Told(r, u),
         req'[r].user = u,
         req'[r].kind = "register" => u \notin spent,
         req'[r].token = req[r].token \/ req'[r].token = 0,
         RequestOK(r)'
  PROVE  IInv'
  <1> USE AccountsAssumption
  <1>1. ASSUME NEW q \in Requests \ {r}
        PROVE  Apart(r, q)' /\ Apart(q, r)'
    <2>1. Apart(r, q) /\ Apart(q, r) /\ Alike(q) /\ Asked(q)
      BY DEF IInv, RequestOK
    <2>2. q \in Holding' => req'[q].user # u
      BY <2>1, AlikeHolds DEF Locked, Alike
    <2>3. req'[r].kind = "register" => req'[q].user # u
      BY <2>1 DEF Alike, Asked
    <2>4. req'[q].token = req'[r].token => req'[r].token = 0 /\ req'[q].token = 0
      BY <2>1 DEF Alike, Apart
    <2>5. req'[r].kind \in Closing /\ req'[q].user = u => (req'[q].known # None => req'[q].overlapped)
      BY <2>1 DEF Alike, Told
    <2> QED BY <2>2, <2>3, <2>4, <2>5 DEF Apart
  <1>2. spent \subseteq spent' /\ spent' \subseteq Users /\ tokens' \in Nat /\ tokens <= tokens'
    BY DEF IInv, Typed
  <1> QED BY <1>1, <1>2, RequestStepKeeps

\* Inside the transaction, only where it stands changes.
LEMMA GoesOnKeeps ==
  ASSUME IInv, NEW r \in Holding, NEW new \in Steps,
         UNCHANGED <<users, sessions, mails, opened, tokens, spent>>,
         req' = [req EXCEPT ![r] = new],
         new.user = req[r].user, new.kind = req[r].kind, new.token = req[r].token,
         new.known = req[r].known, new.overlapped = req[r].overlapped,
         RequestOK(r)'
  PROVE  IInv'
  <1>1. /\ r \in Requests /\ req' \in [Requests -> Steps] /\ req'[r] = new
        /\ \A q \in Requests \ {r} : req'[q] = req[q]
    BY DEF IInv, Typed, Holding
  <1>2. ASSUME NEW q \in Requests \ {r}
        PROVE  Alike(q) /\ Apart(r, q)' /\ Apart(q, r)'
    <2>1. Apart(r, q) /\ Apart(q, r)
      BY <1>1 DEF IInv
    <2>2. Alike(q)
      BY <1>1 DEF Alike
    <2>3. q \in Holding' => q \in Holding
      BY <2>2, AlikeHolds
    <2> QED BY <1>1, <2>1, <2>2, <2>3 DEF Apart
  <1>3. spent' \subseteq Users /\ tokens' \in Nat /\ tokens <= tokens'
    BY DEF IInv, Typed
  <1> QED BY <1>1, <1>2, <1>3, RequestStepKeeps

LEMMA WriteIs ==
  ASSUME IInv, NEW r \in Requests, NEW u \in Users, NEW row \in AccountRows,
         NEW next \in {"mail", "clear"}, ~Duplicate(row, u), Write(r, u, row, next)
  PROVE  /\ ~Locked(u)
         /\ req' \in [Requests -> Steps]
         /\ Rewrites(r, next, u, row)
         /\ \A q \in Requests \ {r} : Alike(q)
         /\ req[r].kind \in Closing => Told(r, u)
  <1> DEFINE new == [req[r] EXCEPT !.at = next, !.user = u, !.row = row]
             written == [req EXCEPT ![r] = new]
  <1>1. /\ ~Locked(u)
        /\ req' = IF req[r].kind \in Closing THEN Changing(r, u, written) ELSE written
    <2>1. [req EXCEPT ![r].at = next, ![r].user = u, ![r].row = row] = written
      BY DEF IInv, Typed
    <2> QED BY <2>1 DEF Write
  <1>2. req \in [Requests -> Steps]
    BY DEF IInv, Typed
  <1>3. new \in Steps
    <2>1. req[r] \in Steps
      BY <1>2
    <2>2. next \in {"idle", "write", "mail", "clear", "remove", "commit", "establish", "save"}
      OBVIOUS
    <2> QED BY <2>1, <2>2 DEF Steps
  <1>4. /\ new.at = next /\ new.user = u /\ new.row = row
        /\ new.kind = req[r].kind /\ new.asked = req[r].asked /\ new.known = req[r].known
        /\ new.token = req[r].token /\ new.doomed = req[r].doomed
        /\ new.overlapped = req[r].overlapped
    <2>1. DOMAIN req[r] =
            {"at", "kind", "user", "row", "asked", "known", "session", "token", "doomed",
             "overlapped"}
      <3>1. req[r] \in Steps
        BY <1>2
      <3> QED BY <3>1 DEF Steps
    <2>2. new.at = next /\ new.user = u /\ new.row = row
      BY <2>1
    <2> QED BY <2>1, <2>2
  <1> HIDE DEF new
  <1>5. /\ written \in [Requests -> Steps] /\ written[r] = new
        /\ \A q \in Requests \ {r} : written[q] = req[q]
    BY <1>2, <1>3
  <1> HIDE DEF written
  <1>6. CASE req[r].kind \in Closing
    <2>1. ASSUME NEW q \in Requests
          PROVE  [written[q] EXCEPT !.overlapped = TRUE] \in Steps
      <3>1. written[q] \in Steps
        BY <1>5
      <3> QED BY <3>1 DEF Steps
    <2>2. req' = Changing(r, u, written)
      BY <1>1, <1>6
    <2>3. req' \in [Requests -> Steps]
      BY <1>5, <2>1, <2>2 DEF Changing
    <2>4. req'[r] = new
      BY <1>5, <2>2 DEF Changing
    <2>5. ASSUME NEW q \in Requests \ {r}
          PROVE  /\ Alike(q)
                 /\ req[q].user = u /\ req[q].known # None => req'[q].overlapped = TRUE
      <3>1. req'[q] = IF req[q].user = u /\ req[q].known # None
                        THEN [req[q] EXCEPT !.overlapped = TRUE] ELSE req[q]
        BY <1>5, <2>2 DEF Changing
      <3> QED BY <1>2, <3>1 DEF Alike, Steps
    <2>6. Rewrites(r, next, u, row)
      BY <2>4, <1>4 DEF Rewrites
    <2> QED BY <1>1, <2>3, <2>5, <2>6 DEF Told
  <1>7. CASE req[r].kind \notin Closing
    <2>1. req' = written
      BY <1>1, <1>7
    <2>2. Rewrites(r, next, u, row)
      BY <1>5, <1>4, <2>1 DEF Rewrites
    <2> QED BY <1>1, <1>5, <1>7, <2>1, <2>2 DEF Alike
  <1> QED BY <1>6, <1>7

\* The row a statement writes, for what its handler asked.
Meant(r, u, row) ==
  /\ req[r].kind = "register" => row = NewRow(r)
  /\ req[r].kind = "resend" => ~users[u].verified /\ row = [users[u] EXCEPT !.token = req[r].token]
  /\ req[r].kind = "email" => row = Pending(users[u], req[r].asked, req[r].token)
  /\ req[r].kind = "rename" => row = [users[u] EXCEPT !.name = req[r].asked]
  /\ req[r].kind = "password" => row = [users[u] EXCEPT !.password = req[r].asked]

\* A statement that wrote what its handler asked for.
LEMMA WriteKeeps ==
  ASSUME IInv, NEW r \in Requests, NEW u \in Users, NEW row \in AccountRows,
         NEW next \in {"mail", "clear"}, ~Duplicate(row, u), Write(r, u, row, next),
         UNCHANGED <<users, sessions, mails, opened, tokens>>,
         spent' = spent \cup {u},
         req[r].at = "write",
         next = IF req[r].kind \in Closing THEN "clear" ELSE "mail",
         IF req[r].kind = "register" THEN u \notin spent ELSE u = req[r].user /\ u \in Live,
         Meant(r, u, row)
  PROVE  IInv'
  <1> USE AccountsAssumption
  <1>1. /\ ~Locked(u)
        /\ req' \in [Requests -> Steps]
        /\ Rewrites(r, next, u, row)
        /\ \A q \in Requests \ {r} : Alike(q)
        /\ req[r].kind \in Closing => Told(r, u)
    BY WriteIs
  <1>2. req[r] \in Steps /\ RequestOK(r) /\ Rows
    BY DEF IInv, Typed
  <1>3. /\ req'[r].at = next /\ req'[r].user = u /\ req'[r].row = row
        /\ req'[r].kind = req[r].kind /\ req'[r].asked = req[r].asked
        /\ req'[r].known = req[r].known /\ req'[r].token = req[r].token
        /\ req'[r].doomed = req[r].doomed /\ req'[r].overlapped = req[r].overlapped
    BY <1>1 DEF Rewrites
  <1>4. req[r].kind \in {"register", "resend", "rename", "email", "password"}
    BY <1>2 DEF RequestOK, Carried
  <1>5. IF req[r].kind = "register" THEN users[u] = None ELSE users[u] # None
    BY <1>2 DEF Live, Rows
  <1>6. Carried(r)' /\ Asked(r)'
    <2>1. Carried(r)'
      <3>1. tokens' = tokens
        OBVIOUS
      <3>2. Carried(r)
        BY <1>2 DEF RequestOK
      <3>3. row # None
        OBVIOUS
      <3> QED BY <1>3, <1>4, <3>1, <3>2, <3>3 DEF Carried, Closing, Mailing
    <2>2. Asked(r)'
      BY <1>2, <1>3, <1>4 DEF RequestOK, Asked
    <2> QED BY <2>1, <2>2
  <1>7. Written(r)'
    <2>1. NewRow(r)' = NewRow(r)
      BY <1>3 DEF NewRow
    <2>2. users'[req'[r].user] = users[u]
      BY <1>3
    <2> QED BY <1>3, <1>4, <1>5, <2>1, <2>2 DEF Written, Meant
  <1>8. Dooms(r)'
    <2>1. req[r].kind = "register" => \A s \in sessions : s.user # u
      BY <1>2 DEF Rows
    <2>2. req[r].kind \in Mailing => req[r].doomed = {}
      BY <1>2 DEF RequestOK, Dooms
    <2> QED BY <1>3, <2>1, <2>2 DEF Dooms
  <1>9. Reads(r)'
    <2>1. req[r].kind = "register" => req[r].known = None /\ req[r].kind \notin Knowing
      BY <1>2 DEF RequestOK, Carried, Signing, Knowing
    <2>2. Live' = Live
      BY DEF Live
    <2>3. req[r].kind # "register" => (Trusted(req[r].user) => Trusted(req[r].user)')
      <3>1. req[r].kind # "register" => req'[r].user = req[r].user /\ users' = users
        BY <1>3
      <3> QED BY <3>1, Zenon DEF Trusted
    <2>4. Reads(r)
      BY <1>2 DEF RequestOK
    <2> QED BY <1>3, <2>1, <2>2, <2>3, <2>4 DEF Reads
  <1>10. Posted(r)'
    BY <1>2, <1>3 DEF RequestOK, Posted
  <1>11. /\ req'[r].kind = "register" => u \notin spent
         /\ req'[r].kind \in Closing => Told(r, u)
         /\ req'[r].user = u /\ req'[r].token = req[r].token
    BY <1>1, <1>3
  <1>12. RequestOK(r)'
    BY <1>6, <1>7, <1>8, <1>9, <1>10 DEF RequestOK
  <1> QED BY <1>1, <1>11, <1>12, TakesRowKeeps

-----------------------------------------------------------------------------
(* The handlers, up to their statements.                                   *)

LEMMA SignedInIsTrusted ==
  ASSUME IInv, NEW u \in SignedIn
  PROVE  u \in Live /\ Trusted(u)
  <1>1. u \in Live /\ \E s \in sessions : s.user = u
    BY DEF SignedIn
  <1> QED BY <1>1 DEF IInv, Rows

LEMMA RegisterKeeps ==
  ASSUME IInv, NEW r \in Requests, NEW name \in Names, NEW email \in Addresses,
         Register(r, name, email)
  PROVE  IInv'
  <1>1. PICK password \in Passwords :
          BeginWithToken(r, "register", None,
                         [name |-> name, email |-> email, password |-> password])
    BY DEF Register
  <1>2. [name |-> name, email |-> email, password |-> password] \in NewAccounts
    BY DEF NewAccounts
  <1>3. "register" \in Mailing
    BY DEF Mailing
  <1> QED BY <1>1, <1>2, <1>3, BeginWithTokenKeeps

LEMMA ResendKeeps ==
  ASSUME IInv, NEW r \in Requests, Resend(r)
  PROVE  IInv'
  <1>1. PICK u \in Live : BeginWithToken(r, "resend", u, None)
    BY DEF Resend
  <1>2. "resend" \in Mailing
    BY DEF Mailing
  <1> QED BY <1>1, <1>2, BeginWithTokenKeeps

LEMMA RequestEmailChangeKeeps ==
  ASSUME IInv, NEW r \in Requests, RequestEmailChange(r)
  PROVE  IInv'
  <1>1. PICK u \in SignedIn, email \in Addresses : BeginWithToken(r, "email", u, email)
    BY DEF RequestEmailChange
  <1>2. "email" \in Mailing /\ u \in Live /\ Trusted(u)
    BY SignedInIsTrusted DEF Mailing
  <1> QED BY <1>1, <1>2, BeginWithTokenKeeps

LEMMA LoginKeeps ==
  ASSUME IInv, NEW r \in Requests, Login(r)
  PROVE  IInv'
  <1> USE AccountsAssumption
  <1>1. PICK u \in Live :
          /\ users[u].verified
          /\ req' = [req EXCEPT ![r] =
               [Reading("login", u, None) EXCEPT !.at = "establish", !.row = users[u]]]
          /\ UNCHANGED <<users, spent, sessions, mails, tokens, opened, faults>>
    BY DEF Login
  <1> DEFINE new == [Reading("login", u, None) EXCEPT !.at = "establish", !.row = users[u]]
             told == BeingClosed(u)
  <1>2. u \in Users /\ users[u] # None /\ users[u] \in AccountRows /\ users[u].password \in Passwords
    <2>1. u \in Users /\ users[u] # None
      BY DEF Live
    <2>2. users[u] \in AccountRows
      BY <2>1 DEF IInv, Typed
    <2> QED BY <2>1, <2>2 DEF AccountRows
  <1> HIDE DEF told
  <1>3. /\ new.at = "establish" /\ new.kind = "login" /\ new.user = u
        /\ new.known = users[u].password /\ new.token = 0 /\ new.row = users[u]
        /\ new.asked = None /\ new.doomed = {} /\ new.overlapped = told
    BY DEF Reading, Idle, told
  <1>4. told \in BOOLEAN
    BY DEF told, BeingClosed
  <1>5. new \in Steps
    <2> DEFINE read == [Idle EXCEPT !.kind = "login", !.user = u, !.asked = None,
                                    !.known = users[u].password, !.overlapped = told]
    <2>1. Reading("login", u, None) = read
      BY DEF Reading, told
    <2>2. read \in Steps
      BY <1>2, <1>4 DEF Idle, Steps, Signing, Knowing
    <2> HIDE DEF read
    <2>3. [read EXCEPT !.at = "establish", !.row = users[u]] \in Steps
      BY <1>2, <2>2 DEF Steps
    <2> QED BY <2>1, <2>3
  <1> HIDE DEF new
  <1>6. KnowsOfOverlap(new, u)
    <2>1. ASSUME NEW q \in Holding, req[q].user = u, req[q].kind \in Closing PROVE told
      BY <2>1, Zenon DEF told, BeingClosed
    <2> QED BY <1>3, <1>4, <2>1 DEF KnowsOfOverlap
  <1>7. Trusted(u) /\ "login" \in Signing
    BY <1>1, Zenon DEF Trusted, Signing, Knowing
  <1>8. req' = [req EXCEPT ![r] = new]
    BY <1>1 DEF new
  <1>9. HasRead(new, "login", u, None)
    BY <1>3 DEF HasRead
  <1> QED BY <1>1, <1>5, <1>6, <1>7, <1>8, <1>9, ReadingKeeps

\* Rename and ChangePassword.
LEMMA BeginKeeps ==
  ASSUME IInv, NEW r \in Requests, NEW kind \in {"rename", "password"}, NEW u \in Live, NEW asked,
         Trusted(u),
         kind = "rename" => asked \in Names,
         kind = "password" => asked \in Passwords,
         Begin(r, kind, u, asked)
  PROVE  IInv'
  <1> USE AccountsAssumption
  <1> DEFINE new == [Reading(kind, u, asked) EXCEPT !.at = "write"]
             told == BeingClosed(u)
  <1>1. /\ req' = [req EXCEPT ![r] = new]
        /\ UNCHANGED <<users, spent, sessions, mails, tokens, opened, faults>>
    BY DEF Begin
  <1>2. u \in Users /\ users[u].password \in Passwords
    <2>1. u \in Users /\ users[u] # None
      BY DEF Live
    <2>2. users[u] \in AccountRows
      BY <2>1 DEF IInv, Typed
    <2> QED BY <2>1, <2>2 DEF AccountRows
  <1> HIDE DEF told
  <1>3. /\ new.at = "write" /\ new.kind = kind /\ new.user = u
        /\ new.known = users[u].password /\ new.token = 0 /\ new.row = None
        /\ new.asked = asked /\ new.doomed = {} /\ new.overlapped = told
    BY DEF Reading, Idle, told
  <1>4. told \in BOOLEAN
    BY DEF told, BeingClosed
  <1>5. new \in Steps
    <2> DEFINE read == [Idle EXCEPT !.kind = kind, !.user = u, !.asked = asked,
                                    !.known = users[u].password, !.overlapped = told]
    <2>1. Reading(kind, u, asked) = read
      BY DEF Reading, told
    <2>2. asked \in NewAccounts \cup Names \cup Addresses \cup Passwords \cup {None}
      OBVIOUS
    <2>3. read \in Steps
      BY <1>2, <1>4, <2>2 DEF Idle, Steps, Signing, Knowing
    <2> HIDE DEF read
    <2>4. [read EXCEPT !.at = "write"] \in Steps
      BY <2>3 DEF Steps
    <2> QED BY <2>1, <2>4
  <1> HIDE DEF new
  <1>6. KnowsOfOverlap(new, u)
    <2>1. ASSUME NEW q \in Holding, req[q].user = u, req[q].kind \in Closing PROVE told
      BY <2>1, Zenon DEF told, BeingClosed
    <2> QED BY <1>3, <1>4, <2>1 DEF KnowsOfOverlap
  <1>7. kind \in Signing /\ kind # "login"
    BY DEF Signing, Knowing
  <1>8. HasRead(new, kind, u, asked)
    BY <1>3, <1>7 DEF HasRead
  <1> QED BY <1>1, <1>5, <1>6, <1>7, <1>8, ReadingKeeps

LEMMA RenameKeeps ==
  ASSUME IInv, NEW r \in Requests, Rename(r)
  PROVE  IInv'
  <1>1. PICK u \in SignedIn, name \in Names : Begin(r, "rename", u, name)
    BY DEF Rename
  <1>2. u \in Live /\ Trusted(u)
    BY SignedInIsTrusted
  <1> QED BY <1>1, <1>2, BeginKeeps

LEMMA ChangePasswordKeeps ==
  ASSUME IInv, NEW r \in Requests, ChangePassword(r)
  PROVE  IInv'
  <1>1. PICK u \in SignedIn, password \in Passwords : Begin(r, "password", u, password)
    BY DEF ChangePassword
  <1>2. u \in Live /\ Trusted(u)
    BY SignedInIsTrusted
  <1> QED BY <1>1, <1>2, BeginKeeps

-----------------------------------------------------------------------------
(* The statements.                                                         *)

LEMMA StatementKeeps ==
  ASSUME IInv, NEW r \in Requests, NEW u \in Users, NEW row \in AccountRows,
         NEW next \in {"mail", "clear"}, Write(r, u, row, next),
         UNCHANGED <<users, sessions, mails, opened, tokens>>,
         spent' = spent \cup {u},
         req[r].at = "write",
         next = IF req[r].kind \in Closing THEN "clear" ELSE "mail",
         IF req[r].kind = "register" THEN u \notin spent ELSE u = req[r].user /\ u \in Live,
         Meant(r, u, row)
  PROVE  IInv'
  <1>1. CASE Duplicate(row, u)
    <2>1. req' = [req EXCEPT ![r] = Idle]
      BY <1>1 DEF Write
    <2>2. spent \subseteq spent' /\ spent' \subseteq Users
      BY DEF IInv, Typed
    <2> QED BY <2>1, <2>2, GivesUp
  <1>2. CASE ~Duplicate(row, u)
    BY <1>2, WriteKeeps
  <1> QED BY <1>1, <1>2

LEMMA CreateUserKeeps ==
  ASSUME IInv, NEW r \in Requests, CreateUser(r)
  PROVE  IInv'
  <1> USE AccountsAssumption
  <1>1. PICK u \in Users \ spent : Write(r, u, NewRow(r), "mail") /\ spent' = spent \cup {u}
    BY DEF CreateUser, NewRow
  <1>2. /\ req[r].at = "write" /\ req[r].kind = "register"
        /\ UNCHANGED <<users, sessions, mails, opened, tokens>>
    BY DEF CreateUser
  <1>3. NewRow(r) \in AccountRows
    <2>1. req[r].asked \in NewAccounts /\ req[r].token \in Nat
      BY <1>2 DEF IInv, RequestOK, Asked, Typed, Steps
    <2> QED BY <2>1 DEF NewRow, NewAccounts, AccountRows
  <1>4. Meant(r, u, NewRow(r)) /\ "mail" \in {"mail", "clear"} /\ "register" \notin Closing
    BY <1>2 DEF Meant, Closing
  <1> QED BY <1>1, <1>2, <1>3, <1>4, StatementKeeps

LEMMA LiveRow ==
  ASSUME IInv, NEW u \in Live
  PROVE  u \in Users /\ users[u] \in AccountRows /\ u \in spent /\ spent \cup {u} = spent
  <1>1. u \in Users /\ users[u] # None /\ u \in spent
    BY DEF Live, IInv, Rows
  <1> QED BY <1>1 DEF IInv, Typed

LEMMA UpdateVerificationTokenKeeps ==
  ASSUME IInv, NEW r \in Requests, UpdateVerificationToken(r)
  PROVE  IInv'
  <1> DEFINE u == req[r].user
  <1>1. /\ req[r].at = "write" /\ req[r].kind = "resend"
        /\ IF u \in Live /\ ~users[u].verified
             THEN Write(r, u, [users[u] EXCEPT !.token = req[r].token], "mail")
             ELSE req' = [req EXCEPT ![r] = Idle]
        /\ UNCHANGED <<users, spent, sessions, mails, opened, tokens>>
    BY DEF UpdateVerificationToken
  <1>2. CASE u \in Live /\ ~users[u].verified
    <2> DEFINE row == [users[u] EXCEPT !.token = req[r].token]
    <2>1. u \in Users /\ users[u] \in AccountRows /\ spent' = spent \cup {u}
      BY <1>1, <1>2, LiveRow
    <2>2. req[r].token \in Nat
      BY DEF IInv, Typed, Steps
    <2>3. row \in AccountRows
      BY <2>1, <2>2 DEF AccountRows
    <2>4. Meant(r, u, row) /\ "mail" \in {"mail", "clear"} /\ "resend" \notin Closing
      BY <1>1, <1>2 DEF Meant, Closing
    <2>5. Write(r, u, row, "mail")
      BY <1>1, <1>2
    <2> HIDE DEF row
    <2> QED BY <1>1, <1>2, <2>1, <2>3, <2>4, <2>5, StatementKeeps
  <1>3. CASE ~(u \in Live /\ ~users[u].verified)
    BY <1>1, <1>3, GivesUp DEF IInv, Typed
  <1> QED BY <1>2, <1>3

LEMMA UpdateUserKeeps ==
  ASSUME IInv, NEW r \in Requests, UpdateUser(r)
  PROVE  IInv'
  <1> DEFINE u == req[r].user
             asked == req[r].asked
  <1>1. /\ req[r].at = "write"
        /\ UNCHANGED <<users, spent, sessions, mails, opened, tokens>>
    BY DEF UpdateUser
  <1>2. CASE u \notin Live
    <2>1. req' = [req EXCEPT ![r] = Idle]
      BY <1>2 DEF UpdateUser
    <2> QED BY <1>1, <2>1, GivesUp DEF IInv, Typed
  <1>3. CASE u \in Live
    <2>1. u \in Users /\ users[u] \in AccountRows /\ spent' = spent \cup {u}
      BY <1>1, <1>3, LiveRow
    <2>2. req[r].token \in Nat /\ Asked(r)
      BY DEF IInv, Typed, Steps, RequestOK
    <2>3. \/ /\ req[r].kind = "rename"
             /\ Write(r, u, [users[u] EXCEPT !.name = asked], "clear")
          \/ /\ req[r].kind = "email"
             /\ Write(r, u, Pending(users[u], asked, req[r].token), "mail")
          \/ /\ req[r].kind = "password"
             /\ Write(r, u, [users[u] EXCEPT !.password = asked], "clear")
      BY <1>3 DEF UpdateUser
    <2>4. CASE req[r].kind = "rename"
      <3> DEFINE row == [users[u] EXCEPT !.name = asked]
      <3>1. row \in AccountRows
        BY <1>1, <2>1, <2>2, <2>4 DEF AccountRows, Asked
      <3>2. Meant(r, u, row) /\ "clear" \in {"mail", "clear"} /\ "rename" \in Closing
        BY <2>4 DEF Meant, Closing
      <3>3. Write(r, u, row, "clear")
        BY <2>3, <2>4
      <3> HIDE DEF row
      <3> QED BY <1>1, <1>3, <2>1, <2>4, <3>1, <3>2, <3>3, StatementKeeps
    <2>5. CASE req[r].kind = "email"
      <3> DEFINE row == Pending(users[u], asked, req[r].token)
      <3>1. row \in AccountRows
        BY <1>1, <2>1, <2>2, <2>5 DEF AccountRows, Asked, Pending
      <3>2. Meant(r, u, row) /\ "mail" \in {"mail", "clear"} /\ "email" \notin Closing
        BY <2>5 DEF Meant, Closing
      <3>3. Write(r, u, row, "mail")
        BY <2>3, <2>5
      <3> HIDE DEF row
      <3> QED BY <1>1, <1>3, <2>1, <2>5, <3>1, <3>2, <3>3, StatementKeeps
    <2>6. CASE req[r].kind = "password"
      <3> DEFINE row == [users[u] EXCEPT !.password = asked]
      <3>1. row \in AccountRows
        BY <1>1, <2>1, <2>2, <2>6 DEF AccountRows, Asked
      <3>2. Meant(r, u, row) /\ "clear" \in {"mail", "clear"} /\ "password" \in Closing
        BY <2>6 DEF Meant, Closing
      <3>3. Write(r, u, row, "clear")
        BY <2>3, <2>6
      <3> HIDE DEF row
      <3> QED BY <1>1, <1>3, <2>1, <2>6, <3>1, <3>2, <3>3, StatementKeeps
    <2> QED BY <2>3, <2>4, <2>5, <2>6
  <1> QED BY <1>2, <1>3

LEMMA DeleteAccountKeeps ==
  ASSUME IInv, NEW r \in Requests, DeleteAccount(r)
  PROVE  IInv'
  <1> USE AccountsAssumption
  <1> DEFINE new(u) == [Idle EXCEPT !.at = "clear", !.kind = "delete", !.user = u, !.row = users[u]]
             requests(u) == [req EXCEPT ![r] = new(u)]
  <1>1. PICK u \in SignedIn : ~Locked(u) /\ req' = Changing(r, u, requests(u))
    BY DEF DeleteAccount
  <1>2. UNCHANGED <<users, spent, sessions, mails, opened, tokens>>
    BY DEF DeleteAccount
  <1>3. u \in Live /\ u \in Users /\ users[u] \in AccountRows /\ users[u] # None /\ spent' = spent \cup {u}
    BY <1>2, LiveRow DEF SignedIn
  <1>4. /\ new(u).at = "clear" /\ new(u).kind = "delete" /\ new(u).user = u
        /\ new(u).row = users[u] /\ new(u).asked = None /\ new(u).known = None
        /\ new(u).token = 0 /\ new(u).doomed = {}
    BY DEF Idle
  <1>5. new(u) \in Steps
    BY <1>3 DEF Idle, Steps, Closing
  <1> HIDE DEF new
  <1>6. req \in [Requests -> Steps]
    BY DEF IInv, Typed
  <1>7. /\ requests(u) \in [Requests -> Steps] /\ requests(u)[r] = new(u)
        /\ \A q \in Requests \ {r} : requests(u)[q] = req[q]
    BY <1>5, <1>6
  <1> HIDE DEF requests
  <1>8. req' \in [Requests -> Steps] /\ req'[r] = new(u)
    <2>1. ASSUME NEW q \in Requests
          PROVE  [requests(u)[q] EXCEPT !.overlapped = TRUE] \in Steps
      <3>1. requests(u)[q] \in Steps
        BY <1>7
      <3> QED BY <3>1 DEF Steps
    <2> QED BY <1>1, <1>7, <2>1 DEF Changing
  <1>9. ASSUME NEW q \in Requests \ {r}
        PROVE  /\ Alike(q)
               /\ req[q].user = u /\ req[q].known # None => req'[q].overlapped = TRUE
    <2>1. req'[q] = IF req[q].user = u /\ req[q].known # None
                      THEN [req[q] EXCEPT !.overlapped = TRUE] ELSE req[q]
      BY <1>1, <1>7 DEF Changing
    <2> QED BY <1>6, <2>1 DEF Alike, Steps
  <1>10. RequestOK(r)'
    <2>1. Carried(r)' /\ Asked(r)'
      <3>1. tokens' \in Nat
        BY <1>2 DEF IInv, Typed
      <3>2. Carried(r)'
        BY <1>4, <1>8, <3>1 DEF Carried, Closing, Mailing, Signing, Knowing
      <3>3. Asked(r)'
        BY <1>3, <1>4, <1>8 DEF Asked
      <3> QED BY <3>2, <3>3
    <2>2. Written(r)'
      BY <1>2, <1>3, <1>4, <1>8 DEF Written
    <2>3. Dooms(r)' /\ Reads(r)' /\ Posted(r)'
      BY <1>4, <1>8 DEF Dooms, Reads, Posted, Mailing, Signing, Knowing
    <2> QED BY <2>1, <2>2, <2>3 DEF RequestOK
  <1>11. /\ \A q \in Requests \ {r} : Alike(q)
         /\ req'[r].kind \in Closing => Told(r, u)
         /\ req'[r].user = u /\ req'[r].kind # "register" /\ req'[r].token = 0
    BY <1>4, <1>8, <1>9 DEF Told
  <1> QED BY <1>1, <1>2, <1>3, <1>8, <1>10, <1>11, TakesRowKeeps

LEMMA DeleteUserSessionsKeeps ==
  ASSUME IInv, NEW r \in Requests, DeleteUserSessions(r)
  PROVE  IInv'
  <1> DEFINE next == IF req[r].kind = "delete" THEN "remove" ELSE "commit"
             new == [req[r] EXCEPT !.at = next, !.doomed = SessionsOf(r)]
  <1>1. /\ req[r].at = "clear"
        /\ UNCHANGED <<users, spent, sessions, mails, opened, tokens>>
    BY DEF DeleteUserSessions
  <1>2. req' = [req EXCEPT ![r] = new]
    BY DEF DeleteUserSessions, IInv, Typed
  <1>3. req[r] \in Steps /\ RequestOK(r) /\ req \in [Requests -> Steps]
    BY DEF IInv, Typed
  <1>4. SessionsOf(r) \in SUBSET SessionRows
    BY DEF IInv, Typed, SessionsOf
  <1>5. /\ new.at = next /\ new.doomed = SessionsOf(r) /\ new.user = req[r].user
        /\ new.row = req[r].row /\ new.kind = req[r].kind /\ new.asked = req[r].asked
        /\ new.known = req[r].known /\ new.token = req[r].token
        /\ new.overlapped = req[r].overlapped
    BY <1>3 DEF Steps
  <1>6. new \in Steps
    <2>1. next \in {"idle", "write", "mail", "clear", "remove", "commit", "establish", "save"}
      OBVIOUS
    <2> HIDE DEF next
    <2> QED BY <1>3, <1>4, <2>1 DEF Steps
  <1> HIDE DEF new
  <1>7. req'[r] = new
    BY <1>2, <1>3
  <1>8. req[r].kind \in Closing /\ r \in Holding
    BY <1>1, <1>3, HoldingIs DEF RequestOK, Carried
  <1>9. RequestOK(r)'
    <2>1. Carried(r)' /\ Asked(r)'
      BY <1>1, <1>3, <1>5, <1>7, <1>8 DEF RequestOK, Carried, Asked, Closing
    <2>2. Written(r)'
      <3>1. req[r].kind \in {"rename", "password", "delete"}
        BY <1>8 DEF Closing
      <3> QED BY <1>1, <1>3, <1>5, <1>7, <1>8, <3>1 DEF RequestOK, Written
    <2>3. Dooms(r)'
      BY <1>1, <1>5, <1>7, <1>8 DEF Dooms, SessionsOf, Closing, Mailing
    <2>4. Reads(r)'
      <3>1. Live' = Live /\ req'[r].user = req[r].user
        BY <1>1, <1>5, <1>7 DEF Live
      <3>2. Trusted(req[r].user) => Trusted(req[r].user)'
        BY <1>1, <3>1, Zenon DEF Trusted
      <3>3. req'[r].at # "establish"
        BY <1>5, <1>7
      <3> QED BY <1>1, <1>3, <1>5, <1>7, <3>1, <3>2, <3>3 DEF RequestOK, Reads
    <2>5. Posted(r)'
      BY <1>5, <1>7, <1>8 DEF Posted, Closing, Mailing
    <2> QED BY <2>1, <2>2, <2>3, <2>4, <2>5 DEF RequestOK
  <1> QED BY <1>1, <1>2, <1>5, <1>6, <1>8, <1>9, GoesOnKeeps

LEMMA DeleteUserRecordKeeps ==
  ASSUME IInv, NEW r \in Requests, DeleteUserRecord(r)
  PROVE  IInv'
  <1> DEFINE new == [req[r] EXCEPT !.at = "commit", !.row = None]
  <1>1. /\ req[r].at = "remove"
        /\ UNCHANGED <<users, spent, sessions, mails, opened, tokens>>
    BY DEF DeleteUserRecord
  <1>2. req' = [req EXCEPT ![r] = new]
    BY DEF DeleteUserRecord, IInv, Typed
  <1>3. req[r] \in Steps /\ RequestOK(r) /\ req \in [Requests -> Steps]
    BY DEF IInv, Typed
  <1>4. /\ new.at = "commit" /\ new.doomed = req[r].doomed /\ new.user = req[r].user
        /\ new.row = None /\ new.kind = req[r].kind /\ new.asked = req[r].asked
        /\ new.known = req[r].known /\ new.token = req[r].token
        /\ new.overlapped = req[r].overlapped
    BY <1>3 DEF Steps
  <1>5. new \in Steps
    BY <1>3 DEF Steps
  <1> HIDE DEF new
  <1>6. req'[r] = new
    BY <1>2, <1>3
  <1>7. req[r].kind = "delete" /\ r \in Holding
    BY <1>1, <1>3, HoldingIs DEF RequestOK, Carried
  <1>8. RequestOK(r)'
    <2>1. Carried(r)' /\ Asked(r)'
      BY <1>1, <1>3, <1>4, <1>6, <1>7 DEF RequestOK, Carried, Asked, Closing, Signing, Knowing, Mailing
    <2>2. Written(r)'
      BY <1>1, <1>3, <1>4, <1>6, <1>7 DEF RequestOK, Written
    <2>3. Dooms(r)'
      BY <1>1, <1>3, <1>4, <1>6, <1>7 DEF RequestOK, Dooms, Closing, Mailing
    <2>4. Reads(r)' /\ Posted(r)'
      BY <1>1, <1>3, <1>4, <1>6, <1>7 DEF RequestOK, Carried, Reads, Posted, Signing, Knowing, Mailing
    <2> QED BY <2>1, <2>2, <2>3, <2>4 DEF RequestOK
  <1> QED BY <1>1, <1>2, <1>4, <1>5, <1>7, <1>8, GoesOnKeeps

-----------------------------------------------------------------------------
(* Mails.                                                                  *)

\* LastLinkWorks for one account.
Works(u) ==
  /\ ~Trusted(u) => \E i \in Newest(CommittedLinks(u, "verify")) :
        users[u].token = mails[i].token /\ users[u].email = mails[i].address
  /\ users[u].pending # None => \E i \in Newest(CommittedLinks(u, "change")) :
        users[u].pendingToken = mails[i].token /\ users[u].pending = mails[i].address

LEMMA WorksIs == LastLinkWorks <=> \A u \in Live : Works(u)
  BY Zenon DEF LastLinkWorks, Works, Trusted

\* An account whose links and addresses stay.
LEMMA WorksStay ==
  ASSUME NEW u, Works(u), Trusted(u) => Trusted(u)',
         users'[u].token = users[u].token, users'[u].email = users[u].email,
         users'[u].pending = users[u].pending, users'[u].pendingToken = users[u].pendingToken,
         \A purpose : CommittedLinks(u, purpose)' = CommittedLinks(u, purpose),
         \A i \in DOMAIN mails :
           mails'[i].token = mails[i].token /\ mails'[i].address = mails[i].address
  PROVE  Works(u)'
  <1>1. \A purpose : Newest(CommittedLinks(u, purpose))' = Newest(CommittedLinks(u, purpose))
    BY DEF Newest
  <1>2. \A purpose : Newest(CommittedLinks(u, purpose)) \subseteq DOMAIN mails
    BY DEF Newest, CommittedLinks
  <1> QED BY <1>1, <1>2 DEF Works

LEMMA LetterIsTyped ==
  ASSUME IInv, NEW r \in Requests, r \in Holding, req[r].kind \in Mailing
  PROVE  Letter(r) \in Letters /\ req[r].user \in Users /\ req[r].token \in Nat \ {0}
  <1> USE AccountsAssumption
  <1>1. req[r] \in Steps /\ Carried(r) /\ Asked(r) /\ Written(r)
    BY HoldingIs DEF IInv, Typed, RequestOK
  <1>2. req[r].at \notin {"idle", "write"} /\ req[r].token \in Nat \ {0}
    BY <1>1, HoldingIs DEF Carried, Steps
  <1>3. req[r].user \in Users
    BY <1>1, <1>2 DEF Asked, IInv, Typed
  <1>4. CASE req[r].kind = "email"
    <2>1. /\ req[r].asked \in Addresses /\ users[req[r].user] # None
          /\ req[r].row = Pending(users[req[r].user], req[r].asked, req[r].token)
      BY <1>1, <1>4 DEF Asked, Written
    <2>2. users[req[r].user] \in AccountRows
      BY <1>3, <2>1 DEF IInv, Typed
    <2>3. req[r].row.pending \in Addresses
      BY <2>1, <2>2 DEF Pending, AccountRows
    <2> QED BY <1>2, <1>3, <1>4, <2>3 DEF Letter, Letters
  <1>5. CASE req[r].kind # "email"
    <2>1. req[r].kind \in {"register", "resend"}
      BY <1>5 DEF Mailing
    <2>2. req[r].row.email \in Addresses
      <3>1. CASE req[r].kind = "register"
        BY <1>1, <3>1 DEF Asked, Written, NewRow, NewAccounts
      <3>2. CASE req[r].kind = "resend"
        <4>1. users[req[r].user] \in AccountRows
          BY <1>1, <1>3, <3>2 DEF Written, IInv, Typed
        <4> QED BY <1>1, <3>2, <4>1 DEF Written, AccountRows
      <3> QED BY <2>1, <3>1, <3>2
    <2> QED BY <1>2, <1>3, <1>5, <2>2 DEF Letter, Letters
  <1> QED BY <1>4, <1>5

LEMMA SendMailKeeps ==
  ASSUME IInv, NEW r \in Requests, SendMail(r)
  PROVE  IInv'
  <1> USE AccountsAssumption
  <1> DEFINE new == [req[r] EXCEPT !.at = "commit"]
             n == Len(mails)
  <1>1. /\ req[r].at = "mail" /\ mails' = Append(mails, Letter(r))
        /\ UNCHANGED <<users, spent, sessions, tokens, opened>>
    BY DEF SendMail
  <1>2. req' = [req EXCEPT ![r] = new]
    BY DEF SendMail, IInv, Typed
  <1>3. req[r] \in Steps /\ RequestOK(r) /\ req \in [Requests -> Steps] /\ OneLetterPerToken
    BY DEF IInv, Typed
  <1>4. req[r].kind \in Mailing /\ r \in Holding
    BY <1>1, <1>3, HoldingIs DEF RequestOK, Carried
  <1>5. Letter(r) \in Letters /\ req[r].user \in Users /\ req[r].token \in Nat \ {0}
    BY <1>4, LetterIsTyped
  <1>6. /\ new.at = "commit" /\ new.doomed = req[r].doomed /\ new.user = req[r].user
        /\ new.row = req[r].row /\ new.kind = req[r].kind /\ new.asked = req[r].asked
        /\ new.known = req[r].known /\ new.token = req[r].token
        /\ new.overlapped = req[r].overlapped
    BY <1>3 DEF Steps
  <1>7. new \in Steps
    BY <1>3 DEF Steps
  <1> HIDE DEF new
  <1>8. /\ req' \in [Requests -> Steps] /\ req'[r] = new
        /\ \A q \in Requests \ {r} : req'[q] = req[q]
    BY <1>2, <1>3, <1>7
  <1>9. \A q \in Requests \ {r} : Alike(q)
    BY <1>8 DEF Alike
  <1>10. /\ mails' \in Seq(Letters) /\ n \in Nat /\ DOMAIN mails = 1 .. n /\ DOMAIN mails' = 1 .. (n + 1)
         /\ \A i \in DOMAIN mails : mails'[i] = mails[i]
         /\ mails'[n + 1] = Letter(r)
    BY <1>1, <1>5 DEF IInv, Typed
  <1> HIDE DEF n
  <1>11. /\ DOMAIN mails' = DOMAIN mails \cup {n + 1} /\ n + 1 \notin DOMAIN mails
         /\ \A i \in DOMAIN mails : i < n + 1
    BY <1>10
  <1>12. Letter(r).token = req[r].token /\ Letter(r).user = req[r].user
    BY DEF Letter
  <1>13. Typed'
    BY <1>1, <1>8, <1>10 DEF IInv, Typed
  <1>14. Letter(r)' = Letter(r)
    <2>1. /\ req'[r].row = req[r].row /\ req'[r].kind = req[r].kind
          /\ req'[r].user = req[r].user /\ req'[r].token = req[r].token
      BY <1>6, <1>8
    <2> QED BY <2>1 DEF Letter
  <1>15. ASSUME NEW q \in Requests
         PROVE  RequestOK(q)'
    <2>1. RequestOK(q)
      BY DEF IInv
    <2>2. CASE q = r
      <3>1. Carried(r)' /\ Asked(r)'
        BY <1>1, <1>3, <1>4, <1>6, <1>8 DEF RequestOK, Carried, Asked, Mailing
      <3>2. Written(r)'
        <4>1. NewRow(r)' = NewRow(r)
          BY <1>6, <1>8 DEF NewRow
        <4>2. req[r].kind \in {"register", "resend", "email"}
          BY <1>4 DEF Mailing
        <4> QED BY <1>1, <1>3, <1>4, <1>6, <1>8, <4>1, <4>2 DEF RequestOK, Written
      <3>3. Dooms(r)'
        <4>1. req[r].kind \notin Closing
          BY <1>4 DEF Mailing, Closing
        <4> QED BY <1>1, <1>3, <1>4, <1>6, <1>8, <4>1 DEF RequestOK, Dooms
      <3>4. Reads(r)'
        <4>1. Live' = Live /\ req'[r].user = req[r].user
          BY <1>1, <1>6, <1>8 DEF Live
        <4>2. Trusted(req[r].user) => Trusted(req[r].user)'
          BY <1>1, <4>1, Zenon DEF Trusted
        <4> QED BY <1>1, <1>3, <1>6, <1>8, <4>1, <4>2 DEF RequestOK, Reads
      <3>5. Posted(r)'
        <4>1. mails'[n + 1] = Letter(r)' /\ n + 1 \in DOMAIN mails'
          BY <1>10, <1>11, <1>14
        <4>2. \A j \in DOMAIN mails' : ~(j > n + 1)
          BY <1>10
        <4> QED BY <1>6, <1>8, <4>1, <4>2 DEF Posted
      <3> QED BY <2>2, <3>1, <3>2, <3>3, <3>4, <3>5 DEF RequestOK
    <2>3. CASE q # r
      <3>1. Alike(q) /\ Typed /\ Apart(q, r) /\ Apart(r, q) /\ req[q].token \in Nat
        BY <1>9, <2>3 DEF IInv, Typed, Steps
      <3>2. SameTo(req[q].user)
        <4>1. Live' = Live
          BY <1>1 DEF Live
        <4>2. Trusted(req[q].user) => Trusted(req[q].user)'
          <5>1. req'[q].user = req[q].user /\ users' = users
            BY <1>1, <3>1 DEF Alike
          <5> QED BY <5>1, Zenon DEF Trusted
        <4> QED BY <1>1, <4>1, <4>2 DEF SameTo
      <3>3. Letter(q)' = Letter(q)
        BY <3>1, AlikeLetter
      <3>4. req[q].kind \in Mailing => req[q].token # 0 /\ req[q].token # req[r].token
        BY <2>1, <3>1 DEF RequestOK, Carried, Apart
      <3>5. req[q].kind \in Mailing /\ req[q].at \in {"write", "mail"} =>
              \A i \in DOMAIN mails' : mails'[i].token # req[q].token
        BY <1>10, <1>11, <1>12, <2>1, <3>4 DEF RequestOK, Posted
      <3>6. req[q].at = "commit" => req[q].user # req[r].user
        BY <1>4, <3>1, HoldingIs DEF Apart
      <3>7. req[q].kind \in Mailing /\ req[q].at = "commit" =>
              \E i \in DOMAIN mails' :
                 /\ mails'[i] = Letter(q)
                 /\ \A j \in DOMAIN mails' : j > i => mails'[j].user # req[q].user
        <4> SUFFICES ASSUME req[q].kind \in Mailing, req[q].at = "commit"
                     PROVE  \E i \in DOMAIN mails' :
                               /\ mails'[i] = Letter(q)
                               /\ \A j \in DOMAIN mails' : j > i => mails'[j].user # req[q].user
          OBVIOUS
        <4>1. PICK i \in DOMAIN mails : /\ mails[i] = Letter(q)
                                        /\ \A j \in DOMAIN mails : j > i => mails[j].user # req[q].user
          BY <2>1 DEF RequestOK, Posted
        <4>2. i \in DOMAIN mails' /\ mails'[i] = Letter(q)
          BY <1>10, <1>11, <4>1
        <4>3. \A j \in DOMAIN mails' : j > i => mails'[j].user # req[q].user
          BY <1>10, <1>11, <1>12, <3>6, <4>1
        <4> QED BY <4>2, <4>3
      <3>8. Posted(q)'
        BY <3>1, <3>3, <3>5, <3>7 DEF Alike, Posted
      <3> QED BY <1>1, <1>13, <2>1, <3>1, <3>2, <3>8, AlikeCarries, AlikeWritten, AlikeDooms,
                 AlikeReads DEF RequestOK, Typed
    <2> QED BY <2>2, <2>3
  <1>16. ASSUME NEW q \in Requests, NEW p \in Requests \ {q}
         PROVE  Apart(q, p)'
    <2>1. Apart(q, p)
      BY DEF IInv
    <2>2. \A x \in Requests :
            /\ req'[x].user = req[x].user /\ req'[x].kind = req[x].kind
            /\ req'[x].known = req[x].known /\ req'[x].token = req[x].token
            /\ req'[x].overlapped = req[x].overlapped
            /\ x \in Holding' => x \in Holding
      BY <1>4, <1>6, <1>8, <1>9, AlikeHolds
    <2> QED BY <2>1, <2>2 DEF Apart
  <1>17. Rows' /\ OnlyOverlappedSessionsAreOutdated'
    <2>1. Live' = Live
      BY <1>1 DEF Live
    <2>2. \A u : Trusted(u)' = Trusted(u)
      BY <1>1, Zenon DEF Trusted
    <2> QED BY <1>1, <2>1, <2>2 DEF IInv, Rows, OnlyOverlappedSessionsAreOutdated
  <1>18. OneLetterPerToken'
    <2>1. \A i \in DOMAIN mails : mails[i].token # req[r].token
      BY <1>1, <1>3, <1>4 DEF RequestOK, Posted
    <2>2. req[r].token <= tokens
      BY <1>3 DEF RequestOK, Carried
    <2> QED BY <1>1, <1>3, <1>10, <1>11, <1>12, <2>1, <2>2 DEF OneLetterPerToken
  <1>19. LinksAreSound'
    <2>1. \A i \in DOMAIN mails' : mails'[i].committed => i \in DOMAIN mails
      <3>1. ~Letter(r).committed
        BY DEF Letter
      <3> QED BY <1>10, <1>11, <3>1
    <2>2. \A u, purpose : CommittedLinks(u, purpose)' = CommittedLinks(u, purpose)
      BY <1>10, <1>11, <2>1 DEF CommittedLinks
    <2>3. ASSUME NEW u \in Live' PROVE Works(u)'
      <3>1. Works(u)
        BY <1>1, WorksIs DEF IInv, LinksAreSound, Live
      <3>2. Trusted(u) => Trusted(u)'
        BY <1>1, Zenon DEF Trusted
      <3> QED BY <1>1, <1>10, <2>2, <3>1, <3>2, WorksStay
    <2>4. LastLinkWorks'
      BY <2>3, Zenon DEF LastLinkWorks, Works, Trusted
    <2>5. AddressWasConfirmed'
      BY <1>1 DEF IInv, LinksAreSound, AddressWasConfirmed, Live
    <2> QED BY <2>4, <2>5 DEF LinksAreSound
  <1> QED BY <1>13, <1>15, <1>16, <1>17, <1>18, <1>19 DEF IInv

-----------------------------------------------------------------------------
(* Sessions.                                                               *)

\* What a request knows, or carries of the session it loaded, becomes a row.
LEMMA WrittenSessionKeeps ==
  ASSUME IInv, NEW r \in Requests, NEW new \in SessionRows,
         req[r].kind \in Knowing, req[r].at \in {"establish", "save"},
         new.user = req[r].user, new.password = req[r].known,
         new.name = (IF req[r].at = "save" THEN req[r].session.name ELSE req[r].row.name),
         req[r].overlapped => new.overlapped \/ new.rewritten,
         sessions' \subseteq sessions \cup {new},
         req' = [req EXCEPT ![r] = Idle],
         UNCHANGED <<users, spent, mails, tokens, opened>>
  PROVE  IInv'
  <1> USE AccountsAssumption
  <1>1. UNCHANGED <<users, spent, mails, tokens, opened>>
    OBVIOUS
  <1>2. req[r] \in Steps /\ RequestOK(r) /\ req \in [Requests -> Steps] /\ Idle \in Steps
    BY DEF IInv, Typed, Idle, Steps
  <1>3. req[r].known # None /\ req[r].user \in spent
    BY <1>2 DEF RequestOK, Carried, Asked
  <1>5. /\ req' \in [Requests -> Steps] /\ req'[r] = Idle
        /\ \A q \in Requests \ {r} : req'[q] = req[q]
    BY <1>2
  <1>6. \A q \in Requests \ {r} : Alike(q)
    BY <1>5 DEF Alike
  <1>7. Live' = Live
    BY <1>1 DEF Live
  <1>9. Typed'
    BY <1>1, <1>5 DEF IInv, Typed
  <1>10. ASSUME NEW q \in Requests
         PROVE  RequestOK(q)'
    <2>1. CASE q = r
      BY <1>5, <1>9, <2>1, IdleIsOK DEF Typed
    <2>2. CASE q # r
      <3>1. RequestOK(q) /\ Alike(q) /\ Typed /\ Apart(q, r)
        BY <1>6, <2>2 DEF IInv
      <3>2. SameTo(req[q].user)
        <4>1. Trusted(req[q].user) => Trusted(req[q].user)'
          <5>1. req'[q].user = req[q].user /\ users' = users
            BY <1>1, <3>1 DEF Alike
          <5> QED BY <5>1, Zenon DEF Trusted
        <4> QED BY <1>1, <1>7, <4>1 DEF SameTo
      <3>3. Dooms(q)'
        <4>1. req[q].kind \in Closing /\ req[q].at \in {"remove", "commit"} =>
                (\A s \in sessions' : s.user = req[q].user /\ ~s.overlapped /\ ~s.rewritten
                                        => s \in req[q].doomed)
          <5>1. q \in Holding /\ req[q].kind \in Closing /\ req[r].user = req[q].user
                  => new.overlapped \/ new.rewritten
            BY <1>3, <3>1 DEF Apart
          <5>2. req[q].at \in {"remove", "commit"} => q \in Holding
            BY HoldingIs
          <5> QED BY <3>1, <5>1, <5>2 DEF RequestOK, Dooms
        <4>2. req[q].kind = "register" /\ q \in Holding => \A s \in sessions' : s.user # req[q].user
          BY <3>1 DEF RequestOK, Dooms, Apart
        <4> QED BY <3>1, <4>1, <4>2, AlikeHolds DEF Alike, RequestOK, Dooms
      <3> QED BY <1>1, <1>9, <3>1, <3>2, <3>3, AlikeCarries, AlikeWritten, AlikeReads, AlikePosted
              DEF RequestOK, Typed
    <2> QED BY <2>1, <2>2
  <1>11. ASSUME NEW q \in Requests, NEW p \in Requests \ {q}
         PROVE  Apart(q, p)'
    <2>1. CASE q = r \/ p = r
      BY <1>5, <1>6, <2>1, IdleIsApart
    <2>2. CASE q # r /\ p # r
      BY <1>6, <2>2, AlikeApart DEF IInv
    <2> QED BY <2>1, <2>2
  <1>12. Rows'
    <2>1. req[r].user \in Live => Trusted(req[r].user)
      BY <1>2 DEF RequestOK, Reads
    <2>2. ASSUME NEW s \in sessions' PROVE s.user \in spent /\ (s.user \in Live => Trusted(s.user))
      <3>1. CASE s \in sessions
        BY <3>1 DEF IInv, Rows
      <3>2. CASE s = new
        BY <1>3, <2>1, <3>2
      <3> QED BY <3>1, <3>2
    <2>3. ASSUME NEW u PROVE Trusted(u)' <=> Trusted(u)
      BY <1>1, Zenon DEF Trusted
    <2> QED BY <1>1, <1>7, <2>2, <2>3 DEF IInv, Rows
  <1>13. OneLetterPerToken' /\ LinksAreSound'
    BY <1>1, <1>7 DEF IInv, OneLetterPerToken, LinksAreSound, AddressWasConfirmed, LastLinkWorks,
       Newest, CommittedLinks
  <1>14. OnlyOverlappedSessionsAreOutdated'
    <2>1. ~req[r].overlapped =>
            /\ new.user \in Live
            /\ users[new.user].password = new.password
            /\ users[new.user].name = new.name
      BY <1>2, <1>3 DEF RequestOK, Reads
    <2>2. ~new.overlapped /\ ~new.rewritten => ~req[r].overlapped
      OBVIOUS
    <2> QED BY <1>1, <1>7, <2>1, <2>2 DEF IInv, OnlyOverlappedSessionsAreOutdated
  <1> QED BY <1>9, <1>10, <1>11, <1>12, <1>13, <1>14 DEF IInv

LEMMA EstablishKeeps ==
  ASSUME IInv, NEW r \in Requests, Establish(r)
  PROVE  IInv'
  <1> USE AccountsAssumption
  <1> DEFINE new(sid) ==
        [sid |-> sid, user |-> req[r].user, name |-> req[r].row.name,
         password |-> req[r].known, overlapped |-> req[r].overlapped, rewritten |-> FALSE]
  <1>1. /\ req[r].at = "establish" /\ req' = [req EXCEPT ![r] = Idle]
        /\ UNCHANGED <<users, spent, mails, tokens, opened>>
    BY DEF Establish
  <1>2. PICK sid \in Sids : sessions' = sessions \cup {new(sid)}
    BY DEF Establish, FreeSids
  <1>3. req[r] \in Steps /\ Carried(r) /\ Asked(r)
    BY DEF IInv, Typed, RequestOK
  <1>4. /\ req[r].kind \in Signing /\ req[r].row \in AccountRows /\ req[r].known \in Passwords
        /\ req[r].user \in spent /\ req[r].overlapped \in BOOLEAN
    BY <1>1, <1>3 DEF Carried, Asked, Knowing, Steps
  <1>5. /\ new(sid) \in SessionRows /\ new(sid).user = req[r].user
        /\ new(sid).name = req[r].row.name /\ new(sid).password = req[r].known
        /\ new(sid).overlapped = req[r].overlapped
    BY <1>4 DEF AccountRows, SessionRows, IInv, Typed
  <1> HIDE DEF new
  <1> QED BY <1>1, <1>2, <1>4, <1>5, WrittenSessionKeeps DEF Knowing

\* The end of a response.
LEMMA SaveSessionKeeps ==
  ASSUME IInv, NEW r \in Requests, SaveSession(r)
  PROVE  IInv'
  <1> DEFINE new == [req[r].session EXCEPT !.rewritten = req[r].overlapped]
  <1>1. /\ req[r].at = "save" /\ req' = [req EXCEPT ![r] = Idle]
        /\ sessions' \subseteq sessions \cup {new}
        /\ UNCHANGED <<users, spent, mails, tokens, opened>>
    BY DEF SaveSession
  <1>2. req[r] \in Steps /\ Carried(r)
    BY DEF IInv, Typed, RequestOK
  <1>3. /\ req[r].kind = "page" /\ req[r].session \in SessionRows /\ req[r].overlapped \in BOOLEAN
        /\ req[r].session.user = req[r].user /\ req[r].session.password = req[r].known
    BY <1>1, <1>2 DEF Carried, Steps
  <1>4. /\ new \in SessionRows /\ new.user = req[r].user /\ new.password = req[r].known
        /\ new.name = req[r].session.name /\ new.rewritten = req[r].overlapped
    BY <1>3 DEF SessionRows
  <1> HIDE DEF new
  <1> QED BY <1>1, <1>3, <1>4, WrittenSessionKeeps DEF Knowing

\* A request loads a session that is there: what it carries is the account as
\* it is, unless an overlapped request wrote that session or a change is under
\* way.
LEMMA LoadSessionKeeps ==
  ASSUME IInv, NEW r \in Requests, LoadSession(r)
  PROVE  IInv'
  <1> USE AccountsAssumption
  <1> DEFINE read(s) ==
        [Idle EXCEPT !.at = "save", !.kind = "page", !.user = s.user, !.known = s.password,
                     !.session = s,
                     !.overlapped = s.overlapped \/ s.rewritten \/ BeingClosed(s.user)]
  <1>1. PICK s \in sessions : req' = [req EXCEPT ![r] = read(s)]
    BY DEF LoadSession
  <1>2. UNCHANGED <<users, sessions, mails, opened, tokens, spent>>
    BY DEF LoadSession
  <1>3. s \in SessionRows /\ s.user \in Users /\ s.user \in spent /\ s.password \in Passwords
    BY DEF IInv, Typed, Rows, SessionRows
  <1>4. PICK told \in BOOLEAN : told = (s.overlapped \/ s.rewritten \/ BeingClosed(s.user))
    OBVIOUS
  <1>5. PICK new : new = read(s)
    OBVIOUS
  <1>6. /\ new.at = "save" /\ new.kind = "page" /\ new.user = s.user /\ new.row = None
        /\ new.asked = None /\ new.known = s.password /\ new.session = s /\ new.token = 0
        /\ new.doomed = {} /\ new.overlapped = told
    BY <1>4, <1>5 DEF Idle
  <1>7. new \in Steps
    <2>1. new = [Idle EXCEPT !.at = "save", !.kind = "page", !.user = s.user, !.known = s.password,
                             !.session = s, !.overlapped = told]
      BY <1>4, <1>5
    <2> QED BY <1>3, <2>1 DEF Idle, Steps
  <1> HIDE DEF read
  <1>8. /\ req' \in [Requests -> Steps] /\ req'[r] = new
        /\ \A q \in Requests \ {r} : req'[q] = req[q]
    BY <1>1, <1>5, <1>7 DEF IInv, Typed
  <1>9. \A q \in Requests \ {r} : Alike(q)
    BY <1>8 DEF Alike
  <1>10. r \notin Holding'
    BY <1>6, <1>8 DEF Holding
  <1>11. tokens' \in Nat /\ tokens <= tokens' /\ spent' = spent /\ spent \subseteq Users
    BY <1>2 DEF IInv, Typed
  <1>12. RequestOK(r)'
    <2>1. Carried(r)'
      BY <1>3, <1>6, <1>8, <1>11 DEF Carried, Signing, Knowing, Mailing
    <2>2. Asked(r)'
      BY <1>3, <1>6, <1>8, <1>11 DEF Asked
    <2>3. Written(r)' /\ Dooms(r)' /\ Posted(r)'
      BY <1>6, <1>8, <1>10 DEF Written, Dooms, Posted, Closing, Mailing
    <2>4. Reads(r)'
      <3>1. Live' = Live
        BY <1>2 DEF Live
      <3>2. s.user \in Live => Trusted(s.user)
        BY DEF IInv, Rows
      <3>3. Trusted(req[r].user)' <=> Trusted(s.user)
        <4>1. req'[r].user = s.user /\ users' = users
          BY <1>2, <1>6, <1>8
        <4> QED BY <4>1, Zenon DEF Trusted
      <3>4. ~told => /\ s.user \in Live
                     /\ s.name = users[s.user].name
                     /\ s.password = users[s.user].password
        BY <1>4 DEF IInv, OnlyOverlappedSessionsAreOutdated
      <3> QED BY <1>2, <1>6, <1>8, <3>1, <3>2, <3>3, <3>4 DEF Reads
    <2> QED BY <2>1, <2>2, <2>3, <2>4 DEF RequestOK
  <1>13. ASSUME NEW q \in Requests \ {r}
         PROVE  Apart(r, q)' /\ Apart(q, r)'
    <2>1. q \in Holding' /\ req'[q].kind = "register" => req'[r].user # req'[q].user
      <3>1. q \in Holding /\ req[q].kind = "register" => s.user # req[q].user
        BY DEF IInv, RequestOK, Dooms
      <3> QED BY <1>6, <1>8, <1>9, <3>1, AlikeHolds
    <2>2. q \in Holding' /\ req'[q].kind \in Closing /\ req'[r].user = req'[q].user
            => req'[r].overlapped
      <3>1. q \in Holding /\ req[q].kind \in Closing /\ req[q].user = s.user => told
        BY <1>4 DEF BeingClosed
      <3> QED BY <1>6, <1>8, <1>9, <3>1, AlikeHolds
    <2> QED BY <1>6, <1>8, <1>10, <2>1, <2>2 DEF Apart
  <1> QED BY <1>2, <1>8, <1>9, <1>11, <1>12, <1>13, RequestStepKeeps

\* A session ends, or nothing changes.
LEMMA FewerSessionsKeep ==
  ASSUME IInv, sessions' \subseteq sessions,
         UNCHANGED <<users, spent, mails, req, tokens, opened>>
  PROVE  IInv'
  <1>1. /\ sessions' \subseteq sessions
        /\ UNCHANGED <<users, spent, mails, req, tokens, opened>>
    OBVIOUS
  <1>2. Typed'
    BY <1>1 DEF IInv, Typed
  <1>3. Live' = Live /\ Holding' = Holding
    BY <1>1 DEF Live, Holding
  <1>4. ASSUME NEW q \in Requests
        PROVE  RequestOK(q)'
    <2>1. RequestOK(q) /\ Alike(q) /\ Typed
      BY <1>1 DEF IInv, Alike
    <2>2. SameTo(req[q].user)
      <3>1. Trusted(req[q].user) => Trusted(req[q].user)'
        BY <1>1, Zenon DEF Trusted
      <3> QED BY <1>1, <1>3, <3>1 DEF SameTo
    <2> QED BY <1>1, <1>2, <2>1, <2>2, AlikeCarries, AlikeWritten, AlikeDooms, AlikeReads,
               AlikePosted DEF RequestOK, Typed
  <1>5. ASSUME NEW q \in Requests, NEW p \in Requests \ {q}
        PROVE  Apart(q, p)'
    BY <1>1, <1>3 DEF IInv, Apart
  <1>6. Rows'
    <2>1. ASSUME NEW u PROVE Trusted(u)' <=> Trusted(u)
      BY <1>1, Zenon DEF Trusted
    <2> QED BY <1>1, <1>3, <2>1 DEF IInv, Rows
  <1>7. OneLetterPerToken' /\ LinksAreSound'
    BY <1>1, <1>3 DEF IInv, OneLetterPerToken, LinksAreSound, AddressWasConfirmed, LastLinkWorks,
       Newest, CommittedLinks
  <1>8. OnlyOverlappedSessionsAreOutdated'
    BY <1>1, <1>3 DEF IInv, OnlyOverlappedSessionsAreOutdated
  <1> QED BY <1>2, <1>4, <1>5, <1>6, <1>7, <1>8 DEF IInv

-----------------------------------------------------------------------------
(* Links are opened.                                                       *)

LEMMA ConfirmedIs ==
  AddressWasConfirmed <=> \A u \in Live : Trusted(u) => <<u, users[u].email>> \in opened
  BY Zenon DEF AddressWasConfirmed, Trusted

\* Nobody holds the row, and it becomes one of a confirmed address.
LEMMA ConfirmationKeeps ==
  ASSUME IInv, NEW u \in Live, NEW row \in AccountRows, ~Locked(u),
         users' = [users EXCEPT ![u] = row], opened' = opened \cup {<<u, row.email>>},
         UNCHANGED <<spent, sessions, mails, req, tokens>>,
         row.name = users[u].name, row.password = users[u].password,
         row.verified = TRUE, row.token = 0, row.pending = None
  PROVE  IInv'
  <1> USE AccountsAssumption
  <1>1. /\ users \in [Users -> AccountRows \cup {None}] /\ u \in Users /\ users[u] # None
        /\ row # None
    BY DEF IInv, Typed, Live
  <1>2. /\ users' \in [Users -> AccountRows \cup {None}] /\ users'[u] = row
        /\ \A v \in Users \ {u} : users'[v] = users[v]
    BY <1>1
  <1>3. Live' = Live /\ Holding' = Holding
    BY <1>1, <1>2 DEF Live, Holding
  <1>4. Trusted(u)'
    BY <1>2 DEF Trusted
  <1>5. ASSUME NEW v \in Users \ {u} PROVE Trusted(v)' <=> Trusted(v)
    BY <1>2, Zenon DEF Trusted
  <1>6. Typed'
    BY <1>2 DEF IInv, Typed
  <1>7. ASSUME NEW q \in Requests
        PROVE  RequestOK(q)'
    <2>1. RequestOK(q) /\ Alike(q) /\ Typed
      BY DEF IInv, Alike
    <2>2. SameTo(req[q].user)
      <3>1. CASE req[q].user \notin Live
        BY <1>3, <3>1 DEF SameTo
      <3>2. CASE req[q].user \in Live
        <4>1. /\ users'[req[q].user].name = users[req[q].user].name
              /\ users'[req[q].user].password = users[req[q].user].password
          BY <1>1, <1>2, <3>2 DEF Live
        <4>2. Trusted(req[q].user) => Trusted(req[q].user)'
          <5>1. PICK v : v = req[q].user
            OBVIOUS
          <5>2. Trusted(v) => Trusted(v)'
            BY <1>4, <1>5, <3>2, <5>1 DEF Live
          <5>3. v = req'[q].user
            BY <5>1
          <5> QED BY <5>1, <5>2, <5>3, Zenon DEF Trusted
        <4> QED BY <1>3, <3>2, <4>1, <4>2 DEF SameTo
      <3> QED BY <3>1, <3>2
    <2>3. q \in Holding => users'[req[q].user] = users[req[q].user]
      <3>1. q \in Holding => req[q].user \in Users
        BY <2>1, HoldingIs DEF RequestOK, Asked, Typed
      <3> QED BY <1>2, <3>1 DEF Locked
    <2> QED BY <1>6, <2>1, <2>2, <2>3, AlikeCarries, AlikeWritten, AlikeDooms, AlikeReads,
               AlikePosted DEF RequestOK, Typed
  <1>8. ASSUME NEW q \in Requests, NEW p \in Requests \ {q}
        PROVE  Apart(q, p)'
    BY <1>3 DEF IInv, Apart
  <1>9. Rows'
    <2>1. ASSUME NEW v \in Live
          PROVE  /\ Trusted(v)' => users'[v].token = 0
                 /\ users'[v].pending # None => Trusted(v)'
                 /\ Trusted(v) => Trusted(v)'
      <3>1. CASE v = u
        BY <1>2, <1>4, <3>1
      <3>2. CASE v # u
        BY <1>2, <1>5, <3>2 DEF IInv, Rows, Live
      <3> QED BY <3>1, <3>2
    <2> QED BY <1>3, <2>1 DEF IInv, Rows
  <1>10. OneLetterPerToken'
    BY DEF IInv, OneLetterPerToken
  <1>11. LinksAreSound'
    <2>1. ASSUME NEW v \in Live
          PROVE  Works(v)' /\ (Trusted(v)' => <<v, users'[v].email>> \in opened')
      <3>1. CASE v = u
        BY <1>2, <1>4, <3>1 DEF Works
      <3>2. CASE v # u
        <4>1. v \in Users \ {u} /\ users'[v] = users[v]
          BY <1>2, <3>2 DEF Live
        <4>2. Works(v) /\ (Trusted(v) => <<v, users[v].email>> \in opened)
          BY WorksIs, ConfirmedIs DEF IInv, LinksAreSound
        <4>3. \A purpose : CommittedLinks(v, purpose)' = CommittedLinks(v, purpose)
          BY DEF CommittedLinks
        <4>4. Works(v)'
          BY <1>5, <4>1, <4>2, <4>3, WorksStay
        <4> QED BY <1>5, <4>1, <4>2, <4>4
      <3> QED BY <3>1, <3>2
    <2>2. LastLinkWorks'
      BY <1>3, <2>1, Zenon DEF LastLinkWorks, Works, Trusted
    <2>3. AddressWasConfirmed'
      BY <1>3, <2>1, Zenon DEF AddressWasConfirmed, Trusted
    <2> QED BY <2>2, <2>3 DEF LinksAreSound
  <1>12. OnlyOverlappedSessionsAreOutdated'
    <2>1. ASSUME NEW v \in Live
          PROVE  users'[v].name = users[v].name /\ users'[v].password = users[v].password
      BY <1>2 DEF Live
    <2> QED BY <1>3, <2>1 DEF IInv, OnlyOverlappedSessionsAreOutdated
  <1> QED BY <1>6, <1>7, <1>8, <1>9, <1>10, <1>11, <1>12 DEF IInv

\* A link that still works was mailed to the address it confirms: no other
\* link has its token.
LEMMA OpenLinkKeeps ==
  ASSUME IInv, OpenLink
  PROVE  IInv'
  <1> USE AccountsAssumption
  <1>1. PICK i \in DOMAIN mails :
          /\ VerifyUserEmail(mails[i]) \/ VerifyPendingEmailChange(mails[i])
          /\ opened' = opened \cup {<<mails[i].user, mails[i].address>>}
    BY DEF OpenLink
  <1>2. UNCHANGED <<spent, sessions, mails, req, tokens>>
    BY DEF OpenLink
  <1>3. PICK u : u = mails[i].user
    OBVIOUS
  <1>4. u \in Live /\ ~Locked(u)
    BY <1>1, <1>3 DEF VerifyUserEmail, VerifyPendingEmailChange
  <1>5. u \in Users /\ users[u] \in AccountRows /\ users[u] # None
    BY <1>4, LiveRow DEF Live
  <1>6. mails[i].token # 0 /\ OneLetterPerToken /\ Rows /\ Works(u)
    BY <1>4, LettersTyped, WorksIs DEF IInv, LinksAreSound
  <1>7. CASE VerifyUserEmail(mails[i])
    <2> DEFINE row == [users[u] EXCEPT !.verified = TRUE, !.token = 0]
    <2>1. users[u].token = mails[i].token /\ users' = [users EXCEPT ![u].verified = TRUE, ![u].token = 0]
      BY <1>3, <1>7 DEF VerifyUserEmail
    <2>2. users' = [users EXCEPT ![u] = row]
      BY <1>5, <2>1 DEF IInv, Typed
    <2>3. /\ row \in AccountRows /\ row.name = users[u].name /\ row.password = users[u].password
          /\ row.verified = TRUE /\ row.token = 0 /\ row.pending = users[u].pending
          /\ row.email = users[u].email
      BY <1>5 DEF AccountRows
    <2> HIDE DEF row
    <2>4. ~Trusted(u) /\ users[u].pending = None
      BY <1>4, <1>6, <2>1 DEF Rows
    <2>5. users[u].email = mails[i].address
      <3>1. PICK j \in Newest(CommittedLinks(u, "verify")) :
              users[u].token = mails[j].token /\ users[u].email = mails[j].address
        BY <1>6, <2>4 DEF Works
      <3>2. j \in DOMAIN mails
        BY DEF Newest, CommittedLinks
      <3>3. i = j
        BY <1>6, <2>1, <3>1, <3>2 DEF OneLetterPerToken
      <3> QED BY <3>1, <3>3
    <2>6. opened' = opened \cup {<<u, row.email>>}
      BY <1>1, <1>3, <2>3, <2>5
    <2> QED BY <1>2, <1>4, <2>2, <2>3, <2>4, <2>6, ConfirmationKeeps
  <1>8. CASE VerifyPendingEmailChange(mails[i])
    <2> DEFINE row == Confirmed(u)
    <2>1. /\ users[u].pending # None /\ users[u].pendingToken = mails[i].token
          /\ users' = [users EXCEPT ![u] = row]
      BY <1>3, <1>8 DEF VerifyPendingEmailChange
    <2>2. /\ row \in AccountRows /\ row.name = users[u].name /\ row.password = users[u].password
          /\ row.verified = TRUE /\ row.token = users[u].token /\ row.pending = None
          /\ row.email = users[u].pending
      BY <1>5, <2>1 DEF AccountRows, Confirmed
    <2> HIDE DEF row
    <2>3. Trusted(u) /\ users[u].token = 0
      BY <1>4, <1>6, <2>1 DEF Rows
    <2>4. users[u].pending = mails[i].address
      <3>1. PICK j \in Newest(CommittedLinks(u, "change")) :
              users[u].pendingToken = mails[j].token /\ users[u].pending = mails[j].address
        BY <1>6, <2>1 DEF Works
      <3>2. j \in DOMAIN mails
        BY DEF Newest, CommittedLinks
      <3>3. i = j
        BY <1>6, <2>1, <3>1, <3>2 DEF OneLetterPerToken
      <3> QED BY <3>1, <3>3
    <2>5. opened' = opened \cup {<<u, row.email>>}
      BY <1>1, <1>3, <2>2, <2>4
    <2> QED BY <1>2, <1>4, <2>1, <2>2, <2>3, <2>5, ConfirmationKeeps
  <1> QED BY <1>1, <1>7, <1>8

-----------------------------------------------------------------------------
(* A transaction commits.                                                  *)

\* The row that is there afterwards, against the one that was.
LEMMA CommittedRow ==
  ASSUME IInv, NEW r \in Requests, req[r].at = "commit", Committed(r), NEW u, u = req[r].user
  PROVE  /\ u \in Users /\ u \in spent /\ r \in Holding /\ req[r].kind \in Mailing \cup Closing
         /\ users' \in [Users -> AccountRows \cup {None}]
         /\ \A v \in Users \ {u} : users'[v] = users[v]
         /\ IF req[r].kind = "delete" THEN users'[u] = None ELSE users'[u] \in AccountRows
         /\ req[r].kind = "register" => users'[u] = NewRow(r)
         /\ req[r].kind \in {"resend", "email", "rename", "password"} =>
               /\ u \in Live /\ (Trusted(u)' <=> Trusted(u)) /\ users'[u].email = users[u].email
         /\ req[r].kind \in {"resend", "email"} =>
               users'[u].name = users[u].name /\ users'[u].password = users[u].password
         /\ req[r].kind \in {"register", "resend"} =>
               ~Trusted(u)' /\ users'[u].pending = None /\ users'[u].token = req[r].token
         /\ req[r].kind = "email" =>
               /\ Trusted(u) /\ users'[u].token = users[u].token
               /\ users'[u].pendingToken = req[r].token
         /\ req[r].kind \in {"rename", "password"} =>
               /\ users'[u].token = users[u].token /\ users'[u].pending = users[u].pending
               /\ users'[u].pendingToken = users[u].pendingToken
  <1> USE AccountsAssumption
  <1> DEFINE row == req[r].row
  <1>1. /\ Carried(r) /\ Asked(r) /\ Written(r) /\ Reads(r) /\ req[r] \in Steps /\ Rows
        /\ users \in [Users -> AccountRows \cup {None}]
    BY DEF IInv, Typed, RequestOK
  <1>2. r \in Holding /\ req[r].kind \in Mailing \cup Closing /\ u \in Users /\ u \in spent
    BY <1>1, HoldingIs DEF Carried, Asked, IInv, Typed
  <1>3. row \in AccountRows \cup {None}
    BY <1>1 DEF Steps
  <1>4. users' = [users EXCEPT ![u] = row]
    BY DEF Committed
  <1> HIDE DEF row
  <1>5. /\ users' \in [Users -> AccountRows \cup {None}]
        /\ \A v \in Users \ {u} : users'[v] = users[v]
        /\ users'[u] = row
    BY <1>1, <1>2, <1>3, <1>4
  <1>6. users[u] # None => users[u] \in AccountRows /\ u \in Live
    BY <1>1, <1>2 DEF Live
  <1>7. CASE req[r].kind = "register"
    <2>1. row = NewRow(r) /\ req[r].asked \in NewAccounts /\ req[r].token \in Nat
      BY <1>1, <1>2, <1>7 DEF Written, Asked, Steps, row
    <2>2. NewRow(r) \in AccountRows
      BY <2>1 DEF NewRow, NewAccounts, AccountRows
    <2>3. users'[u].verified = FALSE /\ users'[u].pending = None /\ users'[u].token = req[r].token
      BY <1>5, <2>1 DEF NewRow
    <2>4. ~Trusted(u)'
      BY <2>3 DEF Trusted
    <2> QED BY <1>2, <1>5, <1>7, <2>1, <2>2, <2>3, <2>4
  <1>8. CASE req[r].kind = "resend"
    <2>1. /\ users[u] # None /\ ~users[u].verified
          /\ row = [users[u] EXCEPT !.token = req[r].token]
      BY <1>1, <1>2, <1>8 DEF Written, row
    <2>2. users[u] \in AccountRows /\ u \in Live /\ req[r].token \in Nat
      BY <1>1, <1>6, <2>1 DEF Steps
    <2>3. /\ row \in AccountRows /\ row.email = users[u].email /\ row.name = users[u].name
          /\ row.password = users[u].password /\ row.token = req[r].token
          /\ row.pending = users[u].pending
      BY <2>1, <2>2 DEF AccountRows
    <2>4. row.verified = users[u].verified
      BY <2>1, <2>2 DEF AccountRows
    <2>5. ~Trusted(u)
      BY <2>1, Zenon DEF Trusted
    <2>6. ~Trusted(u)'
      BY <1>5, <2>1, <2>4, Zenon DEF Trusted
    <2>7. users[u].pending = None
      BY <1>1, <2>2, <2>5 DEF Rows
    <2> QED BY <1>2, <1>5, <1>8, <2>2, <2>3, <2>5, <2>6, <2>7
  <1>9. CASE req[r].kind = "email"
    <2>1. /\ users[u] # None /\ row = Pending(users[u], req[r].asked, req[r].token)
      BY <1>1, <1>2, <1>9 DEF Written, row
    <2>2. users[u] \in AccountRows /\ u \in Live /\ req[r].token \in Nat /\ req[r].asked \in Addresses
      BY <1>1, <1>6, <1>9, <2>1 DEF Steps, Asked
    <2>3. /\ row \in AccountRows /\ row.email = users[u].email /\ row.name = users[u].name
          /\ row.password = users[u].password /\ row.pendingToken = req[r].token
          /\ row.token = users[u].token
      BY <2>1, <2>2 DEF AccountRows, Pending
    <2>4. row.verified = users[u].verified
      BY <2>1, <2>2 DEF AccountRows, Pending
    <2>5. Trusted(u)
      BY <1>1, <1>9, <2>2 DEF Reads
    <2>6. Trusted(u)'
      BY <1>5, <2>4, <2>5, Zenon DEF Trusted
    <2> QED BY <1>2, <1>5, <1>9, <2>2, <2>3, <2>5, <2>6
  <1>10. CASE req[r].kind \in {"rename", "password"}
    <2>1. /\ users[u] # None
          /\ row = [users[u] EXCEPT !.name = req[r].asked]
               \/ row = [users[u] EXCEPT !.password = req[r].asked]
      BY <1>1, <1>2, <1>10 DEF Written, row
    <2>2. users[u] \in AccountRows /\ u \in Live
      BY <1>6, <2>1
    <2>3. /\ row.email = users[u].email /\ row.token = users[u].token
          /\ row.pending = users[u].pending /\ row.pendingToken = users[u].pendingToken
      BY <2>1, <2>2 DEF AccountRows
    <2>4. row.verified = users[u].verified
      BY <2>1, <2>2 DEF AccountRows
    <2>5. Trusted(u)' <=> Trusted(u)
      BY <1>5, <2>4, Zenon DEF Trusted
    <2>6. row \in AccountRows
      <3>1. CASE req[r].kind = "rename"
        <4>1. row = [users[u] EXCEPT !.name = req[r].asked] /\ req[r].asked \in Names
          BY <1>1, <1>2, <3>1 DEF Written, Asked, row
        <4> QED BY <2>2, <4>1 DEF AccountRows
      <3>2. CASE req[r].kind = "password"
        <4>1. row = [users[u] EXCEPT !.password = req[r].asked] /\ req[r].asked \in Passwords
          BY <1>1, <1>2, <3>2 DEF Written, Asked, row
        <4> QED BY <2>2, <4>1 DEF AccountRows
      <3> QED BY <1>10, <3>1, <3>2
    <2> QED BY <1>2, <1>5, <1>10, <2>2, <2>3, <2>5, <2>6
  <1>11. CASE req[r].kind = "delete"
    <2>1. row = None
      BY <1>1, <1>2, <1>11 DEF Written, row
    <2> QED BY <1>2, <1>5, <1>11, <2>1
  <1>12. req[r].kind \in {"register", "resend", "email", "rename", "password", "delete"}
    BY <1>2 DEF Mailing, Closing
  <1> QED BY <1>7, <1>8, <1>9, <1>10, <1>11, <1>12

\* The letter of the transaction, and no other, counts from now on.
LEMMA CommittedMails ==
  ASSUME IInv, NEW r \in Requests, Committed(r)
  PROVE  /\ mails' \in Seq(Letters) /\ DOMAIN mails' = DOMAIN mails
         /\ \A i \in DOMAIN mails :
              /\ mails'[i].user = mails[i].user /\ mails'[i].token = mails[i].token
              /\ mails'[i].address = mails[i].address /\ mails'[i].purpose = mails[i].purpose
              /\ IF mails[i].token = req[r].token THEN mails'[i].committed
                                                   ELSE mails'[i] = mails[i]
  <1>1. mails \in Seq(Letters)
    BY DEF IInv, Typed
  <1> DEFINE marked(i) == [mails[i] EXCEPT !.committed = @ \/ mails[i].token = req[r].token]
  <1>2. mails' = [i \in DOMAIN mails |-> marked(i)]
    BY DEF Committed
  <1>3. ASSUME NEW i \in DOMAIN mails
        PROVE  /\ marked(i) \in Letters
               /\ marked(i).user = mails[i].user /\ marked(i).token = mails[i].token
               /\ marked(i).address = mails[i].address /\ marked(i).purpose = mails[i].purpose
               /\ IF mails[i].token = req[r].token THEN marked(i).committed
                                                    ELSE marked(i) = mails[i]
    <2>1. mails[i] \in Letters
      BY <1>1
    <2>2. PICK now \in BOOLEAN : now = (mails[i].committed \/ mails[i].token = req[r].token)
      OBVIOUS
    <2>3. marked(i) = [mails[i] EXCEPT !.committed = now]
      BY <2>2
    <2>4. /\ marked(i) \in Letters
          /\ marked(i).user = mails[i].user /\ marked(i).token = mails[i].token
          /\ marked(i).address = mails[i].address /\ marked(i).purpose = mails[i].purpose
          /\ marked(i).committed = now
      BY <2>1, <2>3 DEF Letters
    <2>5. CASE mails[i].token = req[r].token
      BY <2>2, <2>4, <2>5
    <2>6. CASE mails[i].token # req[r].token
      <3>1. now = mails[i].committed
        BY <2>1, <2>2, <2>6 DEF Letters
      <3>2. [mails[i] EXCEPT !.committed = mails[i].committed] = mails[i]
        BY <2>1 DEF Letters
      <3> QED BY <2>3, <2>4, <2>6, <3>1, <3>2
    <2> QED BY <2>4, <2>5, <2>6
  <1> HIDE DEF marked
  <1> QED BY <1>1, <1>2, <1>3

\* The links of an account, after a commit.
LEMMA CommitKeepsLinks ==
  ASSUME IInv, NEW r \in Requests, req[r].at = "commit", Committed(r), UNCHANGED opened
  PROVE  LinksAreSound'
  <1> USE AccountsAssumption
  <1>1. PICK u : u = req[r].user
    OBVIOUS
  <1> DEFINE kind == req[r].kind
  <1>2. /\ u \in Users /\ u \in spent /\ r \in Holding /\ kind \in Mailing \cup Closing
        /\ \A v \in Users \ {u} : users'[v] = users[v]
        /\ kind = "delete" => users'[u] = None
        /\ kind \in {"resend", "email", "rename", "password"} =>
              /\ u \in Live /\ (Trusted(u)' <=> Trusted(u)) /\ users'[u].email = users[u].email
        /\ kind \in {"register", "resend"} =>
              ~Trusted(u)' /\ users'[u].pending = None /\ users'[u].token = req[r].token
        /\ kind = "email" => Trusted(u) /\ users'[u].pendingToken = req[r].token
        /\ kind \in {"rename", "password"} =>
              /\ users'[u].token = users[u].token /\ users'[u].pending = users[u].pending
              /\ users'[u].pendingToken = users[u].pendingToken
    BY <1>1, CommittedRow
  <1>3. users'[u] = req[r].row
    BY <1>1, <1>2 DEF Committed, IInv, Typed
  <1>4. /\ DOMAIN mails' = DOMAIN mails /\ DOMAIN mails \subseteq Nat
        /\ \A i \in DOMAIN mails :
             /\ mails'[i].user = mails[i].user /\ mails'[i].token = mails[i].token
             /\ mails'[i].address = mails[i].address /\ mails'[i].purpose = mails[i].purpose
             /\ IF mails[i].token = req[r].token THEN mails'[i].committed
                                                  ELSE mails'[i] = mails[i]
    BY CommittedMails DEF IInv, Typed
  <1>5. /\ Carried(r) /\ Posted(r) /\ OneLetterPerToken
        /\ \A i \in DOMAIN mails : mails[i].token # 0
    BY LettersTyped DEF IInv, RequestOK
  <1>6. ASSUME NEW i \in DOMAIN mails, mails[i].token = req[r].token
        PROVE  kind \in Mailing /\ mails[i] = Letter(r) /\ mails[i].user = u
    <2>1. kind \in Mailing
      BY <1>5, <1>6 DEF Carried
    <2>2. PICK j \in DOMAIN mails : mails[j] = Letter(r)
      BY <1>5, <2>1 DEF Posted
    <2>3. Letter(r).token = req[r].token /\ Letter(r).user = u
      BY <1>1 DEF Letter
    <2>4. i = j
      BY <1>5, <1>6, <2>2, <2>3 DEF OneLetterPerToken
    <2> QED BY <2>1, <2>2, <2>3, <2>4
  <1>7. ASSUME NEW v, v # u \/ kind \in Closing
        PROVE  \A purpose : CommittedLinks(v, purpose)' = CommittedLinks(v, purpose)
    <2>1. kind \in Closing => kind \notin Mailing
      BY DEF Closing, Mailing
    <2>2. \A i \in DOMAIN mails : mails[i].user = v => mails'[i] = mails[i]
      BY <1>4, <1>6, <1>7, <2>1
    <2> HIDE DEF kind
    <2> QED BY <1>4, <2>2 DEF CommittedLinks
  <1>8. ASSUME kind \in Mailing, NEW purpose, purpose = Letter(r).purpose
        PROVE  \E i \in DOMAIN mails :
                  /\ mails'[i].token = req[r].token /\ mails'[i].address = Letter(r).address
                  /\ i \in Newest(CommittedLinks(u, purpose))'
    <2>1. PICK i \in DOMAIN mails :
            /\ mails[i] = Letter(r)
            /\ \A j \in DOMAIN mails : j > i => mails[j].user # u
      BY <1>1, <1>5, <1>8 DEF Posted
    <2>2. Letter(r).token = req[r].token /\ Letter(r).user = u
      BY <1>1 DEF Letter
    <2>3. i \in CommittedLinks(u, purpose)'
      BY <1>4, <1>8, <2>1, <2>2 DEF CommittedLinks
    <2>4. \A j \in CommittedLinks(u, purpose)' : j \in DOMAIN mails /\ mails[j].user = u
      BY <1>4 DEF CommittedLinks
    <2>5. \A j \in CommittedLinks(u, purpose)' : j <= i
      BY <1>4, <2>1, <2>4
    <2>6. i \in Newest(CommittedLinks(u, purpose))'
      BY <2>3, <2>5 DEF Newest
    <2> QED BY <1>4, <2>1, <2>2, <2>6
  <1>9. ASSUME NEW v \in Live'
        PROVE  Works(v)' /\ (Trusted(v)' => <<v, users'[v].email>> \in opened)
    <2>1. CASE v # u
      <3>1. v \in Users \ {u} /\ users'[v] = users[v] /\ v \in Live
        BY <1>2, <2>1 DEF Live
      <3>2. Trusted(v)' <=> Trusted(v)
        BY <3>1, Zenon DEF Trusted
      <3>3. Works(v) /\ (Trusted(v) => <<v, users[v].email>> \in opened)
        BY <3>1, WorksIs, ConfirmedIs DEF IInv, LinksAreSound
      <3>4. Works(v)'
        BY <1>4, <1>7, <2>1, <3>1, <3>2, <3>3, WorksStay
      <3> QED BY <3>1, <3>2, <3>3, <3>4
    <2>2. CASE v = u /\ kind \in Closing
      <3>1. kind \in {"rename", "password"}
        BY <1>2, <2>2 DEF Closing, Live
      <3>2. Works(u) /\ (Trusted(u) => <<u, users[u].email>> \in opened)
        BY <1>2, <3>1, WorksIs, ConfirmedIs DEF IInv, LinksAreSound
      <3>3. Works(u)'
        BY <1>2, <1>4, <1>7, <2>2, <3>1, <3>2, WorksStay
      <3> QED BY <1>2, <2>2, <3>1, <3>2, <3>3
    <2>3. CASE v = u /\ kind \in {"register", "resend"}
      <3>1. kind \in Mailing /\ Letter(r).purpose = "verify" /\ Letter(r).address = users'[u].email
        BY <1>3, <2>3 DEF Mailing, Letter
      <3>2. PICK i \in DOMAIN mails :
              /\ mails'[i].token = req[r].token /\ mails'[i].address = Letter(r).address
              /\ i \in Newest(CommittedLinks(u, "verify"))'
        BY <1>8, <3>1
      <3>3. ~Trusted(u)' /\ users'[u].pending = None /\ users'[u].token = req[r].token
        BY <1>2, <2>3
      <3>4. Works(u)'
        BY <3>1, <3>2, <3>3 DEF Works
      <3> QED BY <2>3, <3>3, <3>4
    <2>4. CASE v = u /\ kind = "email"
      <3>1. kind \in Mailing /\ Letter(r).purpose = "change" /\ Letter(r).address = users'[u].pending
        BY <1>3, <2>4 DEF Mailing, Letter
      <3>2. <<u, users'[u].email>> \in opened /\ Trusted(u)'
        BY <1>2, <2>4, ConfirmedIs DEF IInv, LinksAreSound
      <3>3. PICK i \in DOMAIN mails :
              /\ mails'[i].token = req[r].token /\ mails'[i].address = Letter(r).address
              /\ i \in Newest(CommittedLinks(u, "change"))'
        BY <1>8, <3>1
      <3>4. Works(u)'
        BY <1>2, <2>4, <3>1, <3>2, <3>3 DEF Works
      <3> QED BY <2>4, <3>2, <3>4
    <2> QED BY <1>2, <2>1, <2>2, <2>3, <2>4 DEF Mailing
  <1>10. LastLinkWorks'
    BY <1>9, Zenon DEF LastLinkWorks, Works, Trusted
  <1>11. AddressWasConfirmed'
    BY <1>9, Zenon DEF AddressWasConfirmed, Trusted
  <1> QED BY <1>10, <1>11 DEF LinksAreSound

\* The transaction is over, and its request goes on with new, or is done.
LEMMA CommittedKeeps ==
  ASSUME IInv, NEW r \in Requests, req[r].at = "commit", Committed(r), NEW new \in Steps,
         req' = [req EXCEPT ![r] = new],
         new.token = 0, new.at \in {"idle", "establish"}, new.user \in {None, req[r].user},
         UNCHANGED <<spent, tokens, opened>>, RequestOK(r)'
  PROVE  IInv'
  <1> USE AccountsAssumption
  <1>1. PICK u : u = req[r].user
    OBVIOUS
  <1> DEFINE kind == req[r].kind
  <1>2. /\ u \in Users /\ u \in spent /\ r \in Holding /\ kind \in Mailing \cup Closing
        /\ users' \in [Users -> AccountRows \cup {None}]
        /\ \A v \in Users \ {u} : users'[v] = users[v]
        /\ IF kind = "delete" THEN users'[u] = None ELSE users'[u] \in AccountRows
        /\ kind \in {"resend", "email", "rename", "password"} =>
              u \in Live /\ (Trusted(u)' <=> Trusted(u))
        /\ kind \in {"resend", "email"} =>
              users'[u].name = users[u].name /\ users'[u].password = users[u].password
        /\ kind \in {"register", "resend"} => ~Trusted(u)' /\ users'[u].pending = None
        /\ kind = "email" => Trusted(u) /\ users'[u].token = users[u].token
        /\ kind \in {"rename", "password"} =>
              users'[u].token = users[u].token /\ users'[u].pending = users[u].pending
    BY <1>1, CommittedRow
  <1>3. /\ mails' \in Seq(Letters) /\ DOMAIN mails' = DOMAIN mails
        /\ \A i \in DOMAIN mails :
             /\ mails'[i].user = mails[i].user /\ mails'[i].token = mails[i].token
             /\ mails[i].token # req[r].token => mails'[i] = mails[i]
    BY CommittedMails
  <1>4. sessions' = sessions \ req[r].doomed
    BY DEF Committed
  <1>5. /\ req' \in [Requests -> Steps] /\ req'[r] = new
        /\ \A q \in Requests \ {r} : req'[q] = req[q]
    BY DEF IInv, Typed
  <1>6. \A q \in Requests \ {r} : Alike(q)
    BY <1>5 DEF Alike
  <1>7. Typed'
    BY <1>2, <1>3, <1>4, <1>5 DEF IInv, Typed
  <1>8. kind \in {"register", "resend", "email", "rename", "password", "delete"}
    BY <1>2 DEF Mailing, Closing
  <1>9. Dooms(r) /\ Reads(r) /\ Carried(r) /\ Written(r) /\ Rows /\ OneLetterPerToken
    BY DEF IInv, RequestOK
  <1>10. kind = "register" => u \notin Live /\ \A s \in sessions : s.user # u
    BY <1>1, <1>2, <1>9 DEF Dooms, Written, Live
  <1> HIDE DEF kind
  <1>11. ASSUME NEW v, v # u
         PROVE  (v \in Live' <=> v \in Live) /\ (v \in Live => (Trusted(v)' <=> Trusted(v)))
    <2>1. v \in Users => users'[v] = users[v]
      BY <1>2, <1>11
    <2>2. v \in Users => (Trusted(v)' <=> Trusted(v))
      BY <2>1, Zenon DEF Trusted
    <2> QED BY <2>1, <2>2 DEF Live
  <1>12. u \in Live' <=> kind # "delete"
    BY <1>2 DEF Live
  <1>13. ASSUME NEW q \in Requests
         PROVE  RequestOK(q)'
    <2>1. CASE q = r
      BY <2>1
    <2>2. CASE q # r
      <3>1. RequestOK(q) /\ Alike(q) /\ Typed /\ Apart(r, q) /\ req[q] \in Steps
        BY <1>6, <2>2 DEF IInv, Typed
      <3>2. PICK v : v = req[q].user /\ v = req'[q].user
        BY <3>1 DEF Alike
      <3>3. q \in Holding => users'[req[q].user] = users[req[q].user]
        <4>1. q \in Holding => req[q].user \in Users /\ req[q].user # u
          BY <1>1, <1>2, <3>1, HoldingIs DEF RequestOK, Asked, Typed, Apart
        <4> QED BY <1>2, <4>1
      <3>4. Reads(q)'
        <4>1. CASE v # u
          <5>1. v \in Live => (Trusted(v)' <=> Trusted(v))
            BY <1>11, <4>1
          <5>2. v \in Live => users'[v] = users[v]
            BY <1>2, <4>1 DEF Live
          <5>3. Trusted(req[q].user) /\ v \in Live => Trusted(v)'
            <6>1. Trusted(req[q].user) <=> Trusted(v)
              BY <3>2
            <6> QED BY <5>1, <6>1
          <5>4. Trusted(v)' <=> Trusted(req[q].user)'
            BY <3>2, Zenon DEF Trusted
          <5>5. SameTo(req[q].user)
            BY <1>11, <3>2, <4>1, <5>2, <5>3, <5>4 DEF SameTo
          <5> QED BY <3>1, <5>5, AlikeReads DEF RequestOK
        <4>2. CASE v = u
          <5>1. kind # "register"
            BY <1>1, <1>2, <3>1, <3>2, <4>2 DEF Apart, kind
          <5>2. Trusted(u)' <=> Trusted(req[q].user)'
            BY <3>2, <4>2, Zenon DEF Trusted
          <5>3. Trusted(req[q].user) <=> Trusted(u)
            BY <3>2, <4>2
          <5>4. CASE kind \in {"resend", "email"}
            <6>1. SameTo(req[q].user)
              BY <1>2, <1>12, <3>2, <4>2, <5>2, <5>3, <5>4 DEF SameTo
            <6> QED BY <3>1, <6>1, AlikeReads DEF RequestOK
          <5>5. CASE kind \in Closing
            <6>1. req[q].known # None => req'[q].overlapped
              BY <1>1, <1>2, <3>1, <3>2, <4>2, <5>5 DEF Apart, Alike, kind
            <6>2. req'[q].known = req[q].known /\ req'[q].kind = req[q].kind
              BY <3>1 DEF Alike
            <6>3. req[q].kind \in Knowing \cup {"email"} /\ u \in Live' => Trusted(u)'
              <7>1. kind \in {"rename", "password", "delete"}
                BY <5>5 DEF Closing
              <7>2. req[q].kind \in Knowing \cup {"email"} /\ u \in Live => Trusted(u)
                BY <3>1, <3>2, <4>2, <5>3 DEF RequestOK, Reads
              <7> QED BY <1>2, <1>12, <7>1, <7>2
            <6> QED BY <3>2, <4>2, <5>2, <6>1, <6>2, <6>3 DEF Reads
          <5> QED BY <1>8, <5>1, <5>4, <5>5 DEF Closing
        <4> QED BY <4>1, <4>2
      <3>5. Posted(q)'
        <4>1. Letter(q)' = Letter(q)
          BY <3>1, AlikeLetter
        <4>2. req[q].kind \in Mailing => req[q].token # 0 /\ req[q].token # req[r].token
          BY <3>1 DEF RequestOK, Carried, Apart
        <4>3. Letter(q).token = req[q].token
          BY DEF Letter
        <4>4. Posted(q)
          BY <3>1 DEF RequestOK
        <4>5. req'[q].kind = req[q].kind /\ req'[q].at = req[q].at /\ req'[q].token = req[q].token
                /\ req'[q].user = req[q].user
          BY <3>1 DEF Alike
        <4>6. req[q].kind \in Mailing /\ req[q].at \in {"write", "mail"} =>
                \A i \in DOMAIN mails' : mails'[i].token # req[q].token
          BY <1>3, <4>4 DEF Posted
        <4>7. req[q].kind \in Mailing /\ req[q].at = "commit" =>
                \E i \in DOMAIN mails' :
                   /\ mails'[i] = Letter(q)
                   /\ \A j \in DOMAIN mails' : j > i => mails'[j].user # req[q].user
          <5> SUFFICES ASSUME req[q].kind \in Mailing, req[q].at = "commit"
                       PROVE  \E i \in DOMAIN mails' :
                                 /\ mails'[i] = Letter(q)
                                 /\ \A j \in DOMAIN mails' : j > i => mails'[j].user # req[q].user
            OBVIOUS
          <5>1. PICK i \in DOMAIN mails : /\ mails[i] = Letter(q)
                                          /\ \A j \in DOMAIN mails : j > i => mails[j].user # req[q].user
            BY <4>4 DEF Posted
          <5>2. mails'[i] = Letter(q)
            BY <1>3, <4>2, <4>3, <5>1
          <5> QED BY <1>3, <5>1, <5>2
        <4> QED BY <4>1, <4>5, <4>6, <4>7 DEF Posted
      <3>6. sessions' \subseteq sessions
        BY <1>4
      <3> QED BY <1>7, <3>1, <3>3, <3>4, <3>5, <3>6, AlikeCarries, AlikeWritten, AlikeDooms
              DEF RequestOK, Typed
    <2> QED BY <2>1, <2>2
  <1>14. ASSUME NEW q \in Requests, NEW p \in Requests \ {q}
         PROVE  Apart(q, p)'
    <2>1. r \notin Holding'
      BY <1>5 DEF Holding
    <2>2. ASSUME NEW x \in Requests \ {r}
          PROVE  Apart(r, x)' /\ Apart(x, r)'
      <3>1. Alike(x) /\ Apart(r, x) /\ Apart(x, r) /\ RequestOK(x)
        BY <1>6 DEF IInv
      <3>2. x \in Holding' => x \in Holding
        BY <3>1, AlikeHolds
      <3>3. x \in Holding => req[x].user # u /\ req[x].user # None
        BY <1>1, <1>2, <3>1, HoldingIs DEF Apart, RequestOK, Asked, IInv, Typed
      <3> QED BY <1>1, <1>5, <2>1, <3>1, <3>2, <3>3 DEF Apart, Alike
    <2>3. CASE q = r \/ p = r
      BY <2>2, <2>3
    <2>4. CASE q # r /\ p # r
      BY <1>6, <2>4, AlikeApart DEF IInv
    <2> QED BY <2>3, <2>4
  <1>15. Rows'
    <2>1. Live' \subseteq spent'
      <3>1. ASSUME NEW v \in Live' PROVE v \in spent
        BY <1>2, <1>9, <1>11 DEF Rows
      <3> QED BY <3>1
    <2>2. ASSUME NEW v \in Live'
          PROVE  /\ Trusted(v)' => users'[v].token = 0
                 /\ users'[v].pending # None => Trusted(v)'
      <3>1. CASE v # u
        <4>1. v \in Live /\ users'[v] = users[v]
          BY <1>2, <1>11, <3>1 DEF Live
        <4> QED BY <1>9, <1>11, <3>1, <4>1 DEF Rows
      <3>2. CASE v = u
        BY <1>2, <1>8, <1>9, <1>12, <3>2 DEF Rows
      <3> QED BY <3>1, <3>2
    <2>3. ASSUME NEW s \in sessions'
          PROVE  s.user \in spent /\ (s.user \in Live' => Trusted(s.user)')
      <3>1. s \in sessions /\ s.user \in spent /\ (s.user \in Live => Trusted(s.user))
        BY <1>4, <1>9 DEF Rows
      <3>2. CASE s.user # u
        BY <1>11, <3>1, <3>2
      <3>3. CASE s.user = u
        <4>1. Trusted(s.user)' <=> Trusted(u)'
          BY <3>3
        <4> QED BY <1>2, <1>8, <1>10, <1>12, <3>1, <3>3, <4>1
      <3> QED BY <3>1, <3>2, <3>3
    <2> QED BY <2>1, <2>2, <2>3 DEF Rows
  <1>16. OneLetterPerToken'
    BY <1>3, <1>9 DEF OneLetterPerToken
  <1>17. LinksAreSound'
    BY CommitKeepsLinks
  <1>18. OnlyOverlappedSessionsAreOutdated'
    <2> SUFFICES ASSUME NEW s \in sessions', ~s.overlapped, ~s.rewritten
                 PROVE  /\ s.user \in Live' /\ s.name = users'[s.user].name
                        /\ s.password = users'[s.user].password
      BY DEF OnlyOverlappedSessionsAreOutdated
    <2>1. s \in sessions /\ s \notin req[r].doomed
      BY <1>4
    <2>2. /\ s.user \in Live /\ s.name = users[s.user].name
          /\ s.password = users[s.user].password
      BY <2>1 DEF IInv, OnlyOverlappedSessionsAreOutdated
    <2>3. CASE s.user # u
      BY <1>2, <1>11, <2>2, <2>3 DEF Live
    <2>4. CASE s.user = u
      <3>1. kind \notin Closing
        BY <1>1, <1>9, <2>1, <2>4 DEF Dooms, kind
      <3>2. kind \in {"resend", "email"}
        BY <1>8, <1>10, <2>1, <2>4, <3>1 DEF Closing
      <3> QED BY <1>2, <1>12, <2>2, <2>4, <3>2
    <2> QED BY <2>3, <2>4
  <1> QED BY <1>7, <1>13, <1>14, <1>15, <1>16, <1>17, <1>18 DEF IInv

LEMMA DoneKeeps ==
  ASSUME IInv, NEW r \in Requests, req[r].at = "commit", Committed(r),
         req' = [req EXCEPT ![r] = Idle], UNCHANGED <<spent, tokens, opened>>
  PROVE  IInv'
  <1> USE AccountsAssumption
  <1>1. Idle \in Steps /\ Idle.token = 0 /\ Idle.at = "idle" /\ Idle.user = None
    BY DEF Idle, Steps
  <1>2. req'[r] = Idle /\ tokens' \in Nat
    BY DEF IInv, Typed
  <1>3. RequestOK(r)'
    BY <1>2, IdleIsOK
  <1> QED BY <1>1, <1>3, CommittedKeeps

\* After a rename or a password change the handler goes on with a session.
LEMMA SignsInAgainKeeps ==
  ASSUME IInv, NEW r \in Requests, req[r].at = "commit", Committed(r),
         req[r].kind \in {"rename", "password"},
         req' = [req EXCEPT ![r] = SignsInAgain(r)], UNCHANGED <<spent, tokens, opened>>
  PROVE  IInv'
  <1> USE AccountsAssumption
  <1>1. PICK u : u = req[r].user
    OBVIOUS
  <1>2. PICK new : new = SignsInAgain(r)
    OBVIOUS
  <1>3. /\ u \in Users /\ u \in spent /\ u \in Live /\ (Trusted(u)' <=> Trusted(u))
        /\ users'[u] \in AccountRows /\ r \in Holding
    BY <1>1, CommittedRow
  <1>4. /\ Carried(r) /\ Asked(r) /\ Written(r) /\ Reads(r) /\ req[r] \in Steps
        /\ req \in [Requests -> Steps]
        /\ users \in [Users -> AccountRows \cup {None}]
    BY DEF IInv, Typed, RequestOK
  <1>5. users'[u] = req[r].row /\ users[u] \in AccountRows
    BY <1>1, <1>3, <1>4 DEF Committed, Live
  <1>6. req[r].kind = "password" => req[r].asked \in Passwords
    BY <1>4 DEF Asked
  <1>7. /\ new.at = "establish" /\ new.kind = req[r].kind /\ new.user = u /\ new.row = users'[u]
        /\ new.overlapped = req[r].overlapped /\ new.token = 0 /\ new.doomed = {} /\ new.asked = None
        /\ new.known = IF req[r].kind = "password" THEN req[r].asked ELSE req[r].known
    BY <1>1, <1>2, <1>5 DEF SignsInAgain, Idle
  <1>8. new.known \in Passwords
    <2>1. req[r].known # None /\ req[r].known \in Passwords \cup {None}
      BY <1>4 DEF Carried, Signing, Knowing, Steps
    <2> QED BY <1>6, <1>7, <2>1
  <1>9. new \in Steps
    <2>1. PICK known : known = IF req[r].kind = "password" THEN req[r].asked ELSE req[r].known
      OBVIOUS
    <2>2. known \in Passwords
      BY <1>7, <1>8, <2>1
    <2>3. new = [Idle EXCEPT !.at = "establish", !.kind = req[r].kind, !.user = req[r].user,
                             !.row = req[r].row, !.overlapped = req[r].overlapped, !.known = known]
      BY <1>2, <2>1 DEF SignsInAgain
    <2>4. /\ req[r].user \in Users \cup {None} /\ req[r].row \in AccountRows \cup {None}
          /\ req[r].overlapped \in BOOLEAN /\ req[r].kind \in {"rename", "password"}
      BY <1>4 DEF Steps
    <2> QED BY <2>2, <2>3, <2>4 DEF Idle, Steps, Closing
  <1>10. req'[r] = new
    BY <1>2, <1>4
  <1>11. RequestOK(r)'
    <2>1. tokens' \in Nat /\ spent' = spent
      BY DEF IInv, Typed
    <2>2. Carried(r)'
      BY <1>3, <1>7, <1>8, <1>10, <2>1 DEF Carried, Signing, Knowing, Mailing
    <2>3. Asked(r)'
      BY <1>3, <1>7, <1>10, <2>1 DEF Asked
    <2>4. Written(r)' /\ Dooms(r)' /\ Posted(r)'
      BY <1>7, <1>10 DEF Written, Holding, Dooms, Posted, Mailing
    <2>5. Reads(r)'
      <3>1. u \in Live'
        BY <1>3 DEF Live
      <3>2. Trusted(u)
        BY <1>1, <1>3, <1>4 DEF Reads, Signing, Knowing
      <3>3. Trusted(req[r].user)' <=> Trusted(u)'
        BY <1>7, <1>10, Zenon DEF Trusted
      <3>4. ~new.overlapped => users'[u].password = new.known
        <4>1. CASE req[r].kind = "password"
          <5>1. req[r].row = [users[u] EXCEPT !.password = req[r].asked]
            BY <1>1, <1>3, <1>4, <4>1 DEF Written
          <5> QED BY <1>5, <1>7, <4>1, <5>1 DEF AccountRows
        <4>2. CASE req[r].kind = "rename"
          <5>1. req[r].row = [users[u] EXCEPT !.name = req[r].asked]
            BY <1>1, <1>3, <1>4, <4>2 DEF Written
          <5>2. ~req[r].overlapped => users[u].password = req[r].known
            BY <1>1, <1>4, <4>2 DEF Reads, Carried, Signing, Knowing
          <5> QED BY <1>5, <1>7, <4>2, <5>1, <5>2 DEF AccountRows
        <4> QED BY <4>1, <4>2
      <3> QED BY <1>3, <1>7, <1>10, <3>1, <3>2, <3>3, <3>4 DEF Reads
    <2> QED BY <2>2, <2>3, <2>4, <2>5 DEF RequestOK
  <1>12. new.user \in {None, req[r].user} /\ new.at \in {"idle", "establish"}
    BY <1>1, <1>7
  <1>13. req' = [req EXCEPT ![r] = new]
    BY <1>2
  <1> QED BY <1>7, <1>9, <1>11, <1>12, <1>13, CommittedKeeps

LEMMA CommitKeeps ==
  ASSUME IInv, NEW r \in Requests, Commit(r)
  PROVE  IInv'
  <1>1. /\ req[r].at = "commit" /\ Committed(r) /\ UNCHANGED <<spent, tokens, opened>>
        /\ req' = [req EXCEPT ![r] = IF req[r].kind \in {"rename", "password"}
                                       THEN SignsInAgain(r) ELSE Idle]
    BY DEF Commit
  <1>2. CASE req[r].kind \in {"rename", "password"}
    BY <1>1, <1>2, SignsInAgainKeeps
  <1>3. CASE req[r].kind \notin {"rename", "password"}
    BY <1>1, <1>3, DoneKeeps
  <1> QED BY <1>2, <1>3

LEMMA FailureKeeps ==
  ASSUME IInv, NEW r \in Requests, CommitFails(r) \/ RollBack(r)
  PROVE  IInv'
  <1>1. req' = [req EXCEPT ![r] = Idle] /\ UNCHANGED <<spent, tokens, opened>>
    BY DEF CommitFails, RollBack
  <1>2. CASE UNCHANGED <<users, sessions, mails>>
    BY <1>1, <1>2, GivesUp DEF IInv, Typed
  <1>3. CASE req[r].at = "commit" /\ Committed(r)
    BY <1>1, <1>3, DoneKeeps
  <1> QED BY <1>2, <1>3 DEF CommitFails, RollBack

-----------------------------------------------------------------------------
LEMMA NextKeeps == ASSUME IInv, [Next]_vars PROVE IInv'
  <1>1. CASE Next
    <2>1. CASE OpenLink
      BY <2>1, OpenLinkKeeps
    <2>2. ASSUME NEW s \in sessions, SessionEnds(s) PROVE IInv'
      BY <2>2, FewerSessionsKeep DEF SessionEnds
    <2>3. ASSUME NEW r \in Requests,
                 \/ \E name \in Names, email \in Addresses : Register(r, name, email)
                 \/ CreateUser(r) \/ Resend(r) \/ UpdateVerificationToken(r) \/ SendMail(r)
                 \/ Login(r) \/ Establish(r) \/ LoadSession(r) \/ SaveSession(r)
          PROVE  IInv'
      BY <2>3, RegisterKeeps, CreateUserKeeps, ResendKeeps, UpdateVerificationTokenKeeps,
         SendMailKeeps, LoginKeeps, EstablishKeeps, LoadSessionKeeps, SaveSessionKeeps
    <2>4. ASSUME NEW r \in Requests,
                 \/ Rename(r) \/ RequestEmailChange(r) \/ ChangePassword(r) \/ DeleteAccount(r)
                 \/ UpdateUser(r) \/ DeleteUserSessions(r) \/ DeleteUserRecord(r)
          PROVE  IInv'
      BY <2>4, RenameKeeps, RequestEmailChangeKeeps, ChangePasswordKeeps, DeleteAccountKeeps,
         UpdateUserKeeps, DeleteUserSessionsKeeps, DeleteUserRecordKeeps
    <2>5. ASSUME NEW r \in Requests, Commit(r) \/ CommitFails(r) \/ RollBack(r)
          PROVE  IInv'
      BY <2>5, CommitKeeps, FailureKeeps
    <2> QED BY <1>1, <2>1, <2>2, <2>3, <2>4, <2>5 DEF Next
  <1>2. CASE UNCHANGED vars
    BY <1>2, FewerSessionsKeep DEF vars
  <1> QED BY <1>1, <1>2

\* Everything the two properties rest on holds in every state: what each
\* request carries from await to await, which of two requests on an account
\* knows of the other, and what the tables keep.
THEOREM AccountsInductive == Spec => []IInv
  <1>1. Init => IInv
    BY InitIInv
  <1>2. IInv /\ [Next]_vars => IInv'
    BY NextKeeps
  <1> QED BY <1>1, <1>2, PTL DEF Spec

\* Only an opened link makes an address count as confirmed, and the last link
\* that was mailed and committed is the one that works, for any number of
\* accounts, requests in flight and mails (registerUser,
\* resendVerificationEmail, requestAccountEmailChange and the two statements
\* that verify a token).
THEOREM LinksAreSoundHolds == Spec => []LinksAreSound
  <1>1. IInv => LinksAreSound
    BY DEF IInv
  <1> QED BY <1>1, AccountsInductive, PTL

\* A session that no overlapped request opened or wrote back is of an account
\* that exists, under its name and password, whatever requests rename, change
\* and delete it and whatever responses save a session (deleteUserSessions
\* inside the transactions of account.service.js).
THEOREM OnlyOverlappedSessionsAreOutdatedHolds == Spec => []OnlyOverlappedSessionsAreOutdated
  <1>1. IInv => OnlyOverlappedSessionsAreOutdated
    BY DEF IInv
  <1> QED BY <1>1, AccountsInductive, PTL

=============================================================================
