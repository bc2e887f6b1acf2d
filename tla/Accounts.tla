------------------------------ MODULE Accounts ------------------------------
(***************************************************************************)
(* Logins of creators: signing up, confirming an address, signing in, a    *)
(* new password, a new address, signing out, deleting the login (api/      *)
(* user.go, account_recovery.go, account_settings.go over postgres/        *)
(* account.go, account_settings.go, password_reset.go).                    *)
(*                                                                         *)
(* Every handler is a sequence of single statements, and other requests'   *)
(* statements run between them.  SaveAccount writes the whole row that was *)
(* read before.  Mail is sent; whoever owns the address may open a letter  *)
(* at any time, and more than once.                                        *)
(***************************************************************************)
EXTENDS Integers, FiniteSets

CONSTANTS Logins,        \* ids of logins; a new login's person has the same id here
          Emails, Passwords,
          Requests,      \* requests that are handled at the same time
          MailMax,       \* mailMaxPerEmail
          SigninMax,     \* signinMaxPerEmail
          MaxRequests,   \* bound: requests in a behaviour
          MaxBroken,     \* bound: requests whose next statement fails, or that die with the server
          None

VARIABLES db,       \* the tables
          mem,      \* emails sent and failed sign-ins, counted in memory
          letters,  \* what was mailed
          req,      \* requests in progress
          past      \* history, and the counters that bound it

vars == <<db, mem, letters, req, past>>

Idle == [op |-> "none", pc |-> "none"]
Tokens == Nat \ {0}
Row == [email : Emails, pw : Passwords, verified : BOOLEAN, token : Tokens \cup {0}]
Letter == [kind : {"verify", "reset", "change"}, to : Emails, token : Tokens]

AccountsConstants ==
  /\ None \notin Logins /\ None \notin Emails /\ None \notin Row
  /\ IsFiniteSet(Requests)
  /\ MailMax \in Nat /\ SigninMax \in Nat \ {0}

\* A row of accounts, its statement ON CONFLICT included: no two rows have one email.
Clash(l, new) == \E m \in Logins \ {l} : db.row[m] # None /\ db.row[m].email = new.email
GetAccountByEmail(e) == {l \in Logins : db.row[l] # None /\ db.row[l].email = e}
GetAccountByVerificationToken(t) == {l \in Logins : db.row[l] # None /\ db.row[l].token = t}

At(r, op, pc) == req[r] # Idle /\ req[r].op = op /\ req[r].pc = pc
Go(r, pc) == req' = [req EXCEPT ![r].pc = pc]
Answer(r) == req' = [req EXCEPT ![r] = Idle]
Mint == past.minted + 1

\* GetAccount into the request's own copy; "seen" and "gen" remember which state of the row that was.
Load(r, l, pc) == req' = [req EXCEPT ![r] = [@ EXCEPT !.login = l, !.acct = db.row[l], !.seen = db.row[l],
                                                      !.gen = past.gen[l], !.pc = pc]]

\* The write is based on a row that is no longer as it was read.
Overtaken(r) == db.row[req[r].login] # req[r].seen \/ past.gen[req[r].login] # req[r].gen

\* SaveAccount with the copy "new": the whole row, inserted again if it is gone.
SaveAccount(r, new, next, refused) ==
  LET l == req[r].login IN
  \/ /\ Clash(l, new)
     /\ refused
     /\ UNCHANGED <<db, past>>
  \/ /\ ~Clash(l, new)
     /\ db' = [db EXCEPT !.row[l] = new]
     /\ past' = [past EXCEPT !.stale = @ \/ Overtaken(r),
                             !.had = @ \cup {l},
                             !.gen[l] = IF req[r].op \in {"register", "reset", "password"} THEN @ + 1 ELSE @,
                             !.confirmed[l] = IF req[r].op = "confirm" THEN @ + 1 ELSE @,
                             !.minted = IF new.token > @ THEN new.token ELSE @,
                             !.proved[l] = IF req[r].op \in {"confirm", "reset", "move"}
                                           THEN @ \cup {req[r].email} ELSE @]
     /\ IF next = "none" THEN Answer(r)
        ELSE req' = [req EXCEPT ![r] = [@ EXCEPT !.acct = new, !.seen = new, !.gen = past'.gen[l], !.pc = next]]

SaveSession(l, t, g) == db' = [db EXCEPT !.session = @ \cup {[token |-> t, login |-> l, gen |-> g]}]
GetSession(t) == {s \in db.session : s.token = t}
DeleteSession(t) == db' = [db EXCEPT !.session = {s \in @ : s.token # t}]

\* DeleteAccount: sessions and links go with the row.
DeleteAccount(l) == db' = [db EXCEPT !.row[l] = None, !.session = {s \in @ : s.login # l},
                                     !.reset[l] = 0, !.change[l] = [token |-> 0]]

\* startSession: refused by the foreign key when the login is gone.
startSession(r, l) ==
  \/ db.row[l] = None /\ UNCHANGED <<db, past>>
  \/ /\ db.row[l] # None
     /\ SaveSession(l, Mint, req[r].gen)
     /\ past' = [past EXCEPT !.minted = Mint, !.stale = @ \/ Overtaken(r)]

\* mayMail: one more email to this address, counted when it may go.
mayMail(e) == mem.mails[e] < MailMax
Mailed(e) == mem' = [mem EXCEPT !.mails[e] = @ + 1]

Send(r, kind, to, token) ==
  /\ letters' = letters \cup {[kind |-> kind, to |-> to, token |-> token]}
  /\ Answer(r)
  /\ UNCHANGED <<db, mem, past>>

(***************************************************************************)
(* Signing up.                                                             *)
(***************************************************************************)
\* sendVerification makes a link when the copy has none; the letter is sent in a step of its own.
sendVerification(r) ==
  \/ /\ req[r].pc = "link"
     /\ req[r].acct.token = 0
     /\ SaveAccount(r, [req[r].acct EXCEPT !.token = Mint], "send", Answer(r))
     /\ UNCHANGED <<mem, letters>>
  \/ /\ req[r].pc = "link"
     /\ req[r].acct.token # 0
     /\ Go(r, "send")
     /\ UNCHANGED <<db, mem, letters, past>>
  \/ /\ req[r].pc = "send"
     /\ req[r].op \in {"register", "resend"}
     /\ Send(r, "verify", req[r].acct.email, req[r].acct.token)

\* An address that has a login: its owner is told, or, never confirmed, it takes the new password and a new link.
answerTakenRegistration(r) ==
  /\ At(r, "register", "taken")
  /\ \/ ~mayMail(req[r].acct.email) /\ Answer(r) /\ UNCHANGED mem
     \/ /\ mayMail(req[r].acct.email)
        /\ Mailed(req[r].acct.email)
        /\ IF req[r].acct.verified
           THEN Answer(r)
           ELSE req' = [req EXCEPT ![r] = [@ EXCEPT !.acct.pw = req[r].pw, !.acct.token = 0, !.pc = "link"]]
  /\ UNCHANGED <<db, letters, past>>

registerUser(r) ==
  \/ /\ At(r, "register", "find")
     /\ \/ \E l \in GetAccountByEmail(req[r].email) : Load(r, l, "taken")
        \/ GetAccountByEmail(req[r].email) = {} /\ Go(r, "person")
     /\ UNCHANGED <<db, mem, letters, past>>
  \/ answerTakenRegistration(r)
  \/ /\ At(r, "register", "person")          \* SavePerson
     /\ db' = [db EXCEPT !.person = @ \cup {req[r].login}]
     /\ Go(r, "save")
     /\ UNCHANGED <<mem, letters, past>>
  \/ /\ At(r, "register", "save")
     /\ SaveAccount(r, [email |-> req[r].email, pw |-> req[r].pw, verified |-> FALSE, token |-> Mint],
                    "mail", Go(r, "undo"))
     /\ UNCHANGED <<mem, letters>>
  \/ /\ At(r, "register", "undo")            \* DeletePerson
     /\ db' = [db EXCEPT !.person = @ \ {req[r].login}]
     /\ Answer(r)
     /\ UNCHANGED <<mem, letters, past>>
  \/ /\ At(r, "register", "mail")
     /\ IF mayMail(req[r].email) THEN Mailed(req[r].email) /\ Go(r, "link") ELSE Answer(r) /\ UNCHANGED mem
     /\ UNCHANGED <<db, letters, past>>

resendVerification(r) ==
  \/ /\ At(r, "resend", "mail")
     /\ IF mayMail(req[r].email) THEN Mailed(req[r].email) /\ Go(r, "find") ELSE Answer(r) /\ UNCHANGED mem
     /\ UNCHANGED <<db, letters, past>>
  \/ /\ At(r, "resend", "find")
     /\ LET found == {l \in GetAccountByEmail(req[r].email) : ~db.row[l].verified} IN
        \/ \E l \in found : Load(r, l, "link")
        \/ found = {} /\ Answer(r)
     /\ UNCHANGED <<db, mem, letters, past>>

\* The link is looked up, the row it was found in saved as confirmed, and its owner signed in.
confirmEmail(r) ==
  \/ /\ At(r, "confirm", "find")
     /\ LET found == {l \in GetAccountByVerificationToken(req[r].token) : ~db.row[l].verified} IN
        \/ \E l \in found : Load(r, l, "save")
        \/ found = {} /\ Answer(r)
     /\ UNCHANGED <<db, mem, letters, past>>
  \/ /\ At(r, "confirm", "save")
     /\ SaveAccount(r, [req[r].acct EXCEPT !.verified = TRUE, !.token = 0], "session", Answer(r))
     /\ UNCHANGED <<mem, letters>>
  \/ /\ At(r, "confirm", "session")
     /\ startSession(r, req[r].login)
     /\ mem' = IF db.row[req[r].login] = None THEN mem ELSE [mem EXCEPT !.tries[req[r].acct.email] = 0]
     /\ Answer(r)
     /\ UNCHANGED letters

(***************************************************************************)
(* Signing in.  Tries are looked at when a request comes and counted when  *)
(* it has failed.                                                          *)
(***************************************************************************)
loginUser(r) ==
  LET e == req[r].email IN
  \/ /\ At(r, "login", "count")
     /\ IF mem.tries[e] >= SigninMax THEN Answer(r) ELSE Go(r, "find")
     /\ UNCHANGED <<db, mem, letters, past>>
  \/ /\ At(r, "login", "find")
     /\ \/ \E l \in GetAccountByEmail(e) : Load(r, l, "compare") /\ UNCHANGED mem
        \/ GetAccountByEmail(e) = {} /\ mem' = [mem EXCEPT !.tries[e] = @ + 1] /\ Answer(r)
     /\ UNCHANGED <<db, letters, past>>
  \/ /\ At(r, "login", "compare")
     /\ \/ /\ req[r].acct.pw # req[r].pw
           /\ mem' = [mem EXCEPT !.tries[e] = @ + 1]
           /\ Answer(r)
        \/ /\ req[r].acct.pw = req[r].pw
           /\ IF req[r].acct.verified
              THEN mem' = [mem EXCEPT !.tries[e] = 0] /\ Go(r, "session")
              ELSE Answer(r) /\ UNCHANGED mem
     /\ UNCHANGED <<db, letters, past>>
  \/ /\ At(r, "login", "session")
     /\ startSession(r, req[r].login)
     /\ Answer(r)
     /\ UNCHANGED <<mem, letters>>

\* userAuth: the session, then the row of its login.
userAuth(r) ==
  \/ /\ req[r].pc = "auth"
     /\ \/ \E s \in GetSession(req[r].token) : req' = [req EXCEPT ![r] = [@ EXCEPT !.login = s.login, !.pc = "owner"]]
        \/ GetSession(req[r].token) = {} /\ Answer(r)
     /\ UNCHANGED <<db, mem, letters, past>>
  \/ /\ req[r].pc = "owner"
     /\ IF db.row[req[r].login] = None THEN Answer(r) ELSE Load(r, req[r].login, "do")
     /\ UNCHANGED <<db, mem, letters, past>>

\* DeleteOtherSessions; the session that is kept counts as one of the new password.
DeleteOtherSessions(l, keep) ==
  db' = [db EXCEPT !.session = {s \in @ : s.login # l}
                               \cup {[s EXCEPT !.gen = past.gen[l]] : s \in {s \in @ : s.login = l /\ s.token = keep}}]

signOutOthers(r) ==
  /\ At(r, "others", "do")
  /\ DeleteOtherSessions(req[r].login, req[r].token)
  /\ Answer(r)
  /\ UNCHANGED <<mem, letters, past>>

\* userAuth guards it too; only this session ends.
logoutUser(r) ==
  /\ At(r, "logout", "do")
  /\ DeleteSession(req[r].token)
  /\ Answer(r)
  /\ UNCHANGED <<mem, letters, past>>

(***************************************************************************)
(* A new password: with the current one, or with a link.                   *)
(***************************************************************************)
changeMyPassword(r) ==
  LET e == req[r].acct.email IN
  \/ /\ At(r, "password", "do")
     /\ \/ mem.tries[e] >= SigninMax /\ Answer(r) /\ UNCHANGED mem
        \/ /\ mem.tries[e] < SigninMax
           /\ IF req[r].acct.pw # req[r].old
              THEN mem' = [mem EXCEPT !.tries[e] = @ + 1] /\ Answer(r)
              ELSE Go(r, "save") /\ UNCHANGED mem
     /\ UNCHANGED <<db, letters, past>>
  \/ /\ At(r, "password", "save")
     /\ SaveAccount(r, [req[r].acct EXCEPT !.pw = req[r].pw], "signout", Answer(r))
     /\ mem' = IF Clash(req[r].login, req[r].acct) THEN mem ELSE [mem EXCEPT !.tries[e] = 0]
     /\ UNCHANGED letters
  \/ /\ At(r, "password", "signout")
     /\ DeleteOtherSessions(req[r].login, req[r].token)
     /\ Answer(r)
     /\ UNCHANGED <<mem, letters, past>>

\* SavePasswordReset: a new link ends the login's earlier one.
SavePasswordReset(l, t) == db' = [db EXCEPT !.reset[l] = t]

forgotPassword(r) ==
  \/ /\ At(r, "forgot", "mail")
     /\ IF mayMail(req[r].email) THEN Mailed(req[r].email) /\ Go(r, "find") ELSE Answer(r) /\ UNCHANGED mem
     /\ UNCHANGED <<db, letters, past>>
  \/ /\ At(r, "forgot", "find")
     /\ \/ \E l \in GetAccountByEmail(req[r].email) : Load(r, l, "make")
        \/ GetAccountByEmail(req[r].email) = {} /\ Answer(r)
     /\ UNCHANGED <<db, mem, letters, past>>
  \/ /\ At(r, "forgot", "make")
     /\ IF db.row[req[r].login] = None THEN Answer(r) /\ UNCHANGED <<db, past>>
        ELSE /\ SavePasswordReset(req[r].login, Mint)
             /\ past' = [past EXCEPT !.minted = Mint]
             /\ req' = [req EXCEPT ![r] = [@ EXCEPT !.token = Mint, !.pc = "send"]]
     /\ UNCHANGED <<mem, letters>>
  \/ /\ At(r, "forgot", "send")
     /\ Send(r, "reset", req[r].acct.email, req[r].token)

(* A mistake: the link is read, and deleted later. *)
TakeLater(t) == UNCHANGED db

\* A link is deleted in the statement that reads it; one that ran out is used up all the same.
TakePasswordReset(t) == db' = [db EXCEPT !.reset = [l \in Logins |-> IF @[l] = t THEN 0 ELSE @[l]]]
TakeEmailChange(t) == db' = [db EXCEPT !.change = [l \in Logins |-> IF @[l].token = t THEN [token |-> 0] ELSE @[l]]]

\* The outcome of taking a link that was found in "found": its login, and whether it had run out.
Taken(r, found) ==
  \/ found = {} /\ Answer(r) /\ UNCHANGED past
  \/ \E l \in found, late \in BOOLEAN :
       IF late THEN Answer(r) /\ UNCHANGED past
       ELSE /\ req' = [req EXCEPT ![r] = [@ EXCEPT !.login = l, !.pc = "account",
                                 !.new = IF req[r].op = "move" THEN db.change[l].email ELSE None]]
            /\ past' = [past EXCEPT !.used = @ \cup {req[r].token},
                                    !.twice = @ \/ req[r].token \in past.used]

(* A mistake: a reset leaves sessions as they are. *)
KeepSessions(l) == UNCHANGED db

\* DeleteSessionsOf.
DeleteSessionsOf(l) == db' = [db EXCEPT !.session = {s \in @ : s.login # l}]

resetPassword(r) ==
  \/ /\ At(r, "reset", "take")
     /\ TakePasswordReset(req[r].token)
     /\ Taken(r, {l \in Logins : db.reset[l] = req[r].token})
     /\ UNCHANGED <<mem, letters>>
  \/ /\ At(r, "reset", "account")
     /\ IF db.row[req[r].login] = None THEN Answer(r) ELSE Load(r, req[r].login, "save")
     /\ UNCHANGED <<db, mem, letters, past>>
  \/ /\ At(r, "reset", "save")
     /\ SaveAccount(r, [req[r].acct EXCEPT !.pw = req[r].pw, !.verified = TRUE, !.token = 0], "signout", Answer(r))
     /\ UNCHANGED <<mem, letters>>
  \/ /\ At(r, "reset", "signout")
     /\ DeleteSessionsOf(req[r].login)
     /\ mem' = [mem EXCEPT !.tries[req[r].acct.email] = 0]
     /\ Answer(r)
     /\ UNCHANGED <<letters, past>>

(***************************************************************************)
(* A new address, and the end of a login.                                  *)
(***************************************************************************)
\* SaveEmailChange: a new link ends the login's earlier one.
SaveEmailChange(l, t, e) == db' = [db EXCEPT !.change[l] = [token |-> t, email |-> e]]

\* The link goes to the new address: opening it proves that one.
linkGoesTo(r) == req[r].email

askToChangeEmail(r) ==
  \/ /\ At(r, "ask", "do")
     /\ IF req[r].email # req[r].acct.email /\ mayMail(req[r].email)
        THEN Mailed(req[r].email) /\ Go(r, "find")
        ELSE Answer(r) /\ UNCHANGED mem
     /\ UNCHANGED <<db, letters, past>>
  \/ /\ At(r, "ask", "find")
     /\ IF GetAccountByEmail(req[r].email) # {} THEN Answer(r) ELSE Go(r, "make")
     /\ UNCHANGED <<db, mem, letters, past>>
  \/ /\ At(r, "ask", "make")
     /\ IF db.row[req[r].login] = None THEN Answer(r) /\ UNCHANGED <<db, past>>
        ELSE /\ SaveEmailChange(req[r].login, Mint, req[r].email)
             /\ past' = [past EXCEPT !.minted = Mint]
             /\ req' = [req EXCEPT ![r] = [@ EXCEPT !.token = Mint, !.pc = "send"]]
     /\ UNCHANGED <<mem, letters>>
  \/ /\ At(r, "ask", "send")
     /\ Send(r, "change", linkGoesTo(r), req[r].token)

confirmEmailChange(r) ==
  \/ /\ At(r, "move", "take")
     /\ TakeEmailChange(req[r].token)
     /\ Taken(r, {l \in Logins : db.change[l].token = req[r].token})
     /\ UNCHANGED <<mem, letters>>
  \/ /\ At(r, "move", "account")
     /\ IF db.row[req[r].login] = None THEN Answer(r) ELSE Load(r, req[r].login, "other")
     /\ UNCHANGED <<db, mem, letters, past>>
  \/ /\ At(r, "move", "other")
     /\ IF GetAccountByEmail(req[r].new) \subseteq {req[r].login} THEN Go(r, "save") ELSE Answer(r)
     /\ UNCHANGED <<db, mem, letters, past>>
  \/ /\ At(r, "move", "save")
     /\ SaveAccount(r, [req[r].acct EXCEPT !.email = req[r].new, !.verified = TRUE, !.token = 0],
                    "none", Answer(r))                  \* the old address is told by mail
     /\ UNCHANGED <<mem, letters>>

\* deleteMe: what the creator built goes first (elsewhere), then the row, and with it sessions and links.
deleteMe(r) ==
  LET l == req[r].login IN
  /\ At(r, "delete", "do")
  /\ IF req[r].email # req[r].acct.email THEN UNCHANGED <<db, past>>
     ELSE /\ DeleteAccount(l)
          /\ past' = [past EXCEPT !.deleted = @ \cup {l}]
  /\ Answer(r)
  /\ UNCHANGED <<mem, letters>>

(***************************************************************************)
(* Requests come, are handled a statement at a time, and may break off.    *)
(***************************************************************************)
Blank == [op |-> "none", pc |-> "none", login |-> None, email |-> None, new |-> None, pw |-> None, old |-> None,
          token |-> 0, acct |-> None, seen |-> None, gen |-> 0]

Begin(r, op, pc, in) ==
  /\ req[r] = Idle
  /\ past.asked < MaxRequests
  /\ req' = [req EXCEPT ![r] = [in EXCEPT !.op = op, !.pc = pc]]
  /\ past' = [past EXCEPT !.asked = @ + 1, !.born = IF op = "register" THEN @ \cup {in.login} ELSE @]
  /\ UNCHANGED <<db, mem, letters>>

\* Anyone may sign up, sign in, or ask for a link.
AskAtTheDoor(r) == \E e \in Emails :
  \/ \E l \in Logins \ past.born, p \in Passwords :
       Begin(r, "register", "find", [Blank EXCEPT !.login = l, !.email = e, !.pw = p])
  \/ \E p \in Passwords : Begin(r, "login", "count", [Blank EXCEPT !.email = e, !.pw = p])
  \/ Begin(r, "resend", "mail", [Blank EXCEPT !.email = e])
  \/ Begin(r, "forgot", "mail", [Blank EXCEPT !.email = e])

\* Whoever got a letter may press its button.
AskByLetter(r) == \E m \in letters :
  \/ m.kind = "verify" /\ Begin(r, "confirm", "find", [Blank EXCEPT !.token = m.token, !.email = m.to])
  \/ \E p \in Passwords :
       m.kind = "reset" /\ Begin(r, "reset", "take", [Blank EXCEPT !.token = m.token, !.email = m.to, !.pw = p])
  \/ m.kind = "change" /\ Begin(r, "move", "take", [Blank EXCEPT !.token = m.token, !.email = m.to])

\* Whoever is signed in may use the account page.
AskSignedIn(r) == \E s \in db.session :
  LET in == [Blank EXCEPT !.token = s.token] IN
  \/ \E old, p \in Passwords : Begin(r, "password", "auth", [in EXCEPT !.old = old, !.pw = p])
  \/ \E op \in {"others", "logout"} : Begin(r, op, "auth", in)
  \/ \E op \in {"ask", "delete"}, e \in Emails : Begin(r, op, "auth", [in EXCEPT !.email = e])

\* A statement fails, the request is cancelled, or the server stops: the rest of the handler does not happen.
BreakOff(r) ==
  /\ req[r] # Idle
  /\ past.broken < MaxBroken
  /\ past' = [past EXCEPT !.broken = @ + 1]
  /\ Answer(r)
  /\ UNCHANGED <<db, mem, letters>>

\* Fifteen minutes go by.
Forget(e) ==
  /\ mem.tries[e] > 0
  /\ mem' = [mem EXCEPT !.tries[e] = 0]
  /\ UNCHANGED <<db, letters, req, past>>

Handle(r) ==
  \/ registerUser(r) \/ sendVerification(r) \/ resendVerification(r) \/ confirmEmail(r) \/ loginUser(r)
  \/ userAuth(r) \/ signOutOthers(r) \/ logoutUser(r) \/ changeMyPassword(r) \/ forgotPassword(r)
  \/ resetPassword(r) \/ askToChangeEmail(r) \/ confirmEmailChange(r) \/ deleteMe(r)

\* Either nobody has a login yet, or somebody has one, confirmed, and is signed in.
Init ==
  /\ \E owner \in Logins \cup {None}, e \in Emails, p \in Passwords :
       LET owners == {owner} \ {None} IN
       /\ db = [row |-> [l \in Logins |-> IF l = owner THEN [email |-> e, pw |-> p, verified |-> TRUE, token |-> 0]
                                          ELSE None],
                person |-> owners,
                session |-> {[token |-> 1, login |-> l, gen |-> 0] : l \in owners},
                reset |-> [l \in Logins |-> 0],
                change |-> [l \in Logins |-> [token |-> 0]]]
       /\ past = [stale |-> FALSE, broken |-> 0, twice |-> FALSE, used |-> {}, minted |-> 1, asked |-> 0,
                  gen |-> [l \in Logins |-> 0], born |-> owners, had |-> owners, deleted |-> {},
                  confirmed |-> [l \in Logins |-> 0],
                  proved |-> [l \in Logins |-> IF l = owner THEN {e} ELSE {}]]
  /\ mem = [mails |-> [e \in Emails |-> 0], tries |-> [e \in Emails |-> 0]]
  /\ letters = {}
  /\ req = [r \in Requests |-> Idle]

Next ==
  \/ \E r \in Requests : AskAtTheDoor(r) \/ AskByLetter(r) \/ AskSignedIn(r) \/ Handle(r) \/ BreakOff(r)
  \/ \E e \in Emails : Forget(e)

Spec == Init /\ [][Next]_vars

(***************************************************************************)
(* Properties.                                                             *)
(***************************************************************************)
TypeOK ==
  /\ db.row \in [Logins -> Row \cup {None}]
  /\ db.person \subseteq Logins
  /\ \A s \in db.session : s.token \in Tokens /\ s.login \in Logins
  /\ db.reset \in [Logins -> Tokens \cup {0}]
  /\ letters \subseteq Letter
  /\ mem.mails \in [Emails -> 0 .. MailMax]

\* A confirmed address is one whose owner opened a link mailed to it for this login, whatever ran between a
\* handler's look at the row and its writing of the whole row (user.go, "they have just proved they own it").
OwnAddress == \A l \in Logins :
  db.row[l] # None /\ db.row[l].verified => db.row[l].email \in past.proved[l]

\* A refused sign-up leaves nobody behind (registerUser's DeletePerson), unless it was broken off.
NobodyLeft == past.broken = 0 => \A l \in db.person :
  \/ l \in past.had
  \/ \E r \in Requests : req[r].op = "register" /\ req[r].login = l /\ req[r].pc \in {"save", "undo"}

\* Wrong tries stop at the limit; each request that was let in before can add one more.
TriesBounded == \A e \in Emails : mem.tries[e] < SigninMax + Cardinality(Requests)

\* A link to choose a password or to move to an address works once, even when it is used twice at the same
\* moment (TakePasswordReset: "two uses at once cannot both succeed").
LinksOnce == ~past.twice

AccountsInv == TypeOK /\ OwnAddress /\ NobodyLeft /\ TriesBounded /\ LinksOnce

\* After a password is changed or reset, only the session it was changed from goes on, unless a handler
\* was broken off or wrote something based on a row that had changed since it was read.
SignedOut == ~past.stale /\ past.broken = 0 => \A s \in db.session :
  \/ s.gen = past.gen[s.login]
  \/ \E r \in Requests : req[r] # Idle /\ req[r].pc = "signout" /\ req[r].login = s.login

(***************************************************************************)
(* Said, and not kept when requests overlap.                               *)
(***************************************************************************)
\* resetPassword: "the login is signed out everywhere else".
SignedOutAlways == past.broken = 0 => \A s \in db.session :
  \/ s.gen = past.gen[s.login]
  \/ \E r \in Requests : req[r] # Idle /\ req[r].pc = "signout" /\ req[r].login = s.login

\* deleteMe deletes the login.
DeletedStays == \A l \in past.deleted : db.row[l] = None

\* confirmEmail: "The link works once".
ConfirmedOnce == \A l \in Logins : past.confirmed[l] <= 1

\* A login that was confirmed stays so.
StaysVerified == [][\A l \in Logins :
  db.row[l] # None /\ db.row[l].verified /\ db'.row[l] # None => db'.row[l].verified]_vars
=============================================================================
