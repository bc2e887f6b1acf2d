----------------------------- MODULE MCPersons -----------------------------
(***************************************************************************)
(* Two modules of who a person is, each on an instance of its own: people,   *)
(* their chats and whom they are merged with, and the pages they sign in     *)
(* with.  Two requests run at a time, statement by statement.  The modules   *)
(* share no variable, so one behaviour takes the steps of one of them, and   *)
(* the variables of the other hold nothing.                                 *)
(***************************************************************************)
EXTENDS Integers, FiniteSets, TLC

CONSTANTS
  MaxPerson, Addresses, Chats, Callers, MaxMerges, None,  \* People
  Logins, Emails, Passwords, MailMax, SigninMax, MaxRequests, MaxBroken,  \* Accounts
  q1, q2, l1, l2, p1, p2, e1, e2, mail  \* model values

VARIABLES
  part,  \* the module whose steps are taken; the others stay as they began
  person, channel, account, note, sorted, auth, lock, tx, peoplePast,
  db, mem, letters, req, loginsPast

Folk == INSTANCE People WITH past <- peoplePast, Emails <- Addresses, Txs <- Callers, MaxCalls <- MaxMerges
Pages == INSTANCE Accounts WITH past <- loginsPast, Requests <- Callers

peopleVars == <<person, channel, account, note, sorted, auth, lock, tx, peoplePast>>
loginsVars == <<db, mem, letters, req, loginsPast>>
personsVars == <<part, peopleVars, loginsVars>>

ASSUME PersonsConstants == Folk!PeopleConstants /\ Pages!AccountsConstants

Symmetric ==
  Permutations({q1, q2}) \cup Permutations({l1, l2}) \cup Permutations({p1, p2}) \cup Permutations({e1, e2})

PersonsInit ==
  \/ /\ part = "people" /\ Folk!Init
     /\ db = 0 /\ mem = 0 /\ letters = 0 /\ req = 0 /\ loginsPast = 0
  \/ /\ part = "logins" /\ Pages!Init
     /\ person = 0 /\ channel = 0 /\ account = 0 /\ note = 0 /\ sorted = 0 /\ auth = 0
     /\ lock = 0 /\ tx = 0 /\ peoplePast = 0

PersonsNext ==
  \/ part = "people" /\ Folk!Next /\ UNCHANGED <<part, loginsVars>>
  \/ part = "logins" /\ Pages!Next /\ UNCHANGED <<part, peopleVars>>

PersonsSpec == PersonsInit /\ [][PersonsNext]_personsVars

(* Nothing of a merged person is lost, and no two merges wait in a circle    *)
(* (MergePersons).                                                           *)
PeopleInv == part = "people" => Folk!PeopleInv
(* What belonged to a merged person leads to somebody (merge.go).            *)
NothingStranded == part = "people" => Folk!NothingStranded
(* An address is confirmed by its owner, a link works once, tries are bounded *)
(* (user.go, account.go).                                                    *)
AccountsInv == part = "logins" => Pages!AccountsInv
(* Whoever changed the password has signed everybody else out.               *)
SignedOut == part = "logins" => Pages!SignedOut
=============================================================================
