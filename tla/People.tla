------------------------------- MODULE People -------------------------------
(***************************************************************************)
(* Who a person is: one row of persons, and every row that names it.  Two  *)
(* people who turn out to be one are merged: everything moves to the one   *)
(* who remains, the other stays as an empty marker (postgres/person.go,    *)
(* merge.go, sender.go, sweep.go, messenger_channel.go).                   *)
(*                                                                         *)
(* A transaction goes from row lock to row lock; what it wrote is seen     *)
(* when it commits, so its writes are one step there.  A call outside a    *)
(* transaction reads in one step and writes in a later one.                *)
(***************************************************************************)
EXTENDS Integers, FiniteSets

CONSTANTS MaxPerson,     \* persons are numbered: the number is the id, and locks are taken in its order
          Emails,
          Chats,         \* chats of one human's messenger account, each with a bot of its own
          Txs,           \* calls at the same time
          MaxCalls,      \* bound
          None

Persons == 1 .. MaxPerson


VARIABLES person,    \* the rows of persons
          channel,   \* messenger_channels: for each chat, whose it is and whether its sender id is kept
          account,   \* for each address, its login
          note,      \* user_profiles: what was noted of each person, in pieces
          sorted,    \* profile_migrations: whose notes are marked as sorted into details
          auth,      \* app_authorizations on one identity: when each person connected, 0 if they did not
          lock,      \* who holds which row
          tx,        \* calls in progress
          past       \* history and the bound

vars == <<person, channel, account, note, sorted, auth, lock, tx, past>>
rows == <<person, channel, account, note, sorted, auth>>

Person == [merged : 0 .. MaxPerson, named : BOOLEAN, young : BOOLEAN]
Channel == [person : Persons, sender : BOOLEAN]
Login == [person : 0 .. MaxPerson, verified : BOOLEAN, pw : {"none", "set", "unproven"}]
Idle == [kind |-> "none", pc |-> "none"]

PeopleConstants ==
  /\ MaxPerson \in Nat /\ IsFiniteSet(Chats)
  /\ Emails \cap Persons = {}    \* rows of two tables
  /\ None \notin Person \cup Channel \cup Login \cup Txs

Known(p) == person[p] # None
Live(p) == Known(p) /\ person[p].merged = 0

\* GetPerson, resolvePersonTx: a marker is followed, sixteen times at most.
step[k \in 0 .. 16] == [p \in 0 .. MaxPerson |->
  IF p = 0 \/ k = 0 THEN 0
  ELSE IF ~Known(p) THEN 0 ELSE IF person[p].merged = 0 THEN p ELSE step[k - 1][person[p].merged]]
Follow(p) == step[16][p]

Free(x, t) == lock[x] \in {None, t}
Lock(x, t) == lock' = [lock EXCEPT ![x] = t]
Release(t) == lock' = [x \in DOMAIN lock |-> IF lock[x] = t THEN None ELSE lock[x]]

At(t, kind, pc) == tx[t].kind = kind /\ tx[t].pc = pc
Go(t, pc) == tx' = [tx EXCEPT ![t].pc = pc]
End(t) == tx' = [tx EXCEPT ![t] = Idle] /\ Release(t)

(***************************************************************************)
(* Merging "from" into "to".                                               *)
(***************************************************************************)

\* What the statements of mergePersonsTx leave, each table its own: chats, logins and notes move, the newer
\* connection stands, a note that was not sorted makes the whole unsorted, and who followed "from" follows on.
mergeNotes(f, t) == note' = [note EXCEPT ![t] = @ \cup note[f], ![f] = {}]

\* A person without a note has nothing to reopen the survivor's for; the mark itself moves if the survivor has none.
reopenIfUnsorted(f, t) ==
  LET kept == IF note[f] # {} /\ f \notin sorted THEN sorted \ {t} ELSE sorted IN
  sorted' = (IF f \in kept THEN kept \cup {t} ELSE kept) \ {f}

moveKeyedRows(f, t) == auth' = [auth EXCEPT ![t] = IF auth[f] > @ THEN auth[f] ELSE @, ![f] = 0]

(* A mistake: logins stay with who is folded away. *)
forgetLogins(f, t) ==
  /\ channel' = [c \in Chats |-> IF channel[c] # None /\ channel[c].person = f
                                 THEN [channel[c] EXCEPT !.person = t] ELSE channel[c]]
  /\ UNCHANGED account

moveBulkRows(f, t) ==
  /\ channel' = [c \in Chats |-> IF channel[c] # None /\ channel[c].person = f
                                 THEN [channel[c] EXCEPT !.person = t] ELSE channel[c]]
  /\ account' = [e \in Emails |-> IF account[e] # None /\ account[e].person = f
                                  THEN [account[e] EXCEPT !.person = t] ELSE account[e]]

markMerged(f, t) ==
  person' = [p \in Persons |->
    IF p = f THEN [person[f] EXCEPT !.merged = t, !.named = FALSE]
    ELSE IF p = t THEN [person[t] EXCEPT !.named = @ \/ person[f].named,
                                         !.merged = IF @ = f THEN t ELSE @]
    ELSE IF Known(p) /\ person[p].merged = f THEN [person[p] EXCEPT !.merged = t] ELSE person[p]]

lower(p, q) == IF p < q THEN p ELSE q

(* A mistake: the person who is folded away is locked first. *)
lockFromFirst(t) == tx[t].from

\* Both rows are locked, the lower id first.
firstLock(t) == lower(tx[t].from, tx[t].to)

\* mergePersonsTx up to its first write: the lock statements, and the look at what they returned.
lockBoth(t) ==
  \/ /\ tx[t].pc = "first"
     /\ IF tx[t].from = tx[t].to THEN End(t)
        ELSE Free(firstLock(t), t) /\ Lock(firstLock(t), t) /\ Go(t, "second")
     /\ UNCHANGED <<rows, past>>
  \/ /\ tx[t].pc = "second"
     /\ LET other == IF firstLock(t) = tx[t].from THEN tx[t].to ELSE tx[t].from IN
        /\ Free(other, t)
        /\ IF Live(tx[t].from) /\ Known(tx[t].to)
           THEN Lock(other, t) /\ Go(t, "accounts")
           ELSE End(t)
     /\ UNCHANGED <<rows, past>>

\* The logins of "from" are updated: their rows have to be free, too.
lockAccounts(t) ==
  LET theirs == {e \in Emails : account[e] # None /\ account[e].person = tx[t].from} IN
  /\ tx[t].pc = "accounts"
  /\ \A e \in theirs : Free(e, t)
  /\ lock' = [x \in DOMAIN lock |-> IF x \in theirs THEN t ELSE lock[x]]
  /\ Go(t, "commit")
  /\ UNCHANGED <<rows, past>>

\* Somebody whom another call has looked up is no longer who remains.
Meets(t, p) == \E u \in Txs \ {t} : tx[u].kind # "none" /\ p \in {tx[u].from, tx[u].to}

mergePersonsTx(t) ==
  /\ mergeNotes(tx[t].from, tx[t].to)
  /\ reopenIfUnsorted(tx[t].from, tx[t].to)
  /\ moveKeyedRows(tx[t].from, tx[t].to)
  /\ markMerged(tx[t].from, tx[t].to)
  /\ past' = [past EXCEPT !.met = @ \/ Meets(t, tx[t].from),
                          !.lent = @ \/ (tx[t].from \in sorted /\ tx[t].to \notin sorted /\ note[tx[t].to] # {})]

\* MergePersons resolves whom to keep before anything is locked.
MergePersons(t) ==
  \/ /\ At(t, "merge", "resolve")
     /\ IF Follow(tx[t].to) = 0 THEN End(t)
        ELSE tx' = [tx EXCEPT ![t].to = Follow(tx[t].to), ![t].pc = "first"] /\ UNCHANGED lock
     /\ UNCHANGED <<rows, past>>
  \/ tx[t].kind = "merge" /\ (lockBoth(t) \/ lockAccounts(t))
  \/ /\ At(t, "merge", "commit")
     /\ moveBulkRows(tx[t].from, tx[t].to)
     /\ mergePersonsTx(t)
     /\ IF tx[t].rest = {} THEN End(t)
        ELSE \* MergeDuplicates goes on with the next member
             /\ tx' = [tx EXCEPT ![t].from = CHOOSE p \in tx[t].rest : \A q \in tx[t].rest : p <= q,
                                 ![t].to = tx[t].keep,
                                 ![t].rest = @ \ {CHOOSE p \in tx[t].rest : \A q \in tx[t].rest : p <= q},
                                 ![t].pc = "resolve"]
             /\ Release(t)

(***************************************************************************)
(* Linking a proven address to a person.                                   *)
(***************************************************************************)
\* An unproven login is taken over, and what its registrant set is wiped.
takeOver(e, p) == account' = [account EXCEPT ![e] = [person |-> p, verified |-> TRUE, pw |-> "none"]]

LinkEmail(t) ==
  LET e == tx[t].email  p == tx[t].from IN
  \/ /\ At(t, "link", "find")                  \* SELECT ... FOR UPDATE
     /\ IF account[e] = None THEN Go(t, "insert") /\ UNCHANGED lock
        ELSE /\ Free(e, t)
             /\ Lock(e, t)
             /\ IF account[e].verified /\ account[e].person \notin {0, p}
                THEN tx' = [tx EXCEPT ![t].to = Follow(account[e].person), ![t].pc = "other"]
                ELSE Go(t, "write")
     /\ UNCHANGED <<rows, past>>
  \/ /\ At(t, "link", "insert")                \* ON CONFLICT DO NOTHING, and what was found then is read
     /\ Free(e, t) /\ Free(p, t)
     /\ IF account[e] = None
        THEN /\ account' = IF Known(p) THEN [account EXCEPT ![e] = [person |-> p, verified |-> TRUE, pw |-> "none"]]
                           ELSE account
             /\ End(t)
        ELSE /\ IF tx[t].tries < 2 THEN tx' = [tx EXCEPT ![t].tries = @ + 1, ![t].pc = "find"] /\ UNCHANGED lock
                ELSE End(t)
             /\ UNCHANGED account
     /\ UNCHANGED <<person, channel, note, sorted, auth, past>>
  \/ /\ At(t, "link", "write")
     /\ Free(p, t)
     /\ IF ~Known(p) THEN UNCHANGED account
        ELSE IF account[e].verified THEN account' = [account EXCEPT ![e].person = p]
        ELSE takeOver(e, p)
     /\ End(t)
     /\ UNCHANGED <<person, channel, note, sorted, auth, past>>
  \/ /\ At(t, "link", "other")
     /\ IF tx[t].to = 0 THEN End(t) ELSE Go(t, IF tx[t].to = p THEN "write" ELSE "first") /\ UNCHANGED lock
     /\ UNCHANGED <<rows, past>>
  \/ tx[t].kind = "link" /\ (lockBoth(t) \/ lockAccounts(t))
  \/ /\ At(t, "link", "commit")
     /\ moveBulkRows(p, tx[t].to)
     /\ mergePersonsTx(t)
     /\ End(t)

\* A login that is only a link goes; one with a password is let go.
UnlinkEmail(p) ==
  /\ past.calls < MaxCalls
  /\ \E e \in Emails : account[e] # None /\ account[e].person = p
  /\ \A e \in Emails : account[e] # None /\ account[e].person = p => lock[e] = None
  /\ account' = [e \in Emails |->
       IF account[e] # None /\ account[e].person = p
       THEN IF account[e].pw = "none" THEN None ELSE [account[e] EXCEPT !.person = 0]
       ELSE account[e]]
  /\ past' = [past EXCEPT !.calls = @ + 1]
  /\ UNCHANGED <<person, channel, note, sorted, auth, lock, tx>>

\* The first request of a login without a person makes one.
EnsurePersonForAccount(e) ==
  /\ past.calls < MaxCalls
  /\ account[e] # None /\ lock[e] = None
  /\ account[e].person = 0
  /\ \E p \in Persons :
       /\ ~Known(p) /\ \A q \in 1 .. p - 1 : Known(q)
       /\ person' = [person EXCEPT ![p] = [merged |-> 0, named |-> FALSE, young |-> TRUE]]
       /\ account' = [account EXCEPT ![e].person = p]
  /\ past' = [past EXCEPT !.calls = @ + 1]
  /\ UNCHANGED <<channel, note, sorted, auth, lock, tx>>

(***************************************************************************)
(* Calls that read a person and write later.                               *)
(***************************************************************************)
\* SavePerson writes the whole row, merged_into included.
SavePerson(p, named) == person' = [person EXCEPT ![p] = [merged |-> 0, named |-> named,
                                                         young |-> IF person[p] = None THEN TRUE ELSE person[p].young]]

\* renameMe: userAuth read the person, the name is saved with the rest of that copy.
renameMe(t) ==
  /\ At(t, "rename", "save")
  /\ Free(tx[t].from, t)
  /\ SavePerson(tx[t].from, TRUE)
  /\ past' = [past EXCEPT !.met = @ \/ ~Live(tx[t].from)]
  /\ End(t)
  /\ UNCHANGED <<channel, account, note, sorted, auth>>

\* SaveMessengerChannel: the chat's row is made, or changes hands; the foreign key waits for a locked person.
SaveMessengerChannel(c, p, sender) ==
  channel' = IF Known(p) THEN [channel EXCEPT ![c] = [person |-> p, sender |-> sender]] ELSE channel

\* redeemChannelByCode: a chat is bound to the person who is signed in; which sender writes in it is not known.
redeemChannelByCode(t) ==
  /\ At(t, "redeem", "save")
  /\ Free(tx[t].from, t)
  /\ SaveMessengerChannel(tx[t].chat, tx[t].from, FALSE)
  /\ past' = [past EXCEPT !.met = @ \/ ~Live(tx[t].from)]
  /\ End(t)
  /\ UNCHANGED <<person, account, note, sorted, auth>>

\* Whose account this is on another bot, oldest chat first: any of them, here.
FindPersonBySender == {Follow(channel[c].person) : c \in {c \in Chats : channel[c] # None /\ channel[c].sender}} \ {0}

\* A first message in a chat: who writes is looked up, or made, and the chat's row saved.
firstContact(t) ==
  \/ /\ At(t, "contact", "find")
     /\ \/ \E p \in FindPersonBySender : tx' = [tx EXCEPT ![t].from = p, ![t].pc = "channel"] /\ UNCHANGED <<person, past>>
        \/ /\ FindPersonBySender = {}
           /\ \E p \in Persons :
                /\ ~Known(p) /\ \A q \in 1 .. p - 1 : Known(q)
                /\ SavePerson(p, FALSE)
                /\ tx' = [tx EXCEPT ![t].from = p, ![t].pc = "channel"]
           /\ UNCHANGED past
     /\ UNCHANGED <<channel, account, note, sorted, auth, lock>>
  \/ /\ At(t, "contact", "channel")
     /\ Free(tx[t].from, t)
     /\ SaveMessengerChannel(tx[t].chat, tx[t].from, TRUE)
     /\ past' = [past EXCEPT !.met = @ \/ ~Live(tx[t].from)]
     /\ End(t)
     /\ UNCHANGED <<person, account, note, sorted, auth>>

(***************************************************************************)
(* The sweep of people who have nothing.                                   *)
(***************************************************************************)
\* The conditions of the DELETE: the row's own columns, and no trace in any table.
ownColumnsEmpty(p) == Live(p) /\ ~person[p].young /\ ~person[p].named
noTraces(p) ==
  /\ \A c \in Chats : channel[c] = None \/ channel[c].person # p
  /\ \A e \in Emails : account[e] = None \/ account[e].person # p
  /\ note[p] = {} /\ auth[p] = 0
  /\ \A q \in Persons : Known(q) => person[q].merged # p

\* The rows that go with these: whoever was merged into one of them, and so on (merged_into ON DELETE CASCADE).
cascade(S) == {p \in Persons : \A T \in SUBSET Persons :
  S \subseteq T /\ (\A q \in Persons : Known(q) /\ person[q].merged \in T => q \in T) => p \in T}

\* The statement's snapshot, and then the rows it could lock; a row that changed meanwhile is looked at again.
\* What follows by foreign key waits for its lock.
DeleteEmptyPeople(t) ==
  \/ /\ At(t, "sweep", "choose")
     /\ tx' = [tx EXCEPT ![t].rest = {p \in Persons : ownColumnsEmpty(p) /\ noTraces(p)}, ![t].pc = "delete"]
     /\ UNCHANGED <<rows, lock, past>>
  \/ /\ At(t, "sweep", "delete")
     /\ LET empty == {p \in tx[t].rest : lock[p] = None /\ ownColumnsEmpty(p)}
            gone == cascade(empty)
        IN
        /\ \A p \in gone : lock[p] = None
        /\ \A e \in Emails : account[e] # None /\ account[e].person \in gone => lock[e] = None
        /\ person' = [p \in Persons |-> IF p \in gone THEN None ELSE person[p]]
        /\ channel' = [c \in Chats |-> IF channel[c] # None /\ channel[c].person \in gone THEN None ELSE channel[c]]
        /\ account' = [e \in Emails |-> IF account[e] # None /\ account[e].person \in gone
                                        THEN [account[e] EXCEPT !.person = 0] ELSE account[e]]
        /\ note' = [p \in Persons |-> IF p \in gone THEN {} ELSE note[p]]
        /\ auth' = [p \in Persons |-> IF p \in gone THEN 0 ELSE auth[p]]
        /\ sorted' = sorted \ gone
        /\ past' = [past EXCEPT !.swept = @ \/ \E p \in empty : ~noTraces(p)]
     /\ End(t)

(***************************************************************************)
(* The same human twice.                                                   *)
(***************************************************************************)
\* DuplicatePeople: who writes from one account.
duplicates == {channel[c].person : c \in {c \in Chats : channel[c] # None /\ channel[c].sender}}

\* chooseSurvivor: a proven address, then the most chats, then the lowest id.
proven(p) == IF \E e \in Emails : account[e] # None /\ account[e].person = p /\ account[e].verified THEN 1 ELSE 0
chats(p) == Cardinality({c \in Chats : channel[c] # None /\ channel[c].person = p})
better(p, q) ==
  \/ proven(p) > proven(q)
  \/ proven(p) = proven(q) /\ chats(p) > chats(q)
  \/ proven(p) = proven(q) /\ chats(p) = chats(q) /\ p < q
chooseSurvivor(group) == CHOOSE p \in group : \A q \in group \ {p} : better(p, q)

Call == [kind |-> "none", pc |-> "none", from |-> 0, to |-> 0, email |-> None, chat |-> None, tries |-> 0,
         rest |-> {}, keep |-> 0]

Begin(t, kind, pc, in) ==
  /\ tx[t] = Idle
  /\ past.calls < MaxCalls
  /\ tx' = [tx EXCEPT ![t] = [in EXCEPT !.kind = kind, !.pc = pc]]
  /\ past' = [past EXCEPT !.calls = @ + 1]
  /\ UNCHANGED <<rows, lock>>

\* MergeDuplicates of the group that was found.
MergeDuplicates(t) ==
  LET group == duplicates
      keep == chooseSurvivor(group)
      rest == group \ {keep}
      next == CHOOSE p \in rest : \A q \in rest : p <= q
  IN  /\ Cardinality(group) >= 2
      /\ Begin(t, "merge", "resolve", [Call EXCEPT !.from = next, !.to = keep, !.keep = keep, !.rest = rest \ {next}])

\* Callers look the person up first, so that every call starts with someone who is there.
BeginCall(t) ==
  \/ \E p \in {p \in Persons : Live(p)} :
       \/ \E e \in Emails : Begin(t, "link", "find", [Call EXCEPT !.from = p, !.email = e])
       \/ Begin(t, "rename", "save", [Call EXCEPT !.from = p])
       \/ \E c \in Chats : Begin(t, "redeem", "save", [Call EXCEPT !.from = p, !.chat = c])
       \/ \E q \in Persons \ {p} : Known(q) /\ Begin(t, "merge", "resolve", [Call EXCEPT !.from = p, !.to = q])
  \/ \E c \in Chats : /\ channel[c] = None
                      /\ FindPersonBySender # {} \/ \E p \in Persons : ~Known(p)
                      /\ Begin(t, "contact", "find", [Call EXCEPT !.chat = c])
  \/ Begin(t, "sweep", "choose", Call)
  \/ MergeDuplicates(t)

(***************************************************************************)
(* Waiting for each other.                                                 *)
(***************************************************************************)
\* The rows a transaction's next statement needs.
Needs(t) ==
  IF tx[t].pc = "first" THEN {firstLock(t)}
  ELSE IF tx[t].pc = "second" THEN {tx[t].from, tx[t].to}
  ELSE IF tx[t].pc = "accounts" THEN {e \in Emails : account[e] # None /\ account[e].person = tx[t].from}
  ELSE IF At(t, "link", "find") THEN IF account[tx[t].email] = None THEN {} ELSE {tx[t].email}
  ELSE IF At(t, "link", "insert") THEN {tx[t].email, tx[t].from}
  ELSE IF At(t, "link", "write") \/ tx[t].pc \in {"save", "channel"} THEN {tx[t].from}
  ELSE {}

WaitsFor(t, u) == t # u /\ \E x \in Needs(t) : lock[x] = u
Circle(t, u) == WaitsFor(t, u) /\ WaitsFor(u, t)

\* PostgreSQL ends one of two that wait for each other.
Deadlock(t) ==
  /\ \E u \in Txs : Circle(t, u)
  /\ End(t)
  /\ UNCHANGED <<rows, past>>

(***************************************************************************)
(* What else happens.                                                      *)
(***************************************************************************)
\* A note is sorted into details (profile learning), and marked.
Sort(p) ==
  /\ Live(p) /\ note[p] # {} /\ p \notin sorted
  /\ sorted' = sorted \cup {p}
  /\ past' = [past EXCEPT !.done = @ \cup note[p]]
  /\ UNCHANGED <<person, channel, account, note, auth, lock, tx>>

\* A bot is deleted, and with it its chats.
RemoveBot(c) ==
  /\ channel[c] # None
  /\ past.calls < MaxCalls
  /\ channel' = [channel EXCEPT ![c] = None]
  /\ past' = [past EXCEPT !.calls = @ + 1]
  /\ UNCHANGED <<person, account, note, sorted, auth, lock, tx>>

\* The grace of the sweep goes by.
Age(p) ==
  /\ Known(p) /\ person[p].young
  /\ person' = [person EXCEPT ![p].young = FALSE]
  /\ UNCHANGED <<channel, account, note, sorted, auth, lock, tx, past>>

Init ==
  /\ \E n \in 2 .. MaxPerson, empty \in {{}, {1}}, chat \in [Chats -> 0 .. MaxPerson] :
       /\ person = [p \in Persons |-> IF p <= n THEN [merged |-> 0, named |-> FALSE, young |-> FALSE] ELSE None]
       /\ \A c, d \in Chats : chat[c] <= n /\ (chat[c] # 0 /\ chat[c] = chat[d] => c = d)
       /\ channel = [c \in Chats |-> IF chat[c] = 0 THEN None ELSE [person |-> chat[c], sender |-> TRUE]]
       /\ note = [p \in Persons |-> IF p <= n /\ p \notin empty THEN {p} ELSE {}]
       /\ auth = [p \in Persons |-> IF p <= n /\ p \notin empty THEN p ELSE 0]
  /\ account \in [Emails -> {None} \cup {[person |-> 0, verified |-> TRUE, pw |-> "set"],
                                         [person |-> 1, verified |-> TRUE, pw |-> "none"],
                                         [person |-> 2, verified |-> FALSE, pw |-> "unproven"]}]
  /\ sorted = {}
  /\ lock = [x \in Persons \cup Emails |-> None]
  /\ tx = [t \in Txs |-> Idle]
  /\ past = [calls |-> 0, met |-> FALSE, lent |-> FALSE, swept |-> FALSE, done |-> {}, notes |-> UNION {note[p] : p \in Persons},
            newest |-> {auth[p] : p \in Persons}]

Next ==
  \/ \E t \in Txs : \/ BeginCall(t) \/ MergePersons(t) \/ LinkEmail(t) \/ renameMe(t) \/ redeemChannelByCode(t)
                    \/ firstContact(t) \/ DeleteEmptyPeople(t) \/ Deadlock(t)
  \/ \E p \in Persons : UnlinkEmail(p) \/ Sort(p) \/ Age(p)
  \/ \E e \in Emails : EnsurePersonForAccount(e)
  \/ \E c \in Chats : RemoveBot(c)

Spec == Init /\ [][Next]_vars

(***************************************************************************)
(* Properties.                                                             *)
(***************************************************************************)
TypeOK ==
  /\ person \in [Persons -> Person \cup {None}]
  /\ account \in [Emails -> Login \cup {None}]
  /\ channel \in [Chats -> Channel \cup {None}]
  /\ lock \in [Persons \cup Emails -> Txs \cup {None}]

\* Merging drops no piece of what was noted of anyone, and the newest connection of all stays (merge.go:
\* "joined, not dropped", "the newer stands"), unless the sweep took somebody who got something since it looked.
NothingLost == ~past.swept =>
  /\ past.notes = UNION {note[p] : p \in Persons}
  /\ \E p \in Persons : \A a \in past.newest : auth[p] >= a

\* A note marked as sorted into details holds nothing that was not sorted (reopenIfUnsorted).
SortedMeansSorted == \A p \in sorted : note[p] \subseteq past.done

\* Kept, unless the mark of somebody whose note was sorted has moved to somebody whose note was not.
SortedUnlessLent == ~past.lent => SortedMeansSorted

\* A proven login has no password of somebody who never proved the address (LinkEmail).
ProvenIsTheirs == \A e \in Emails : account[e] # None /\ account[e].verified => account[e].pw # "unproven"

\* Every id ever given out leads to somebody who is there, and everything kept about people is kept under
\* somebody who was not merged away, unless a call looked up somebody who was then merged under its hands.
LeadsSomewhere == \A p \in Persons : Known(p) => Follow(p) # 0
UnderSomebody ==
  /\ \A c \in Chats : channel[c] # None => Live(channel[c].person)
  /\ \A e \in Emails : account[e] # None /\ account[e].person # 0 => Live(account[e].person)
  /\ \A p \in Persons : note[p] # {} \/ auth[p] # 0 => Live(p)
NothingStranded == ~past.met /\ ~past.swept => LeadsSomewhere /\ UnderSomebody

\* Two merges never wait on each other (mergePersonsTx locks in one order).
MergesDoNotCircle == \A t, u \in Txs : tx[t].kind = "merge" /\ tx[u].kind = "merge" => ~Circle(t, u)

PeopleInv == TypeOK /\ NothingLost /\ SortedUnlessLent /\ ProvenIsTheirs /\ MergesDoNotCircle

(***************************************************************************)
(* Said, and not kept.                                                     *)
(***************************************************************************)
\* DeleteEmptyPeople removes only people who have nothing.
SweptHadNothing == ~past.swept

\* A merge and a link of an address can wait on each other: one is ended.
NoCircle == \A t, u \in Txs : ~Circle(t, u)
=============================================================================
