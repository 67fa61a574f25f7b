------------------------------ MODULE AdminApi ------------------------------
(***************************************************************************)
(* The admin API: login, the account form, the configuration handlers and  *)
(* the audit log.  Requests run side by side, in one or more processes on  *)
(* one SQLite file; a request is a list of statements, and any other       *)
(* request may run between two of them.                                    *)
(*                                                                         *)
(* What a row of the configuration holds does not matter here, only that   *)
(* it is there: module ConfigStore has the rest.  A request that is turned *)
(* down before its first write changes nothing and is no step.  No code    *)
(* removes or disables an account, so those checks never fail; accounts    *)
(* are created by module Bootstrap.                                        *)
(***************************************************************************)
EXTENDS Integers, Sequences

CONSTANTS
    Client,        \* whoever sends requests, one at a time each
    Process,       \* the processes that serve the admin API
    StableSecret,  \* those that are given GATEWAY_ADMIN_SECRET
    User,          \* ids of accounts
    Name, Password,
    FirstAccount,  \* name and password of each account at the start
    Item,          \* ids of routes, groups and targets
    GroupOf,       \* the group of a target; NoItem for the others
    FirstItems,    \* the rows at the start
    NoItem, NoPassword, NoToken, Configured, Idle,
    MaxRequests,   \* bound: writing requests that get as far as a statement
    MaxFaults      \* bound: failing statements and restarts

Account == [name : Name, password : Password]

\* Faulty variant: the password is stored as it is.
HashPasswordPlain(password) == password

\* Two hashes of one password differ in their salt; nothing compares hashes.
HashPassword(password) == [hashOf |-> password]

VerifyPassword(password, hash) == hash.hashOf = password

Hash == [hashOf : Password]

Token == [user : User, secret : {Configured} \cup (Process \X Nat)]

\* others is history: what forms asked for that ended after their UPDATE while
\* this one was in progress.
AccountReq ==
    [at : {"name", "update", "reread", "audit"}, proc : Process, user : User,
     kind : {"account"}, item : User, name : Name, hash : Hash,
     password : Password, asked : BOOLEAN, others : SUBSET Account, change : Nat]

ItemReq ==
    [at : {"targets", "target", "reread", "audit"}, proc : Process, user : User,
     kind : {"create", "update", "delete"}, item : Item, left : SUBSET Item,
     last : Item, change : Nat]

Kind == {"account", "create", "update", "delete"}

Change == [kind : Kind, item : Item \cup User, rows : SUBSET Item]

Entry == [change : Nat, kind : Kind, item : Item \cup User, user : User]

ASSUME AdminAssumption ==
    /\ StableSecret \subseteq Process
    /\ FirstAccount \in [User -> Account]
    /\ \A u, v \in User : u # v => FirstAccount[u].name # FirstAccount[v].name
    /\ GroupOf \in [Item -> Item \cup {NoItem}] /\ NoItem \notin Item
    /\ FirstItems \subseteq Item
    /\ NoPassword \notin Password
    /\ NoToken \notin Token
    /\ Idle \notin AccountReq \cup ItemReq
    /\ MaxRequests \in Nat /\ MaxFaults \in Nat

VARIABLES
    users,     \* admin_users
    rows,      \* the rows of the configuration tables
    audit,     \* audit_logs, oldest first
    life,      \* restarts of each process
    token,     \* what each client holds
    req,       \* the statement each client's request is at, and its data
    changes,   \* history: committed writes of requests
    broken,    \* history: those whose request met a fault or a taken id later
    told,      \* history: what each account may be by the answers its owner got
    requests, faults

tables  == <<users, rows, audit>>
history == <<changes, broken, told>>
vars    == <<tables, life, token, req, history, requests, faults>>

\* A process without a configured secret makes one up each time it starts.
Secret(p) == IF p \in StableSecret THEN Configured ELSE <<p, life[p]>>

TypeOK ==
    /\ users \in [User -> [name : Name, hash : Hash]]
    /\ rows \subseteq Item
    /\ audit \in Seq(Entry)
    /\ life \in [Process -> Nat]
    /\ token \in [Client -> Token \cup {NoToken}]
    /\ req \in [Client -> AccountReq \cup ItemReq \cup {Idle}]
    /\ changes \in Seq(Change)
    /\ broken \subseteq 1..Len(changes)
    /\ told \in [User -> SUBSET Account]
    /\ requests \in 0..MaxRequests /\ faults \in 0..MaxFaults

Init ==
    /\ users = [u \in User |->
                   [name |-> FirstAccount[u].name,
                    hash |-> HashPassword(FirstAccount[u].password)]]
    /\ rows = FirstItems
    /\ audit = <<>>
    /\ life = [p \in Process |-> 0]
    /\ token = [c \in Client |-> NoToken]
    /\ req = [c \in Client |-> Idle]
    /\ changes = <<>> /\ broken = {} /\ told = [u \in User |-> {FirstAccount[u]}]
    /\ requests = 0 /\ faults = 0

-----------------------------------------------------------------------------
(* Sessions *)

\* A client that logs in again has forgotten its token first.
Login(c, p, name, password) ==
    /\ req[c] = Idle
    /\ token[c] = NoToken
    /\ \E u \in User :
          /\ users[u].name = name
          /\ VerifyPassword(password, users[u].hash)
          /\ token' = [token EXCEPT ![c] = [user |-> u, secret |-> Secret(p)]]
    /\ UNCHANGED <<tables, life, req, history, requests, faults>>

\* The token expires, or the page forgets it.
EndSession(c) ==
    /\ req[c] = Idle
    /\ token[c] # NoToken
    /\ token' = [token EXCEPT ![c] = NoToken]
    /\ UNCHANGED <<tables, life, req, history, requests, faults>>

Authenticated(c, p) == token[c] # NoToken /\ token[c].secret = Secret(p)

\* A writing request of client c reaches the store in process p.
Accepted(c, p) ==
    /\ req[c] = Idle
    /\ Authenticated(c, p)
    /\ requests < MaxRequests
    /\ requests' = requests + 1

At(c, statement) == req[c] # Idle /\ req[c].at = statement
IsAccount(c) == req[c] # Idle /\ req[c].kind = "account"
OnAccount(c, u) == IsAccount(c) /\ req[c].user = u

GoTo(c, statement) == req' = [req EXCEPT ![c].at = statement]

\* The request of client c is over, answered or not.
End(c) == req' = [req EXCEPT ![c] = Idle]

\* The name and the password a form wants the account to have.
Asked(c) == [name |-> req[c].name, password |-> req[c].password]

\* The form of client c is past its UPDATE.
Written(c) == IsAccount(c) /\ req[c].at \in {"reread", "audit"}

\* History: what the forms of these clients have written to account u.
AskedOf(clients, u) == {Asked(c) : c \in {d \in clients : Written(d) /\ OnAccount(d, u)}}

\* The requests of these clients are over; each form on the same account that
\* is still in progress may have come before or after them.
Over(clients) ==
    req' = [c \in Client |->
               CASE c \in clients -> Idle
                 [] c \notin clients /\ IsAccount(c) ->
                       [req[c] EXCEPT !.others = @ \cup AskedOf(clients, req[c].user)]
                 [] OTHER -> req[c]]

-----------------------------------------------------------------------------
(* The account form *)

\* GetAdminUserByID and the checks on the form.  A form without a new
\* password carries on with the hash just read.
ReadAccount(c, p, name, current, new) ==
    /\ Accepted(c, p)
    /\ LET u == token[c].user
           read == [at |-> "name", proc |-> p, user |-> u,
                    kind |-> "account", item |-> u, name |-> name,
                    hash |-> IF new = NoPassword THEN users[u].hash ELSE HashPassword(new),
                    password |-> IF new = NoPassword THEN current ELSE new,
                    asked |-> new # NoPassword, others |-> {}, change |-> 0]
       IN  /\ VerifyPassword(current, users[u].hash)
           /\ req' = [req EXCEPT ![c] = read]
    /\ UNCHANGED <<tables, life, token, history, faults>>

\* The name is no other account's: the check, and the UNIQUE constraint.
Free(name, u) == \A v \in User \ {u} : users[v].name # name

CheckUsername(c) ==
    /\ At(c, "name")
    /\ IF Free(req[c].name, req[c].user) THEN GoTo(c, "update") ELSE End(c)
    /\ UNCHANGED <<tables, life, token, history, requests, faults>>

Committed(kind, item, about) ==
    changes' = Append(changes, [kind |-> kind, item |-> item, rows |-> about])

\* Faulty variant: the schema has no UNIQUE(username).
UpdateCredentialsUnchecked(c) ==
    LET u == req[c].user
    IN  /\ At(c, "update")
        /\ users' = [users EXCEPT ![u] = [name |-> req[c].name, hash |-> req[c].hash]]
        /\ Committed("account", req[c].item, {})
        /\ req' = [req EXCEPT ![c].at = "reread", ![c].change = Len(changes) + 1]
        /\ UNCHANGED <<rows, audit, life, token, broken, told, requests, faults>>

\* Faulty variant: a form with a new password does not write the name.
UpdateCredentialsApart(c) ==
    LET u == req[c].user
    IN  /\ At(c, "update")
        /\ Free(req[c].name, u)
        /\ users' = [users EXCEPT ![u] =
                        IF req[c].asked THEN [@ EXCEPT !.hash = req[c].hash]
                        ELSE [@ EXCEPT !.name = req[c].name]]
        /\ Committed("account", req[c].item, {})
        /\ req' = [req EXCEPT ![c].at = "reread", ![c].change = Len(changes) + 1]
        /\ UNCHANGED <<rows, audit, life, token, broken, told, requests, faults>>

UpdateCredentials(c) ==
    LET u == req[c].user
    IN  /\ At(c, "update")
        /\ Free(req[c].name, u)
        /\ users' = [users EXCEPT ![u] = [name |-> req[c].name, hash |-> req[c].hash]]
        /\ Committed("account", req[c].item, {})
        /\ req' = [req EXCEPT ![c].at = "reread", ![c].change = Len(changes) + 1]
        /\ UNCHANGED <<rows, audit, life, token, broken, told, requests, faults>>

\* Another request took the name after it had been found free.
UpdateRefused(c) ==
    /\ At(c, "update")
    /\ ~Free(req[c].name, req[c].user)
    /\ End(c)
    /\ UNCHANGED <<tables, life, token, history, requests, faults>>

\* GetAdminUserByID for the answer: the account exists.
RereadAccount(c) ==
    /\ At(c, "reread")
    /\ IsAccount(c)
    /\ GoTo(c, "audit")
    /\ UNCHANGED <<tables, life, token, history, requests, faults>>

-----------------------------------------------------------------------------
(* The configuration handlers.  Only the first write can be turned down    *)
(* without a trace.                                                        *)

TargetsOf(g) == {t \in Item : GroupOf[t] = g}

HasGroup(i) == GroupOf[i] # NoItem => GroupOf[i] \in rows

Request(c, p, statement, kind, i, left) ==
    req' = [req EXCEPT ![c] =
               [at |-> statement, proc |-> p, user |-> token[c].user, kind |-> kind,
                item |-> i, left |-> left, last |-> i, change |-> Len(changes) + 1]]

\* The row's INSERT.  A group may bring targets with it.
CreateRow(c, p, i, ts) ==
    /\ Accepted(c, p)
    /\ i \notin rows /\ HasGroup(i)
    /\ rows' = rows \cup {i}
    /\ Committed("create", i, {i} \cup ts)
    /\ Request(c, p, IF ts = {} THEN "reread" ELSE "targets", "create", i, ts)
    /\ UNCHANGED <<users, audit, life, token, broken, told, faults>>

InsertGroupTarget(c, t) ==
    /\ At(c, "targets")
    /\ t \in req[c].left
    /\ t \notin rows /\ HasGroup(t)
    /\ rows' = rows \cup {t}
    /\ req' = [req EXCEPT ![c].at = "target", ![c].left = @ \ {t}, ![c].last = t]
    /\ UNCHANGED <<users, audit, life, token, history, requests, faults>>

\* The id is taken, or the group has been deleted: the rest of the group is
\* given up, what has been inserted stays.
GroupTargetRefused(c, t) ==
    /\ At(c, "targets")
    /\ t \in req[c].left
    /\ t \in rows \/ ~HasGroup(t)
    /\ End(c)
    /\ broken' = IF t \in rows THEN broken \cup {req[c].change} ELSE broken
    /\ UNCHANGED <<tables, life, token, changes, told, requests, faults>>

\* GetUpstreamTarget after the INSERT.
ReadGroupTarget(c) ==
    /\ At(c, "target")
    /\ IF req[c].last \notin rows THEN End(c)
       ELSE GoTo(c, IF req[c].left = {} THEN "reread" ELSE "targets")
    /\ UNCHANGED <<tables, life, token, history, requests, faults>>

\* The UPDATE of a row, the switch of a route included.
UpdateRow(c, p, i) ==
    /\ Accepted(c, p)
    /\ i \in rows
    /\ Committed("update", i, {i})
    /\ Request(c, p, "reread", "update", i, {})
    /\ UNCHANGED <<tables, life, token, broken, told, faults>>

\* The row is read for the answer; without it there is neither an answer nor
\* an audit entry.
RereadRow(c) ==
    /\ At(c, "reread")
    /\ ~IsAccount(c)
    /\ IF req[c].item \in rows THEN GoTo(c, "audit") ELSE End(c)
    /\ UNCHANGED <<tables, life, token, history, requests, faults>>

\* Faulty variant: the handler of DELETE returns before it has recorded it
\* when the row had rows of its own.
DeleteRowQuietly(c, p, i) ==
    /\ Accepted(c, p)
    /\ i \in rows
    /\ rows' = rows \ ({i} \cup TargetsOf(i))
    /\ Committed("delete", i, {i} \cup TargetsOf(i))
    /\ IF TargetsOf(i) \cap rows = {} THEN Request(c, p, "audit", "delete", i, {})
       ELSE UNCHANGED req
    /\ UNCHANGED <<users, audit, life, token, broken, told, faults>>

DeleteRow(c, p, i) ==
    /\ Accepted(c, p)
    /\ i \in rows
    /\ rows' = rows \ ({i} \cup TargetsOf(i))
    /\ Committed("delete", i, {i} \cup TargetsOf(i))
    /\ Request(c, p, "audit", "delete", i, {})
    /\ UNCHANGED <<users, audit, life, token, broken, told, faults>>

-----------------------------------------------------------------------------
(* The audit log, the answer and the faults *)

EntryOf(c) ==
    [change |-> req[c].change, kind |-> req[c].kind, item |-> req[c].item,
     user |-> req[c].user]

\* History: the owner of an account is told that the form has been saved.
Answer(c) ==
    /\ Over({c})
    /\ told' = IF IsAccount(c)
               THEN [told EXCEPT ![req[c].user] = {Asked(c)} \cup req[c].others]
               ELSE told

\* History: the requests of these clients end with an error or no answer.  What
\* their forms have written by then stays written.
Unanswered(clients) ==
    /\ Over(clients)
    /\ told' = [u \in User |-> told[u] \cup AskedOf(clients, u)]

RecordAudit(c) ==
    /\ At(c, "audit")
    /\ audit' = Append(audit, EntryOf(c))
    /\ Answer(c)
    /\ UNCHANGED <<users, rows, life, token, changes, broken, requests, faults>>

\* The INSERT fails: a line in the server's log, and the answer as usual.
AuditFails(c) ==
    /\ At(c, "audit")
    /\ faults < MaxFaults
    /\ faults' = faults + 1
    /\ broken' = broken \cup {req[c].change}
    /\ Answer(c)
    /\ UNCHANGED <<tables, life, token, changes, requests>>

ChangesOf(clients) == {req[c].change : c \in {d \in clients : req[d] # Idle}} \ {0}

\* A statement fails: the file is locked for too long, or the client has
\* gone away, which cancels the request's context.
StatementFails(c) ==
    /\ req[c] # Idle /\ ~At(c, "audit")
    /\ faults < MaxFaults
    /\ faults' = faults + 1
    /\ broken' = broken \cup ChangesOf({c})
    /\ Unanswered({c})
    /\ UNCHANGED <<tables, life, token, changes, requests>>

Served(p) == {c \in Client : req[c] # Idle /\ req[c].proc = p}

Restart(p) ==
    /\ faults < MaxFaults
    /\ faults' = faults + 1
    /\ life' = [life EXCEPT ![p] = @ + 1]
    /\ broken' = broken \cup ChangesOf(Served(p))
    /\ Unanswered(Served(p))
    /\ UNCHANGED <<tables, token, changes, requests>>

-----------------------------------------------------------------------------
Session(c) ==
    \/ \E p \in Process, name \in Name, password \in Password : Login(c, p, name, password)
    \/ EndSession(c)

UpdateAccount(c) ==
    \/ \E p \in Process, name \in Name, current \in Password,
          new \in Password \cup {NoPassword} : ReadAccount(c, p, name, current, new)
    \/ CheckUsername(c) \/ UpdateCredentials(c) \/ UpdateRefused(c) \/ RereadAccount(c)

UpdateConfig(c) ==
    \/ \E p \in Process, i \in Item :
          \/ \E ts \in SUBSET TargetsOf(i) : CreateRow(c, p, i, ts)
          \/ UpdateRow(c, p, i)
          \/ DeleteRow(c, p, i)
    \/ \E t \in Item : InsertGroupTarget(c, t) \/ GroupTargetRefused(c, t)
    \/ ReadGroupTarget(c) \/ RereadRow(c)

Next ==
    \/ \E c \in Client :
          \/ Session(c) \/ UpdateAccount(c) \/ UpdateConfig(c)
          \/ RecordAudit(c) \/ AuditFails(c) \/ StatementFails(c)
    \/ \E p \in Process : Restart(p)

Spec == Init /\ [][Next]_vars

-----------------------------------------------------------------------------
(* Properties *)

\* Whatever renames overlap, no two accounts have one name: who logs in by a
\* name gets the account it belongs to.
UsernamesUnique == \A u, v \in User : users[u].name = users[v].name => u = v

\* Account u has the name and the password of a.
Matches(u, a) == users[u].name = a.name /\ VerifyPassword(a.password, users[u].hash)

\* What the answers say is how to log in.  A form answered as saved is how,
\* or one that wrote while it was in progress; one that is refused or fails
\* before its UPDATE changes neither name nor password; one that fails after
\* it, when the account is read again, is answered with an error and has
\* changed both (server.go:215, admin.go:112-124).
AnswerHolds ==
    \A u \in User :
        \/ \E a \in told[u] : Matches(u, a)
        \/ \E c \in Client : Written(c) /\ OnAccount(c, u) /\ Matches(u, Asked(c))

Audited(n) == \E k \in 1..Len(audit) : audit[k].change = n

InProgress(n) == \E c \in Client : req[c] # Idle /\ req[c].change = n

\* The row was deleted before it could be read again for the answer.
Overtaken(n) ==
    \E m \in (n + 1)..Len(changes) :
        changes[m].kind = "delete" /\ changes[m].rows \cap changes[n].rows # {}

\* The audit log tells what happened: each entry is of a write that was
\* committed, no write has two, and a write without one is in progress, met a
\* fault or a taken id, or its row was deleted before it was answered.
ChangesAudited ==
    /\ \A k \in 1..Len(audit) :
          /\ audit[k].change \in 1..Len(changes)
          /\ audit[k].kind = changes[audit[k].change].kind
          /\ audit[k].item = changes[audit[k].change].item
    /\ \A k, l \in 1..Len(audit) : audit[k].change = audit[l].change => k = l
    /\ \A n \in 1..Len(changes) :
          Audited(n) \/ InProgress(n) \/ n \in broken \/ Overtaken(n)

\* What admin.go:101 says of UpdateAdminCredentials: the existing hash leaves
\* the password unchanged.  It fails: the hash a rename passes is the one it
\* has read, and another request may have changed the password since.
RenameKeepsPassword ==
    [][\A c \in Client : UpdateCredentials(c) /\ ~req[c].asked
          => users'[req[c].user].hash = users[req[c].user].hash]_vars
=============================================================================
