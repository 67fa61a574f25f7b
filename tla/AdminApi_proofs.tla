--------------------------- MODULE AdminApi_proofs ---------------------------
(***************************************************************************)
(* The admin API for any clients, processes, accounts and rows: types,     *)
(* unique names, what the answer to the account form promises, and the     *)
(* audit log.                                                              *)
(***************************************************************************)
EXTENDS AdminApi, SequenceTheorems, TLAPS

\* A request that has not written yet has no change, every other one has.
ReqOK(r, n) ==
    r # Idle => /\ r.change \in 0..n
                /\ r.at \in {"name", "update"} <=> r.change = 0

ReqChange == \A c \in Client : ReqOK(req[c], Len(changes))

TInv == TypeOK /\ ReqChange

USE AdminAssumption DEF AdminAssumption

LEMMA AppendIs ==
    ASSUME NEW S, NEW s \in Seq(S), NEW e \in S
    PROVE  /\ Append(s, e) \in Seq(S)
           /\ Len(Append(s, e)) = Len(s) + 1
           /\ Len(s) \in Nat
           /\ \A i \in 1..Len(s) : Append(s, e)[i] = s[i]
           /\ Append(s, e)[Len(s) + 1] = e
OBVIOUS

\* A request is of the account form or of a configuration handler, as its kind
\* says.
LEMMA ReqKinds ==
    ASSUME NEW r \in AccountReq \cup ItemReq \cup {Idle}, r # Idle
    PROVE  /\ r.kind = "account" => r \in AccountReq
           /\ r.kind # "account" => r \in ItemReq
BY DEF AccountReq, ItemReq

\* A step of one request keeps the requests well-formed if its own stays so.
LEMMA ReqStep ==
    ASSUME TInv, NEW c \in Client, NEW r \in AccountReq \cup ItemReq \cup {Idle},
           req' = [req EXCEPT ![c] = r], Len(changes') \in Nat,
           Len(changes) <= Len(changes'), ReqOK(r, Len(changes'))
    PROVE  /\ req' \in [Client -> AccountReq \cup ItemReq \cup {Idle}]
           /\ ReqChange'
<1>1. req' \in [Client -> AccountReq \cup ItemReq \cup {Idle}]
  BY DEF TInv, TypeOK
<1>2. Len(changes) \in Nat
  BY DEF TInv, TypeOK
<1>3. ASSUME NEW d \in Client PROVE ReqOK(req'[d], Len(changes'))
  <2>1. CASE d = c BY <2>1 DEF TInv, TypeOK
  <2>2. CASE d # c BY <1>2, <2>2 DEF TInv, TypeOK, ReqChange, ReqOK
  <2> QED BY <2>1, <2>2
<1> QED BY <1>1, <1>3 DEF ReqChange

LEMMA WrittenChange ==
    ASSUME TInv
    PROVE  \A c \in Client : req[c] # Idle =>
              /\ req[c].change \in {0} \cup 1..Len(changes)
              /\ req[c].at \notin {"name", "update"} => req[c].change \in 1..Len(changes)
<1> SUFFICES ASSUME NEW c \in Client, req[c] # Idle
             PROVE  /\ req[c].change \in {0} \cup 1..Len(changes)
                    /\ req[c].at \notin {"name", "update"} => req[c].change \in 1..Len(changes)
  OBVIOUS
<1>1. Len(changes) \in Nat
  BY DEF TInv, TypeOK
<1>2. ReqOK(req[c], Len(changes))
  BY DEF TInv, ReqChange
<1> QED BY <1>1, <1>2 DEF ReqOK

LEMMA CommittedT ==
    ASSUME TInv, NEW k \in Kind, NEW i \in Item \cup User, NEW R \in SUBSET Item,
           Committed(k, i, R)
    PROVE  /\ changes' \in Seq(Change)
           /\ Len(changes) \in Nat /\ Len(changes') = Len(changes) + 1
           /\ broken \subseteq 1..Len(changes')
<1> DEFINE e == [kind |-> k, item |-> i, rows |-> R]
<1>1. e \in Change
  BY DEF Change
<1>2. changes \in Seq(Change) /\ broken \subseteq 1..Len(changes)
  BY DEF TInv, TypeOK
<1>3. changes' = Append(changes, e)
  BY DEF Committed
<1> QED BY <1>1, <1>2, <1>3, AppendIs

LEMMA InitT == Init => TInv
<1> SUFFICES ASSUME Init PROVE TInv OBVIOUS
<1>1. users \in [User -> [name : Name, hash : Hash]] /\ told \in [User -> SUBSET Account]
  BY DEF Init, Hash, HashPassword, Account
<1>2. req \in [Client -> AccountReq \cup ItemReq \cup {Idle}]
  BY DEF Init
<1>3. audit \in Seq(Entry) /\ changes \in Seq(Change)
  BY DEF Init
<1> QED BY <1>1, <1>2, <1>3 DEF Init, TInv, TypeOK, ReqChange, ReqOK

LEMMA SessionT == ASSUME TInv, NEW c \in Client, Session(c) PROVE TInv'
<1> USE DEF TInv, TypeOK, ReqChange
<1>1. ASSUME NEW p \in Process, NEW name \in Name, NEW password \in Password,
             Login(c, p, name, password)
      PROVE TInv'
  <2>1. Secret(p) \in {Configured} \cup (Process \X Nat)
    BY DEF Secret
  <2> QED BY <1>1, <2>1 DEF Login, Token, tables, history
<1>2. CASE EndSession(c)
  BY <1>2 DEF EndSession, tables, history
<1> QED BY <1>1, <1>2 DEF Session

LEMMA AccountT == ASSUME TInv, NEW c \in Client, UpdateAccount(c) PROVE TInv'
<1> USE DEF TInv, TypeOK, ReqChange
<1>1. ASSUME NEW p \in Process, NEW name \in Name, NEW current \in Password,
             NEW new \in Password \cup {NoPassword},
             ReadAccount(c, p, name, current, new)
      PROVE TInv'
  <2> DEFINE u == token[c].user
             read == [at |-> "name", proc |-> p, user |-> u, kind |-> "account",
                      item |-> u, name |-> name,
                      hash |-> IF new = NoPassword THEN users[u].hash ELSE HashPassword(new),
                      password |-> IF new = NoPassword THEN current ELSE new,
                      asked |-> new # NoPassword, others |-> {}, change |-> 0]
  <2>1. u \in User
    BY <1>1 DEF ReadAccount, Accepted, Authenticated, Token
  <2>2. read \in AccountReq
    <3>1. read.hash \in Hash
      BY <2>1 DEF Hash, HashPassword
    <3>2. read.password \in Password
      OBVIOUS
    <3>3. read.asked \in BOOLEAN /\ read.others \in SUBSET Account
      OBVIOUS
    <3> QED BY <2>1, <3>1, <3>2, <3>3 DEF AccountReq
  <2>3. req' = [req EXCEPT ![c] = read] /\ ReqOK(read, Len(changes))
    BY <1>1 DEF ReadAccount, ReqOK
  <2>4. changes' = changes /\ Len(changes) \in Nat
    BY <1>1 DEF ReadAccount, history
  <2>5. req' \in [Client -> AccountReq \cup ItemReq \cup {Idle}] /\ ReqChange'
    <3>1. read \in AccountReq \cup ItemReq \cup {Idle} /\ ReqOK(read, Len(changes'))
      BY <2>2, <2>3, <2>4
    <3>2. Len(changes') \in Nat /\ Len(changes) <= Len(changes')
      BY <2>4
    <3> HIDE DEF read
    <3> QED BY <2>3, <3>1, <3>2, ReqStep
  <2>7. requests' \in 0..MaxRequests
    BY <1>1 DEF ReadAccount, Accepted
  <2> QED BY <1>1, <2>5, <2>7 DEF ReadAccount, tables, history
<1>2. ASSUME At(c, "name") \/ At(c, "update") PROVE req[c] \in AccountReq
  BY <1>2 DEF At, AccountReq, ItemReq
<1>3. CASE CheckUsername(c)
  <2>1. CASE GoTo(c, "update")
    <3>1. req[c] \in AccountReq /\ req[c].change = 0
      BY <1>2, <1>3 DEF CheckUsername, At, ReqOK
    <3> DEFINE r == [req[c] EXCEPT !.at = "update"]
    <3>2. r \in AccountReq /\ ReqOK(r, Len(changes))
      BY <3>1 DEF ReqOK, AccountReq
    <3>3. req' = [req EXCEPT ![c] = r]
      BY <2>1 DEF GoTo
    <3> QED BY <1>3, <3>2, <3>3, ReqStep DEF CheckUsername, tables, history
  <2>2. CASE End(c)
    BY <1>3, <2>2, ReqStep DEF CheckUsername, End, ReqOK, tables, history
  <2> QED BY <1>3, <2>1, <2>2 DEF CheckUsername
<1>4. CASE UpdateCredentials(c)
  <2> DEFINE u == req[c].user
             r == [req[c] EXCEPT !.at = "reread", !.change = Len(changes) + 1]
  <2>1. /\ req[c] \in AccountReq /\ u \in User /\ req[c].item \in User
        /\ req[c].name \in Name /\ req[c].hash \in Hash
    BY <1>2, <1>4 DEF UpdateCredentials, AccountReq
  <2>2. changes' \in Seq(Change) /\ Len(changes) \in Nat /\ Len(changes') = Len(changes) + 1
        /\ broken \subseteq 1..Len(changes')
    BY <1>4, <2>1, CommittedT DEF UpdateCredentials, Kind
  <2>3. r \in AccountReq /\ ReqOK(r, Len(changes'))
    <3>1. /\ req[c].at \in {"name", "update", "reread", "audit"}
          /\ Len(changes) + 1 \in Nat /\ Len(changes) + 1 \in 0..Len(changes')
          /\ Len(changes) + 1 # 0
      BY <2>1, <2>2 DEF AccountReq
    <3>2. r \in AccountReq
      BY <2>1, <3>1 DEF AccountReq
    <3>3. r.at = "reread" /\ r.change = Len(changes) + 1
      BY <2>1 DEF AccountReq
    <3> QED BY <3>1, <3>2, <3>3 DEF ReqOK
  <2>4. req' = [req EXCEPT ![c] = r]
    BY <1>4 DEF UpdateCredentials
  <2>5. users' \in [User -> [name : Name, hash : Hash]]
    BY <1>4, <2>1 DEF UpdateCredentials
  <2>7. /\ req' \in [Client -> AccountReq \cup ItemReq \cup {Idle}]
        /\ ReqChange'
    <3>1. r \in AccountReq \cup ItemReq \cup {Idle} /\ ReqOK(r, Len(changes'))
      BY <2>3
    <3>2. Len(changes') \in Nat /\ Len(changes) <= Len(changes')
      BY <2>2
    <3> HIDE DEF r
    <3> QED BY <2>4, <3>1, <3>2, ReqStep
  <2> QED BY <1>4, <2>2, <2>5, <2>7 DEF UpdateCredentials
<1>5. CASE UpdateRefused(c)
  BY <1>5, ReqStep DEF UpdateRefused, End, ReqOK, tables, history
<1>6. CASE RereadAccount(c)
  <2>1. req[c] \in AccountReq /\ req[c].change # 0
    BY <1>6, ReqKinds DEF RereadAccount, IsAccount, At, ReqOK
  <2> DEFINE r == [req[c] EXCEPT !.at = "audit"]
  <2>2. r \in AccountReq /\ ReqOK(r, Len(changes))
    BY <2>1 DEF ReqOK, AccountReq
  <2>3. req' = [req EXCEPT ![c] = r]
    BY <1>6 DEF RereadAccount, GoTo
  <2> QED BY <1>6, <2>2, <2>3, ReqStep DEF RereadAccount, tables, history
<1> QED BY <1>1, <1>3, <1>4, <1>5, <1>6 DEF UpdateAccount

LEMMA ConfigT == ASSUME TInv, NEW c \in Client, UpdateConfig(c) PROVE TInv'
<1> USE DEF TInv, TypeOK, ReqChange
<1> DEFINE Req == AccountReq \cup ItemReq \cup {Idle}
<1>1. ASSUME NEW p \in Process, NEW statement \in {"targets", "target", "reread", "audit"},
             NEW k \in {"create", "update", "delete"}, NEW i \in Item,
             NEW ts \in SUBSET Item, NEW R \in SUBSET Item,
             Accepted(c, p), Committed(k, i, R), Request(c, p, statement, k, i, ts)
      PROVE  /\ changes' \in Seq(Change)
             /\ broken \subseteq 1..Len(changes')
             /\ req' \in [Client -> Req] /\ ReqChange'
             /\ requests' \in 0..MaxRequests
  <2> DEFINE r == [at |-> statement, proc |-> p, user |-> token[c].user, kind |-> k,
                   item |-> i, left |-> ts, last |-> i, change |-> Len(changes) + 1]
  <2>1. changes' \in Seq(Change) /\ Len(changes) \in Nat /\ Len(changes') = Len(changes) + 1
        /\ broken \subseteq 1..Len(changes')
    BY <1>1, CommittedT DEF Kind
  <2>2. token[c].user \in User
    BY <1>1 DEF Accepted, Authenticated, Token
  <2>3. r \in ItemReq
    BY <2>1, <2>2 DEF ItemReq
  <2>4. ReqOK(r, Len(changes'))
    BY <2>1 DEF ReqOK
  <2>5. req' = [req EXCEPT ![c] = r]
    BY <1>1 DEF Request
  <2>6. req' \in [Client -> Req] /\ ReqChange'
    <3>1. Len(changes') \in Nat /\ Len(changes) <= Len(changes')
      BY <2>1
    <3> HIDE DEF r
    <3> QED BY <2>3, <2>4, <2>5, <3>1, ReqStep
  <2>7. requests' \in 0..MaxRequests
    BY <1>1 DEF Accepted
  <2> QED BY <2>1, <2>6, <2>7
<1>2. \A i \in Item : TargetsOf(i) \subseteq Item
  BY DEF TargetsOf
<1>3. ASSUME NEW p \in Process, NEW i \in Item, NEW ts \in SUBSET TargetsOf(i),
             CreateRow(c, p, i, ts)
      PROVE  TInv'
  <2>1. PICK statement \in {"targets", "reread"} : Request(c, p, statement, "create", i, ts)
    BY <1>3 DEF CreateRow
  <2>2. ts \in SUBSET Item /\ {i} \cup ts \in SUBSET Item
    BY <1>2, <1>3
  <2>3. Accepted(c, p) /\ Committed("create", i, {i} \cup ts)
    BY <1>3 DEF CreateRow
  <2>4. /\ changes' \in Seq(Change) /\ broken \subseteq 1..Len(changes')
        /\ req' \in [Client -> Req] /\ ReqChange' /\ requests' \in 0..MaxRequests
    <3> DEFINE R == {i} \cup ts
    <3>1. R \in SUBSET Item /\ Committed("create", i, R)
      BY <2>2, <2>3
    <3> HIDE DEF R, TInv, TypeOK, ReqChange, Req
    <3> QED BY <1>1, <2>1, <2>2, <2>3, <3>1
  <2> QED BY <1>3, <2>4 DEF CreateRow
<1>4. ASSUME NEW p \in Process, NEW i \in Item, UpdateRow(c, p, i) PROVE TInv'
  <2>1. /\ Accepted(c, p) /\ Committed("update", i, {i})
        /\ Request(c, p, "reread", "update", i, {})
    BY <1>4 DEF UpdateRow
  <2>2. /\ changes' \in Seq(Change) /\ broken \subseteq 1..Len(changes')
        /\ req' \in [Client -> Req] /\ ReqChange' /\ requests' \in 0..MaxRequests
    BY <1>1, <2>1
  <2> QED BY <1>4, <2>2 DEF UpdateRow, tables
<1>5. ASSUME NEW p \in Process, NEW i \in Item, DeleteRow(c, p, i) PROVE TInv'
  <2>1. /\ Accepted(c, p) /\ Committed("delete", i, {i} \cup TargetsOf(i))
        /\ Request(c, p, "audit", "delete", i, {})
    BY <1>5 DEF DeleteRow
  <2>2. {i} \cup TargetsOf(i) \in SUBSET Item
    BY <1>2
  <2>3. /\ changes' \in Seq(Change) /\ broken \subseteq 1..Len(changes')
        /\ req' \in [Client -> Req] /\ ReqChange' /\ requests' \in 0..MaxRequests
    BY <1>1, <2>1, <2>2
  <2> QED BY <1>5, <2>3 DEF DeleteRow
<1>6. ASSUME At(c, "targets") \/ At(c, "target") PROVE req[c] \in ItemReq
  BY <1>6 DEF At, AccountReq, ItemReq
<1>7. ASSUME NEW t \in Item, InsertGroupTarget(c, t) PROVE TInv'
  <2> DEFINE r == [req[c] EXCEPT !.at = "target", !.left = @ \ {t}, !.last = t]
  <2>1. req[c] \in ItemReq /\ ReqOK(req[c], Len(changes)) /\ At(c, "targets")
    BY <1>6, <1>7 DEF InsertGroupTarget
  <2>2. r \in ItemReq /\ r.at = "target" /\ r.change = req[c].change
    BY <2>1 DEF ItemReq
  <2>3. ReqOK(r, Len(changes))
    BY <2>1, <2>2 DEF ReqOK, At
  <2>4. req' = [req EXCEPT ![c] = r]
    BY <1>7 DEF InsertGroupTarget
  <2>5. req' \in [Client -> Req] /\ ReqChange'
    <3>1. changes' = changes /\ Len(changes) \in Nat
      BY <1>7 DEF InsertGroupTarget, history
    <3> HIDE DEF r
    <3> QED BY <2>2, <2>3, <2>4, <3>1, ReqStep
  <2> QED BY <1>7, <2>5 DEF InsertGroupTarget, history
<1>8. ASSUME End(c), changes' = changes
      PROVE  req' \in [Client -> Req] /\ ReqChange'
  BY <1>8, ReqStep DEF End, ReqOK
<1>9. ASSUME NEW a \in {"targets", "reread", "audit"}, GoTo(c, a), req[c] \in ItemReq,
             changes' = changes, ~At(c, "name"), ~At(c, "update")
      PROVE  req' \in [Client -> Req] /\ ReqChange'
  <2> DEFINE r == [req[c] EXCEPT !.at = a]
  <2>1. r \in ItemReq /\ r.at = a /\ r.change = req[c].change
    BY <1>9 DEF ItemReq
  <2>2. ReqOK(r, Len(changes))
    BY <1>9, <2>1 DEF ReqOK, At
  <2>3. req' = [req EXCEPT ![c] = r]
    BY <1>9 DEF GoTo
  <2> HIDE DEF r
  <2> QED BY <1>9, <2>1, <2>2, <2>3, ReqStep
<1>10. ASSUME NEW t \in Item, GroupTargetRefused(c, t) PROVE TInv'
  <2>1. req' \in [Client -> Req] /\ ReqChange'
    BY <1>8, <1>10 DEF GroupTargetRefused
  <2>2. req[c].change \in 1..Len(changes)
    BY <1>10, WrittenChange DEF GroupTargetRefused, At
  <2> QED BY <1>10, <2>1, <2>2 DEF GroupTargetRefused, tables
<1>11. CASE ReadGroupTarget(c)
  <2>1. req[c] \in ItemReq /\ ~At(c, "name") /\ ~At(c, "update")
    BY <1>6, <1>11 DEF ReadGroupTarget, At
  <2>2. req' \in [Client -> Req] /\ ReqChange'
    BY <1>8, <1>9, <1>11, <2>1 DEF ReadGroupTarget, history
  <2> QED BY <1>11, <2>2 DEF ReadGroupTarget, tables, history
<1>12. CASE RereadRow(c)
  <2>1. req[c] \in ItemReq /\ ~At(c, "name") /\ ~At(c, "update")
    BY <1>12, ReqKinds DEF RereadRow, At, IsAccount
  <2>2. req' \in [Client -> Req] /\ ReqChange'
    BY <1>8, <1>9, <1>12, <2>1 DEF RereadRow, history
  <2> QED BY <1>12, <2>2 DEF RereadRow, tables, history
<1> QED BY <1>3, <1>4, <1>5, <1>7, <1>10, <1>11, <1>12 DEF UpdateConfig

\* What a form asks for is an account.
LEMMA AskedType ==
    ASSUME TInv
    PROVE  /\ \A c \in Client : IsAccount(c) =>
                 /\ req[c] \in AccountReq /\ req[c].user \in User
                 /\ Asked(c) \in Account /\ req[c].others \subseteq Account
           /\ \A E \in SUBSET Client : \A u : AskedOf(E, u) \subseteq Account
<1>1. ASSUME NEW c \in Client, IsAccount(c)
      PROVE  /\ req[c] \in AccountReq /\ req[c].user \in User
             /\ Asked(c) \in Account /\ req[c].others \subseteq Account
  <2>1. req[c] \in AccountReq
    BY <1>1, ReqKinds DEF IsAccount, TInv, TypeOK
  <2> QED BY <2>1 DEF AccountReq, Account, Asked
<1> QED BY <1>1 DEF AskedOf, Written

\* The request s of a client whose form is not over yet: it has learnt which
\* forms were.
Learns(r, s, others) ==
    /\ s \in AccountReq /\ s # Idle
    /\ s.at = r.at /\ s.kind = r.kind /\ s.user = r.user /\ s.item = r.item
    /\ s.name = r.name /\ s.hash = r.hash /\ s.password = r.password
    /\ s.change = r.change
    /\ s.others = r.others \cup others

\* Requests that are over leave the others as they are, but for the history.
LEMMA OverIs ==
    ASSUME TInv, NEW E \in SUBSET Client, Over(E)
    PROVE  /\ \A c \in E : req'[c] = Idle
           /\ \A c \in Client \ E :
                 IF IsAccount(c) THEN Learns(req[c], req'[c], AskedOf(E, req[c].user))
                 ELSE req'[c] = req[c]
           /\ req' \in [Client -> AccountReq \cup ItemReq \cup {Idle}]
<1>1. ASSUME NEW c \in E PROVE req'[c] = Idle
  BY DEF Over
<1>2. ASSUME NEW c \in Client \ E, ~IsAccount(c) PROVE req'[c] = req[c]
  BY <1>2 DEF Over
<1>3. ASSUME NEW c \in Client \ E, IsAccount(c)
      PROVE  Learns(req[c], req'[c], AskedOf(E, req[c].user))
  <2> DEFINE O == AskedOf(E, req[c].user)
             s == [req[c] EXCEPT !.others = @ \cup O]
  <2>1. req'[c] = s
    BY <1>3 DEF Over
  <2>2. req[c] \in AccountReq /\ req[c].others \subseteq Account /\ O \subseteq Account
    BY <1>3, AskedType
  <2> HIDE DEF O
  <2>3. s \in AccountReq
    BY <2>2 DEF AccountReq
  <2>4. /\ s.at = req[c].at /\ s.kind = req[c].kind /\ s.user = req[c].user
        /\ s.item = req[c].item /\ s.name = req[c].name /\ s.hash = req[c].hash
        /\ s.password = req[c].password /\ s.change = req[c].change
        /\ s.others = req[c].others \cup O
    BY <2>2 DEF AccountReq
  <2> HIDE DEF s
  <2> QED BY <2>1, <2>3, <2>4 DEF Learns, O
<1>4. ASSUME NEW c \in Client PROVE req'[c] \in AccountReq \cup ItemReq \cup {Idle}
  <2>1. req[c] \in AccountReq \cup ItemReq \cup {Idle}
    BY DEF TInv, TypeOK
  <2> QED BY <1>1, <1>2, <1>3, <2>1 DEF Learns
<1>5. req' = [c \in Client |-> req'[c]]
  BY DEF Over
<1> QED BY <1>1, <1>2, <1>3, <1>4, <1>5

LEMMA OverT ==
    ASSUME TInv, NEW E \in SUBSET Client, Over(E), changes' = changes
    PROVE  req' \in [Client -> AccountReq \cup ItemReq \cup {Idle}] /\ ReqChange'
<1>1. ASSUME NEW c \in Client PROVE ReqOK(req'[c], Len(changes))
  <2>1. CASE c \in E
    BY <2>1, OverIs DEF ReqOK
  <2>2. CASE c \notin E
    BY <2>2, OverIs DEF ReqOK, Learns, TInv, ReqChange, IsAccount
  <2> QED BY <2>1, <2>2
<1> QED BY <1>1, OverIs DEF ReqChange

LEMMA UnansweredT ==
    ASSUME TInv, NEW E \in SUBSET Client, Unanswered(E), changes' = changes
    PROVE  /\ req' \in [Client -> AccountReq \cup ItemReq \cup {Idle}] /\ ReqChange'
           /\ told' \in [User -> SUBSET Account]
<1>1. ASSUME NEW u \in User PROVE told[u] \cup AskedOf(E, u) \in SUBSET Account
  BY AskedType DEF TInv, TypeOK
<1> QED BY <1>1, OverT DEF Unanswered

LEMMA LogT ==
    ASSUME TInv, NEW c \in Client, RecordAudit(c) \/ AuditFails(c) \/ StatementFails(c)
    PROVE  TInv'
<1> USE DEF TInv, TypeOK, ReqChange
<1> DEFINE Req == AccountReq \cup ItemReq \cup {Idle}
<1>1. ASSUME At(c, "audit"), Answer(c), changes' = changes
      PROVE  req' \in [Client -> Req] /\ ReqChange' /\ told' \in [User -> SUBSET Account]
  <2>1. req' \in [Client -> Req] /\ ReqChange'
    <3>1. {c} \in SUBSET Client /\ Over({c})
      BY <1>1 DEF Answer
    <3> HIDE DEF TInv, TypeOK, ReqChange
    <3> QED BY <1>1, <3>1, OverT
  <2>2. CASE IsAccount(c)
    <3>1. req[c].user \in User /\ {Asked(c)} \cup req[c].others \in SUBSET Account
      BY <2>2, AskedType
    <3>2. told' = [told EXCEPT ![req[c].user] = {Asked(c)} \cup req[c].others]
      BY <1>1, <2>2 DEF Answer
    <3> QED BY <2>1, <3>1, <3>2
  <2>3. CASE ~IsAccount(c)
    BY <1>1, <2>1, <2>3 DEF Answer
  <2> QED BY <2>2, <2>3
<1>3. ASSUME At(c, "audit") PROVE req[c].change \in 1..Len(changes)
  BY <1>3, WrittenChange DEF At
<1>4. CASE RecordAudit(c)
  <2>1. EntryOf(c) \in Entry
    <3>1. req[c] \in AccountReq \cup ItemReq /\ req[c].change \in Nat
      BY <1>3, <1>4 DEF RecordAudit, At
    <3>2. req[c].kind \in Kind /\ req[c].item \in Item \cup User /\ req[c].user \in User
      <4>1. CASE req[c] \in AccountReq BY <4>1 DEF AccountReq, Kind
      <4>2. CASE req[c] \in ItemReq BY <4>2 DEF ItemReq, Kind
      <4> QED BY <3>1, <4>1, <4>2
    <3> QED BY <3>1, <3>2 DEF Entry, EntryOf
  <2>2. audit' \in Seq(Entry)
    BY <1>4, <2>1, AppendIs DEF RecordAudit
  <2>3. req' \in [Client -> Req] /\ ReqChange' /\ told' \in [User -> SUBSET Account]
    BY <1>1, <1>4 DEF RecordAudit
  <2> QED BY <1>4, <2>2, <2>3 DEF RecordAudit
<1>5. CASE AuditFails(c)
  <2>1. req' \in [Client -> Req] /\ ReqChange' /\ told' \in [User -> SUBSET Account]
    BY <1>1, <1>5 DEF AuditFails
  <2>2. faults' \in 0..MaxFaults
    BY <1>5 DEF AuditFails
  <2>3. broken' \subseteq 1..Len(changes)
    BY <1>3, <1>5 DEF AuditFails
  <2> QED BY <1>5, <2>1, <2>2, <2>3 DEF AuditFails, tables
<1>6. CASE StatementFails(c)
  <2>1. req' \in [Client -> Req] /\ ReqChange' /\ told' \in [User -> SUBSET Account]
    <3>1. {c} \in SUBSET Client /\ Unanswered({c}) /\ changes' = changes
      BY <1>6 DEF StatementFails
    <3> HIDE DEF TInv, TypeOK, ReqChange
    <3> QED BY <3>1, UnansweredT
  <2>2. ChangesOf({c}) \subseteq 1..Len(changes)
    BY WrittenChange DEF ChangesOf
  <2>3. faults' \in 0..MaxFaults
    BY <1>6 DEF StatementFails
  <2> QED BY <1>6, <2>1, <2>2, <2>3 DEF StatementFails, tables
<1> QED BY <1>4, <1>5, <1>6

LEMMA RestartT == ASSUME TInv, NEW p \in Process, Restart(p) PROVE TInv'
<1> USE DEF TInv, TypeOK, ReqChange
<1>1. /\ req' \in [Client -> AccountReq \cup ItemReq \cup {Idle}] /\ ReqChange'
      /\ told' \in [User -> SUBSET Account]
  <2>1. Served(p) \in SUBSET Client /\ Unanswered(Served(p)) /\ changes' = changes
    BY DEF Restart, Served
  <2> HIDE DEF TInv, TypeOK, ReqChange
  <2> QED BY <2>1, UnansweredT
<1>2. ChangesOf(Served(p)) \subseteq 1..Len(changes)
  BY WrittenChange DEF ChangesOf, Served
<1>3. faults' \in 0..MaxFaults /\ life' \in [Process -> Nat]
  BY DEF Restart
<1> QED BY <1>1, <1>2, <1>3 DEF Restart, tables

LEMMA StepT == TInv /\ [Next]_vars => TInv'
<1> SUFFICES ASSUME TInv, [Next]_vars PROVE TInv' OBVIOUS
<1>1. ASSUME NEW c \in Client,
             \/ Session(c) \/ UpdateAccount(c) \/ UpdateConfig(c)
             \/ RecordAudit(c) \/ AuditFails(c) \/ StatementFails(c)
      PROVE  TInv'
  BY <1>1, SessionT, AccountT, ConfigT, LogT
<1>2. ASSUME NEW p \in Process, Restart(p) PROVE TInv'
  BY <1>2, RestartT
<1>3. CASE UNCHANGED vars
  BY <1>3 DEF TInv, TypeOK, ReqChange, vars, tables, history
<1> QED BY <1>1, <1>2, <1>3 DEF Next

\* Accounts, rows, the audit log, tokens and requests keep their form; a hash
\* is always the hash of a password, never the password itself.
THEOREM TypeInvariant == Spec => []TypeOK
<1>1. Spec => []TInv
  BY InitT, StepT, PTL DEF Spec
<1>2. TInv => TypeOK
  BY DEF TInv
<1> QED BY <1>1, <1>2, PTL

-----------------------------------------------------------------------------
(* Names *)

UInv == TInv /\ UsernamesUnique

\* Every step but the UPDATE of an account leaves the accounts alone.
LEMMA UsersWritten ==
    ASSUME [Next]_vars
    PROVE  users' = users \/ \E c \in Client : UpdateCredentials(c)
<1>1. ASSUME NEW c \in Client, Session(c) PROVE users' = users
  BY <1>1 DEF Session, Login, EndSession, tables
<1>2. ASSUME NEW c \in Client, UpdateAccount(c) PROVE users' = users \/ UpdateCredentials(c)
  BY <1>2 DEF UpdateAccount, ReadAccount, CheckUsername, UpdateRefused, RereadAccount, tables
<1>3. ASSUME NEW c \in Client, UpdateConfig(c) PROVE users' = users
  BY <1>3 DEF UpdateConfig, CreateRow, UpdateRow, DeleteRow, InsertGroupTarget,
              GroupTargetRefused, ReadGroupTarget, RereadRow, tables
<1>4. ASSUME NEW c \in Client, RecordAudit(c) \/ AuditFails(c) \/ StatementFails(c)
      PROVE users' = users
  BY <1>4 DEF RecordAudit, AuditFails, StatementFails, tables
<1>5. ASSUME NEW p \in Process, Restart(p) PROVE users' = users
  BY <1>5 DEF Restart, tables
<1>6. CASE UNCHANGED vars
  BY <1>6 DEF vars, tables
<1> QED BY <1>1, <1>2, <1>3, <1>4, <1>5, <1>6 DEF Next

\* The account a request is about, and what its form holds.
LEMMA FormType ==
    ASSUME TInv, NEW c \in Client, IsAccount(c)
    PROVE  /\ req[c] \in AccountReq /\ req[c].user \in User
           /\ req[c].name \in Name /\ req[c].hash \in Hash
<1>1. req[c] \in AccountReq
  BY ReqKinds DEF TInv, TypeOK, IsAccount
<1> QED BY <1>1 DEF AccountReq

LEMMA AtUpdate ==
    ASSUME TInv, NEW c \in Client, UpdateCredentials(c)
    PROVE  IsAccount(c)
BY DEF UpdateCredentials, At, TInv, TypeOK, IsAccount, AccountReq, ItemReq

\* Whatever renames overlap, no two accounts come to share a name: the free
\* name the form was checked against is checked again by the UPDATE.
THEOREM NamesStayUnique == Spec => []UsernamesUnique
<1>1. Init => UsernamesUnique
  BY DEF Init, UsernamesUnique
<1>2. TInv /\ UsernamesUnique /\ [Next]_vars => UsernamesUnique'
  <2> SUFFICES ASSUME TInv, UsernamesUnique, [Next]_vars PROVE UsernamesUnique' OBVIOUS
  <2>1. CASE users' = users
    BY <2>1 DEF UsernamesUnique
  <2>2. ASSUME NEW c \in Client, UpdateCredentials(c) PROVE UsernamesUnique'
    <3>1. req[c].user \in User
      BY <2>2, AtUpdate, FormType
    <3>2. /\ users' = [users EXCEPT ![req[c].user] = [name |-> req[c].name, hash |-> req[c].hash]]
          /\ \A v \in User \ {req[c].user} : users[v].name # req[c].name
      BY <2>2 DEF UpdateCredentials, Free
    <3> QED BY <3>1, <3>2 DEF UsernamesUnique, TInv, TypeOK
  <2> QED BY <2>1, <2>2, UsersWritten
<1> QED BY <1>1, <1>2, InitT, StepT, PTL DEF Spec

-----------------------------------------------------------------------------
(* Answers *)

\* The hash a form writes is of the password it asks for.  Once it has written,
\* the account is as it asked, as a form that wrote and ended since did, or as
\* another one that has written and is in progress.
FormHolds(c) ==
    IsAccount(c) =>
        /\ VerifyPassword(req[c].password, req[c].hash)
        /\ Written(c) =>
              \E a \in req[c].others \cup AskedOf(Client, req[c].user) : Matches(req[c].user, a)

AccountHolds(u) == \E a \in told[u] \cup AskedOf(Client, u) : Matches(u, a)

AInv ==
    TInv /\ (\A c \in Client : FormHolds(c)) /\ \A u \in User : AccountHolds(u)

LEMMA HoldsAnswer == (\A u \in User : AccountHolds(u)) <=> AnswerHolds
BY DEF AccountHolds, AnswerHolds, AskedOf

\* How a request may go on when nothing is written to an account: one that is
\* no form stays none, a form stays the same and on its side of the UPDATE, and
\* has learnt what at least others says; one that begins or ends is not past
\* the UPDATE.
Follows(d, others) ==
    \/ ~Written(d) /\ ~IsAccount(d)'
    \/ ~Written(d) /\ ~Written(d)' /\ VerifyPassword(req'[d].password, req'[d].hash)
    \/ /\ Written(d) /\ Written(d)'
       /\ req'[d].user = req[d].user /\ req'[d].name = req[d].name
       /\ req'[d].hash = req[d].hash /\ req'[d].password = req[d].password
       /\ req[d].others \cup others \subseteq req'[d].others

\* Requests E are over, the other ones go on: whoever goes on has been told of
\* every form among E that has written.
LEMMA FollowingKeeps ==
    ASSUME AInv, users' = users, NEW E \in SUBSET Client,
           \A d \in E : req'[d] = Idle,
           \A d \in Client \ E : Follows(d, AskedOf(E, req[d].user))
    PROVE  /\ \A d \in Client : FormHolds(d)'
           /\ \A u : AskedOf(Client, u) \subseteq AskedOf(Client, u)' \cup AskedOf(E, u)
           /\ \A u, a : Matches(u, a)' <=> Matches(u, a)
<1>1. ASSUME NEW u, NEW a PROVE Matches(u, a)' <=> Matches(u, a)
  BY DEF Matches, VerifyPassword
<1>2. ASSUME NEW u, NEW a \in AskedOf(Client, u), a \notin AskedOf(E, u)
      PROVE  a \in AskedOf(Client, u)'
  <2>1. PICK d \in Client : Written(d) /\ OnAccount(d, u) /\ a = Asked(d)
    BY DEF AskedOf
  <2>2. d \in Client \ E
    BY <1>2, <2>1 DEF AskedOf
  <2>3. Written(d)' /\ OnAccount(d, u)' /\ a = Asked(d)'
    BY <2>1, <2>2 DEF Follows, Written, OnAccount, Asked
  <2> QED BY <2>3 DEF AskedOf
<1>3. ASSUME NEW d \in Client PROVE FormHolds(d)'
  <2> SUFFICES ASSUME IsAccount(d)' PROVE FormHolds(d)'
    BY DEF FormHolds
  <2>1. d \in Client \ E /\ Follows(d, AskedOf(E, req[d].user))
    BY DEF IsAccount
  <2>2. CASE ~Written(d)
    BY <2>1, <2>2 DEF Follows, FormHolds, VerifyPassword
  <2>3. CASE Written(d)
    <3>1. /\ Written(d)' /\ req'[d].user = req[d].user
          /\ req'[d].hash = req[d].hash /\ req'[d].password = req[d].password
          /\ req[d].others \cup AskedOf(E, req[d].user) \subseteq req'[d].others
      BY <2>1, <2>3 DEF Follows
    <3>2. PICK a \in req[d].others \cup AskedOf(Client, req[d].user) : Matches(req[d].user, a)
      BY <2>3 DEF AInv, FormHolds, Written
    <3>3. a \in req'[d].others \cup AskedOf(Client, req[d].user)'
      BY <1>2, <3>1, <3>2
    <3>4. Matches(req[d].user, a)'
      BY <1>1, <3>1, <3>2
    <3>5. VerifyPassword(req[d].password, req[d].hash)
      BY <2>3 DEF AInv, FormHolds, Written
    <3> QED BY <3>1, <3>3, <3>4, <3>5 DEF FormHolds, VerifyPassword
  <2> QED BY <2>2, <2>3
<1> QED BY <1>1, <1>2, <1>3

\* The steps that write no account and end no form that has written.
Quiet == users' = users /\ told' = told /\ \A d \in Client : Follows(d, {})

LEMMA NoneAsked == \A u : AskedOf({}, u) = {}
BY DEF AskedOf

LEMMA QuietHolds ==
    ASSUME AInv, Quiet
    PROVE  (\A d \in Client : FormHolds(d)') /\ \A u \in User : AccountHolds(u)'
<1>1. \A d \in Client : Follows(d, AskedOf({}, req[d].user))
  BY NoneAsked DEF Quiet
<1>2. /\ \A d \in Client : FormHolds(d)'
      /\ \A u : AskedOf(Client, u) \subseteq AskedOf(Client, u)' \cup AskedOf({}, u)
      /\ \A u, a : Matches(u, a)' <=> Matches(u, a)
  <2>1. {} \in SUBSET Client /\ users' = users
    BY DEF Quiet
  <2> QED BY <1>1, <2>1, FollowingKeeps
<1>3. ASSUME NEW u \in User PROVE AccountHolds(u)'
  <2>1. PICK a \in told[u] \cup AskedOf(Client, u) : Matches(u, a)
    BY DEF AInv, AccountHolds
  <2>2. a \in told'[u] \cup AskedOf(Client, u)' /\ Matches(u, a)'
    BY <1>2, <2>1, NoneAsked DEF Quiet
  <2> QED BY <2>2 DEF AccountHolds
<1> QED BY <1>2, <1>3

LEMMA FollowsSelf == ASSUME AInv, NEW d \in Client, req'[d] = req[d] PROVE Follows(d, {})
BY DEF Follows, Written, IsAccount, AInv, FormHolds

LEMMA MoveFollows ==
    ASSUME AInv, NEW c \in Client, NEW r, req' = [req EXCEPT ![c] = r], Follows(c, {})
    PROVE  \A d \in Client : Follows(d, {})
<1>1. \A d \in Client \ {c} : req'[d] = req[d]
  BY DEF AInv, TInv, TypeOK
<1> QED BY <1>1, FollowsSelf

LEMMA EndFollows ==
    ASSUME AInv, NEW c \in Client, End(c), ~Written(c)
    PROVE  \A d \in Client : Follows(d, {})
<1>1. req'[c] = Idle
  BY DEF End, AInv, TInv, TypeOK
<1> QED BY <1>1, MoveFollows DEF End, Follows, IsAccount

LEMMA GoToFollows ==
    ASSUME AInv, NEW c \in Client, req[c] # Idle, NEW a \in {"targets", "update", "reread", "audit"},
           GoTo(c, a), IsAccount(c) => a # "targets" /\ (a \in {"reread", "audit"} <=> Written(c))
    PROVE  \A d \in Client : Follows(d, {})
<1> DEFINE r == [req[c] EXCEPT !.at = a]
<1>1. req' = [req EXCEPT ![c] = r] /\ req'[c] = r
  BY DEF GoTo, AInv, TInv, TypeOK
<1>2. CASE IsAccount(c)
  <2>1. req[c] \in AccountReq
    BY <1>2, AskedType DEF AInv
  <2>2. /\ r.at = a /\ r.user = req[c].user /\ r.name = req[c].name /\ r.hash = req[c].hash
        /\ r.password = req[c].password /\ r.others = req[c].others /\ r.kind = req[c].kind
        /\ r # Idle
    <3>1. r \in AccountReq
      BY <1>2, <2>1 DEF AccountReq
    <3> QED BY <2>1, <3>1 DEF AccountReq
  <2>3. VerifyPassword(req[c].password, req[c].hash)
    BY <1>2 DEF AInv, FormHolds
  <2> HIDE DEF r
  <2>4. Follows(c, {})
    BY <1>1, <1>2, <2>2, <2>3 DEF Follows, Written, IsAccount
  <2> QED BY <1>1, <2>4, MoveFollows
<1>3. CASE ~IsAccount(c)
  <2>1. req[c] \in ItemReq
    BY <1>3, ReqKinds DEF IsAccount, AInv, TInv, TypeOK
  <2>2. r.kind # "account"
    BY <2>1 DEF ItemReq
  <2> HIDE DEF r
  <2>3. Follows(c, {})
    BY <1>1, <1>3, <2>2 DEF Follows, Written, IsAccount
  <2> QED BY <1>1, <2>3, MoveFollows
<1> QED BY <1>2, <1>3

\* The steps that matter to the owner of an account.
Owned ==
    \/ \E c \in Client : UpdateCredentials(c)
    \/ \E c \in Client : At(c, "audit") /\ Answer(c) /\ users' = users
    \/ \E E \in SUBSET Client : Unanswered(E) /\ users' = users

LEMMA QuietForm ==
    ASSUME AInv, NEW c \in Client, UpdateAccount(c)
    PROVE  Quiet \/ Owned
<1>1. ASSUME NEW p \in Process, NEW name \in Name, NEW current \in Password,
             NEW new \in Password \cup {NoPassword},
             ReadAccount(c, p, name, current, new)
      PROVE  Quiet
  <2> DEFINE u == token[c].user
             read == [at |-> "name", proc |-> p, user |-> u, kind |-> "account",
                      item |-> u, name |-> name,
                      hash |-> IF new = NoPassword THEN users[u].hash ELSE HashPassword(new),
                      password |-> IF new = NoPassword THEN current ELSE new,
                      asked |-> new # NoPassword, others |-> {}, change |-> 0]
  <2>1. /\ req[c] = Idle /\ req' = [req EXCEPT ![c] = read]
        /\ VerifyPassword(current, users[u].hash) /\ users' = users /\ told' = told
    BY <1>1 DEF ReadAccount, Accepted, tables, history
  <2>2. VerifyPassword(read.password, read.hash) /\ read.at = "name"
    BY <2>1 DEF VerifyPassword, HashPassword
  <2>3. req'[c] = read
    BY <2>1 DEF AInv, TInv, TypeOK
  <2> HIDE DEF read
  <2>4. Follows(c, {})
    BY <2>1, <2>2, <2>3 DEF Follows, Written, IsAccount
  <2> QED BY <2>1, <2>4, MoveFollows DEF Quiet
<1>2. CASE CheckUsername(c)
  <2>1. users' = users /\ told' = told /\ At(c, "name")
    BY <1>2 DEF CheckUsername, tables, history
  <2>2. CASE GoTo(c, "update")
    BY <2>1, <2>2, GoToFollows DEF Quiet, At, Written
  <2>3. CASE End(c)
    BY <2>1, <2>3, EndFollows DEF Quiet, At, Written
  <2> QED BY <1>2, <2>2, <2>3 DEF CheckUsername
<1>3. CASE UpdateRefused(c)
  BY <1>3, EndFollows DEF UpdateRefused, Quiet, At, Written, tables, history
<1>4. CASE RereadAccount(c)
  <2>1. users' = users /\ told' = told /\ GoTo(c, "audit") /\ req[c] # Idle /\ Written(c)
    BY <1>4 DEF RereadAccount, tables, history, At, Written
  <2> QED BY <2>1, GoToFollows DEF Quiet
<1> QED BY <1>1, <1>2, <1>3, <1>4 DEF UpdateAccount, Owned

LEMMA QuietConfig ==
    ASSUME AInv, NEW c \in Client, UpdateConfig(c)
    PROVE  Quiet
<1>1. users' = users /\ told' = told
  BY DEF UpdateConfig, CreateRow, UpdateRow, DeleteRow, InsertGroupTarget,
         GroupTargetRefused, ReadGroupTarget, RereadRow, tables, history
<1>2. ASSUME NEW p \in Process, NEW statement, NEW k \in {"create", "update", "delete"},
             NEW i, NEW ts, req[c] = Idle, Request(c, p, statement, k, i, ts)
      PROVE  \A d \in Client : Follows(d, {})
  <2> DEFINE r == [at |-> statement, proc |-> p, user |-> token[c].user, kind |-> k,
                   item |-> i, left |-> ts, last |-> i, change |-> Len(changes) + 1]
  <2>1. req' = [req EXCEPT ![c] = r] /\ r.kind # "account"
    BY <1>2 DEF Request
  <2>2. req'[c] = r
    BY <2>1 DEF AInv, TInv, TypeOK
  <2> HIDE DEF r
  <2>3. Follows(c, {})
    BY <1>2, <2>1, <2>2 DEF Follows, IsAccount, Written
  <2> QED BY <2>1, <2>3, MoveFollows
<1>3. ASSUME NEW p \in Process, NEW i \in Item, NEW ts \in SUBSET TargetsOf(i),
             CreateRow(c, p, i, ts)
      PROVE  Quiet
  <2>1. PICK statement : Request(c, p, statement, "create", i, ts)
    BY <1>3 DEF CreateRow
  <2>2. req[c] = Idle
    BY <1>3 DEF CreateRow, Accepted
  <2> QED BY <1>1, <1>2, <2>1, <2>2 DEF Quiet
<1>4. ASSUME NEW p \in Process, NEW i \in Item, UpdateRow(c, p, i) PROVE Quiet
  BY <1>1, <1>2, <1>4 DEF UpdateRow, Accepted, Quiet
<1>5. ASSUME NEW p \in Process, NEW i \in Item, DeleteRow(c, p, i) PROVE Quiet
  BY <1>1, <1>2, <1>5 DEF DeleteRow, Accepted, Quiet
<1>6. ASSUME NEW t \in Item, InsertGroupTarget(c, t) PROVE Quiet
  <2> DEFINE r == [req[c] EXCEPT !.at = "target", !.left = @ \ {t}, !.last = t]
  <2>1. req[c] \in ItemReq
    BY <1>6 DEF InsertGroupTarget, At, AInv, TInv, TypeOK, AccountReq, ItemReq
  <2>2. r.kind # "account" /\ req[c].kind # "account"
    BY <2>1 DEF ItemReq
  <2>3. req' = [req EXCEPT ![c] = r] /\ req'[c] = r
    BY <1>6 DEF InsertGroupTarget, AInv, TInv, TypeOK
  <2> HIDE DEF r
  <2>4. Follows(c, {})
    BY <2>2, <2>3 DEF Follows, Written, IsAccount
  <2> QED BY <1>1, <2>3, <2>4, MoveFollows DEF Quiet
<1>7. ASSUME NEW t \in Item, GroupTargetRefused(c, t) PROVE Quiet
  BY <1>1, <1>7, EndFollows DEF GroupTargetRefused, Quiet, At, Written
<1>8. CASE ReadGroupTarget(c)
  <2>1. ~IsAccount(c) /\ req[c] # Idle /\ ~Written(c)
    BY <1>8 DEF ReadGroupTarget, At, IsAccount, AInv, TInv, TypeOK, AccountReq, ItemReq, Written
  <2>2. End(c) \/ GoTo(c, "reread") \/ GoTo(c, "targets")
    BY <1>8 DEF ReadGroupTarget
  <2> QED BY <1>1, <2>1, <2>2, EndFollows, GoToFollows DEF Quiet
<1>9. CASE RereadRow(c)
  <2>1. ~IsAccount(c) /\ req[c] # Idle /\ ~Written(c)
    BY <1>9 DEF RereadRow, At, Written
  <2>2. End(c) \/ GoTo(c, "audit")
    BY <1>9 DEF RereadRow
  <2> QED BY <1>1, <2>1, <2>2, EndFollows, GoToFollows DEF Quiet
<1> QED BY <1>3, <1>4, <1>5, <1>6, <1>7, <1>8, <1>9 DEF UpdateConfig

LEMMA QuietOrOwned ==
    ASSUME AInv, [Next]_vars
    PROVE  Quiet \/ Owned
<1>1. ASSUME NEW c \in Client, Session(c) PROVE Quiet
  BY <1>1, FollowsSelf DEF Session, Login, EndSession, Quiet, tables, history
<1>2. ASSUME NEW c \in Client, RecordAudit(c) \/ AuditFails(c) PROVE Owned
  BY <1>2 DEF RecordAudit, AuditFails, Owned, tables
<1>3. ASSUME NEW c \in Client, StatementFails(c) PROVE Owned
  <2>1. {c} \in SUBSET Client /\ Unanswered({c}) /\ users' = users
    BY <1>3 DEF StatementFails, tables
  <2> QED BY <2>1 DEF Owned
<1>4. ASSUME NEW p \in Process, Restart(p) PROVE Owned
  <2>1. Served(p) \in SUBSET Client /\ Unanswered(Served(p)) /\ users' = users
    BY <1>4 DEF Restart, Served, tables
  <2> QED BY <2>1 DEF Owned
<1>5. CASE UNCHANGED vars
  BY <1>5, FollowsSelf DEF vars, tables, history, Quiet
<1> QED BY <1>1, <1>2, <1>3, <1>4, <1>5, QuietForm, QuietConfig DEF Next

\* A form that is written is the last word on its account.
LEMMA WriteHolds ==
    ASSUME AInv, NEW c \in Client, UpdateCredentials(c)
    PROVE  (\A d \in Client : FormHolds(d)') /\ \A u \in User : AccountHolds(u)'
<1> DEFINE u == req[c].user
           r == [req[c] EXCEPT !.at = "reread", !.change = Len(changes) + 1]
<1>1. IsAccount(c) /\ req[c] \in AccountReq /\ u \in User
  BY AtUpdate, FormType DEF AInv
<1>2. /\ req' = [req EXCEPT ![c] = r] /\ told' = told /\ req[c].at = "update"
      /\ users' = [users EXCEPT ![u] = [name |-> req[c].name, hash |-> req[c].hash]]
  BY DEF UpdateCredentials, At
<1>3. /\ r.user = u /\ r.name = req[c].name /\ r.hash = req[c].hash
      /\ r.password = req[c].password /\ r.kind = req[c].kind /\ r.at = "reread"
  BY <1>1 DEF AccountReq
<1>4. r \in AccountReq
  <2>1. Len(changes) + 1 \in Nat
    BY DEF AInv, TInv, TypeOK
  <2> QED BY <1>1, <2>1 DEF AccountReq
<1>5. req'[c] = r /\ \A d \in Client \ {c} : req'[d] = req[d]
  BY <1>2 DEF AInv, TInv, TypeOK
<1> HIDE DEF r
<1>6. IsAccount(c)' /\ Written(c)' /\ OnAccount(c, u)' /\ Asked(c)' = Asked(c)
  BY <1>1, <1>3, <1>4, <1>5 DEF IsAccount, Written, OnAccount, Asked
<1>7. users'[u] = [name |-> req[c].name, hash |-> req[c].hash]
      /\ \A v \in User \ {u} : users'[v] = users[v]
  BY <1>1, <1>2 DEF AInv, TInv, TypeOK
<1>8. Asked(c) \in AskedOf(Client, u)' /\ Matches(u, Asked(c))'
  <2>1. VerifyPassword(req[c].password, req[c].hash)
    BY <1>1 DEF AInv, FormHolds
  <2>2. Matches(u, Asked(c))'
    BY <1>3, <1>5, <1>7, <2>1 DEF Matches, VerifyPassword, Asked
  <2> QED BY <1>6, <2>2 DEF AskedOf
<1>9. ASSUME NEW v, v # u
      PROVE  /\ AskedOf(Client, v)' = AskedOf(Client, v)
             /\ \A a : v \in User => (Matches(v, a)' <=> Matches(v, a))
  <2>1. \A d \in Client :
           /\ Written(d)' /\ OnAccount(d, v)' <=> Written(d) /\ OnAccount(d, v)
           /\ OnAccount(d, v) => Asked(d)' = Asked(d)
    BY <1>3, <1>5, <1>9 DEF Written, OnAccount, IsAccount, Asked
  <2>2. AskedOf(Client, v)' = AskedOf(Client, v)
    BY <2>1 DEF AskedOf
  <2> QED BY <1>7, <1>9, <2>2 DEF Matches, VerifyPassword
<1>10. ASSUME NEW d \in Client PROVE FormHolds(d)'
  <2> SUFFICES ASSUME IsAccount(d)' PROVE FormHolds(d)'
    BY DEF FormHolds
  <2>1. CASE d = c
    <3>1. VerifyPassword(req'[d].password, req'[d].hash) /\ req'[d].user = u
      BY <1>1, <1>3, <1>5, <2>1 DEF AInv, FormHolds, VerifyPassword
    <3> QED BY <1>6, <1>8, <2>1, <3>1 DEF FormHolds, VerifyPassword
  <2>2. CASE d # c
    <3>1. req'[d] = req[d] /\ IsAccount(d) /\ FormHolds(d) /\ req[d].user \in User
      BY <1>5, <2>2, AskedType DEF IsAccount, AInv
    <3>2. CASE req[d].user = u
      BY <1>3, <1>5, <1>6, <1>8, <3>1, <3>2 DEF FormHolds, VerifyPassword
    <3>3. CASE req[d].user # u
      BY <1>9, <3>1, <3>3 DEF FormHolds, VerifyPassword, Written, IsAccount
    <3> QED BY <3>2, <3>3
  <2> QED BY <2>1, <2>2
<1>11. ASSUME NEW v \in User PROVE AccountHolds(v)'
  <2>1. CASE v = u
    BY <1>3, <1>5, <1>6, <1>8, <2>1 DEF AccountHolds
  <2>2. CASE v # u
    BY <1>2, <1>9, <2>2 DEF AccountHolds, AInv
  <2> QED BY <2>1, <2>2
<1> QED BY <1>10, <1>11

\* The forms that go on know of those that are over.
LEMMA OverKeeps ==
    ASSUME AInv, NEW E \in SUBSET Client, Over(E), users' = users
    PROVE  /\ \A d \in Client : FormHolds(d)'
           /\ \A u : AskedOf(Client, u) \subseteq AskedOf(Client, u)' \cup AskedOf(E, u)
           /\ \A u, a : Matches(u, a)' <=> Matches(u, a)
<1>1. \A d \in E : req'[d] = Idle
  BY OverIs DEF AInv
<1>2. ASSUME NEW d \in Client \ E PROVE Follows(d, AskedOf(E, req[d].user))
  <2>1. CASE IsAccount(d)
    <3>1. Learns(req[d], req'[d], AskedOf(E, req[d].user))
      BY <2>1, OverIs DEF AInv
    <3>2. VerifyPassword(req[d].password, req[d].hash)
      BY <2>1 DEF AInv, FormHolds
    <3>3. IsAccount(d)' /\ (Written(d)' <=> Written(d))
      BY <2>1, <3>1 DEF Learns, IsAccount, Written
    <3> QED BY <3>1, <3>2, <3>3 DEF Follows, Learns, VerifyPassword
  <2>2. CASE ~IsAccount(d)
    <3>1. req'[d] = req[d]
      BY <2>2, OverIs DEF AInv
    <3> QED BY <2>2, <3>1 DEF Follows, Written, IsAccount
  <2> QED BY <2>1, <2>2
<1> QED BY <1>1, <1>2, FollowingKeeps

LEMMA UnansweredHolds ==
    ASSUME AInv, NEW E \in SUBSET Client, Unanswered(E), users' = users
    PROVE  (\A d \in Client : FormHolds(d)') /\ \A u \in User : AccountHolds(u)'
<1>1. Over(E) /\ told' = [u \in User |-> told[u] \cup AskedOf(E, u)]
  BY DEF Unanswered
<1>2. ASSUME NEW u \in User PROVE AccountHolds(u)'
  <2>1. PICK a \in told[u] \cup AskedOf(Client, u) : Matches(u, a)
    BY DEF AInv, AccountHolds
  <2>2. a \in told'[u] \cup AskedOf(Client, u)' /\ Matches(u, a)'
    BY <1>1, <2>1, OverKeeps
  <2> QED BY <2>2 DEF AccountHolds
<1> QED BY <1>1, <1>2, OverKeeps

\* What the owner is told is what the row holds, or what another form wrote.
LEMMA ToldHolds ==
    ASSUME AInv, NEW c \in Client, At(c, "audit"), Answer(c), users' = users
    PROVE  (\A d \in Client : FormHolds(d)') /\ \A u \in User : AccountHolds(u)'
<1>1. {c} \in SUBSET Client /\ Over({c})
  BY DEF Answer
<1>2. /\ \A d \in Client : FormHolds(d)'
      /\ \A u : AskedOf(Client, u) \subseteq AskedOf(Client, u)' \cup AskedOf({c}, u)
      /\ \A u, a : Matches(u, a)' <=> Matches(u, a)
  BY <1>1, OverKeeps
<1>3. \A u : AskedOf({c}, u) \subseteq {Asked(c)} /\ (AskedOf({c}, u) # {} => OnAccount(c, u))
  BY DEF AskedOf
<1>4. ASSUME NEW v \in User PROVE AccountHolds(v)'
  <2>1. CASE OnAccount(c, v)
    <3>1. IsAccount(c) /\ req[c].user = v /\ Written(c)
      BY <2>1 DEF OnAccount, At, Written
    <3>2. PICK a \in req[c].others \cup AskedOf(Client, v) : Matches(v, a)
      BY <3>1 DEF AInv, FormHolds
    <3>3. told'[v] = {Asked(c)} \cup req[c].others
      BY <3>1 DEF Answer, AInv, TInv, TypeOK
    <3>4. a \in told'[v] \cup AskedOf(Client, v)' /\ Matches(v, a)'
      BY <1>2, <1>3, <3>2, <3>3
    <3> QED BY <3>4 DEF AccountHolds
  <2>2. CASE ~OnAccount(c, v)
    <3>1. PICK a \in told[v] \cup AskedOf(Client, v) : Matches(v, a)
      BY DEF AInv, AccountHolds
    <3>2. told'[v] = told[v]
      BY <2>2 DEF Answer, OnAccount, AInv, TInv, TypeOK
    <3>3. a \in told'[v] \cup AskedOf(Client, v)' /\ Matches(v, a)'
      BY <1>2, <1>3, <2>2, <3>1, <3>2
    <3> QED BY <3>3 DEF AccountHolds
  <2> QED BY <2>1, <2>2
<1> QED BY <1>2, <1>4

\* An account is as a form answered as saved asked, or as one asked that wrote
\* meanwhile or ended with an error after its UPDATE; whichever statement of a
\* form fails, one that ends before its UPDATE has changed nothing.
THEOREM AnswersHold == Spec => []AnswerHolds
<1>1. Init => AInv
  <2> SUFFICES ASSUME Init PROVE AInv OBVIOUS
  <2>1. \A c \in Client : FormHolds(c)
    BY DEF Init, FormHolds, IsAccount
  <2>2. \A u \in User : AccountHolds(u)
    BY DEF Init, AccountHolds, Matches, HashPassword, VerifyPassword
  <2> QED BY <2>1, <2>2, InitT DEF AInv
<1>2. AInv /\ [Next]_vars => AInv'
  <2> SUFFICES ASSUME AInv, [Next]_vars PROVE AInv' OBVIOUS
  <2>1. TInv'
    BY StepT DEF AInv
  <2>2. CASE Quiet
    BY <2>1, <2>2, QuietHolds DEF AInv
  <2>3. CASE Owned
    BY <2>1, <2>3, WriteHolds, ToldHolds, UnansweredHolds DEF Owned, AInv
  <2> QED BY <2>2, <2>3, QuietOrOwned
<1>3. AInv => AnswerHolds
  BY HoldsAnswer DEF AInv
<1> QED BY <1>1, <1>2, <1>3, PTL DEF Spec

-----------------------------------------------------------------------------
(* The audit log: every request in flight knows the change it has          *)
(* committed, is the only one to know it, and ends with an entry or for    *)
(* one of the reasons ChangesAudited names.                                *)

\* A request r that has committed a change has no entry yet, and the rows it
\* still has to read are there or have been deleted since.
Trail(r) ==
    r # Idle /\ r.change # 0 =>
        /\ changes[r.change].kind = r.kind /\ changes[r.change].item = r.item
        /\ ~Audited(r.change)
        /\ r.kind = "delete" => r.at = "audit"
        /\ r.kind \in {"create", "update"} =>
              /\ r.item \in changes[r.change].rows
              /\ r.item \in rows \/ Overtaken(r.change)
              /\ r.left \subseteq changes[r.change].rows \cap TargetsOf(r.item)
              /\ r.at = "target" =>
                    /\ r.last \in changes[r.change].rows
                    /\ r.last \in rows \/ Overtaken(r.change)

Trails == \A c \in Client : Trail(req[c])

Apart ==
    \A c, d \in Client :
        req[c] # Idle /\ req[d] # Idle /\ req[c].change = req[d].change /\ req[c].change # 0
            => c = d

EntriesTrue ==
    \A k \in 1..Len(audit) :
        /\ audit[k].change \in 1..Len(changes)
        /\ audit[k].kind = changes[audit[k].change].kind
        /\ audit[k].item = changes[audit[k].change].item

EntriesOnce ==
    \A k, l \in 1..Len(audit) : audit[k].change = audit[l].change => k = l

Explained(n) == Audited(n) \/ InProgress(n) \/ n \in broken \/ Overtaken(n)

LInv ==
    /\ TInv /\ Trails /\ Apart
    /\ EntriesTrue /\ EntriesOnce /\ \A n \in 1..Len(changes) : Explained(n)

LEMMA WrittenOne ==
    ASSUME TInv, NEW c \in Client, req[c] # Idle, req[c].at \notin {"name", "update"}
    PROVE  req[c].change \in 1..Len(changes) /\ req[c].change # 0
<1>1. req[c].change \in 1..Len(changes)
  BY WrittenChange
<1> QED BY <1>1 DEF TInv, TypeOK

\* What a commit of a change e by a request, which is then r, does to the log.
LEMMA CommitAudited ==
    ASSUME LInv, TInv', NEW c \in Client, NEW r \in AccountReq \cup ItemReq, NEW e \in Change,
           req[c] = Idle \/ req[c].change = 0,
           req' = [req EXCEPT ![c] = r], r.change = Len(changes) + 1,
           changes' = Append(changes, e), e.kind = r.kind, e.item = r.item,
           audit' = audit, broken' = broken,
           rows \subseteq rows' \/ (e.kind = "delete" /\ rows \ rows' \subseteq e.rows),
           r.kind = "delete" => r.at = "audit",
           r.kind \in {"create", "update"} =>
               /\ r.item \in rows' /\ r.item \in e.rows /\ r.at # "target"
               /\ r.left \subseteq e.rows \cap TargetsOf(r.item)
    PROVE  LInv'
<1> DEFINE N == Len(changes)
<1>1. /\ N \in Nat /\ changes \in Seq(Change) /\ Len(changes') = N + 1
      /\ \A m \in 1..N : changes'[m] = changes[m]
      /\ changes'[N + 1] = e
  BY AppendIs DEF LInv, TInv, TypeOK
<1>2. req'[c] = r /\ r # Idle /\ \A d \in Client \ {c} : req'[d] = req[d]
  BY DEF LInv, TInv, TypeOK
<1>3. \A d \in Client \ {c} : req[d] # Idle => req[d].change \in {0} \cup 1..N
  BY WrittenChange DEF LInv
<1>4. \A n : Audited(n)' <=> Audited(n)
  BY DEF Audited
<1>5. ASSUME NEW n \in 1..N, Overtaken(n) PROVE Overtaken(n)'
  BY <1>1, <1>5 DEF Overtaken
<1>6. ASSUME NEW n \in 1..N, NEW i \in changes[n].rows, i \in rows \/ Overtaken(n)
      PROVE  i \in rows' \/ Overtaken(n)'
  <2>1. CASE i \in rows /\ i \notin rows'
    <3>1. e.kind = "delete" /\ i \in e.rows
      BY <2>1
    <3>2. /\ N + 1 \in (n + 1)..Len(changes') /\ changes'[N + 1] = e
          /\ i \in changes'[n].rows
      BY <1>1
    <3>3. Overtaken(n)'
      BY <3>1, <3>2 DEF Overtaken
    <3> QED BY <3>3
  <2>2. CASE Overtaken(n)
    BY <1>5, <2>2
  <2>3. CASE i \in rows'
    BY <2>3
  <2> QED BY <1>6, <2>1, <2>2, <2>3
<1>7. ~Audited(N + 1)
  BY <1>1 DEF Audited, LInv, EntriesTrue
<1>8. Trails'
  <2>1. Trail(req[c])'
    BY <1>1, <1>2, <1>4, <1>7 DEF Trail
  <2>2. ASSUME NEW d \in Client \ {c}, req[d] # Idle, req[d].change # 0 PROVE Trail(req[d])'
    <3> DEFINE s == req[d]
    <3>1. Trail(s) /\ s.change \in 1..N /\ req'[d] = s
      BY <1>2, <1>3, <2>2 DEF LInv, Trails
    <3>2. changes'[s.change] = changes[s.change]
      BY <1>1, <3>1
    <3>3. s.kind \in {"create", "update"} => s.item \in rows' \/ Overtaken(s.change)'
      BY <1>6, <2>2, <3>1 DEF Trail
    <3>4. s.kind \in {"create", "update"} /\ s.at = "target" =>
             s.last \in rows' \/ Overtaken(s.change)'
      BY <1>6, <2>2, <3>1 DEF Trail
    <3>5. ~Audited(s.change)'
      BY <1>4, <2>2, <3>1 DEF Trail
    <3> QED BY <2>2, <3>1, <3>2, <3>3, <3>4, <3>5 DEF Trail, Overtaken, Audited
  <2>3. ASSUME NEW d \in Client \ {c}, req[d] = Idle \/ req[d].change = 0 PROVE Trail(req[d])'
    BY <1>2, <2>3 DEF Trail
  <2> QED BY <2>1, <2>2, <2>3 DEF Trails
<1>9. Apart'
  <2>1. N + 1 \notin {0} \cup 1..N
    BY <1>1
  <2> QED BY <1>2, <1>3, <2>1 DEF Apart, LInv
<1>10. EntriesTrue' /\ EntriesOnce'
  BY <1>1 DEF EntriesTrue, EntriesOnce, LInv
<1>11. ASSUME NEW n \in 1..Len(changes') PROVE Explained(n)'
  <2>1. CASE n = N + 1
    BY <1>2, <2>1 DEF Explained, InProgress
  <2>2. CASE n \in 1..N
    <3>1. Explained(n) /\ n # 0
      BY <2>2 DEF LInv
    <3>2. InProgress(n) => InProgress(n)'
      BY <1>2, <3>1 DEF InProgress
    <3> QED BY <1>4, <1>5, <2>2, <3>1, <3>2 DEF Explained
  <2> QED BY <1>1, <2>1, <2>2
<1> QED BY <1>8, <1>9, <1>10, <1>11 DEF LInv

\* How a request may go on without a commit or an entry.
Carries(d) ==
    \/ req'[d] = req[d]
    \/ /\ req[d] = Idle \/ req[d].change = 0
       /\ req'[d] = Idle \/ req'[d].change = 0
    \/ /\ req[d] # Idle /\ req'[d] = Idle
       /\ req[d].change \in broken' \/ Overtaken(req[d].change)
    \/ /\ req[d] # Idle /\ req'[d] # Idle
       /\ req'[d].change = req[d].change
       /\ req'[d].kind = req[d].kind /\ req'[d].item = req[d].item
       /\ req[d].kind # "delete"
       /\ req[d].kind \in {"create", "update"} =>
             /\ req'[d].left \subseteq req[d].left
             /\ req'[d].at = "target" => req'[d].last \in req[d].left \cap rows'

LEMMA CarriedAudited ==
    ASSUME LInv, TInv', changes' = changes, audit' = audit,
           broken \subseteq broken', rows \subseteq rows',
           \A d \in Client : Carries(d)
    PROVE  LInv'
<1>1. ASSUME NEW n PROVE (Audited(n)' <=> Audited(n)) /\ (Overtaken(n)' <=> Overtaken(n))
  BY DEF Audited, Overtaken
<1>2. ASSUME NEW d \in Client, req'[d] # Idle, req'[d].change # 0
      PROVE  req[d] # Idle /\ req[d].change = req'[d].change
  BY <1>2 DEF Carries
<1>3. ASSUME NEW d \in Client PROVE Trail(req[d])'
  <2> SUFFICES ASSUME req'[d] # Idle, req'[d].change # 0 PROVE Trail(req[d])'
    BY DEF Trail
  <2>1. Trail(req[d]) /\ req[d] # Idle /\ req[d].change = req'[d].change /\ Carries(d)
    BY <1>2 DEF LInv, Trails
  <2>2. CASE req'[d] = req[d]
    BY <1>1, <2>1, <2>2 DEF Trail
  <2>3. CASE req'[d] # req[d]
    BY <1>1, <2>1, <2>3 DEF Trail, Carries
  <2> QED BY <2>2, <2>3
<1>4. Apart'
  BY <1>2 DEF Apart, LInv
<1>5. ASSUME NEW n \in 1..Len(changes) PROVE Explained(n)'
  <2>1. Explained(n) /\ n # 0
    BY DEF LInv, TInv, TypeOK
  <2>2. ASSUME InProgress(n) PROVE InProgress(n)' \/ n \in broken' \/ Overtaken(n)
    <3>1. PICK d \in Client : req[d] # Idle /\ req[d].change = n
      BY <2>2 DEF InProgress
    <3>2. Carries(d)
      OBVIOUS
    <3> QED BY <2>1, <3>1, <3>2 DEF Carries, InProgress
  <2> QED BY <1>1, <2>1, <2>2 DEF Explained
<1> QED BY <1>3, <1>4, <1>5 DEF LInv, Trails, EntriesTrue, EntriesOnce

\* To the audit log a request stays what it is when another one is over.
Stays(d) ==
    \/ req'[d] = req[d]
    \/ /\ req[d] # Idle /\ req'[d] # Idle /\ IsAccount(d)
       /\ req'[d].change = req[d].change /\ req'[d].kind = req[d].kind
       /\ req'[d].item = req[d].item

LEMMA OverStays ==
    ASSUME TInv, NEW E \in SUBSET Client, Over(E)
    PROVE  (\A d \in E : req'[d] = Idle) /\ \A d \in Client \ E : Stays(d)
<1>1. ASSUME NEW d \in Client \ E, IsAccount(d) PROVE Stays(d)
  BY <1>1, OverIs DEF Stays, Learns, IsAccount
<1>2. ASSUME NEW d \in Client \ E, ~IsAccount(d) PROVE Stays(d)
  BY <1>2, OverIs DEF Stays
<1> QED BY <1>1, <1>2, OverIs

\* An entry is of the change its request has committed.
LEMMA RecordAudited ==
    ASSUME LInv, TInv', NEW c \in Client, RecordAudit(c)
    PROVE  LInv'
<1> DEFINE n == req[c].change
           K == Len(audit)
<1>1. n \in 1..Len(changes) /\ n # 0 /\ req[c] # Idle
  <2>1. req[c] # Idle /\ req[c].at = "audit"
    BY DEF RecordAudit, At
  <2>2. Len(changes) \in Nat
    BY DEF LInv, TInv, TypeOK
  <2> QED BY <2>1, <2>2, WrittenChange DEF LInv
<1>2. EntryOf(c) \in Entry /\ EntryOf(c).change = n
      /\ EntryOf(c).kind = changes[n].kind /\ EntryOf(c).item = changes[n].item
  <2>1. Trail(req[c])
    BY DEF LInv, Trails
  <2>2. req[c].kind = changes[n].kind /\ req[c].item = changes[n].item
    BY <1>1, <2>1 DEF Trail
  <2>3. changes[n] \in Change /\ req[c].user \in User /\ n \in Nat
    <3>1. req[c] \in AccountReq \cup ItemReq
      BY <1>1 DEF LInv, TInv, TypeOK
    <3>2. req[c].user \in User
      BY <3>1 DEF AccountReq, ItemReq
    <3> QED BY <1>1, <3>2 DEF LInv, TInv, TypeOK
  <2> QED BY <2>2, <2>3 DEF EntryOf, Entry, Change
<1>3. /\ K \in Nat /\ Len(audit') = K + 1
      /\ \A k \in 1..K : audit'[k] = audit[k]
      /\ audit'[K + 1] = EntryOf(c)
  BY <1>2, AppendIs DEF RecordAudit, LInv, TInv, TypeOK
<1>4. /\ changes' = changes /\ broken' = broken /\ rows' = rows
      /\ req'[c] = Idle /\ \A d \in Client \ {c} : Stays(d)
  <2>1. {c} \in SUBSET Client /\ Over({c})
    BY DEF RecordAudit, Answer
  <2> QED BY <2>1, OverStays DEF RecordAudit, LInv
<1>5. ~Audited(n)
  BY <1>1 DEF LInv, Trails, Trail
<1>6. ASSUME NEW m PROVE /\ Audited(m)' <=> Audited(m) \/ m = n
                         /\ Overtaken(m)' <=> Overtaken(m)
  <2>1. Audited(m) => Audited(m)'
    BY <1>3 DEF Audited
  <2>2. m = n => Audited(m)'
    BY <1>2, <1>3 DEF Audited
  <2>3. Audited(m)' => Audited(m) \/ m = n
    BY <1>2, <1>3 DEF Audited
  <2>4. Overtaken(m)' <=> Overtaken(m)
    BY <1>4 DEF Overtaken
  <2> QED BY <2>1, <2>2, <2>3, <2>4
<1>7. ASSUME NEW d \in Client PROVE Trail(req[d])'
  <2>1. CASE d = c BY <1>4, <2>1 DEF Trail
  <2>2. CASE d # c
    <3>1. Trail(req[d]) /\ Stays(d)
      BY <1>4, <2>2 DEF LInv, Trails
    <3>2. req[d] # Idle /\ req[d].change # 0 => req[d].change # n
      BY <1>1, <2>2 DEF LInv, Apart
    <3> QED BY <1>4, <1>6, <3>1, <3>2 DEF Trail, Stays, IsAccount
  <2> QED BY <2>1, <2>2
<1>8. Apart'
  BY <1>4 DEF Apart, LInv, Stays
<1>9. EntriesTrue'
  BY <1>1, <1>2, <1>3, <1>4 DEF EntriesTrue, LInv
<1>10. EntriesOnce'
  <2>1. \A k \in 1..K : audit[k].change # n
    BY <1>5 DEF Audited
  <2> QED BY <1>2, <1>3, <2>1, SMTT(30) DEF EntriesOnce, LInv
<1>11. ASSUME NEW m \in 1..Len(changes) PROVE Explained(m)'
  <2>1. Explained(m)
    BY DEF LInv
  <2>2. InProgress(m) /\ m # n => InProgress(m)'
    BY <1>4 DEF InProgress, Stays
  <2> QED BY <1>4, <1>6, <2>1, <2>2 DEF Explained
<1> QED BY <1>4, <1>7, <1>8, <1>9, <1>10, <1>11 DEF LInv, Trails

-----------------------------------------------------------------------------
(* Every step commits, records, or carries the requests on *)

LEMMA CarrySelf == ASSUME NEW d, req'[d] = req[d] PROVE Carries(d)
BY DEF Carries

\* Only request c moves.
LEMMA CarryOne ==
    ASSUME TInv, NEW c \in Client, NEW r, req' = [req EXCEPT ![c] = r], Carries(c)
    PROVE  \A d \in Client : Carries(d)
<1>1. \A d \in Client \ {c} : req'[d] = req[d]
  BY DEF TInv, TypeOK
<1> QED BY <1>1, CarrySelf

\* A request on which nothing hangs yet, or any more, ends.
LEMMA EndCarries ==
    ASSUME TInv, NEW c \in Client, End(c), req[c] # Idle,
           req[c].change = 0 \/ req[c].change \in broken' \/ Overtaken(req[c].change)
    PROVE  \A d \in Client : Carries(d)
<1>1. req' = [req EXCEPT ![c] = Idle] /\ req'[c] = Idle
  BY DEF End, TInv, TypeOK
<1>2. Carries(c)
  BY <1>1 DEF Carries
<1> QED BY <1>1, <1>2, CarryOne

LEMMA GoToCarries ==
    ASSUME LInv, NEW c \in Client, req[c] # Idle, NEW a \in {"update", "targets", "reread", "audit"},
           GoTo(c, a), ~At(c, "audit"),
           IF IsAccount(c) THEN a # "targets" ELSE a # "update"
    PROVE  \A d \in Client : Carries(d)
<1> DEFINE r == [req[c] EXCEPT !.at = a]
<1>1. req' = [req EXCEPT ![c] = r] /\ req'[c] = r
  BY DEF GoTo, LInv, TInv, TypeOK
<1>2. CASE req[c] \in AccountReq
  <2>1. /\ r.change = req[c].change /\ r.kind = req[c].kind /\ r.item = req[c].item
        /\ req[c].kind = "account"
    BY <1>2 DEF AccountReq
  <2>2. r \in AccountReq
    BY <1>2, <2>1 DEF IsAccount, AccountReq
  <2> HIDE DEF r
  <2>3. Carries(c)
    BY <1>1, <2>1, <2>2 DEF Carries
  <2> QED BY <1>1, <2>3, CarryOne DEF LInv
<1>3. CASE req[c] \in ItemReq
  <2>1. /\ r.change = req[c].change /\ r.kind = req[c].kind /\ r.item = req[c].item
        /\ r.left = req[c].left /\ r.at = a /\ req[c].kind # "account"
    BY <1>3 DEF ItemReq
  <2>5. r \in ItemReq
    BY <1>3, <2>1 DEF IsAccount, ItemReq
  <2>2. req[c].kind = "delete" => req[c].change = 0
    BY DEF LInv, Trails, Trail, At
  <2>3. req[c].change # 0
    <3>1. req[c].at \notin {"name", "update"}
      BY <1>3 DEF ItemReq
    <3> QED BY <3>1, WrittenChange DEF LInv, TInv, TypeOK
  <2> HIDE DEF r
  <2>4. Carries(c)
    BY <1>1, <2>1, <2>2, <2>3, <2>5 DEF Carries
  <2> QED BY <1>1, <2>4, CarryOne DEF LInv
<1> QED BY <1>2, <1>3 DEF LInv, TInv, TypeOK

\* Requests on which nothing hangs any more are over together.
LEMMA OverCarries ==
    ASSUME LInv, NEW E \in SUBSET Client, Over(E),
           \A d \in E : req[d] # Idle /\ (req[d].change = 0 \/ req[d].change \in broken')
    PROVE  \A d \in Client : Carries(d)
<1>1. ASSUME NEW d \in E PROVE Carries(d)
  BY OverIs DEF Carries, LInv
<1>2. ASSUME NEW d \in Client \ E PROVE Carries(d)
  BY OverStays DEF Carries, Stays, IsAccount, LInv
<1> QED BY <1>1, <1>2

\* The account form.
LEMMA AccountAudited ==
    ASSUME LInv, TInv', NEW c \in Client, UpdateAccount(c)
    PROVE  LInv'
<1>1. ASSUME NEW p \in Process, NEW name \in Name, NEW current \in Password,
             NEW new \in Password \cup {NoPassword},
             ReadAccount(c, p, name, current, new)
      PROVE  LInv'
  <2> DEFINE u == token[c].user
             read == [at |-> "name", proc |-> p, user |-> u, kind |-> "account",
                      item |-> u, name |-> name,
                      hash |-> IF new = NoPassword THEN users[u].hash ELSE HashPassword(new),
                      password |-> IF new = NoPassword THEN current ELSE new,
                      asked |-> new # NoPassword, others |-> {}, change |-> 0]
  <2>1. req[c] = Idle /\ req' = [req EXCEPT ![c] = read] /\ read.change = 0
    BY <1>1 DEF ReadAccount, Accepted
  <2>2. req'[c] = read
    BY <2>1 DEF LInv, TInv, TypeOK
  <2> HIDE DEF read
  <2>3. Carries(c)
    BY <2>1, <2>2 DEF Carries
  <2>4. changes' = changes /\ audit' = audit /\ broken' = broken /\ rows' = rows
    BY <1>1 DEF ReadAccount, tables, history
  <2>5. \A d \in Client : Carries(d)
    BY <2>1, <2>3, CarryOne DEF LInv
  <2> QED BY <2>4, <2>5, CarriedAudited
<1>2. ASSUME At(c, "name") \/ At(c, "update")
      PROVE  req[c] # Idle /\ req[c].change = 0
  BY <1>2 DEF At, LInv, TInv, ReqChange, ReqOK
<1>3. CASE CheckUsername(c) \/ UpdateRefused(c) \/ RereadAccount(c)
  <2>1. changes' = changes /\ audit' = audit /\ broken' = broken /\ rows' = rows
    BY <1>3 DEF CheckUsername, UpdateRefused, RereadAccount, tables, history
  <2>2. \A d \in Client : Carries(d)
    <3>1. CASE CheckUsername(c)
      <4>1. req[c] # Idle /\ req[c].change = 0 /\ ~At(c, "audit") /\ IsAccount(c)
        BY <1>2, <3>1 DEF CheckUsername, At, IsAccount, LInv, TInv, TypeOK, AccountReq, ItemReq
      <4> QED BY <3>1, <4>1, GoToCarries, EndCarries DEF CheckUsername, LInv
    <3>2. CASE UpdateRefused(c)
      BY <1>2, <3>2, EndCarries DEF UpdateRefused, LInv
    <3>3. CASE RereadAccount(c)
      BY <3>3, GoToCarries DEF RereadAccount, At
    <3> QED BY <1>3, <3>1, <3>2, <3>3
  <2> QED BY <2>1, <2>2, CarriedAudited
<1>4. CASE UpdateCredentials(c)
  <2> DEFINE i == req[c].item
             r == [req[c] EXCEPT !.at = "reread", !.change = Len(changes) + 1]
             e == [kind |-> "account", item |-> i, rows |-> {}]
  <2>1. req[c] \in AccountReq /\ i \in User /\ req[c].change = 0
    <3>1. req[c] \in AccountReq
      BY <1>4, AtUpdate, FormType DEF LInv
    <3> QED BY <1>2, <1>4, <3>1 DEF UpdateCredentials, AccountReq
  <2>2. Len(changes) \in Nat
    BY DEF LInv, TInv, TypeOK
  <2>3. r.change = Len(changes) + 1 /\ r.kind = "account" /\ r.item = i
    BY <2>1 DEF AccountReq
  <2>6. r \in AccountReq
    <3>1. Len(changes) + 1 \in Nat
      BY <2>2
    <3> QED BY <2>1, <3>1 DEF AccountReq
  <2>4. e \in Change /\ e.kind = "account" /\ e.item = i
    BY <2>1 DEF Change, Kind
  <2>5. req' = [req EXCEPT ![c] = r] /\ changes' = Append(changes, e)
        /\ audit' = audit /\ broken' = broken /\ rows' = rows
    BY <1>4 DEF UpdateCredentials, Committed
  <2> HIDE DEF r, e
  <2> QED BY <2>1, <2>3, <2>4, <2>5, <2>6, CommitAudited
<1> QED BY <1>1, <1>3, <1>4 DEF UpdateAccount

\* The configuration handlers.
LEMMA ConfigAudited ==
    ASSUME LInv, TInv', NEW c \in Client, UpdateConfig(c)
    PROVE  LInv'
<1>1. ASSUME NEW p \in Process, NEW statement \in {"targets", "reread", "audit"},
             NEW k \in {"create", "update", "delete"}, NEW i \in Item,
             NEW ts \in SUBSET TargetsOf(i), NEW R \in SUBSET Item,
             Accepted(c, p), Committed(k, i, R), Request(c, p, statement, k, i, ts),
             audit' = audit, broken' = broken,
             rows \subseteq rows' \/ (k = "delete" /\ rows \ rows' \subseteq R),
             k = "delete" => statement = "audit",
             k # "delete" => i \in rows' /\ i \in R /\ ts \subseteq R
      PROVE  LInv'
  <2> DEFINE r == [at |-> statement, proc |-> p, user |-> token[c].user, kind |-> k,
                   item |-> i, left |-> ts, last |-> i, change |-> Len(changes) + 1]
             e == [kind |-> k, item |-> i, rows |-> R]
  <2>1. req[c] = Idle
    BY <1>1 DEF Accepted
  <2>2. e \in Change /\ e.kind = k /\ e.item = i /\ e.rows = R
    BY DEF Change, Kind
  <2>3. r \in ItemReq
    <3>1. token[c].user \in User
      BY <1>1 DEF Accepted, Authenticated, Token, LInv, TInv, TypeOK
    <3>2. Len(changes) + 1 \in Nat
      BY DEF LInv, TInv, TypeOK
    <3>3. ts \in SUBSET Item
      BY DEF TargetsOf
    <3> QED BY <3>1, <3>2, <3>3 DEF ItemReq
  <2>4. /\ r.at = statement /\ r.kind = k /\ r.item = i /\ r.left = ts
        /\ r.change = Len(changes) + 1
    OBVIOUS
  <2>5. req' = [req EXCEPT ![c] = r] /\ changes' = Append(changes, e)
    BY <1>1 DEF Request, Committed
  <2> HIDE DEF r, e
  <2>6. r.kind = "delete" => r.at = "audit"
    BY <1>1, <2>4
  <2>7. r.kind \in {"create", "update"} =>
          /\ r.item \in rows' /\ r.item \in e.rows /\ r.at # "target"
          /\ r.left \subseteq e.rows \cap TargetsOf(r.item)
    BY <1>1, <2>2, <2>4
  <2>8. rows \subseteq rows' \/ (e.kind = "delete" /\ rows \ rows' \subseteq e.rows)
    BY <1>1, <2>2
  <2>9. e.kind = r.kind /\ e.item = r.item
    BY <2>2, <2>4
  <2> QED BY <1>1, <2>1, <2>2, <2>3, <2>4, <2>5, <2>6, <2>7, <2>8, <2>9, CommitAudited
<1>2. ASSUME NEW p \in Process, NEW i \in Item, NEW ts \in SUBSET TargetsOf(i),
             CreateRow(c, p, i, ts)
      PROVE  LInv'
  <2> DEFINE R == {i} \cup ts
  <2>1. PICK statement \in {"targets", "reread"} : Request(c, p, statement, "create", i, ts)
    BY <1>2 DEF CreateRow
  <2>2. Accepted(c, p) /\ Committed("create", i, R) /\ audit' = audit /\ broken' = broken
        /\ rows' = rows \cup {i}
    BY <1>2 DEF CreateRow
  <2>3. R \in SUBSET Item /\ i \in R /\ ts \subseteq R
    BY DEF TargetsOf
  <2> HIDE DEF R
  <2> QED BY <1>1, <2>1, <2>2, <2>3
<1>3. ASSUME NEW p \in Process, NEW i \in Item, UpdateRow(c, p, i) PROVE LInv'
  <2> DEFINE R == {i}
  <2>1. /\ Accepted(c, p) /\ Committed("update", i, R) /\ Request(c, p, "reread", "update", i, {})
        /\ audit' = audit /\ broken' = broken /\ rows' = rows /\ i \in rows
    BY <1>3 DEF UpdateRow, tables
  <2>2. R \in SUBSET Item /\ i \in R
    OBVIOUS
  <2> HIDE DEF R
  <2> QED BY <1>1, <2>1, <2>2
<1>4. ASSUME NEW p \in Process, NEW i \in Item, DeleteRow(c, p, i) PROVE LInv'
  <2> DEFINE R == {i} \cup TargetsOf(i)
  <2>1. /\ Accepted(c, p) /\ Committed("delete", i, R) /\ Request(c, p, "audit", "delete", i, {})
        /\ audit' = audit /\ broken' = broken /\ rows' = rows \ R
    BY <1>4 DEF DeleteRow
  <2>2. R \in SUBSET Item
    BY DEF TargetsOf
  <2> HIDE DEF R
  <2> QED BY <1>1, <2>1, <2>2
<1>5. ASSUME NEW a \in {"targets", "target"}, At(c, a)
      PROVE  /\ req[c] \in ItemReq /\ req[c] # Idle /\ ~IsAccount(c) /\ ~At(c, "audit")
             /\ req[c].kind = "create" \/ req[c].kind = "update"
             /\ req[c].change \in 1..Len(changes) /\ req[c].change # 0
             /\ Trail(req[c])
  <2>1. req[c] # Idle /\ req[c].at = a /\ Trail(req[c])
    BY <1>5 DEF At, LInv, Trails
  <2>2. req[c] \in ItemReq
    BY <2>1 DEF LInv, TInv, TypeOK, AccountReq
  <2>3. req[c].change \in 1..Len(changes) /\ req[c].change # 0
    <3>1. req[c].at \notin {"name", "update"}
      BY <2>1
    <3> QED BY <2>1, <3>1, WrittenOne DEF LInv
  <2> QED BY <2>1, <2>2, <2>3 DEF Trail, ItemReq, IsAccount, At
<1>6. ASSUME NEW t \in Item, InsertGroupTarget(c, t) PROVE LInv'
  <2> DEFINE r == [req[c] EXCEPT !.at = "target", !.left = @ \ {t}, !.last = t]
  <2>1. /\ At(c, "targets") /\ t \in req[c].left /\ rows' = rows \cup {t}
        /\ req' = [req EXCEPT ![c] = r]
        /\ changes' = changes /\ audit' = audit /\ broken' = broken
    BY <1>6 DEF InsertGroupTarget, history
  <2>2. req[c] \in ItemReq /\ req[c] # Idle /\ req[c].kind # "delete"
    BY <1>5, <2>1
  <2>3. /\ r \in ItemReq /\ r.change = req[c].change /\ r.kind = req[c].kind
        /\ r.item = req[c].item /\ r.left \subseteq req[c].left /\ r.last = t
    BY <2>2 DEF ItemReq
  <2> HIDE DEF r
  <2>4. req'[c] = r
    BY <2>1 DEF LInv, TInv, TypeOK
  <2>5. Carries(c)
    BY <2>1, <2>2, <2>3, <2>4 DEF Carries
  <2>6. \A d \in Client : Carries(d)
    BY <2>1, <2>5, CarryOne DEF LInv
  <2> QED BY <2>1, <2>6, CarriedAudited
<1>7. ASSUME NEW t \in Item, GroupTargetRefused(c, t) PROVE LInv'
  <2>1. /\ At(c, "targets") /\ t \in req[c].left /\ (t \in rows \/ ~HasGroup(t)) /\ End(c)
        /\ broken' = IF t \in rows THEN broken \cup {req[c].change} ELSE broken
        /\ changes' = changes /\ audit' = audit /\ rows' = rows
    BY <1>7 DEF GroupTargetRefused, tables
  <2>2. /\ req[c] # Idle /\ Trail(req[c]) /\ req[c].change # 0
        /\ req[c].kind \in {"create", "update"}
    <3>1. At(c, "targets")
      BY <2>1
    <3> QED BY <1>5, <3>1
  <2>3. ASSUME t \notin rows PROVE Overtaken(req[c].change)
    <3>1. GroupOf[t] = req[c].item
      <4>1. req[c].left \subseteq TargetsOf(req[c].item)
        BY <2>2 DEF Trail
      <4>2. t \in TargetsOf(req[c].item)
        BY <2>1, <4>1
      <4> QED BY <4>2 DEF TargetsOf
    <3>2. req[c].item \notin rows
      BY <2>1, <2>3, <3>1 DEF HasGroup
    <3> QED BY <2>2, <3>2 DEF Trail
  <2>4. \A d \in Client : Carries(d)
    BY <2>1, <2>2, <2>3, EndCarries DEF LInv
  <2> QED BY <2>1, <2>4, CarriedAudited
<1>8. CASE ReadGroupTarget(c)
  <2>1. At(c, "target") /\ changes' = changes /\ audit' = audit /\ broken' = broken /\ rows' = rows
    BY <1>8 DEF ReadGroupTarget, tables, history
  <2>2. /\ req[c] # Idle /\ Trail(req[c]) /\ req[c].change # 0 /\ req[c].kind \in {"create", "update"}
        /\ ~IsAccount(c) /\ ~At(c, "audit")
    BY <1>5, <2>1
  <2>3. req[c].last \notin rows => Overtaken(req[c].change)
    BY <2>1, <2>2 DEF Trail, At
  <2>4. \A d \in Client : Carries(d)
    <3>1. CASE End(c) /\ req[c].last \notin rows
      BY <2>2, <2>3, <3>1, EndCarries DEF LInv
    <3>2. CASE GoTo(c, "reread")
      BY <2>2, <3>2, GoToCarries
    <3>3. CASE GoTo(c, "targets")
      BY <2>2, <3>3, GoToCarries
    <3> QED BY <1>8, <3>1, <3>2, <3>3 DEF ReadGroupTarget
  <2> QED BY <2>1, <2>4, CarriedAudited
<1>9. CASE RereadRow(c)
  <2>1. At(c, "reread") /\ ~IsAccount(c) /\ changes' = changes /\ audit' = audit
        /\ broken' = broken /\ rows' = rows
    BY <1>9 DEF RereadRow, tables, history
  <2>2. req[c] # Idle /\ ~At(c, "audit") /\ Trail(req[c])
    BY <2>1 DEF At, LInv, Trails
  <2>3. req[c].change # 0 /\ req[c].kind \in {"create", "update", "delete"}
    <3>1. req[c] \in ItemReq
      BY <2>1, <2>2, ReqKinds DEF IsAccount, LInv, TInv, TypeOK
    <3>2. req[c].change # 0
      <4>1. req[c].at \notin {"name", "update"}
        BY <2>1 DEF At
      <4> QED BY <2>2, <4>1, WrittenOne DEF LInv
    <3> QED BY <3>1, <3>2 DEF ItemReq
  <2>4. req[c].item \notin rows => Overtaken(req[c].change)
    BY <2>1, <2>2, <2>3 DEF Trail, At
  <2>5. \A d \in Client : Carries(d)
    <3>1. CASE End(c) /\ req[c].item \notin rows
      BY <2>2, <2>4, <3>1, EndCarries DEF LInv
    <3>2. CASE GoTo(c, "audit")
      BY <2>1, <2>2, <3>2, GoToCarries
    <3> QED BY <1>9, <3>1, <3>2 DEF RereadRow
  <2> QED BY <2>1, <2>5, CarriedAudited
<1> QED BY <1>2, <1>3, <1>4, <1>6, <1>7, <1>8, <1>9 DEF UpdateConfig

\* A request that fails or is cut off has its change among the broken ones.
LEMMA FaultAudited ==
    ASSUME LInv, TInv',
           \/ \E c \in Client : AuditFails(c) \/ StatementFails(c)
           \/ \E p \in Process : Restart(p)
    PROVE  LInv'
<1>1. ASSUME NEW E \in SUBSET Client, Over(E), changes' = changes, audit' = audit, rows' = rows,
             broken' = broken \cup ChangesOf(E), \A d \in E : req[d] # Idle
      PROVE  LInv'
  <2>1. \A d \in E : req[d].change = 0 \/ req[d].change \in broken'
    BY <1>1 DEF ChangesOf
  <2>2. \A d \in Client : Carries(d)
    BY <1>1, <2>1, OverCarries
  <2> QED BY <1>1, <2>2, CarriedAudited
<1>2. ASSUME NEW c \in Client, AuditFails(c) PROVE LInv'
  <2>1. /\ changes' = changes /\ audit' = audit /\ rows' = rows
        /\ broken' = broken \cup {req[c].change} /\ Over({c}) /\ req[c] # Idle
    BY <1>2 DEF AuditFails, Answer, At, tables
  <2>2. \A d \in Client : Carries(d)
    BY <2>1, OverCarries
  <2> QED BY <2>1, <2>2, CarriedAudited
<1>3. ASSUME NEW c \in Client, StatementFails(c) PROVE LInv'
  <2>1. /\ changes' = changes /\ audit' = audit /\ rows' = rows
        /\ broken' = broken \cup ChangesOf({c}) /\ Over({c}) /\ req[c] # Idle
    BY <1>3 DEF StatementFails, Unanswered, tables
  <2> QED BY <1>1, <2>1
<1>4. ASSUME NEW p \in Process, Restart(p) PROVE LInv'
  <2>1. /\ changes' = changes /\ audit' = audit /\ rows' = rows
        /\ broken' = broken \cup ChangesOf(Served(p)) /\ Over(Served(p))
    BY <1>4 DEF Restart, Unanswered, tables
  <2>2. Served(p) \in SUBSET Client /\ \A d \in Served(p) : req[d] # Idle
    BY DEF Served
  <2> QED BY <1>1, <2>1, <2>2
<1> QED BY <1>2, <1>3, <1>4

\* Each audit entry is of a committed change, no change has two, and one that
\* has none is in progress, met a fault or a taken id, or its row was deleted
\* before the handler could read it again.
THEOREM AuditTells == Spec => []ChangesAudited
<1>1. Init => LInv
  <2> SUFFICES ASSUME Init PROVE LInv OBVIOUS
  <2>1. TInv
    BY InitT
  <2>2. Len(changes) = 0 /\ Len(audit) = 0 /\ \A c \in Client : req[c] = Idle
    BY DEF Init
  <2> QED BY <2>1, <2>2 DEF LInv, Trails, Trail, Apart, EntriesTrue, EntriesOnce
<1>2. LInv /\ [Next]_vars => LInv'
  <2> SUFFICES ASSUME LInv, [Next]_vars PROVE LInv' OBVIOUS
  <2>1. TInv'
    BY StepT DEF LInv
  <2>2. ASSUME NEW c \in Client, Session(c) PROVE LInv'
    <3>1. changes' = changes /\ audit' = audit /\ broken' = broken /\ rows' = rows /\ req' = req
      BY <2>2 DEF Session, Login, EndSession, tables, history
    <3> QED BY <2>1, <3>1, CarrySelf, CarriedAudited
  <2>3. CASE UNCHANGED vars
    <3>1. changes' = changes /\ audit' = audit /\ broken' = broken /\ rows' = rows /\ req' = req
      BY <2>3 DEF vars, tables, history
    <3> QED BY <2>1, <3>1, CarrySelf, CarriedAudited
  <2> QED BY <2>1, <2>2, <2>3, AccountAudited, ConfigAudited, RecordAudited, FaultAudited DEF Next
<1>3. LInv => ChangesAudited
  BY DEF LInv, ChangesAudited, EntriesTrue, EntriesOnce, Explained
<1> QED BY <1>1, <1>2, <1>3, PTL DEF Spec
=============================================================================
