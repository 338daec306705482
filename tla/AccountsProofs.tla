--------------------------- MODULE AccountsProofs ---------------------------
(***************************************************************************)
(* Accounts for every set of names, roles, passwords and requests: the     *)
(* types, and that IDs keep accounts apart (AccountsInv), from which       *)
(* follows what tokens are good for.                                       *)
(***************************************************************************)
EXTENDS Accounts, TLAPS

\* The account a token was got with.
AccountOf(t) == [name |-> t.name, user |-> [id |-> t.id, role |-> t.role, password |-> t.holder]]

InHands == {InHand(r) : r \in {q \in Requests : request[q] # None}}
Known == given \cup InHands

\* No ID is beyond the last one that was given out.
IDsGiven == \A a \in Known : a.user.id <= lastID

\* No two accounts have one ID.
IDsUnique == \A a, b \in Known : a.user.id = b.user.id => a = b

\* Users, logins and tokens are of accounts that were inserted.
TableGiven == AccountsOf(mockUsers) \subseteq given
LoginsGiven == \A r \in Requests : At(r, "issue") => InHand(r) \in given
TokensGiven == \A t \in tokens : AccountOf(t) \in given

AccountsInv ==
    /\ AccountsTypeOK
    /\ AccountsOf(BuiltIn) \subseteq given
    /\ IDsGiven /\ IDsUnique
    /\ TableGiven /\ LoginsGiven /\ TokensGiven

\* A registration of a name that is taken by now has seen who took it.
RivalsKnown ==
    \A r \in Requests : At(r, "insert") /\ mockUsers[InHand(r).name] # None => request[r].rival

-----------------------------------------------------------------------------
(* Types *)

\* The table NewAuthHandler makes has users only.
LEMMA BuiltInType == BuiltIn \in [Names -> User \cup {None}]
<1>1. 1 \in 1..MaxID /\ 2 \in 1..MaxID
  BY AccountsAssumption
<1>2. [id |-> 1, role |-> "admin", password |-> "admin123"] \in User
  BY <1>1, AccountsAssumption DEF User
<1>3. [id |-> 2, role |-> "user", password |-> "user123"] \in User
  BY <1>1, AccountsAssumption DEF User
<1> QED BY <1>2, <1>3 DEF BuiltIn

\* The accounts of a table of users.
LEMMA TableAccounts ==
    ASSUME NEW table \in [Names -> User \cup {None}]
    PROVE  /\ AccountsOf(table) \subseteq Account
           /\ \A n \in Names : table[n] # None =>
                 [name |-> n, user |-> table[n]] \in AccountsOf(table)
           /\ \A a \in AccountsOf(table) : a.name \in Names /\ table[a.name] = a.user
  BY DEF AccountsOf, Account

\* What a request takes in hand has its type.
LEMMA TakeType ==
    ASSUME AccountsTypeOK, NEW r \in Requests, NEW step \in {"insert", "issue"},
           NEW name \in Names, NEW user \in User, Take(r, step, name, user)
    PROVE  request' \in [Requests -> Request \cup {None}]
<1>1. [do |-> step, account |-> [name |-> name, user |-> user], rival |-> FALSE] \in Request
  BY DEF Request, Account
<1> QED BY <1>1 DEF AccountsTypeOK, Take

\* An account in hand has its type.
LEMMA InHandType ==
    ASSUME AccountsTypeOK, NEW r \in Requests, request[r] # None
    PROVE  /\ request[r] \in Request
           /\ InHand(r) \in Account
           /\ InHand(r).name \in Names
           /\ InHand(r).user \in User
  BY DEF AccountsTypeOK, InHand, Request, Account

\* Every variable has its type in every state (all of handlers/auth.go and of the
\* tokens of middleware/auth.go).
LEMMA AccountsTypeInit == AccountsInit => AccountsTypeOK
<1> SUFFICES ASSUME AccountsInit PROVE AccountsTypeOK
  OBVIOUS
<1>1. AccountsOf(BuiltIn) \subseteq Account
  BY BuiltInType, TableAccounts
<1> QED BY <1>1, BuiltInType, AccountsAssumption DEF AccountsInit, AccountsTypeOK

\* Every step keeps the types.
LEMMA AccountsTypeStep == AccountsTypeOK /\ [AccountsNext]_accountVars => AccountsTypeOK'
<1> SUFFICES ASSUME AccountsTypeOK, [AccountsNext]_accountVars PROVE AccountsTypeOK'
  OBVIOUS
<1>1. CASE Tick
  BY <1>1, AccountsAssumption DEF Tick, AccountsTypeOK, tableVars
<1>2. ASSUME NEW r \in Requests, NEW name \in Names, NEW password \in Passwords,
             NEW sent \in Roles \cup {None}, Register(r, name, sent, password)
      PROVE  AccountsTypeOK'
  <2>1. lastID' \in 2..MaxID /\ lastID' \in 1..MaxID
    BY <1>2, AccountsAssumption DEF Register, AccountsTypeOK
  <2>2. [id |-> lastID', role |-> RoleOf(sent), password |-> password] \in User
    BY <2>1, AccountsAssumption DEF User, RoleOf
  <2>3. request' \in [Requests -> Request \cup {None}]
    BY <1>2, <2>2, TakeType DEF Register
  <2> QED BY <1>2, <2>1, <2>3 DEF Register, AccountsTypeOK
<1>3. ASSUME NEW r \in Requests, NEW name \in Names, NEW password \in Passwords,
             Login(r, name, password)
      PROVE  AccountsTypeOK'
  <2>1. mockUsers[name] \in User
    BY <1>3 DEF Login, AccountsTypeOK
  <2>2. request' \in [Requests -> Request \cup {None}]
    BY <1>3, <2>1, TakeType DEF Login
  <2> QED BY <1>3, <2>2 DEF Login, AccountsTypeOK, tableVars
<1>4. ASSUME NEW r \in Requests, Insert(r) PROVE AccountsTypeOK'
  <2>1. /\ InHand(r) \in Account
        /\ InHand(r).name \in Names
        /\ InHand(r).user \in User
    BY <1>4, InHandType DEF Insert, At
  <2>2. \A q \in Requests : request[q] \in Request =>
            [request[q] EXCEPT !.rival = TRUE] \in Request
    BY DEF Request
  <2>3. request' \in [Requests -> Request \cup {None}]
    BY <1>4, <2>2 DEF Insert, AccountsTypeOK, At
  <2> QED BY <1>4, <2>1, <2>3 DEF Insert, AccountsTypeOK
<1>5. ASSUME NEW r \in Requests, IssueToken(r) PROVE AccountsTypeOK'
  <2>1. InHand(r).name \in Names /\ InHand(r).user \in User
    BY <1>5, InHandType DEF IssueToken, At
  <2>2. now + TTL \in 0..(MaxTime + TTL)
    BY AccountsAssumption DEF AccountsTypeOK
  <2>3. [id |-> InHand(r).user.id, name |-> InHand(r).name, role |-> InHand(r).user.role,
         expires |-> now + TTL, holder |-> InHand(r).user.password] \in Token
    BY <2>1, <2>2 DEF Token, User
  <2> QED BY <1>5, <2>3 DEF IssueToken, AccountsTypeOK, tableVars
<1>6. CASE Restart
  BY <1>6, BuiltInType DEF Restart, AccountsTypeOK
<1>7. CASE UNCHANGED accountVars
  BY <1>7 DEF accountVars, tableVars, AccountsTypeOK
<1> QED BY <1>1, <1>2, <1>3, <1>4, <1>5, <1>6, <1>7 DEF AccountsNext

\* Every variable has its type: what NewAuthHandler, Register, Login and the tokens
\* make of the tables.
THEOREM AccountsTypeCorrect == AccountsSpec => []AccountsTypeOK
  BY AccountsTypeInit, AccountsTypeStep, PTL DEF AccountsSpec

-----------------------------------------------------------------------------
(* IDs keep accounts apart.                                                *)

\* The invariant only loses ground to new accounts and tokens: it is kept by a step
\* that issues no token, gives out no ID, and makes no account known.
LEMMA NothingNew ==
    ASSUME AccountsInv, AccountsTypeOK', given' = given, lastID' = lastID, InHands' \subseteq Known,
           TableGiven', LoginsGiven', TokensGiven'
    PROVE  AccountsInv'
<1>1. Known' \subseteq Known
  BY DEF Known
<1>2. IDsGiven' /\ IDsUnique'
  BY <1>1 DEF AccountsInv, IDsGiven, IDsUnique
<1>3. (AccountsOf(BuiltIn) \subseteq given)'
  BY DEF AccountsInv, AccountsOf, BuiltIn
<1> QED BY <1>2, <1>3 DEF AccountsInv

\* It holds with the users of NewAuthHandler alone.
LEMMA AccountsInvInit == AccountsInit => AccountsInv
<1> SUFFICES ASSUME AccountsInit PROVE AccountsInv
  OBVIOUS
<1>1. AccountsTypeOK
  BY AccountsTypeInit
<1>2. Known = AccountsOf(BuiltIn)
  BY DEF Known, InHands, AccountsInit
<1>3. \A n \in Names : BuiltIn[n] # None =>
         \/ n = "admin" /\ BuiltIn[n] = [id |-> 1, role |-> "admin", password |-> "admin123"]
         \/ n = "user" /\ BuiltIn[n] = [id |-> 2, role |-> "user", password |-> "user123"]
  BY DEF BuiltIn
<1>4. \A a \in Known :
         \/ a = [name |-> "admin", user |-> [id |-> 1, role |-> "admin", password |-> "admin123"]]
         \/ a = [name |-> "user", user |-> [id |-> 2, role |-> "user", password |-> "user123"]]
  BY <1>2, <1>3 DEF AccountsOf
<1>5. IDsGiven
  BY <1>4 DEF IDsGiven, AccountsInit
<1>6. IDsUnique
  BY <1>4 DEF IDsUnique
<1> QED BY <1>1, <1>5, <1>6
        DEF AccountsInit, AccountsInv, TableGiven, LoginsGiven, TokensGiven, At

\* A registration brings a new ID into hand.
LEMMA RegisterKeeps ==
    ASSUME AccountsInv, AccountsTypeOK', NEW r \in Requests, NEW name \in Names,
           NEW password \in Passwords, NEW sent \in Roles \cup {None},
           Register(r, name, sent, password)
    PROVE  AccountsInv'
<1> DEFINE new == [name |-> name, user |->
                     [id |-> lastID', role |-> RoleOf(sent), password |-> password]]
<1>1. lastID \in Nat /\ lastID' = lastID + 1
  BY DEF AccountsInv, AccountsTypeOK, Register
<1>2. request' = [request EXCEPT ![r] =
                     [do |-> "insert", account |-> new, rival |-> FALSE]]
  BY DEF Register, Take
<1>3. request'[r].account = new /\ request'[r].do = "insert" /\ \A q \in Requests \ {r} : request'[q] = request[q]
  BY <1>2 DEF AccountsInv, AccountsTypeOK
<1>4. Known' \subseteq Known \cup {new}
  BY <1>3 DEF Known, InHands, InHand, Register
<1>5. \A a \in Known : a.user.id \in Int
  <2>1. InHands \subseteq Account
    BY InHandType DEF AccountsInv, InHands
  <2> QED BY <2>1 DEF AccountsInv, AccountsTypeOK, Known, Account, User
<1>6. IDsGiven' /\ IDsUnique'
  BY <1>1, <1>4, <1>5 DEF AccountsInv, IDsGiven, IDsUnique
<1>7. TableGiven' /\ TokensGiven' /\ (AccountsOf(BuiltIn) \subseteq given)'
  BY DEF AccountsInv, TableGiven, TokensGiven, Register, AccountsOf, AccountOf, BuiltIn
<1>8. LoginsGiven'
  BY <1>3 DEF AccountsInv, LoginsGiven, At, InHand, Register
<1> QED BY <1>6, <1>7, <1>8 DEF AccountsInv

\* An insertion moves an account that was known into the table.
LEMMA InsertKeeps ==
    ASSUME AccountsInv, AccountsTypeOK', NEW r \in Requests, Insert(r)
    PROVE  AccountsInv'
<1>1. /\ request[r] # None /\ InHand(r) \in Known
      /\ InHand(r).name \in Names
      /\ InHand(r) = [name |-> InHand(r).name, user |-> InHand(r).user]
  <2>1. InHand(r) \in Account
    BY InHandType DEF Insert, At, AccountsInv
  <2> QED BY <2>1 DEF Insert, At, Known, InHands, Account
<1>2. \A q \in Requests : request'[q] # None =>
         /\ request[q] # None
         /\ request'[q].account = request[q].account /\ request'[q].do = request[q].do
  <2> SUFFICES ASSUME NEW q \in Requests, request'[q] # None
               PROVE  /\ request[q] # None
                      /\ request'[q].account = request[q].account
                      /\ request'[q].do = request[q].do
    OBVIOUS
  <2>1. request[q] # None => request[q] \in Request
    BY DEF AccountsInv, AccountsTypeOK
  <2> QED BY <2>1 DEF Insert, At, Request
<1>3. Known' \subseteq Known
  BY <1>1, <1>2 DEF Known, InHands, InHand, Insert
<1>4. IDsGiven' /\ IDsUnique'
  BY <1>3 DEF AccountsInv, IDsGiven, IDsUnique, Insert
<1>5. TableGiven'
  <2> SUFFICES ASSUME NEW n \in Names, mockUsers'[n] # None
               PROVE  [name |-> n, user |-> mockUsers'[n]] \in given'
    BY DEF TableGiven, AccountsOf
  <2>1. CASE n = InHand(r).name
    <3>1. mockUsers'[n] = InHand(r).user
      BY <2>1 DEF Insert, AccountsInv, AccountsTypeOK
    <3> QED BY <3>1, <2>1, <1>1 DEF Insert
  <2>2. CASE n # InHand(r).name
    <3>1. mockUsers'[n] = mockUsers[n]
      BY <2>2 DEF Insert, AccountsInv, AccountsTypeOK
    <3> QED BY <3>1 DEF Insert, AccountsInv, TableGiven, AccountsOf
  <2> QED BY <2>1, <2>2
<1>6. LoginsGiven'
  BY <1>2 DEF AccountsInv, LoginsGiven, At, InHand, Insert
<1>7. TokensGiven' /\ (AccountsOf(BuiltIn) \subseteq given)'
  BY DEF AccountsInv, TokensGiven, AccountOf, Insert, AccountsOf, BuiltIn
<1> QED BY <1>4, <1>5, <1>6, <1>7 DEF AccountsInv

\* A login takes an account of the table in hand.
LEMMA LoginKeeps ==
    ASSUME AccountsInv, AccountsTypeOK', NEW r \in Requests, NEW name \in Names,
           NEW password \in Passwords, Login(r, name, password)
    PROVE  AccountsInv'
<1> DEFINE account == [name |-> name, user |-> mockUsers[name]]
<1>1. account \in given
  BY DEF Login, AccountsInv, TableGiven, AccountsOf
<1>2. request'[r].account = account /\ \A q \in Requests \ {r} : request'[q] = request[q]
  BY DEF Login, Take, AccountsInv, AccountsTypeOK
<1>3. InHands' \subseteq Known
  BY <1>1, <1>2 DEF InHands, InHand, Known
<1>4. LoginsGiven'
  BY <1>1, <1>2 DEF AccountsInv, LoginsGiven, At, InHand, Login, tableVars
<1>5. TableGiven' /\ TokensGiven'
  BY DEF AccountsInv, TableGiven, TokensGiven, AccountsOf, AccountOf, Login, tableVars
<1> QED BY <1>3, <1>4, <1>5, NothingNew DEF Login, tableVars

\* A token is made of the account in hand.
LEMMA IssueTokenKeeps ==
    ASSUME AccountsInv, AccountsTypeOK', NEW r \in Requests, IssueToken(r)
    PROVE  AccountsInv'
<1>1. InHand(r) \in given /\ InHand(r).user \in User /\ InHand(r) \in Account
  BY InHandType DEF IssueToken, At, AccountsInv, LoginsGiven
<1>2. \A t \in tokens' \ tokens : AccountOf(t) = InHand(r)
  BY <1>1 DEF IssueToken, AccountOf, Account, User
<1>3. TokensGiven'
  BY <1>1, <1>2 DEF AccountsInv, TokensGiven, AccountOf, IssueToken, tableVars
<1>4. request' = [request EXCEPT ![r] = None]
  BY DEF IssueToken
<1>5. InHands' \subseteq Known /\ LoginsGiven'
  BY <1>4 DEF InHands, InHand, Known, AccountsInv, AccountsTypeOK, LoginsGiven, At, IssueToken, tableVars
<1>6. TableGiven'
  BY DEF AccountsInv, TableGiven, AccountsOf, IssueToken, tableVars
<1> QED BY <1>3, <1>5, <1>6, NothingNew DEF IssueToken, tableVars

\* Every request and a restart keep it.
LEMMA AccountsInvStep == AccountsInv /\ [AccountsNext]_accountVars => AccountsInv'
<1> SUFFICES ASSUME AccountsInv, [AccountsNext]_accountVars PROVE AccountsInv'
  OBVIOUS
<1>1. AccountsTypeOK'
  BY AccountsTypeStep DEF AccountsInv
<1>2. CASE Tick \/ UNCHANGED accountVars
  <2>1. /\ InHands' = InHands
        /\ TableGiven' /\ LoginsGiven' /\ TokensGiven'
    BY <1>2 DEF Tick, accountVars, tableVars, AccountsInv, InHands, InHand, At, TableGiven,
                AccountsOf, LoginsGiven, TokensGiven, AccountOf
  <2> QED BY <1>1, <1>2, <2>1, NothingNew DEF Tick, accountVars, tableVars, Known
<1>3. CASE Restart
  <2>1. InHands' = {} /\ LoginsGiven'
    BY <1>3 DEF Restart, InHands, LoginsGiven, At
  <2>2. TableGiven' /\ TokensGiven'
    BY <1>3 DEF Restart, AccountsInv, TableGiven, AccountsOf, TokensGiven, AccountOf
  <2> QED BY <1>1, <1>3, <2>1, <2>2, NothingNew DEF Restart
<1> QED BY <1>1, <1>2, <1>3, RegisterKeeps, InsertKeeps, LoginKeeps, IssueTokenKeeps
        DEF AccountsNext

\* Register, Login and a restart keep the accounts, logins and tokens consistent.
THEOREM AccountsInvCorrect == AccountsSpec => []AccountsInv
  BY AccountsInvInit, AccountsInvStep, PTL DEF AccountsSpec

\* GetProfile shows a token its own account or none: the account it finds was given
\* out under the ID of the token, and so was the token's.
THEOREM ProfileCorrect == AccountsSpec => []ProfileIsOwn
<1>1. AccountsInv => ProfileIsOwn
  BY DEF AccountsInv, ProfileIsOwn, Profiles, AccountOf, Known, IDsUnique, TableGiven, TokensGiven
<1> QED BY <1>1, AccountsInvCorrect, PTL

\* RequireRole admits a token where its account may go, whatever replaced it meanwhile.
THEOREM AccessCorrect == AccountsSpec => []AccessFollowsAccount
<1>1. AccountsInv => AccessFollowsAccount
  <2> SUFFICES ASSUME AccountsInv, NEW t \in tokens, NEW role \in Roles, Admits(t, role)
               PROVE  \E a \in given : /\ a.name = t.name /\ a.user.id = t.id
                                       /\ a.user.password = t.holder
                                       /\ a.user.role \in {role, "admin"}
    BY DEF AccessFollowsAccount
  <2>1. AccountOf(t) \in given
    BY DEF AccountsInv, TokensGiven
  <2> WITNESS AccountOf(t) \in given
  <2> QED BY DEF Admits, AccountOf
<1> QED BY <1>1, AccountsInvCorrect, PTL

-----------------------------------------------------------------------------
(* Names are given twice only to registrations that overlap.               *)

\* Register and Insert leave every pending registration of a known name with a rival.
LEMMA RivalsStep ==
    AccountsTypeOK /\ RivalsKnown /\ [AccountsNext]_accountVars => RivalsKnown'
<1> SUFFICES ASSUME AccountsTypeOK, RivalsKnown, [AccountsNext]_accountVars PROVE RivalsKnown'
  OBVIOUS
<1>1. CASE Tick \/ UNCHANGED accountVars
  BY <1>1 DEF Tick, accountVars, tableVars, RivalsKnown, At, InHand
<1>2. ASSUME NEW r \in Requests, NEW name \in Names, NEW password \in Passwords,
             NEW sent \in Roles \cup {None}, Register(r, name, sent, password)
      PROVE  RivalsKnown'
  <2>1. request'[r].account.name = name /\ \A q \in Requests \ {r} : request'[q] = request[q]
    BY <1>2 DEF Register, Take, AccountsTypeOK
  <2> QED BY <1>2, <2>1 DEF Register, RivalsKnown, At, InHand
<1>3. ASSUME NEW r \in Requests, NEW name \in Names, NEW password \in Passwords,
             Login(r, name, password)
      PROVE  RivalsKnown'
  <2>1. request'[r].do = "issue" /\ \A q \in Requests \ {r} : request'[q] = request[q]
    BY <1>3 DEF Login, Take, AccountsTypeOK
  <2> QED BY <1>3, <2>1 DEF Login, tableVars, RivalsKnown, At, InHand
<1>4. ASSUME NEW r \in Requests, Insert(r) PROVE RivalsKnown'
  <2> SUFFICES ASSUME NEW q \in Requests, At(q, "insert")', (mockUsers[InHand(q).name])' # None
               PROVE  request'[q].rival
    BY DEF RivalsKnown
  <2>1. q # r /\ request[q] # None
    BY <1>4 DEF Insert, At
  <2>2. request[q] \in Request
    BY <2>1 DEF AccountsTypeOK
  <2>3. At(q, "insert") /\ InHand(q)' = InHand(q)
    BY <1>4, <2>1, <2>2 DEF Insert, At, InHand, Request
  <2>4. CASE InHand(q).name = InHand(r).name
    BY <1>4, <2>1, <2>2, <2>3, <2>4 DEF Insert, Request
  <2>5. CASE InHand(q).name # InHand(r).name
    <3>1. mockUsers[InHand(q).name] # None
      BY <1>4, <2>3, <2>5, InHandType, <2>1 DEF Insert, AccountsTypeOK
    <3>2. request'[q] = request[q]
      BY <1>4, <2>1, <2>5 DEF Insert
    <3> QED BY <2>3, <3>1, <3>2 DEF RivalsKnown
  <2> QED BY <2>4, <2>5
<1>5. ASSUME NEW r \in Requests, IssueToken(r) PROVE RivalsKnown'
  BY <1>5 DEF IssueToken, AccountsTypeOK, RivalsKnown, At, InHand, tableVars
<1>6. CASE Restart
  BY <1>6 DEF Restart, RivalsKnown, At
<1> QED BY <1>1, <1>2, <1>3, <1>4, <1>5, <1>6 DEF AccountsNext

\* A name someone has goes to someone else only when the check of Register came
\* before the insertion that gave it away: two registrations overlapped.
THEOREM TakenNamesCorrect == AccountsSpec => TakenNamesKept
<1>1. AccountsInit => RivalsKnown
  BY DEF AccountsInit, RivalsKnown, At
<1>2. RivalsKnown =>
        (\A r \in Requests : Insert(r) /\ mockUsers[InHand(r).name] # None => request[r].rival)
  BY DEF RivalsKnown, Insert
<1> QED BY <1>1, <1>2, AccountsTypeInit, AccountsTypeStep, RivalsStep, PTL
        DEF AccountsSpec, TakenNamesKept
=============================================================================
