------------------------------ MODULE Accounts ------------------------------
(***************************************************************************)
(* The user accounts of internal/handlers/auth.go and the tokens of        *)
(* internal/middleware/auth.go.  The users are in an unsynchronised map in *)
(* memory; Register looks a name up and inserts it in two steps, and Login *)
(* makes a token from a copy of the user.  A restart brings the two users  *)
(* of NewAuthHandler back and no others, while tokens are still accepted,  *)
(* since their secret comes from the configuration.                        *)
(***************************************************************************)
EXTENDS Integers, FiniteSets

CONSTANTS
    Names,      \* the user names
    Roles,      \* the roles
    Passwords,  \* the passwords; one that nobody shares stands for who chose it
    Requests,   \* the goroutines of the HTTP server, one per request
    TTL,        \* how long a token is valid: JWTExpiration
    MaxTime,    \* bound: the last value of the clock
    MaxID,      \* bound: the last ID given out
    MaxTokens,  \* bound: how many tokens are issued
    None

\* uuid.New(): a number never given out before.
User == [id : 1..MaxID, role : Roles, password : Passwords]
Account == [name : Names, user : User]
Token == [id : 1..MaxID, name : Names, role : Roles, expires : 0..(MaxTime + TTL),
          holder : Passwords]
Request == [do : {"insert", "issue"}, account : Account, rival : BOOLEAN]

ASSUME AccountsAssumption ==
    /\ TTL \in Nat /\ MaxTime \in Nat /\ MaxID \in Nat /\ MaxID >= 2 /\ MaxTokens \in Nat
    /\ {"admin", "user"} \subseteq Names
    /\ {"admin", "user"} \subseteq Roles
    /\ {"admin123", "user123"} \subseteq Passwords
    /\ None \notin Roles \cup User \cup Request

VARIABLES
    mockUsers,  \* per name, its user, or None
    request,    \* per request goroutine, what it has in hand, or None
    lastID,     \* the last ID given out
    now,        \* the clock
    tokens,     \* the tokens issued; "holder" is history: the password they were got with
    given       \* history: the accounts that were ever inserted

tableVars == <<mockUsers, lastID, given>>
accountVars == <<tableVars, request, now, tokens>>

\* The users of NewAuthHandler.
BuiltIn ==
    [n \in Names |->
        IF n = "admin" THEN [id |-> 1, role |-> "admin", password |-> "admin123"]
        ELSE IF n = "user" THEN [id |-> 2, role |-> "user", password |-> "user123"]
        ELSE None]

AccountsOf(table) == {[name |-> n, user |-> table[n]] : n \in {m \in Names : table[m] # None}}

AccountsInit ==
    /\ mockUsers = BuiltIn
    /\ request = [r \in Requests |-> None]
    /\ lastID = 2
    /\ now = 0
    /\ tokens = {}
    /\ given = AccountsOf(BuiltIn)

Tick ==
    /\ now < MaxTime
    /\ now' = now + 1
    /\ UNCHANGED <<tableVars, request, tokens>>

-----------------------------------------------------------------------------
(* Register, from the check of the name to the insertion.                  *)

\* A request goes on to the given step with an account in hand.
Take(r, step, name, user) ==
    request' = [request EXCEPT ![r] =
        [do |-> step, account |-> [name |-> name, user |-> user], rival |-> FALSE]]

\* Mutant: the role stays as it was sent.
RoleAsSent(sent) == sent

\* The role a registration gets: "user" when it names none.
RoleOf(sent) == IF sent = None THEN "user" ELSE sent

\* Mutant: a user is numbered by its place in the table.
RegisterCounted(r, name, sent, password) ==
    /\ request[r] = None
    /\ mockUsers[name] = None
    /\ Take(r, "insert", name, [id |-> Cardinality(AccountsOf(mockUsers)) + 1,
                               role |-> RoleOf(sent), password |-> password])
    /\ UNCHANGED <<tableVars, now, tokens>>

\* Mutant: whether the name is taken is not checked.
RegisterUnchecked(r, name, sent, password) ==
    /\ request[r] = None
    /\ lastID < MaxID
    /\ lastID' = lastID + 1
    /\ Take(r, "insert", name, [id |-> lastID', role |-> RoleOf(sent), password |-> password])
    /\ UNCHANGED <<mockUsers, given, now, tokens>>

\* A name that is taken is refused, and nothing changes.
Register(r, name, sent, password) ==
    /\ request[r] = None
    /\ mockUsers[name] = None
    /\ lastID < MaxID
    /\ lastID' = lastID + 1
    /\ Take(r, "insert", name, [id |-> lastID', role |-> RoleOf(sent), password |-> password])
    /\ UNCHANGED <<mockUsers, given, now, tokens>>

At(r, step) == request[r] # None /\ request[r].do = step
InHand(r) == request[r].account

\* Whoever is about to insert the same name has a rival now.
Insert(r) ==
    /\ At(r, "insert")
    /\ mockUsers' = [mockUsers EXCEPT ![InHand(r).name] = InHand(r).user]
    /\ given' = given \cup {InHand(r)}
    /\ request' = [q \in Requests |->
          IF q = r THEN None
          ELSE IF At(q, "insert") /\ InHand(q).name = InHand(r).name
               THEN [request[q] EXCEPT !.rival = TRUE]
               ELSE request[q]]
    /\ UNCHANGED <<lastID, now, tokens>>

-----------------------------------------------------------------------------
(* Login, and what a token is good for.                                    *)

\* Anyone else is refused.
Login(r, name, password) ==
    /\ request[r] = None
    /\ mockUsers[name] # None
    /\ mockUsers[name].password = password
    /\ Take(r, "issue", name, mockUsers[name])
    /\ UNCHANGED <<tableVars, now, tokens>>

\* Mutant: the role is looked up again.
IssueTokenRereads(r) ==
    /\ At(r, "issue")
    /\ Cardinality(tokens) < MaxTokens
    /\ tokens' = tokens \cup
          {[id |-> InHand(r).user.id, name |-> InHand(r).name,
            role |-> mockUsers[InHand(r).name].role,
            expires |-> now + TTL, holder |-> InHand(r).user.password]}
    /\ request' = [request EXCEPT ![r] = None]
    /\ UNCHANGED <<tableVars, now>>

\* GenerateToken, from the copy of the user.
IssueToken(r) ==
    /\ At(r, "issue")
    /\ Cardinality(tokens) < MaxTokens
    /\ tokens' = tokens \cup
          {[id |-> InHand(r).user.id, name |-> InHand(r).name, role |-> InHand(r).user.role,
            expires |-> now + TTL, holder |-> InHand(r).user.password]}
    /\ request' = [request EXCEPT ![r] = None]
    /\ UNCHANGED <<tableVars, now>>

\* JWTAuth lets a token through until it expires.
Valid(t) == now < t.expires

\* RequireRole goes by the role in the token.
Admits(t, role) == Valid(t) /\ t.role \in {role, "admin"}

\* GetProfile goes through the map for the ID in the token, in any order.
Profiles(t) == {a \in AccountsOf(mockUsers) : Valid(t) /\ a.user.id = t.id}

-----------------------------------------------------------------------------

\* The process ends and is started again; one reason is the Go runtime, when it
\* notices two goroutines at the map of which one writes.
Restart ==
    /\ mockUsers' = BuiltIn
    /\ request' = [r \in Requests |-> None]
    /\ UNCHANGED <<lastID, given, now, tokens>>

AccountsNext ==
    \/ Tick
    \/ \E r \in Requests, name \in Names, password \in Passwords :
          \/ \E sent \in Roles \cup {None} : Register(r, name, sent, password)
          \/ Login(r, name, password)
    \/ \E r \in Requests : Insert(r) \/ IssueToken(r)
    \/ Restart

AccountsSpec == AccountsInit /\ [][AccountsNext]_accountVars

-----------------------------------------------------------------------------
(* Properties *)

\* Every variable has its type.
AccountsTypeOK ==
    /\ mockUsers \in [Names -> User \cup {None}]
    /\ request \in [Requests -> Request \cup {None}]
    /\ lastID \in 2..MaxID
    /\ now \in 0..MaxTime
    /\ tokens \subseteq Token
    /\ given \subseteq Account

\* Whatever registrations race, and although a restart forgets the users but not the
\* tokens, a token never shows anything but the profile of the account it was got
\* with: an ID is not given out again.
ProfileIsOwn ==
    \A t \in tokens : \A a \in Profiles(t) :
        a = [name |-> t.name, user |-> [id |-> t.id, role |-> t.role, password |-> t.holder]]

\* What a token opens is what the account it was got with may do, also while another
\* registration of the name replaces that account during the login: the parts of a
\* token belong together.
AccessFollowsAccount ==
    \A t \in tokens : \A role \in Roles : Admits(t, role) =>
        \E a \in given : /\ a.name = t.name /\ a.user.id = t.id
                         /\ a.user.password = t.holder
                         /\ a.user.role \in {role, "admin"}

\* "Username is already taken" (handlers/auth.go:164): a name someone has is given to
\* someone else only when both registrations were under way at once.  In particular
\* the users of NewAuthHandler keep theirs.
TakenNamesKept ==
    [][\A r \in Requests : Insert(r) /\ mockUsers[InHand(r).name] # None => request[r].rival
      ]_accountVars
=============================================================================
