------------------------------ MODULE Accounts ------------------------------
(***************************************************************************)
(* Requests about the users of the blog: user_servlet.cc, UserService and  *)
(* UserDao.  Each is a fiber; a statement is one step of the database, and *)
(* between the statements of a request those of others are executed.  What *)
(* a failing statement looks like to the request is in Statements.         *)
(***************************************************************************)
EXTENDS Statements, FiniteSets

CONSTANTS
  UserRequests,
  Ids,          \* the ids the table may come to hold
  Names,
  Nobody,       \* model::User(), with id 0; also "no request" and "no address"
  Gone          \* a row that was deleted: its id is not given out again

\* A row of the table users.  profile stands for nickname, avatar and bio and
\* is named, like password, by the request that wrote it; by is the request
\* that inserted the row.  E-mail addresses are those of a Name.
UserRows ==
  [name : Names, email : Names \cup {Nobody}, active : BOOLEAN,
   profile : UserRequests \cup {Nobody}, password : UserRequests \cup {Nobody},
   by : UserRequests \cup {Nobody}]

\* What a well formed request asks for.
RegisterOrders ==
  [kind : {"register"}, name : Names, email : Names \cup {Nobody}]
LoginOrders ==
  [kind : {"login"}, name : Names, password : UserRequests \cup {Nobody}]
InfoOrders == [kind : {"info"}, id : Ids]
ProfileOrders == [kind : {"profile"}, id : Ids, email : Names \cup {Nobody}]

\* Operations that no servlet calls yet.
PasswordOrders ==
  [kind : {"changePassword"}, id : Ids, password : UserRequests \cup {Nobody}]
  \cup [kind : {"resetPassword"}, id : Ids]
StateOrders ==
  [kind : {"status"}, id : Ids, active : BOOLEAN]
  \cup [kind : {"remove"}, id : Ids, soft : BOOLEAN]

UserOrders ==
  UNION {RegisterOrders, LoginOrders, InfoOrders, ProfileOrders,
         PasswordOrders, StateOrders}

ASSUME AccountsAssumption ==
  /\ {Nobody, Gone} \cap (UserRows \cup UserRequests \cup Ids \cup Names \cup UserOrders) = {}
  /\ Nobody # Gone

VARIABLES
  users,       \* the table
  at,          \* which statement of a request is next
  asked,       \* what each request asks for, once it has begun
  copy,        \* its local copy of a row: existing_user, user
  token,       \* the id in the token it was answered, or Nobody
  told,        \* what it was answered
  inserted,    \* the id of the row its INSERT made, or Nobody
  passwords,   \* history: the password each row was last given
  checked      \* history: the rows a request's check of the name looked at

userVars == <<users, at, asked, copy, token, told, inserted, passwords, checked>>

UserLabels ==
  {"new", "name", "email", "insert", "lastid", "find", "write", "done"}

OldUsers ==
  {[name |-> n, email |-> Nobody, active |-> a, profile |-> Nobody,
    password |-> Nobody, by |-> Nobody] : n \in Names, a \in BOOLEAN}

AccountsInit ==
  /\ \E us \in [Ids -> OldUsers \cup {Nobody}] :
       /\ \A i, j \in Ids : i # j /\ us[i] # Nobody /\ us[j] # Nobody
                              => us[i].name # us[j].name
       /\ users = us
  /\ at = [r \in UserRequests |-> "new"]
  /\ asked = [r \in UserRequests |-> Nobody]
  /\ copy = [r \in UserRequests |-> Nobody]
  /\ token = [r \in UserRequests |-> Nobody]
  /\ told = [r \in UserRequests |-> "nothing"]
  /\ inserted = [r \in UserRequests |-> Nobody]
  /\ passwords = [i \in Ids |-> Nobody]
  /\ checked = [r \in UserRequests |-> {}]

Rowed == {i \in Ids : users[i] \notin {Nobody, Gone}}

Advance(r, from, to) == at[r] = from /\ at' = [at EXCEPT ![r] = to]

Tell(r, from, what) ==
  Advance(r, from, "done") /\ told' = [told EXCEPT ![r] = what]

Is(r, label, kinds) == at[r] = label /\ asked[r].kind \in kinds

-----------------------------------------------------------------------------
(* The statements.                                                         *)

\* existsUsername(), existsEmail(): of every row, disabled ones included.
Having(column, value) == {i \in Rowed : users[i][column] = value}
Taken(column, value) == CountOutcomes(Cardinality(Having(column, value)))

\* findById(): an active user.
FindById(i) == QueryOutcomes({j \in {i} \cap Rowed : users[j].active}, Nobody)

\* findByUsername(): the first of the active users with this name.
FindByUsername(n) ==
  QueryOutcomes({i \in Rowed : users[i].active /\ users[i].name = n}, Nobody)

\* UPDATE users SET ... WHERE id = ?
Write(r, i, row) ==
  /\ \E o \in UpdateOutcomes(Cardinality({i} \cap Rowed)) :
       /\ users' = IF o.ran /\ i \in Rowed THEN [users EXCEPT ![i] = row] ELSE users
       /\ Tell(r, "write", IF UpdateSucceeded(o) THEN "ok" ELSE "failed")
  /\ UNCHANGED <<asked, copy, token, inserted, checked>>

SetsPassword(r, i) ==
  passwords' = IF users' # users THEN [passwords EXCEPT ![i] = r] ELSE passwords

-----------------------------------------------------------------------------
(* The requests.                                                           *)

FirstStatement(kind) ==
  CASE kind = "register" -> "name"
    [] kind \in {"login", "info", "profile", "changePassword"} -> "find"
    [] OTHER -> "write"

\* A request without a token, or with data that does not pass, is answered at
\* once.
UserReject(r) ==
  /\ Tell(r, "new", "refused")
  /\ UNCHANGED <<users, asked, copy, token, inserted, passwords, checked>>

\* A well formed request arrives, with a token that names its user.
UserBegin(r) ==
  /\ \E o \in UserOrders :
       /\ asked' = [asked EXCEPT ![r] = o]
       /\ Advance(r, "new", FirstStatement(o.kind))
  /\ UNCHANGED <<users, copy, token, told, inserted, passwords, checked>>

\* Faulty: the user is inserted whatever the check says.
CheckNameAnyhow(r) ==
  /\ at[r] = "name"
  /\ Advance(r, "name", IF asked[r].email = Nobody THEN "insert" ELSE "email")
  /\ checked' = [checked EXCEPT ![r] = Rowed]
  /\ UNCHANGED <<users, asked, copy, token, told, inserted, passwords>>

\* registerUser(): is the name free?  A check that fails counts no row, and
\* the registration goes on.
CheckName(r) ==
  /\ at[r] = "name"
  /\ \E n \in Taken("name", asked[r].name) :
       \/ n > 0 /\ Tell(r, "name", "failed") /\ UNCHANGED checked
       \/ /\ n = 0
          /\ Advance(r, "name", IF asked[r].email = Nobody THEN "insert" ELSE "email")
          /\ checked' \in {[checked EXCEPT ![r] = s] : s \in
               {{}} \cup (IF Having("name", asked[r].name) = {} THEN {Rowed} ELSE {})}
          /\ UNCHANGED told
  /\ UNCHANGED <<users, asked, copy, token, inserted, passwords>>

\* registerUser(): is the address free?
CheckEmail(r) ==
  /\ at[r] = "email"
  /\ \E n \in Taken("email", asked[r].email) :
       \/ n > 0 /\ Tell(r, "email", "failed")
       \/ n = 0 /\ Advance(r, "email", "insert") /\ UNCHANGED told
  /\ UNCHANGED <<users, asked, copy, token, inserted, passwords, checked>>

\* UserDao::create(), up to its INSERT.
Insert(r) ==
  /\ at[r] = "insert"
  /\ \E o \in InsertOutcomes :
       /\ IF o.ran
            THEN \E i \in {j \in Ids : users[j] = Nobody} :
                   /\ users' = [users EXCEPT ![i] =
                        [name |-> asked[r].name, email |-> asked[r].email,
                         active |-> TRUE, profile |-> r, password |-> r, by |-> r]]
                   /\ inserted' = [inserted EXCEPT ![r] = i]
                   /\ passwords' = [passwords EXCEPT ![i] = r]
            ELSE UNCHANGED <<users, inserted, passwords>>
       /\ \/ o.value /\ Advance(r, "insert", "lastid") /\ UNCHANGED told
          \/ ~o.value /\ Tell(r, "insert", "failed")
  /\ UNCHANGED <<asked, copy, token, checked>>

\* Faulty: the newest row of the table, instead of the connection's.
LastIdOfTable(r) ==
  /\ \E i \in Rowed :
       /\ token' = [token EXCEPT ![r] = i]
       /\ Tell(r, "lastid", "ok")
  /\ UNCHANGED <<users, asked, copy, inserted, passwords, checked>>

\* The rest of create(), and the servlet, which takes the id 0 for a failure.
LastId(r) ==
  /\ at[r] = "lastid"
  /\ \E i \in LastIdOutcomes(inserted[r], Nobody) :
       /\ token' = [token EXCEPT ![r] = i]
       /\ Tell(r, "lastid", IF i = Nobody THEN "failed" ELSE "ok")
  /\ UNCHANGED <<users, asked, copy, inserted, passwords, checked>>

\* UserService::login(): the user, or none with id 0.
Authentic(i, password) ==
  IF i # Nobody /\ users[i].active /\ users[i].password = password
    THEN i ELSE Nobody

\* The servlet answers a token.
Login(r) ==
  /\ Is(r, "find", {"login"})
  /\ \E i \in FindByUsername(asked[r].name) :
       LET user == Authentic(i, asked[r].password)
       IN  /\ token' = [token EXCEPT ![r] = user]
           /\ Tell(r, "find", IF user # Nobody THEN "ok" ELSE "refused")
  /\ UNCHANGED <<users, asked, copy, inserted, passwords, checked>>

\* UserInfoServlet, of the user who asks or of another.
Info(r) ==
  /\ Is(r, "find", {"info"})
  /\ \E i \in FindById(asked[r].id) :
       Tell(r, "find", IF i = Nobody THEN "notfound" ELSE "ok")
  /\ UNCHANGED <<users, asked, copy, token, inserted, passwords, checked>>

\* updateUser(), updatePassword(): may the request write?  The latter asks
\* validateUser().
Validated(r, i) ==
  /\ i # Nobody
  /\ asked[r].kind = "changePassword" => users[i].password = asked[r].password

FindUser(r) ==
  /\ Is(r, "find", {"profile", "changePassword"})
  /\ \E i \in FindById(asked[r].id) :
       \/ /\ Validated(r, i)
          /\ Advance(r, "find", "write")
          /\ copy' = [copy EXCEPT ![r] = users[i]]
          /\ UNCHANGED told
       \/ ~Validated(r, i) /\ Tell(r, "find", "failed") /\ UNCHANGED copy
  /\ UNCHANGED <<users, asked, token, inserted, passwords, checked>>

\* The rest of updateUser(): the copy with what the request sent.
ProfileRow(r) == [copy[r] EXCEPT !.profile = r, !.email = asked[r].email]

\* Faulty: the password is written back, too.
UpdateAllColumns(r) ==
  /\ Is(r, "write", {"profile"})
  /\ Write(r, asked[r].id,
           ProfileRow(r))
  /\ UNCHANGED passwords

\* UserDao::update(): every column of it but the password.
UpdateUser(r) ==
  /\ Is(r, "write", {"profile"})
  /\ Write(r, asked[r].id,
           [ProfileRow(r) EXCEPT !.password = users[asked[r].id].password])
  /\ UNCHANGED passwords

\* UserDao::updatePassword(), for updatePassword() and resetPassword().
SetPassword(r) ==
  /\ Is(r, "write", {"changePassword", "resetPassword"})
  /\ Write(r, asked[r].id, [users[asked[r].id] EXCEPT !.password = r])
  /\ SetsPassword(r, asked[r].id)

\* UserDao::updateStatus().
SetStatus(r) ==
  /\ Is(r, "write", {"status"})
  /\ Write(r, asked[r].id, [users[asked[r].id] EXCEPT !.active = asked[r].active])
  /\ UNCHANGED passwords

\* UserDao::remove(): updateStatus(), or DELETE.
RemoveUser(r) ==
  /\ Is(r, "write", {"remove"})
  /\ Write(r, asked[r].id,
           IF asked[r].soft
             THEN [users[asked[r].id] EXCEPT !.active = FALSE]
             ELSE Gone)
  /\ UNCHANGED passwords

UserRequest(r) ==
  \/ UserReject(r) \/ UserBegin(r) \/ CheckName(r) \/ CheckEmail(r) \/ Insert(r) \/ LastId(r)
  \/ Login(r) \/ Info(r) \/ FindUser(r)
  \/ UpdateUser(r) \/ SetPassword(r) \/ SetStatus(r) \/ RemoveUser(r)

AccountsNext ==
  \/ \E r \in UserRequests : UserRequest(r)
  \/ (\A r \in UserRequests : at[r] = "done") /\ UNCHANGED userVars

AccountsSpec == AccountsInit /\ [][AccountsNext]_userVars
-----------------------------------------------------------------------------
(* Properties.                                                             *)

\* Two users have one name only if the later registration had looked for the
\* name before the other was inserted, or its check failed, which counts as a
\* free name (user_service.cc:46, user_dao.cc:460).
NamesUnique ==
  \A i, j \in Rowed :
    i # j /\ users[i].name = users[j].name /\ users[i].by # Nobody
      => j \notin checked[users[i].by]

\* A new password stays: a change of the profile that read the user before
\* does not bring the old one back (user_dao.cc:204, user_service.cc:182).
PasswordStands == \A i \in Rowed : users[i].password = passwords[i]

\* A token is for the user the request named, and after a registration for
\* the very row it inserted, whatever others insert meanwhile.
TokenNamesItsUser ==
  \A r \in UserRequests : token[r] # Nobody =>
    /\ users[token[r]] \in UserRows => users[token[r]].name = asked[r].name
    /\ asked[r].kind = "register" => token[r] = inserted[r]

\* A change that was answered as a failure was not made.  (One that was
\* answered as a success may not have been made either: an error is the value
\* -1, and only 0 is taken for a failure, user_dao.cc:224.)
FailedChangesNothing ==
  \A i \in Rowed : \A r \in UserRequests :
    r \in {users[i].profile, users[i].password} /\ asked[r].kind # "register"
      => told[r] # "failed"
=============================================================================
