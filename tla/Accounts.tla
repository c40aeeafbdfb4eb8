------------------------------- MODULE Accounts -------------------------------
(***************************************************************************)
(* The accounts of an organization: the requests of users and admins       *)
(* (users/views/user.py), logins through OpenID Connect and the refresh    *)
(* they need (users/authentication.py), and the job that loads the users   *)
(* of a file when the chart is installed or upgraded (sync_users).         *)
(*                                                                         *)
(* An account has a row for the user, and perhaps one for its channel and  *)
(* one for OpenID Connect, deleted with it.  Nothing runs in a transaction *)
(* of more than one write: a request reads rows and later writes whole     *)
(* rows, so it also writes the fields it did not mean to change, and       *)
(* brings back a row that was deleted.                                     *)
(***************************************************************************)
EXTENDS Naturals, Sequences, FiniteSets

CONSTANTS
  User,       \* usernames
  Subject,    \* the external users, at the OpenID Connect provider
  Names,      \* the usernames for each of them, in the order they are tried
  Channel,
  Request,    \* the calls that are made, each once
  Scenarios,  \* the requests and settings to consider, see Setting
  What,       \* what each request asks for, see RequestType
  Members,    \* the accounts at the start, all in HomeChannel
  HomeChannel,
  File,       \* the channel of each user of the file
  MaxJobs,    \* how often the job is started: its backoff limit
  Env         \* what the environment may do, see EnvKind

\* "crash": the process of a request is killed; "expire": the validity of a
\* login ends; "revoke": the provider revokes a refresh token.
EnvKind == {"crash", "expire", "revoke"}
Role == {"USER", "ADMIN"}

\* "create", "role", "password", "delete": the UserViewSet; "set": set_password
\* with a reset token; "approve" and "remove": an account that awaits approval;
\* "login" and "api": of an external user; "sync": the job.
RequestType ==
  [kind : {"create", "role", "password", "set", "delete", "approve", "remove", "login", "api", "sync"},
   user : User, role : Role, subject : Subject]

\* default: OIDC_USERS_DEFAULT_CHANNEL, or "none" when users must be approved;
\* maxFaults: bound on the faults.
Setting == [asked : SUBSET Request, default : Channel \union {"none"}, maxFaults : Nat]

VARIABLES
  user,    \* the rows of auth_user; a password is the number of its hash
  channel, \* the rows of UserChannel, by username
  oidc,    \* the rows of UserOidcInfo, by username
  tokens,  \* the reset tokens that were given out: the password they are for
  grants,  \* the refresh tokens the provider accepts
  count,   \* numbers drawn for ids, hashes and refresh tokens
  setting, \* the requests that are made and the settings, in Scenarios
  pc,      \* where each request is
  held,    \* the rows it has read
  todo,    \* what the loop of the job has not reached
  others,  \* the accounts the job found that are not in the file
  jobs,    \* how often the job was started
  wanted,  \* what was last asked for each account, and its deleted ids
  gaps,    \* the changes that other requests overlapped, see Gap
  faults

rowVars == <<user, channel, oidc>>
requestVars == <<setting, held, todo, others, jobs>>
vars == <<rowVars, tokens, grants, count, requestVars, pc, wanted, gaps, faults>>

Number == 0..count
NoUser == [there |-> FALSE, id |-> 0, password |-> 0]
NoChannel == [there |-> FALSE, role |-> "USER", name |-> HomeChannel]
NoInfo == [there |-> FALSE, subjects |-> {}, valid |-> FALSE, token |-> 0]
Held == [name : User, user : [there : BOOLEAN, id : Number, password : Number],
         channel : [there : BOOLEAN, role : Role, name : Channel],
         oidc : [there : BOOLEAN, subjects : SUBSET Subject, valid : BOOLEAN, token : Number]]
Rows(u) == [name |-> u, user |-> user[u], channel |-> channel[u], oidc |-> oidc[u]]
Nothing(u) == [name |-> u, user |-> NoUser, channel |-> NoChannel, oidc |-> NoInfo]

\* "password", "channel", "deleted": another request held the rows when they were
\* changed or deleted; "lost": a request died after it had used a refresh token;
\* "revoked"; "twice": a first login of the subject overlapped another or died.
Gap == (User \X {"password", "channel", "deleted", "lost", "revoked"}) \union (Subject \X {"twice"})

asked == setting.asked
Is(r, kinds) == r \in asked /\ What[r].kind \in kinds
Fault(kind) == kind \in Env /\ faults < setting.maxFaults /\ faults' = faults + 1
Goto(r, place) == pc' = [pc EXCEPT ![r] = place]
Hold(r, rows) == held' = [held EXCEPT ![r] = rows]
Running(r) == pc[r] \notin {"new", "done", "failed"}
Fresh == count + 1

\* An exception: the job is started again.
Fail(r) == Goto(r, IF Is(r, {"sync"}) /\ jobs < MaxJobs THEN "new" ELSE "failed")

HeldElsewhere(r, u) == \E q \in asked \ {r} : Running(q) /\ held[q].user.there /\ held[q].name = u
Overlaps(r, u, gap) == gaps' = gaps \union {g \in {<<u, gap>>} : HeldElsewhere(r, u)}

Init ==
  /\ user = [u \in User |-> IF u \in Members THEN [there |-> TRUE, id |-> 1, password |-> 1] ELSE NoUser]
  /\ channel = [u \in User |-> [NoChannel EXCEPT !.there = u \in Members]]
  /\ oidc = [u \in User |-> NoInfo]
  /\ tokens = [u \in User |-> {}]
  /\ grants = {}
  /\ count = 1
  /\ setting \in Scenarios
  /\ pc = [r \in Request |-> "new"]
  /\ held = [r \in Request |-> Nothing(What[r].user)]
  /\ todo = {} /\ others = {} /\ jobs = 0
  /\ wanted = [u \in User |-> [password |-> 1, role |-> "USER", name |-> HomeChannel, gone |-> {}]]
  /\ gaps = {}
  /\ faults = 0

-----------------------------------------------------------------------------
(* The writes *)

\* Its row is the one that was read, or it was deleted: save() updates the row,
\* or inserts it again; but another account may have the username now.
CanSaveUser(r, u) == user[u].there => user[u].id = held[r].user.id
\* The rows of UserChannel and UserOidcInfo refer to the row of the user.
CanRefer(r, u) == user[u].there /\ user[u].id = held[r].user.id

CreateUser(r, u) ==
  LET new == [there |-> TRUE, id |-> Fresh, password |-> Fresh] IN
  /\ user' = [user EXCEPT ![u] = new]
  /\ Hold(r, [Nothing(u) EXCEPT !.user = new])
  /\ count' = Fresh
  /\ wanted' = [wanted EXCEPT ![u].password = Fresh]

SetPassword(r, u) ==
  /\ user' = [user EXCEPT ![u] = [held[r].user EXCEPT !.password = Fresh]]
  /\ count' = Fresh
  /\ wanted' = [wanted EXCEPT ![u].password = Fresh]
  /\ Overlaps(r, u, "password")

PutChannel(r, u, row) ==
  /\ channel' = [channel EXCEPT ![u] = row]
  /\ wanted' = [wanted EXCEPT ![u].role = IF Is(r, {"sync"}) THEN wanted[u].role ELSE row.role,
                              ![u].name = IF Is(r, {"role"}) THEN wanted[u].name ELSE row.name]
  /\ Overlaps(r, u, "channel")

DeleteUser(r, u) ==
  /\ user' = [user EXCEPT ![u] = NoUser]
  /\ channel' = [channel EXCEPT ![u] = NoChannel]
  /\ oidc' = [oidc EXCEPT ![u] = NoInfo]
  /\ wanted' = [wanted EXCEPT ![u].gone = @ \union {user[u].id}]
  /\ Overlaps(r, u, "deleted")

-----------------------------------------------------------------------------
(* The views *)

\* get_object: accounts of the channel of the one who asks.
Found(u) == user[u].there /\ channel[u].there /\ channel[u].name = HomeChannel

Create(r) ==
  /\ Is(r, {"create"}) /\ pc[r] = "new"
  /\ IF user[What[r].user].there
     THEN Fail(r) /\ UNCHANGED <<user, held, count, wanted>>
     ELSE CreateUser(r, What[r].user) /\ Goto(r, "insert")
  /\ UNCHANGED <<channel, oidc, tokens, grants, setting, todo, others, jobs, gaps, faults>>

\* A reset token is valid while the password it was made from is in the row.
TokenValid(u) == \E h \in tokens[u] : h = user[u].password

ReadUser(r) ==
  LET u == What[r].user
      ok == CASE Is(r, {"role", "password"}) -> Found(u)
              [] Is(r, {"approve"}) -> user[u].there
              [] OTHER -> user[u].there /\ TokenValid(u)
      place == CASE Is(r, {"role"}) -> "get" [] Is(r, {"approve"}) -> "insert" [] OTHER -> "save"
  IN /\ Is(r, {"role", "password", "approve", "set"}) /\ pc[r] = "new"
     /\ IF ok THEN Hold(r, Rows(u)) /\ Goto(r, place) ELSE Fail(r) /\ UNCHANGED held
     /\ UNCHANGED <<rowVars, tokens, grants, count, setting, todo, others, jobs, wanted, gaps, faults>>

\* instance.channel is read when it is first used.
ReadChannel(r) ==
  LET u == held[r].name IN
  /\ pc[r] = "get"
  /\ IF channel[u].there
     THEN Hold(r, [held[r] EXCEPT !.channel = channel[u]]) /\ Goto(r, "put")
     ELSE Fail(r) /\ UNCHANGED held
  /\ UNCHANGED <<rowVars, tokens, grants, count, setting, todo, others, jobs, wanted, gaps, faults>>

\* Faulty: the job makes every user of the file an admin, not only new ones.
SaveChannelAsAdmin(r) ==
  LET u == held[r].name
      row == [held[r].channel EXCEPT !.role = What[r].role, !.name = IF Is(r, {"sync"}) THEN File[u] ELSE @]
  IN /\ pc[r] = "put"
     /\ IF CanRefer(r, u)
        THEN PutChannel(r, u, row) /\ Goto(r, IF Is(r, {"sync"}) THEN "next" ELSE "save")
        ELSE Fail(r) /\ UNCHANGED <<channel, wanted, gaps>>
     /\ UNCHANGED <<user, oidc, tokens, grants, count, requestVars, faults>>

SaveChannel(r) ==
  LET u == held[r].name
      row == IF Is(r, {"sync"}) THEN [held[r].channel EXCEPT !.name = File[u]]
                                ELSE [held[r].channel EXCEPT !.role = What[r].role]
  IN /\ pc[r] = "put"
     /\ IF CanRefer(r, u)
        THEN PutChannel(r, u, row) /\ Goto(r, IF Is(r, {"sync"}) THEN "next" ELSE "save")
        ELSE Fail(r) /\ UNCHANGED <<channel, wanted, gaps>>
     /\ UNCHANGED <<user, oidc, tokens, grants, count, requestVars, faults>>

\* The job cannot insert the channel of an account that was approved or made anew
\* meanwhile: handle_element catches the IntegrityError and updates the account.
IsThere(r) == LET u == held[r].name IN
              Is(r, {"sync"}) /\ user[u].there /\ (channel[u].there \/ ~CanRefer(r, u))

UpdateInstead(r) ==
  /\ pc[r] = "insert" /\ IsThere(r)
  /\ Hold(r, Rows(held[r].name)) /\ Goto(r, "save")
  /\ UNCHANGED <<rowVars, tokens, grants, count, setting, todo, others, jobs, wanted, gaps, faults>>

\* UserChannel.objects.create, for a new account or one that is approved.
InsertChannel(r) ==
  LET u == held[r].name
      row == [there |-> TRUE, role |-> CASE Is(r, {"sync"}) -> "ADMIN" [] Is(r, {"login"}) -> "USER"
                                         [] OTHER -> What[r].role,
              name |-> CASE Is(r, {"sync"}) -> File[u] [] Is(r, {"login"}) -> setting.default
                         [] OTHER -> HomeChannel]
      place == CASE Is(r, {"sync"}) -> "next" [] Is(r, {"login"}) -> "info" [] OTHER -> "done"
  IN /\ pc[r] = "insert" /\ ~IsThere(r)
     /\ IF CanRefer(r, u) /\ ~channel[u].there
        THEN /\ channel' = [channel EXCEPT ![u] = row]
             /\ wanted' = [wanted EXCEPT ![u].role = row.role, ![u].name = row.name]
             /\ Goto(r, place)
        ELSE Fail(r) /\ UNCHANGED <<channel, wanted>>
     /\ UNCHANGED <<user, oidc, tokens, grants, count, requestVars, gaps, faults>>

\* instance.save(): the update of a role saves the row of the user as it was read.
SaveUser(r) ==
  LET u == held[r].name IN
  /\ pc[r] = "save"
  /\ IF ~CanSaveUser(r, u) THEN Fail(r) /\ UNCHANGED <<user, count, wanted, gaps>>
     ELSE /\ IF Is(r, {"role"})
             THEN user' = [user EXCEPT ![u] = held[r].user] /\ UNCHANGED <<count, wanted, gaps>>
             ELSE SetPassword(r, u)
          /\ Goto(r, IF Is(r, {"sync"}) THEN "get" ELSE "done")
  /\ UNCHANGED <<channel, oidc, tokens, grants, requestVars, faults>>

Delete(r) ==
  LET u == What[r].user IN
  /\ Is(r, {"delete", "remove"}) /\ pc[r] = "new"
  /\ IF IF Is(r, {"delete"}) THEN Found(u) ELSE user[u].there
     THEN DeleteUser(r, u) /\ Goto(r, "done")
     ELSE Fail(r) /\ UNCHANGED <<rowVars, wanted, gaps>>
  /\ UNCHANGED <<tokens, grants, count, requestVars, faults>>

GiveToken(u) ==
  /\ Found(u) /\ user[u].password \notin tokens[u]
  /\ \E r \in asked : What[r].kind = "set" /\ What[r].user = u /\ pc[r] = "new"
  /\ tokens' = [tokens EXCEPT ![u] = @ \union {user[u].password}]
  /\ UNCHANGED <<rowVars, grants, count, requestVars, pc, wanted, gaps, faults>>

-----------------------------------------------------------------------------
(* External users *)

\* Faulty: an account whose login has expired is not found.
AccountsValid(s) == {u \in User : oidc[u].there /\ oidc[u].valid /\ s \in oidc[u].subjects}
AccountsOf(s) == {u \in User : oidc[u].there /\ s \in oidc[u].subjects}
OtherLogin(r) == \E q \in asked \ {r} : Is(q, {"login"}) /\ What[q].subject = What[r].subject /\ Running(q)
FreeNames(s) == {i \in DOMAIN Names[s] : ~user[Names[s][i]].there}

\* filter_users_by_claims, and generate_username for a first login.
FindUser(r) ==
  LET s == What[r].subject IN
  /\ Is(r, {"login"}) /\ pc[r] = "new"
  /\ CASE Cardinality(AccountsOf(s)) = 1 ->
            /\ \E u \in AccountsOf(s) : Hold(r, Rows(u))
            /\ Goto(r, "login") /\ UNCHANGED gaps
       [] AccountsOf(s) = {} /\ FreeNames(s) # {} ->
            /\ \E i \in FreeNames(s) : /\ \A j \in FreeNames(s) : i <= j
                                       /\ Hold(r, Nothing(Names[s][i]))
            /\ Goto(r, "first")
            /\ gaps' = gaps \union {g \in {<<s, "twice">>} : OtherLogin(r)}
       [] OTHER -> Fail(r) /\ UNCHANGED <<held, gaps>>
  /\ UNCHANGED <<rowVars, tokens, grants, count, setting, todo, others, jobs, wanted, faults>>

CreateExternal(r) ==
  LET u == held[r].name IN
  /\ pc[r] = "first"
  /\ IF user[u].there THEN Fail(r) /\ UNCHANGED <<user, held, count, wanted>>
     ELSE CreateUser(r, u) /\ Goto(r, IF setting.default = "none" THEN "info" ELSE "insert")
  /\ UNCHANGED <<channel, oidc, tokens, grants, setting, todo, others, jobs, gaps, faults>>

CreateInfo(r) ==
  LET u == held[r].name
      row == [NoInfo EXCEPT !.there = TRUE, !.subjects = {What[r].subject}, !.valid = TRUE]
  IN /\ pc[r] = "info"
     /\ IF CanRefer(r, u)
        THEN /\ oidc' = [oidc EXCEPT ![u] = row]
             /\ Hold(r, [held[r] EXCEPT !.oidc = row]) /\ Goto(r, "login")
        ELSE Fail(r) /\ UNCHANGED <<oidc, held>>
     /\ UNCHANGED <<user, channel, tokens, grants, count, setting, todo, others, jobs, wanted, gaps, faults>>

\* The login brought a refresh token.
SaveLogin(r) ==
  LET u == held[r].name IN
  /\ pc[r] = "login"
  /\ grants' = grants \union {Fresh} /\ count' = Fresh
  /\ IF CanRefer(r, u)
     THEN /\ oidc' = [oidc EXCEPT ![u] = [held[r].oidc EXCEPT !.valid = TRUE, !.token = Fresh]]
          /\ Goto(r, "done")
     ELSE Fail(r) /\ UNCHANGED oidc
  /\ UNCHANGED <<user, channel, tokens, requestVars, wanted, gaps, faults>>

\* check_oidc_user_is_valid
CheckValid(r) ==
  LET u == What[r].user IN
  /\ Is(r, {"api"}) /\ pc[r] = "new" /\ oidc[u].there
  /\ CASE oidc[u].valid -> Goto(r, "done") /\ UNCHANGED held
       [] ~oidc[u].valid /\ oidc[u].token # 0 -> Hold(r, Rows(u)) /\ Goto(r, "exchange")
       [] OTHER -> Fail(r) /\ UNCHANGED held
  /\ UNCHANGED <<rowVars, tokens, grants, count, setting, todo, others, jobs, wanted, gaps, faults>>

\* The provider takes a refresh token once and gives another.
UseRefreshToken(r) ==
  /\ pc[r] = "exchange"
  /\ IF held[r].oidc.token \in grants
     THEN /\ grants' = (grants \ {held[r].oidc.token}) \union {Fresh}
          /\ count' = Fresh
          /\ Hold(r, [held[r] EXCEPT !.oidc.token = Fresh, !.oidc.valid = TRUE])
          /\ Goto(r, "refresh")
     ELSE Fail(r) /\ UNCHANGED <<grants, count, held>>
  /\ UNCHANGED <<rowVars, tokens, setting, todo, others, jobs, wanted, gaps, faults>>

SaveRefresh(r) ==
  LET u == held[r].name IN
  /\ pc[r] = "refresh"
  /\ IF CanRefer(r, u) THEN oidc' = [oidc EXCEPT ![u] = held[r].oidc] /\ Goto(r, "done")
                       ELSE Fail(r) /\ UNCHANGED oidc
  /\ UNCHANGED <<user, channel, tokens, grants, count, requestVars, wanted, gaps, faults>>

Expire(u) ==
  /\ oidc[u].valid /\ Fault("expire")
  /\ oidc' = [oidc EXCEPT ![u].valid = FALSE]
  /\ UNCHANGED <<user, channel, tokens, grants, count, requestVars, pc, wanted, gaps>>

Revoke(u) ==
  /\ oidc[u].token \in grants /\ Fault("revoke")
  /\ grants' = grants \ {oidc[u].token}
  /\ gaps' = gaps \union {<<u, "revoked">>}
  /\ UNCHANGED <<rowVars, tokens, count, requestVars, pc, wanted>>

-----------------------------------------------------------------------------
(* The job that loads the users of the file *)

StartJob(r) ==
  /\ Is(r, {"sync"}) /\ pc[r] = "new"
  /\ jobs' = jobs + 1
  /\ todo' = DOMAIN File
  /\ others' = {u \in User \ DOMAIN File : user[u].there}
  /\ Hold(r, Nothing(What[r].user)) /\ Goto(r, "lines")
  /\ UNCHANGED <<rowVars, tokens, grants, count, setting, wanted, gaps, faults>>

HandleElement(r, u) ==
  /\ pc[r] = "lines" /\ u \in todo
  /\ IF user[u].there THEN Hold(r, Rows(u)) /\ Goto(r, "save") /\ UNCHANGED <<user, count, wanted>>
                      ELSE CreateUser(r, u) /\ Goto(r, "insert")
  /\ UNCHANGED <<channel, oidc, tokens, grants, setting, todo, others, jobs, gaps, faults>>

NextElement(r) ==
  /\ pc[r] = "next"
  /\ todo' = todo \ {held[r].name}
  /\ Hold(r, Nothing(held[r].name)) /\ Goto(r, "lines")
  /\ UNCHANGED <<rowVars, tokens, grants, count, setting, others, jobs, wanted, gaps, faults>>

\* With OIDC the job deletes no account.
OidcEnabled == \E r \in asked : What[r].kind \in {"login", "api"}

EndOfFile(r) ==
  /\ pc[r] = "lines" /\ todo = {}
  /\ Goto(r, IF OidcEnabled THEN "done" ELSE "others")
  /\ UNCHANGED <<rowVars, tokens, grants, count, requestVars, wanted, gaps, faults>>

DeleteOther(r, u) ==
  /\ pc[r] = "others" /\ u \in others
  /\ others' = others \ {u}
  /\ IF user[u].there THEN DeleteUser(r, u) /\ UNCHANGED pc
                      ELSE Fail(r) /\ UNCHANGED <<rowVars, wanted, gaps>>
  /\ UNCHANGED <<tokens, grants, count, setting, held, todo, jobs, faults>>

EndJob(r) ==
  /\ pc[r] = "others" /\ others = {}
  /\ Goto(r, "done")
  /\ UNCHANGED <<rowVars, tokens, grants, count, requestVars, wanted, gaps, faults>>

-----------------------------------------------------------------------------

Crash(r) ==
  /\ Running(r) /\ Fault("crash")
  /\ Fail(r)
  /\ gaps' = gaps \union {g \in {<<held[r].name, "lost">>} : pc[r] = "refresh"}
                  \union {g \in {<<What[r].subject, "twice">>} : Is(r, {"login"})}
  /\ UNCHANGED <<rowVars, tokens, grants, count, requestVars, wanted>>

RequestStep(r) ==
  \/ ReadChannel(r) \/ SaveChannel(r) \/ InsertChannel(r) \/ SaveUser(r)
  \/ CreateExternal(r) \/ CreateInfo(r) \/ SaveLogin(r) \/ UseRefreshToken(r) \/ SaveRefresh(r)
  \/ UpdateInstead(r) \/ NextElement(r) \/ EndOfFile(r) \/ EndJob(r)
  \/ \E u \in User : HandleElement(r, u) \/ DeleteOther(r, u)

Begin(r) ==
  Create(r) \/ ReadUser(r) \/ Delete(r) \/ FindUser(r) \/ CheckValid(r)

\* Every request has ended or cannot be made.
Quiet == \A r \in asked : ~Running(r)
Rest == Quiet /\ (\A r \in asked : pc[r] = "new" => ~Is(r, {"sync"})) /\ UNCHANGED vars

Next ==
  \/ \E r \in Request : Begin(r) \/ StartJob(r) \/ RequestStep(r) \/ Crash(r)
  \/ \E u \in User : GiveToken(u) \/ Expire(u) \/ Revoke(u)
  \/ Rest

Spec == Init /\ [][Next]_vars

-----------------------------------------------------------------------------
(* Properties *)

TypeOK ==
  /\ \A u \in User : Rows(u) \in Held
  /\ tokens \in [User -> SUBSET Number] /\ grants \subseteq Number /\ count \in Nat
  /\ setting \in Setting /\ What \in [Request -> RequestType]
  /\ pc \in [Request -> {"new", "get", "put", "insert", "save", "first", "info", "login", "exchange",
                         "refresh", "lines", "next", "others", "done", "failed"}]
  /\ held \in [Request -> Held]
  /\ todo \subseteq DOMAIN File /\ others \subseteq User \ DOMAIN File
  /\ jobs \in 0..MaxJobs
  /\ gaps \subseteq Gap /\ faults \in 0..setting.maxFaults

\* An account that no request held when it was deleted.
Settled(u) == <<u, "deleted">> \notin gaps

\* The last change of a password, a role or a channel stays in force until the
\* next one: no other view, login or job undoes it, unless it had read the rows
\* of the account before the change, or before the account was deleted, and saves
\* them after it.
AnswersHold ==
  \A u \in User : Settled(u) =>
    /\ user[u].there /\ <<u, "password">> \notin gaps => user[u].password = wanted[u].password
    /\ channel[u].there /\ <<u, "channel">> \notin gaps =>
         channel[u].role = wanted[u].role /\ channel[u].name = wanted[u].name

\* An account that was deleted stays deleted, though its username may be taken
\* again: it is back only if a request held its rows when it was deleted.
DeletedStayOut ==
  \A u \in User : user[u].id \in wanted[u].gone => ~Settled(u)

\* "At first login, a user is created that corresponds to the external user":
\* one, and later logins find it, unless first logins overlap or die, or a request
\* brings back an account that was deleted.
OneAccountEach ==
  \A s \in Subject :
    Cardinality({u \in User : Settled(u) /\ s \in oidc[u].subjects}) > 1 => <<s, "twice">> \in gaps

\* The refresh token of an account is one the provider takes, however logins and
\* refreshes of the account overlap, while no request is exchanging it.
RefreshKept ==
  \A u \in User : oidc[u].token # 0 =>
    \/ oidc[u].token \in grants
    \/ <<u, "lost">> \in gaps \/ <<u, "revoked">> \in gaps
    \/ \E r \in asked : pc[r] = "refresh" /\ held[r].name = u
=============================================================================
