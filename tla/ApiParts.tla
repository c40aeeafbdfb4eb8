------------------------------- MODULE ApiParts -------------------------------
(***************************************************************************)
(* The parts of the API server that share no state, in one specification:  *)
(* the registration of assets (AssetRegistration), the accounts            *)
(* (Accounts), the sessions of browsers (Sessions), the answers to readers *)
(* (Reads), the lists (Lists), the downloads (Downloads) and the failure   *)
(* reports (FailureReports).  No action of one reads a variable of         *)
(* another, so interleaving them shows nothing new and a behaviour moves   *)
(* one of them.                                                            *)
(***************************************************************************)
EXTENDS AssetRegistration

CONSTANTS
  \* Accounts
  User, Subject, Usernames, Channel, AccountCall, AccountSettings, Calls, Members,
  HomeChannel, UserFile, MaxJobs, AccountEnv,
  \* Sessions
  Tab, MaxTokens, MaxLost, MaxFlushes,
  \* Reads
  Task, Plan, NoTask, MaxDisplayed, ReadChanges, Readings, PageSize,
  \* Lists
  Item, Via, NoVia, ListChanges, Listings,
  \* Downloads and FailureReports: Owner is the organization of the server
  Org, Owner,
  Download, MaxRotations, Exchanges,
  FailedTask, Run, NoRun, NoOrg, Failures

VARIABLES
  part,   \* the part that moves
  \* Accounts
  user, channel, oidc, tokens, grants, drawn, accounts, step, held, left, others, jobs,
  wanted, overlaps, accountFaults,
  \* Sessions
  cookie, issued, outstanding, blacklist, expired, tabAt, token, new, out, loose, spent, doubled,
  shared, overlapped, relogged, lost, flushes,
  \* Reads
  reading, taskRows, performances, plans, dated, readAt, first, second, newsPage, newsWatch,
  seen, newsMoved, newsLate, readChanges,
  \* Lists
  listing, listRows, links, status, listAt, page, count, watch, shown, moved, grown, late,
  listChanges,
  \* Downloads
  exchange, off, copies, file, config, syncs, outgoing, incoming, outdated, downloadPc, sent,
  answer, crossed, overwritten,
  \* FailureReports
  failure, reporting, reportRows, reported, failureLog, failureHandled, failedRows, proxied,
  logsAnswer

accountVars ==
  <<user, channel, oidc, tokens, grants, drawn, accounts, step, held, left, others, jobs,
    wanted, overlaps, accountFaults>>
sessionVars ==
  <<cookie, issued, outstanding, blacklist, expired, tabAt, token, new, out, loose, spent, doubled,
    shared, overlapped, relogged, lost, flushes>>
readVars ==
  <<reading, taskRows, performances, plans, dated, readAt, first, second, newsPage, newsWatch,
    seen, newsMoved, newsLate, readChanges>>
listVars ==
  <<listing, listRows, links, status, listAt, page, count, watch, shown, moved, grown, late,
    listChanges>>
downloadVars ==
  <<exchange, off, copies, file, config, syncs, outgoing, incoming, outdated, downloadPc, sent,
    answer, crossed, overwritten>>
failureVars ==
  <<failure, reporting, reportRows, reported, failureLog, failureHandled, failedRows, proxied,
    logsAnswer>>

-----------------------------------------------------------------------------
AC == INSTANCE Accounts WITH count <- drawn, setting <- accounts, pc <- step, todo <- left,
        gaps <- overlaps, faults <- accountFaults, Request <- AccountCall, Scenarios <- AccountSettings,
        What <- Calls, Names <- Usernames, File <- UserFile, Env <- AccountEnv
SE == INSTANCE Sessions WITH at <- tabAt
RE == INSTANCE Reads WITH setting <- reading, rows <- taskRows, at <- readAt, page <- newsPage, managers <- dated,
        watch <- newsWatch, moved <- newsMoved, late <- newsLate, changes <- readChanges,
        MaxChanges <- ReadChanges, Settings <- Readings
LI == INSTANCE Lists WITH setting <- listing, rows <- listRows, at <- listAt, changes <- listChanges,
        MaxChanges <- ListChanges, Settings <- Listings
DO == INSTANCE Downloads WITH setting <- exchange, disabled <- off, row <- copies, jobs <- syncs,
        pc <- downloadPc, Request <- Download, Settings <- Exchanges
FR == INSTANCE FailureReports WITH setting <- failure, job <- reporting, reports <- reportRows,
        registered <- reported, log <- failureLog, handled <- failureHandled, rows <- failedRows,
        answer <- logsAnswer, Task <- FailedTask, Settings <- Failures

\* The server knows its own organization, and the settings are of the form the
\* parts describe.
ASSUME DownloadsAssumption == Owner \in Org /\ Exchanges \subseteq DO!SettingType

\* The accounts, the calls and the file of users are of the form Accounts describes.
ASSUME AccountsAssumption ==
  /\ IsFiniteSet(User) /\ HomeChannel \in Channel /\ AccountSettings \subseteq AC!Setting
  /\ Calls \in [AccountCall -> AC!RequestType] /\ Usernames \in [Subject -> Seq(User)]
  /\ DOMAIN UserFile \subseteq User /\ \A name \in DOMAIN UserFile : UserFile[name] \in Channel

\* The plans are those of a database; a page has rows.
ASSUME ReadsAssumption == IsFiniteSet(Plan) /\ PageSize \in Nat \ {0}

\* A list is one of a view, in an order it knows.  The key of an asset is its own, as
\* are the identifier and the position of an input asset in its task
\* (ComputeTaskInput.Meta).  The filters that join are those of six lists.
ASSUME ListsAssumption ==
  /\ IsFiniteSet(Item) /\ IsFiniteSet(Via)
  /\ \A s \in Listings :
       /\ s.view \in LI!View /\ s.ordering \in {"default", "rank", "status"}
       /\ \A d \in {"created", "key", "rank", "round", "worker", "identifier", "position"} :
            s.field[d] \in [Item -> Nat]
       /\ \A i, j \in Item :
            i # j => /\ s.field["key"][i] # s.field["key"][j]
                     /\ s.view = "inputAssets" =>
                          \/ s.field["identifier"][i] # s.field["identifier"][j]
                          \/ s.field["position"][i] # s.field["position"][j]
       /\ s.asked # {} =>
            s.view \in {"planFunctions", "samples", "plans", "tasks", "functions", "managers"}

\* A build fails for all tasks of a function, an execution for the one that ran.
ASSUME FailuresAssumption ==
  /\ Owner \in Org /\ NoOrg \notin Org /\ NoTask \notin FailedTask /\ NoRun \notin Run
  /\ IsFiniteSet(FailedTask) /\ IsFiniteSet(Run)
  /\ Failures \subseteq FR!SettingType
  /\ \A s \in Failures : s.runs # {} /\ (s.failed # NoTask => s.tasks = {s.failed})

Part == {"assets", "accounts", "sessions", "reads", "lists", "downloads", "failures"}

\* The parts that do not move stay in one of their initial states.
PartsInit ==
  /\ part \in Part
  /\ Init /\ (part # "assets" => asked = CHOOSE e \in Scenarios : TRUE)
  /\ AC!Init /\ (part # "accounts" => accounts = CHOOSE e \in AccountSettings : TRUE)
  /\ SE!Init
  /\ RE!Init /\ (part # "reads" => reading = CHOOSE e \in Readings : TRUE)
  /\ LI!Init /\ (part # "lists" => listing = CHOOSE e \in Listings : TRUE)
  /\ DO!Init /\ (part # "downloads" => exchange = CHOOSE e \in Exchanges : TRUE)
  /\ FR!Init /\ (part # "failures" => failure = CHOOSE e \in Failures : TRUE)

PartsNext ==
  \/ /\ part = "assets" /\ Next
     /\ UNCHANGED <<part, accountVars, sessionVars, readVars, listVars, downloadVars, failureVars>>
  \/ /\ part = "accounts" /\ AC!Next
     /\ UNCHANGED <<part, vars, sessionVars, readVars, listVars, downloadVars, failureVars>>
  \/ /\ part = "sessions" /\ SE!Next
     /\ UNCHANGED <<part, vars, accountVars, readVars, listVars, downloadVars, failureVars>>
  \/ /\ part = "reads" /\ RE!Next
     /\ UNCHANGED <<part, vars, accountVars, sessionVars, listVars, downloadVars, failureVars>>
  \/ /\ part = "lists" /\ LI!Next
     /\ UNCHANGED <<part, vars, accountVars, sessionVars, readVars, downloadVars, failureVars>>
  \/ /\ part = "downloads" /\ DO!Next
     /\ UNCHANGED <<part, vars, accountVars, sessionVars, readVars, listVars, failureVars>>
  \/ /\ part = "failures" /\ FR!Next
     /\ UNCHANGED <<part, vars, accountVars, sessionVars, readVars, listVars, downloadVars>>

partsVars == <<part, vars, accountVars, sessionVars, readVars, listVars, downloadVars, failureVars>>
PartsSpec == PartsInit /\ [][PartsNext]_partsVars

-----------------------------------------------------------------------------
(* The properties are those of the parts; see there what each one says and the *)
(* exceptions.                                                                 *)

\* The registering views answer what the orchestrator has, a refused registration
\* leaves no file behind, and the rows end up as in the orchestrator
\* (views/datasample.py and the like, events/sync.py).
RegistrationsHold == AnswersHold /\ NothingLeftBehind /\ RowsFollow

\* The last change of an account stays in force, whatever views, logins and jobs
\* overlap, and a deleted account stays deleted (views/user.py, sync_users.py).
AccountsHold == AC!AnswersHold /\ AC!DeletedStayOut

\* An external user gets one account at first login, and its refresh token is one
\* the provider takes (users/authentication.py).
ExternalUsersKept == AC!OneAccountEach /\ AC!RefreshKept

\* A refresh token that was spent is not accepted later, and is spent twice only by
\* requests that were under way at the same time; a logout ends all sessions of a
\* browser whose requests never overlapped and whose answers all arrived, and misses
\* only the tokens the browser had lost sight of otherwise
\* (views/authentication.py, users/serializers/user.py).
SessionsEnd == SE!SpentStaysSpent /\ SE!SpentOnce /\ SE!LogoutEndsAll /\ SE!SessionEnds

\* The answers made of several queries hold together, and the pages of the news
\* feed miss nothing, while rows are written (compute_plan_graph.py,
\* performance.py, newsfeed.py).
ReadsCohere == RE!AnswersCohere /\ RE!NewsCohere /\ RE!NewsIsComplete

\* The pages of a list are the assets that satisfy the filters, each once, and no
\* page walk misses one that was there when it began (filters_utils.py,
\* pagination.py and the filter sets of the views).
ListsAreWalked == LI!WalkIsComplete /\ LI!PagesAreTheList

\* Content goes where the permissions say and no worker keeps a part of a file;
\* after a change of credentials both ends have the same secret (views/utils.py,
\* clients/organization.py, organization/models.py).
DownloadsAreRight == DO!AnswersAreRight /\ DO!SecretsAgree

\* Logs go to whoever may see them, as the worker stored them, and the rows of a
\* failed task tell why it failed (tasks_asset_failure_report.py, events/sync.py,
\* failed_asset_logs.py).
FailuresAreTold == FR!LogsAreRight /\ FR!RowsTellWhy

=============================================================================
