------------------------------- MODULE Downloads -------------------------------
(***************************************************************************)
(* The files that organizations hand to each other and to their users: the *)
(* download views (api/views/utils.py, api/views/model.py), the client of  *)
(* the other organizations (substrapp/clients/organization.py) and the     *)
(* credentials between organizations with the jobs that renew them         *)
(* (organization/).                                                        *)
(*                                                                         *)
(* One asset, owned by Owner.  A user asks the backend of their own        *)
(* organization, which proxies to the owner; a worker asks the owner       *)
(* directly.  Every organization also has credentials for itself, which    *)
(* its own worker uses.                                                    *)
(***************************************************************************)
EXTENDS Naturals, FiniteSets

CONSTANTS
  Org, Owner,
  Request,
  MaxRotations,  \* bound on the changes of credentials
  Settings       \* the assets and requests to consider, see SettingType

\* "cut": a connection may be cut in the middle of the content; "rehash": the
\* owner stores its hashes with a hasher that Django has replaced.
EnvKind == {"cut", "rehash"}
\* Who may process and download the asset, whether it is a model, where
\* model_export_enabled is set, and who asks.
SettingType ==
  [process : SUBSET Org, download : SUBSET Org, model : BOOLEAN, export : SUBSET Org,
   asks : [Request -> [org : Org, by : {"user", "worker"}]], env : SUBSET EnvKind]

VARIABLES
  setting,
  disabled,    \* the orchestrator: the asset was disabled
  row,         \* the asset's row at each organization
  file,        \* the owner's storage has the file
  config,      \* the generation of the credentials each organization has for the owner
  jobs,        \* sync jobs still to run
  outgoing,    \* the secret an organization sends to the owner
  incoming,    \* the secret the owner expects from it
  outdated,    \* organizations whose hash the next good login renews
  pc, sent, answer,
  crossed,     \* history: requests whose credentials changed after they were read
  overwritten  \* history: organizations whose new hash was overwritten by an old one

assetVars == <<disabled, row, file>>
credVars == <<config, jobs, outgoing, incoming, outdated, overwritten>>
reqVars == <<pc, sent, answer, crossed>>
vars == <<setting, assetVars, credVars, reqVars>>

None == 0  \* no secret read yet; the first generation is 1

\* generate: the same password at both ends of each pair of organizations.
Generated == [o \in Org |-> 1]

Init ==
  /\ setting \in Settings
  /\ disabled = FALSE
  /\ row = [o \in Org |-> IF o = Owner THEN "address" ELSE "none"]
  /\ file = TRUE
  /\ config = Generated /\ outgoing = Generated /\ incoming = Generated
  /\ jobs = {}
  /\ outdated = IF "rehash" \in setting.env THEN Org ELSE {}
  /\ pc = [r \in Request |-> "new"]
  /\ sent = [r \in Request |-> None]
  /\ answer = [r \in Request |-> "none"]
  /\ crossed = {} /\ overwritten = {}

-----------------------------------------------------------------------------
(* The asset, and the credentials *)

\* The API consumer of an organization handles the events of the asset.
SyncRow(o) ==
  /\ \/ row[o] = "none" /\ row' = [row EXCEPT ![o] = "address"]
     \/ row[o] = "address" /\ disabled /\ row' = [row EXCEPT ![o] = "gone"]
  /\ UNCHANGED <<setting, disabled, file, credVars, reqVars>>

\* orchestrator: a transient model is disabled.
Disable ==
  /\ setting.model /\ ~disabled
  /\ disabled' = TRUE
  /\ UNCHANGED <<setting, row, file, credVars, reqVars>>

\* remove_intermediary_model_from_db at the owner.
RemoveFile ==
  /\ disabled /\ file
  /\ file' = FALSE
  /\ UNCHANGED <<setting, disabled, row, credVars, reqVars>>

\* The operators of both organizations deploy new credentials; each deployment
\* has its own job.
Rotate(o) ==
  /\ config[o] <= MaxRotations
  /\ config' = [config EXCEPT ![o] = @ + 1]
  /\ jobs' = jobs \union {<<"incoming", o>>, <<"outgoing", o>>}
  /\ UNCHANGED <<setting, assetVars, outgoing, incoming, outdated, overwritten, reqVars>>

WithCredentials(o) == {r \in Request : pc[r] = "auth" /\ setting.asks[r].org = o}

\* sync_incoming_organizations at the owner: create fails, update_password saves.
SyncIncoming(o) ==
  /\ <<"incoming", o>> \in jobs
  /\ jobs' = jobs \ {<<"incoming", o>>}
  /\ incoming' = [incoming EXCEPT ![o] = config[o]]
  /\ outdated' = outdated \ {o}
  /\ overwritten' = overwritten \ {o}
  /\ crossed' = crossed \union WithCredentials(o)
  /\ UNCHANGED <<setting, assetVars, config, outgoing, pc, sent, answer>>

\* sync_outgoing_organizations at the other end.
SyncOutgoing(o) ==
  /\ <<"outgoing", o>> \in jobs
  /\ jobs' = jobs \ {<<"outgoing", o>>}
  /\ outgoing' = [outgoing EXCEPT ![o] = config[o]]
  /\ crossed' = crossed \union WithCredentials(o)
  /\ UNCHANGED <<setting, assetVars, config, incoming, outdated, overwritten, pc, sent, answer>>

-----------------------------------------------------------------------------
(* A request *)

Goto(r, place) == pc' = [pc EXCEPT ![r] = place] /\ UNCHANGED answer
Answer(r, a) == pc' = [pc EXCEPT ![r] = "done"] /\ answer' = [answer EXCEPT ![r] = a]
By(r) == setting.asks[r].by
OrgOf(r) == setting.asks[r].org

\* Faulty: a proxied request is taken for a download by a worker.
WorkerPermission(r, o) == OrgOf(r) \in setting.process

\* check_access of PermissionMixin and of ModelPermissionViewSet, at the backend
\* of organization o: a model is exported to users, also through the proxy, and
\* processed by workers.
Permission(r, o) ==
  IF setting.model /\ By(r) = "user"
  THEN o \in setting.export /\ OrgOf(r) \in setting.download
  ELSE OrgOf(r) \in setting.process

\* download_file up to the choice between the local and the remote file.
CheckAsset(r, o, next) ==
  CASE row[o] = "none" -> Answer(r, "not found")
    [] row[o] # "none" /\ ~Permission(r, o) -> Answer(r, "forbidden")
    [] row[o] = "gone" /\ Permission(r, o) -> Answer(r, "gone")
    [] OTHER -> Goto(r, next)

\* A user's request arrives at the backend of their organization.
AskOwnBackend(r) ==
  /\ pc[r] = "new" /\ By(r) = "user"
  /\ CheckAsset(r, OrgOf(r), IF OrgOf(r) = Owner THEN "open" ELSE "send")
  /\ UNCHANGED <<setting, assetVars, credVars, sent, crossed>>

\* A worker downloads an input of its task.
AskOwner(r) ==
  /\ pc[r] = "new" /\ By(r) = "worker"
  /\ Goto(r, "send")
  /\ UNCHANGED <<setting, assetVars, credVars, sent, crossed>>

\* _http_request: _fetch_secret, then the request is on its way.
Send(r) ==
  /\ pc[r] = "send"
  /\ sent' = [sent EXCEPT ![r] = outgoing[OrgOf(r)]]
  /\ crossed' = IF outgoing[OrgOf(r)] # incoming[OrgOf(r)] THEN crossed \union {r} ELSE crossed
  /\ Goto(r, "auth")
  /\ UNCHANGED <<setting, assetVars, credVars>>

\* OrganizationBackend.authenticate; a hash made by a replaced hasher is made
\* again from the password that was checked, in a write of its own.
Authenticate(r) ==
  /\ pc[r] = "auth"
  /\ IF sent[r] # incoming[OrgOf(r)] THEN Answer(r, "unauthorized")
     ELSE Goto(r, IF OrgOf(r) \in outdated THEN "rehash" ELSE "asset")
  /\ UNCHANGED <<setting, assetVars, credVars, sent, crossed>>

Rehash(r) ==
  /\ pc[r] = "rehash"
  /\ incoming' = [incoming EXCEPT ![OrgOf(r)] = sent[r]]
  /\ outdated' = outdated \ {OrgOf(r)}
  /\ IF incoming[OrgOf(r)] = sent[r] THEN UNCHANGED <<overwritten, crossed>>
     ELSE /\ overwritten' = overwritten \union {OrgOf(r)}
          /\ crossed' = crossed \union WithCredentials(OrgOf(r))
  /\ Goto(r, "asset")
  /\ UNCHANGED <<setting, assetVars, config, jobs, outgoing, sent>>

AskedOwner(r) ==
  /\ pc[r] = "asset"
  /\ CheckAsset(r, Owner, "open")
  /\ UNCHANGED <<setting, assetVars, credVars, sent, crossed>>

\* get_file_response at the owner: the row of the file is found, or not.
OpenFile(r) ==
  /\ pc[r] = "open"
  /\ IF file THEN Goto(r, "stream") ELSE Answer(r, "not found")
  /\ UNCHANGED <<setting, assetVars, credVars, sent, crossed>>

\* What the receiver makes of a content that was cut: a worker compares the
\* checksum and removes the file, a user gets what there is.
CutSeen(r) == Answer(r, IF By(r) = "worker" THEN "integrity" ELSE "part")

Stream(r) ==
  /\ pc[r] = "stream"
  /\ \/ Answer(r, "whole")
     \/ "cut" \in setting.env /\ CutSeen(r)
  /\ UNCHANGED <<setting, assetVars, credVars, sent, crossed>>

RequestStep(r) ==
  \/ AskOwnBackend(r) \/ AskOwner(r) \/ Send(r) \/ Authenticate(r) \/ Rehash(r)
  \/ AskedOwner(r) \/ OpenFile(r) \/ Stream(r)

Next ==
  \/ \E r \in Request : RequestStep(r)
  \/ \E o \in Org : SyncRow(o) \/ Rotate(o) \/ SyncIncoming(o) \/ SyncOutgoing(o)
  \/ Disable \/ RemoveFile

Spec == Init /\ [][Next]_vars

-----------------------------------------------------------------------------
(* Properties *)

TypeOK ==
  /\ setting \in Settings
  /\ disabled \in BOOLEAN /\ file \in BOOLEAN
  /\ row \in [Org -> {"none", "address", "gone"}]
  /\ config \in [Org -> 1..(MaxRotations + 1)]
  /\ outgoing \in [Org -> 1..(MaxRotations + 1)] /\ incoming \in [Org -> 1..(MaxRotations + 1)]
  /\ jobs \subseteq {"incoming", "outgoing"} \X Org
  /\ outdated \subseteq Org /\ overwritten \subseteq Org /\ crossed \subseteq Request
  /\ pc \in [Request -> {"new", "send", "auth", "rehash", "asset", "open", "stream", "done"}]
  /\ sent \in [Request -> 0..(MaxRotations + 1)]
  /\ answer \in [Request -> {"none", "whole", "part", "integrity", "unauthorized",
                             "forbidden", "not found", "gone"}]

\* What an answer says is so: content only goes where the asset may be processed
\* or, for a user of a model, where it may be downloaded and is exported on both
\* backends; a worker never keeps a part of a file; who is refused or finds
\* nothing had no right, met a change of credentials (a renewed hash of the old
\* password included), asked before the event of
\* the asset had been handled or after the asset was disabled.
Entitled(r) ==
  IF setting.model /\ By(r) = "user"
  THEN OrgOf(r) \in setting.download /\ {OrgOf(r), Owner} \subseteq setting.export
  ELSE OrgOf(r) \in setting.process
AnswersAreRight ==
  \A r \in Request :
    /\ answer[r] \in {"whole", "part"} => Entitled(r)
    /\ answer[r] = "part" => By(r) = "user"
    /\ answer[r] = "forbidden" => ~Entitled(r)
    /\ answer[r] = "unauthorized" => r \in crossed
    /\ answer[r] = "gone" => disabled
    /\ answer[r] = "not found" => disabled \/ (By(r) = "user" /\ OrgOf(r) # Owner)

\* Once both jobs of a deployment have run, both ends have the same secret,
\* whatever requests were authenticated in between, unless one of them renewed
\* the hash of the old password over the new one.
SecretsAgree ==
  \A o \in Org \ overwritten :
    {<<"incoming", o>>, <<"outgoing", o>>} \intersect jobs = {} => outgoing[o] = incoming[o]
=============================================================================
