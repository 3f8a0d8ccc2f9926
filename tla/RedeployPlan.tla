----------------------------- MODULE RedeployPlan -----------------------------
(***************************************************************************)
(* What a redeployment changes and when it has to be confirmed: the diff   *)
(* and its risks, computed when the request is made and once more by the   *)
(* task, on the row as it has loaded it.  Any number of tasks run at once. *)
(*                                                                         *)
(* A configuration is the document that model_dump() gives, a tree of      *)
(* functions from field names; leaves are strings, "None" for null and for *)
(* a key that is not there.                                                *)
(***************************************************************************)
EXTENDS Naturals, SequencesExt, JobService

CONSTANTS
  Requests,       \* concurrent requests
  Images, Sizes,  \* values of image and tp_size
  DockerConfigs   \* documents of DockerConfig

VARIABLES
  row,      \* row of deployments: status and configuration
  request   \* requests and the tasks that they become

vars == <<row, request>>

Redeployable == {"running", "degraded", "failed", "stopped"}

-----------------------------------------------------------------------------
(* Documents                                                                 *)

\* DeploymentBase: tp_size stands for the fields that are copied into sglang_config.
Document(image, size, docker) ==
  [image |-> image, tp_size |-> size, docker_config |-> docker,
   sglang_config |-> [tp_size |-> size]]

Documents == {Document(i, s, d) : i \in Images, s \in Sizes, d \in DockerConfigs}

DefaultDocker ==
  [privileged |-> "False", network |-> "host", user |-> "None", ipc |-> "None",
   gpus |-> "all", volumes |-> "[]", env |-> <<>>]
DefaultSize == "1"

\* DockerConfig: env is a dictionary of strings, none of them null.
IsDocker(docker) ==
  LET keys == DOMAIN docker.env IN
  /\ docker \in [privileged : {"True", "False"}, network : STRING, user : STRING, ipc : STRING,
                 gpus : STRING, volumes : STRING, env : [keys -> STRING]]
  /\ \A key \in keys : docker.env[key] # "None"

ASSUME DocumentsAssumption ==
  /\ DefaultSize \in Sizes
  /\ \A privileged \in {"True", "False"} :
       [DefaultDocker EXCEPT !.privileged = privileged] \in DockerConfigs
  /\ \A docker \in DockerConfigs : IsDocker(docker)

\* The form of the page has the image and a box for privileged; every other field of
\* the configuration gets its default, whatever the row has.
FromForm(image, privileged) ==
  Document(image, DefaultSize, [DefaultDocker EXCEPT !.privileged = privileged])

\* RedeployRequest: the payload of the API has two fields of its own, which the task
\* does not get.
Own == {"password", "confirm_high_risk"}
AsRequest(doc) ==
  [k \in DOMAIN doc \cup Own |-> IF k \in Own THEN "given" ELSE doc[k]]

\* Mutant of Requested: the task gets the whole request.
RequestedWhole(doc) == doc

Requested(doc) == [k \in DOMAIN doc \ Own |-> doc[k]]

-----------------------------------------------------------------------------
(* plan_redeploy                                                             *)

ValueOf(doc, key) == IF key \in DOMAIN doc THEN doc[key] ELSE "None"

\* Mutant of Keys: keys that only the new dictionary has are not visited.
KeysOfOld(old, new) == DOMAIN old

Keys(old, new) == DOMAIN old \cup DOMAIN new

\* _append_diff of values that are no dictionaries; a list of volumes is none.
Item(field, old, new) == IF old = new THEN {} ELSE {[field |-> field, new_value |-> new]}

\* _append_diff of dictionaries, to the depth that documents have; the items in any order.
EnvDiff(old, new) ==
  UNION {Item(<<"docker_config", "env", key>>, ValueOf(old, key), ValueOf(new, key)) :
           key \in Keys(old, new)}

ConfigDiff(field, old, new) ==
  UNION {IF key = "env" THEN EnvDiff(ValueOf(old, key), ValueOf(new, key))
         ELSE Item(<<field, key>>, ValueOf(old, key), ValueOf(new, key)) :
           key \in Keys(old, new)}

\* build_config_diff
Plan(config, payload) ==
  UNION {IF key \in {"docker_config", "sglang_config"}
         THEN ConfigDiff(key, config[key], payload[key])
         ELSE Item(<<key>>, ValueOf(config, key), ValueOf(payload, key)) :
           key \in Keys(config, payload)}

Root == {"None", "root"}

\* _risk_for gives the item a text.
Risk(item) ==
  \/ item.field = <<"docker_config", "volumes">>
  \/ item = [field |-> <<"docker_config", "privileged">>, new_value |-> "True"]
  \/ item = [field |-> <<"docker_config", "network">>, new_value |-> "host"]
  \/ item = [field |-> <<"docker_config", "ipc">>, new_value |-> "host"]
  \/ item.field = <<"docker_config", "user">> /\ item.new_value \in Root
  \/ IsPrefix(<<"docker_config", "env">>, item.field)

\* validate_redeploy without its test of the status.
Acceptable(config, payload, confirmed) ==
  confirmed \/ \A item \in Plan(config, payload) : ~Risk(item)

-----------------------------------------------------------------------------
(* Requests: operations.py, pages.py and create_redeploy_job                 *)

NoRequest == [at |-> "idle"]

Init ==
  /\ \E c \in Documents : row = [status |-> "running", config |-> c]
  /\ request = [r \in Requests |-> NoRequest]

\* Read the deployment, validate, and commit the pending job.  seen is the status and
\* base the configuration that the request, and then its task, has loaded.
Submit(r, from, payload, confirmed) ==
  /\ request[r] = NoRequest
  /\ row.status \in Redeployable
  /\ Acceptable(row.config, payload, confirmed)
  /\ request' = [request EXCEPT ![r] =
       [at |-> "created", from |-> from, payload |-> Requested(payload), confirmed |-> confirmed,
        old |-> row.status, seen |-> row.status, base |-> row.config]]
  /\ UNCHANGED row

\* The route of this handler is declared behind /{deployment_id}/{operation} in
\* operations.py, whose Literal answers "redeploy" with 422 first: at present only the
\* page gets to create_redeploy_job, and what follows is the handler as written.
SubmitApi(r) ==
  \E doc \in Documents, confirmed \in BOOLEAN :
    Submit(r, "api", AsRequest(doc), confirmed)

SubmitPage(r) ==
  \E image \in Images, privileged \in {"True", "False"}, confirmed \in BOOLEAN :
    Submit(r, "page", FromForm(image, privileged), confirmed)

\* The second commit of the request, and its task is in the queue.
Accept(r) ==
  /\ request[r].at = "created"
  /\ row' = [row EXCEPT !.status = "redeploying"]
  /\ request' = [request EXCEPT ![r].at = "queued"]

-----------------------------------------------------------------------------
(* The task: redeploy_jobs.py                                                *)

\* Mutant of Begin: the task trusts the validation of the request.
BeginTrusting(r) ==
  /\ request[r].at = "queued"
  /\ request' = [request EXCEPT ![r].at = "running", ![r].seen = row.status,
                                ![r].base = row.config]
  /\ UNCHANGED row

\* Load the row and validate again ...
Begin(r) ==
  /\ request[r].at = "queued"
  /\ Acceptable(row.config, request[r].payload, request[r].confirmed)
  /\ request' = [request EXCEPT ![r].at = "running", ![r].seen = row.status,
                                ![r].base = row.config]
  /\ UNCHANGED row

\* Mutant of Refuse: confirm_high_risk does not reach the task.
RefuseUnaware(r) ==
  /\ request[r].at = "queued"
  /\ ~Acceptable(row.config, request[r].payload, FALSE)
  /\ request' = [request EXCEPT ![r].at = "refused", ![r].seen = row.status]
  /\ UNCHANGED row

\* ... or refuse.
Refuse(r) ==
  /\ request[r].at = "queued"
  /\ ~Acceptable(row.config, request[r].payload, request[r].confirmed)
  /\ request' = [request EXCEPT ![r].at = "refused", ![r].seen = row.status]
  /\ UNCHANGED row

\* Give back the status: the task was refused, a command fails, or the health check does.
Fail(r) ==
  /\ request[r].at \in {"refused", "running"}
  /\ row' = [row EXCEPT !.status = Flush(request[r].seen, request[r].old, @)]
  /\ request' = [request EXCEPT ![r] = NoRequest]

\* The columns that differ from what was loaded.  The copies in sglang_config are made
\* anew from the other columns whenever the row is read.
FlushDocument(seen, new, stored) ==
  Document(Flush(seen.image, new.image, stored.image),
           Flush(seen.tp_size, new.tp_size, stored.tp_size),
           Flush(seen.docker_config, new.docker_config, stored.docker_config))

\* apply_payload_to_deployment
Apply(r) ==
  /\ request[r].at = "running"
  /\ row' = [row EXCEPT !.config = FlushDocument(request[r].base, request[r].payload, @)]
  /\ request' = [request EXCEPT ![r].at = "applied"]

\* The row was refreshed before its status is written.
Settle(r) ==
  /\ request[r].at = "applied"
  /\ \E status \in {"running", "degraded"} : row' = [row EXCEPT !.status = status]
  /\ request' = [request EXCEPT ![r] = NoRequest]

Next ==
  \E r \in Requests :
    \/ SubmitApi(r) \/ SubmitPage(r) \/ Accept(r)
    \/ Begin(r) \/ Refuse(r) \/ Fail(r) \/ Apply(r) \/ Settle(r)

Spec == Init /\ [][Next]_vars

-----------------------------------------------------------------------------
(* Properties                                                                *)

TypeOK ==
  /\ row \in [status : Redeployable \cup {"redeploying"}, config : Documents]
  /\ \A r \in Requests :
       \/ request[r] = NoRequest
       \/ request[r] \in [at : {"created", "queued", "refused", "running", "applied"},
                          from : {"api", "page"}, payload : Documents, confirmed : BOOLEAN,
                          old : Redeployable, seen : Redeployable \cup {"redeploying"},
                          base : Documents]

\* The leaves of two documents at which they differ, read off one by one.
Leaves(doc) ==
  {<<k>> : k \in {"image", "tp_size"}}
  \cup {<<"sglang_config", k>> : k \in DOMAIN doc.sglang_config}
  \cup {<<"docker_config", k>> : k \in DOMAIN doc.docker_config \ {"env"}}
  \cup {<<"docker_config", "env", k>> : k \in DOMAIN doc.docker_config.env}

At(doc, leaf) ==
  CASE Len(leaf) = 1 -> doc[leaf[1]]
    [] Len(leaf) = 2 -> doc[leaf[1]][leaf[2]]
    [] Len(leaf) = 3 -> ValueOf(doc.docker_config.env, leaf[3])

Differing(old, new) ==
  {leaf \in Leaves(old) \cup Leaves(new) : At(old, leaf) # At(new, leaf)}

Fields(plan) == {item.field : item \in plan}

\* What the operator confirms is what changes: the plan of a request names the leaves
\* at which the row and the payload differ, all of them and no other, and the request's
\* own fields neither hide nor change an item of it.  (They add items of their own, which
\* nothing here asks for.)
PlanIsDiff ==
  \A r \in Requests : request[r] # NoRequest =>
    LET payload == request[r].payload
        ofPayload == Plan(row.config, payload)
        ofRequest == Plan(row.config, AsRequest(payload)) IN
    /\ Fields(ofPayload) = Differing(row.config, payload)
    /\ ofPayload = {item \in ofRequest : item.field[1] \notin Own}

\* docker_risk_warnings, without the GPUs: nothing asks to confirm those.
Warnings(docker) ==
  {f \in {"privileged", "network", "ipc", "user"} :
     docker[f] \in CASE f = "privileged" -> {"True"}
                     [] f = "user"       -> Root
                     [] OTHER            -> {"host"}}

\* Without confirmation a redeployment adds nothing risky to the row that its task had
\* validated: it has either left the docker configuration of the row to the others, or
\* stored one that warns of nothing that the validated one did not warn of and has its
\* volumes and environment, although its request was checked against another row.  (The row
\* may have been replaced again since the validation, by a redeployment that overlaps.)
UnconfirmedIsHarmless ==
  [][\A r \in Requests :
       request[r].at = "running" /\ request'[r].at = "applied" =>
         LET base == request[r].base.docker_config
             new  == row'.config.docker_config IN
         \/ request[r].confirmed
         \/ new = row.config.docker_config
         \/ /\ Warnings(new) \subseteq Warnings(base)
            /\ new.volumes = base.volumes /\ new.env = base.env]_vars

\* The task refuses only what another redeployment made risky: on the row that its
\* request was checked against, whether from the API or the page, it is accepted again.
RefusalHasCause ==
  [][\A r \in Requests :
       request[r].at = "queued" /\ request'[r].at = "refused"
       => request[r].base # row.config]_vars

\* "The page loads the last deployed configuration; the user modifies image, model path,
\* port, TP/DP/PP ...": a redeployment from the page changes what its form has and
\* leaves the rest of the configuration.
PageKeepsTheRest ==
  [][\A r \in Requests :
       /\ request[r].at = "running" /\ request[r].from = "page"
       /\ request'[r].at = "applied"
       => Differing(row.config, row'.config)
            \subseteq {<<"image">>, <<"docker_config", "privileged">>}]_vars
================================================================================
