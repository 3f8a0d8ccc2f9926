-------------------------------- MODULE Records --------------------------------
(***************************************************************************)
(* The tables that requests keep: hosts, deployments with their revisions, *)
(* users, the monitoring configuration and the audit log.                  *)
(*                                                                         *)
(* A request is a series of transactions: it reads a row, commits what it  *)
(* computed from it, and commits the audit event of what it did (for a     *)
(* deletion: of what it is about to do).  Processes work side by side and  *)
(* may die between any two commits; only keys stand between them: unique   *)
(* names, and where the database enforces it the hosts of deployments.     *)
(***************************************************************************)
EXTENDS Naturals, Sequences, FiniteSets, JobService

CONSTANTS
  Processes,    \* API processes, each with one request or runner at a time
  Hosts,        \* ids of hosts; an id is used once
  Deployments,  \* ids of deployments
  Addresses,    \* values of hosts.ip
  Names, Root,  \* user names; the one in bootstrap_admin_username
  Settings,     \* monitoring configurations
  None,         \* no row
  ForeignKeys,  \* the database enforces them: PostgreSQL does, the default SQLite does not
  MaxRequests,  \* bound on the requests of a behaviour
  MaxCrashes    \* bound on the processes that die

ASSUME Parameters ==
  /\ Root \in Names
  /\ None \notin Hosts \cup Settings
  /\ "unused" \notin Addresses /\ "gone" \notin Addresses
  /\ ForeignKeys \in BOOLEAN
  /\ MaxRequests \in Nat /\ MaxCrashes \in Nat

VARIABLES
  hosts,     \* hosts.ip, or "unused" or "gone" when there is no row
  deps,      \* rows of deployments: host, address in their URLs, last revision, current_version
  users,     \* roles of the rows of users
  configs,   \* rows of monitoring_configs in the order of their ids
  events,    \* audit_logs: the kinds of events and their targets
  proc,      \* what each process is at
  requests,  \* number of requests so far
  crashes    \* number of processes that died so far

rows == <<hosts, deps, users, configs, events>>
vars == <<rows, proc, requests, crashes>>

Roles == {"viewer", "operator", "admin"}
Level == [none |-> 0, viewer |-> 1, operator |-> 2, admin |-> 3]

Ev(kind, x) == [kind |-> kind, of |-> x]
Event == [kind : {"host.create", "host.update", "host.delete"}, of : Hosts]
         \cup [kind : {"deployment.create"}, of : Deployments]
         \cup [kind : {"auth.user_create"}, of : Names]
         \cup [kind : {"monitoring.config_update"}, of : {"default"}]

Down == [at |-> "down"]
Idle == [at |-> "idle"]
Auditing(e) == [at |-> "audit", event |-> e]

\* The stages of a process: what it has read or created, and commits next.
Stage ==
  [at : {"down", "idle"}]
  \cup [at : {"audit"}, event : Event]
  \cup [at : {"update"}, host : Hosts, seen : Addresses, ip : Addresses]
  \cup [at : {"announce", "delete"}, host : Hosts]
  \cup [at : {"insert"}, host : Hosts, ip : Addresses]
  \cup [at : {"revise"}, dep : Deployments, ip : Addresses, new : BOOLEAN]
  \cup [at : {"point"}, dep : Deployments, rev : Nat, new : BOOLEAN]
  \cup [at : {"put"}, seen : Settings \cup {None}, value : Settings]
  \cup [at : {"user"}, name : Names, role : Roles, boot : BOOLEAN]

Present(h) == hosts[h] \in Addresses
Exists(d) == deps[d].host # None
InUse(h) == \E d \in Deployments : deps[d].host = h

\* The foreign key of deployments restricts the deletion of a host.
Restricted(h) == ForeignKeys /\ InUse(h)

\* The configuration that get_config returns.
Config(table) == IF table = <<>> THEN None ELSE table[1]

Init ==
  /\ hosts = [h \in Hosts |-> "unused"]
  /\ deps = [d \in Deployments |-> [host |-> None, url |-> None, revs |-> 0, version |-> 0]]
  /\ users = [n \in Names |-> "none"]
  /\ configs = <<>>
  /\ events = {}
  /\ proc = [p \in Processes |-> Down]
  /\ requests = 0
  /\ crashes = 0

(***************************************************************************)
(* Requests.  Ask admits one whose user has at least the required role and *)
(* leaves the process at the request's next commit.                        *)
(***************************************************************************)
Goto(p, stage) == proc' = [proc EXCEPT ![p] = stage]

May(role) == \E n \in Names : Level[users[n]] >= Level[role]

Ask(p, role, stage) ==
  /\ proc[p].at = "idle" /\ May(role)
  /\ requests < MaxRequests /\ requests' = requests + 1
  /\ Goto(p, stage)
  /\ UNCHANGED crashes

Commit(p, at, stage) ==
  /\ proc[p].at = at
  /\ Goto(p, stage)
  /\ UNCHANGED <<requests, crashes>>

\* record_event: the last commit of every request but a deletion.
Audit(p) ==
  /\ Commit(p, "audit", Idle)
  /\ events' = events \cup {proc[p].event}
  /\ UNCHANGED <<hosts, deps, users, configs>>

Crash(p) ==
  /\ proc[p].at # "down"
  /\ crashes < MaxCrashes /\ crashes' = crashes + 1
  /\ Goto(p, Down)
  /\ UNCHANGED <<rows, requests>>

(***************************************************************************)
(* Users.  An application creates the first administrator when it starts;  *)
(* a second one starting at the same time fails on the unique name.        *)
(***************************************************************************)
NewUser(n, role, boot) == [at |-> "user", name |-> n, role |-> role, boot |-> boot]

\* Mutant of Boot: the application serves before its administrator is stored.
BootServing(p) ==
  /\ Commit(p, "down", Idle)
  /\ UNCHANGED rows

Boot(p) ==
  /\ Commit(p, "down", IF users[Root] = "none" THEN NewUser(Root, "admin", TRUE) ELSE Idle)
  /\ UNCHANGED rows

\* create_user answers a name that exists with its row, whatever the role asked for.
CreateUser(p) ==
  \E n \in Names, role \in Roles :
    /\ Ask(p, "admin", IF users[n] = "none" THEN NewUser(n, role, FALSE)
                       ELSE Auditing(Ev("auth.user_create", n)))
    /\ UNCHANGED rows

\* Mutant of UserAdded: the target of the event is the role.
UserAddedByRole(u) == IF u.boot THEN Idle ELSE Auditing(Ev("auth.user_create", u.role))

UserAdded(u) == IF u.boot THEN Idle ELSE Auditing(Ev("auth.user_create", u.name))

InsertUser(p) ==
  LET u == proc[p] IN
  /\ \/ /\ proc[p].at = "user" /\ users[u.name] = "none"
        /\ Commit(p, "user", UserAdded(u))
        /\ users' = [users EXCEPT ![u.name] = u.role]
     \/ /\ proc[p].at = "user" /\ users[u.name] # "none"
        /\ Commit(p, "user", IF u.boot THEN Down ELSE Idle)
        /\ UNCHANGED users
  /\ UNCHANGED <<hosts, deps, configs, events>>

(***************************************************************************)
(* Hosts.  The row of an update or a deletion is read when the request     *)
(* begins and may be gone when it commits.                                 *)
(***************************************************************************)
CreateHost(p) ==
  \E h \in Hosts, a \in Addresses :
    /\ hosts[h] = "unused"
    /\ Ask(p, "operator", Auditing(Ev("host.create", h)))
    /\ hosts' = [hosts EXCEPT ![h] = a]
    /\ UNCHANGED <<deps, users, configs, events>>

UpdateHost(p) ==
  \E h \in Hosts, a \in Addresses :
    /\ Present(h)
    /\ Ask(p, "operator", [at |-> "update", host |-> h, seen |-> hosts[h], ip |-> a])
    /\ UNCHANGED rows

\* Mutant of Updated: no event.
UpdatedSilently(h) == Idle

Updated(h) == Auditing(Ev("host.update", h))

WriteHost(p) ==
  LET u == proc[p] IN
  /\ \/ /\ proc[p].at = "update" /\ Present(u.host)
        /\ Commit(p, "update", Updated(u.host))
        /\ hosts' = [hosts EXCEPT ![u.host] = Flush(u.seen, u.ip, @)]
     \/ /\ proc[p].at = "update" /\ ~Present(u.host)
        /\ Commit(p, "update", Idle)
        /\ UNCHANGED hosts
  /\ UNCHANGED <<deps, users, configs, events>>

\* Mutant of DeleteHost: the deletion comes before its event.
DeleteHostUnannounced(p) ==
  \E h \in Hosts :
    /\ Present(h)
    /\ Ask(p, "operator", [at |-> "delete", host |-> h])
    /\ UNCHANGED rows

DeleteHost(p) ==
  \E h \in Hosts :
    /\ Present(h)
    /\ Ask(p, "operator", [at |-> "announce", host |-> h])
    /\ UNCHANGED rows

AnnounceDeletion(p) ==
  /\ proc[p].at = "announce"
  /\ Commit(p, "announce", [at |-> "delete", host |-> proc[p].host])
  /\ events' = events \cup {Ev("host.delete", proc[p].host)}
  /\ UNCHANGED <<hosts, deps, users, configs>>

\* A row that is gone already is passed over.
RemoveHost(p) ==
  /\ Commit(p, "delete", Idle)
  /\ hosts' = IF Restricted(proc[p].host) THEN hosts ELSE [hosts EXCEPT ![proc[p].host] = "gone"]
  /\ UNCHANGED <<deps, users, configs, events>>

(***************************************************************************)
(* Deployments.  Their URLs have the address that their host had when the  *)
(* request, or the runner of the redeployment, read it.  create_revision   *)
(* commits the number max + 1 before the row points to it.                 *)
(***************************************************************************)
CreateDeployment(p) ==
  \E h \in Hosts :
    /\ Present(h)
    /\ Ask(p, "operator", [at |-> "insert", host |-> h, ip |-> hosts[h]])
    /\ UNCHANGED rows

InsertDeployment(p) ==
  LET i == proc[p] IN
  \E d \in Deployments :
    /\ proc[p].at = "insert" /\ ~Exists(d)
    /\ IF ForeignKeys /\ ~Present(i.host)
       THEN Commit(p, "insert", Idle) /\ UNCHANGED deps
       ELSE /\ Commit(p, "insert", [at |-> "revise", dep |-> d, ip |-> i.ip, new |-> TRUE])
            /\ deps' = [deps EXCEPT ![d] = [host |-> i.host, url |-> i.ip,
                                            revs |-> 0, version |-> 0]]
    /\ UNCHANGED <<hosts, users, configs, events>>

\* The status admits one redeployment of a deployment at a time (OneAtATime of
\* DeploymentOps), and none before its creation is over; the runner fails the job
\* of a deployment whose host is gone.
Revising(d) == \E p \in Processes : proc[p].at \in {"revise", "point"} /\ proc[p].dep = d

Redeploy(p) ==
  \E d \in Deployments :
    /\ Exists(d) /\ Present(deps[d].host) /\ deps[d].version > 0 /\ ~Revising(d)
    /\ Ask(p, "operator", [at |-> "revise", dep |-> d, ip |-> hosts[deps[d].host], new |-> FALSE])
    /\ UNCHANGED rows

\* Mutant of Revise: the request ends with the revision.
ReviseOnly(p) ==
  LET r == proc[p] IN
  /\ proc[p].at = "revise"
  /\ Commit(p, "revise", IF r.new THEN Auditing(Ev("deployment.create", r.dep)) ELSE Idle)
  /\ deps' = [deps EXCEPT ![r.dep].revs = @ + 1, ![r.dep].url = r.ip]
  /\ UNCHANGED <<hosts, users, configs, events>>

\* create_revision, and with it the columns that a redeployment changed.
Revise(p) ==
  LET r == proc[p]
      no == deps[r.dep].revs + 1 IN
  /\ proc[p].at = "revise"
  /\ Commit(p, "revise", [at |-> "point", dep |-> r.dep, rev |-> no, new |-> r.new])
  /\ deps' = [deps EXCEPT ![r.dep].revs = no, ![r.dep].url = r.ip]
  /\ UNCHANGED <<hosts, users, configs, events>>

Point(p) ==
  LET r == proc[p] IN
  /\ proc[p].at = "point"
  /\ Commit(p, "point", IF r.new THEN Auditing(Ev("deployment.create", r.dep)) ELSE Idle)
  /\ deps' = [deps EXCEPT ![r.dep].version = r.rev]
  /\ UNCHANGED <<hosts, users, configs, events>>

(***************************************************************************)
(* The monitoring configuration is the first row of its table.             *)
(***************************************************************************)
PutConfig(p) ==
  \E s \in Settings :
    /\ Ask(p, "operator", [at |-> "put", seen |-> Config(configs), value |-> s])
    /\ UNCHANGED rows

Store(table, seen, value) ==
  IF seen = None THEN Append(table, value)
  ELSE [table EXCEPT ![1] = Flush(seen, value, @)]

WriteConfig(p) ==
  LET u == proc[p] IN
  /\ proc[p].at = "put"
  /\ Commit(p, "put", Auditing(Ev("monitoring.config_update", "default")))
  /\ configs' = Store(configs, u.seen, u.value)
  /\ UNCHANGED <<hosts, deps, users, events>>

Step(p) ==
  \/ Boot(p) \/ CreateUser(p) \/ InsertUser(p)
  \/ CreateHost(p) \/ UpdateHost(p) \/ WriteHost(p)
  \/ DeleteHost(p) \/ AnnounceDeletion(p) \/ RemoveHost(p)
  \/ CreateDeployment(p) \/ InsertDeployment(p) \/ Redeploy(p) \/ Revise(p) \/ Point(p)
  \/ PutConfig(p) \/ WriteConfig(p)
  \/ Audit(p) \/ Crash(p)

Next == \E p \in Processes : Step(p)

Spec == Init /\ [][Next]_vars

(***************************************************************************)
(* Properties                                                              *)
(***************************************************************************)

\* The columns, and what each process holds between its commits (db/models).
TypeOK ==
  /\ hosts \in [Hosts -> Addresses \cup {"unused", "gone"}]
  /\ deps \in [Deployments -> [host : Hosts \cup {None}, url : Addresses \cup {None},
                               revs : Nat, version : Nat]]
  /\ users \in [Names -> Roles \cup {"none"}]
  /\ configs \in Seq(Settings)
  /\ events \subseteq Event
  /\ proc \in [Processes -> Stage]
  /\ requests \in 0..MaxRequests
  /\ crashes \in 0..MaxCrashes

\* The event is stored, or is the next commit of some process.
Recorded(kind, x) ==
  \/ Ev(kind, x) \in events
  \/ \E p \in Processes : proc[p] = Auditing(Ev(kind, x))

\* Unless a process died, every row has the event that brought it about, and a
\* deployment whose URLs are not at its host's address is explained by an event of
\* the host (the routers' record_event after the commit of the service).
ChangesAreAudited ==
  crashes = 0 =>
    /\ \A h \in Hosts : hosts[h] # "unused" => Recorded("host.create", h)
    /\ \A n \in Names \ {Root} : users[n] # "none" => Recorded("auth.user_create", n)
    /\ configs # <<>> => Recorded("monitoring.config_update", "default")
    /\ \A d \in Deployments : Exists(d) =>
         /\ Recorded("deployment.create", d) \/ Revising(d)
         /\ deps[d].url # hosts[deps[d].host] =>
              Recorded(IF Present(deps[d].host) THEN "host.update" ELSE "host.delete",
                       deps[d].host)

\* No host disappears without an event, whatever dies (hosts.py delete_host records
\* the event before it deletes).
DeletionsAreAudited ==
  \A h \in Hosts : hosts[h] = "gone" => Ev("host.delete", h) \in events

\* The other direction: a recorded creation has its row and its current revision, a
\* recorded configuration its row, and a recorded deletion took place unless the
\* foreign key prevents it, it is about to be made, or its process died in between.
AuditIsTrue ==
  /\ \A d \in Deployments : Ev("deployment.create", d) \in events => deps[d].version > 0
  /\ \A n \in Names : Ev("auth.user_create", n) \in events => users[n] # "none"
  /\ Ev("monitoring.config_update", "default") \in events => configs # <<>>
  /\ \A h \in Hosts : Ev("host.delete", h) \in events =>
       \/ hosts[h] = "gone" \/ Restricted(h) \/ crashes > 0
       \/ \E p \in Processes : proc[p] = [at |-> "delete", host |-> h]

\* Whatever number of applications start at the same time, none serves before the
\* configured administrator is there (main.py _bootstrap_admin_user).
SomeAdmin ==
  (\E p \in Processes : proc[p].at # "down" /\ ~(proc[p].at = "user" /\ proc[p].boot))
    => users[Root] = "admin"
================================================================================
