---------------------------- MODULE Records_proofs ----------------------------
(***************************************************************************)
(* Proofs about Records, for any number of processes, rows, requests and   *)
(* crashes, whether the database enforces foreign keys or not: types, the  *)
(* first administrator, and what the audit log says.                       *)
(***************************************************************************)
EXTENDS Records, SequenceTheorems, TLAPS

\* What a stage holds has its type.
LEMMA StageFields ==
  ASSUME NEW s \in Stage
  PROVE  /\ s.at = "audit" => s.event \in Event
         /\ s.at = "update" => s.host \in Hosts /\ s.seen \in Addresses /\ s.ip \in Addresses
         /\ s.at \in {"announce", "delete"} => s.host \in Hosts
         /\ s.at = "insert" => s.host \in Hosts /\ s.ip \in Addresses
         /\ s.at = "revise" => s.dep \in Deployments /\ s.ip \in Addresses /\ s.new \in BOOLEAN
         /\ s.at = "point" => s.dep \in Deployments /\ s.rev \in Nat /\ s.new \in BOOLEAN
         /\ s.at = "put" => s.seen \in Settings \cup {None} /\ s.value \in Settings
         /\ s.at = "user" => s.name \in Names /\ s.role \in Roles /\ s.boot \in BOOLEAN
BY DEF Stage

LEMMA Events ==
  /\ \A h \in Hosts : /\ Ev("host.create", h) \in Event
                      /\ Ev("host.update", h) \in Event
                      /\ Ev("host.delete", h) \in Event
  /\ \A d \in Deployments : Ev("deployment.create", d) \in Event
  /\ \A n \in Names : Ev("auth.user_create", n) \in Event
  /\ Ev("monitoring.config_update", "default") \in Event
BY DEF Ev, Event

LEMMA Stages ==
  /\ Down \in Stage /\ Idle \in Stage
  /\ \A e \in Event : Auditing(e) \in Stage
  /\ \A h \in Hosts : /\ [at |-> "announce", host |-> h] \in Stage
                      /\ [at |-> "delete", host |-> h] \in Stage
  /\ \A h \in Hosts, a, b \in Addresses :
       /\ [at |-> "update", host |-> h, seen |-> a, ip |-> b] \in Stage
       /\ [at |-> "insert", host |-> h, ip |-> a] \in Stage
  /\ \A d \in Deployments, a \in Addresses, n \in Nat, new \in BOOLEAN :
       /\ [at |-> "revise", dep |-> d, ip |-> a, new |-> new] \in Stage
       /\ [at |-> "point", dep |-> d, rev |-> n, new |-> new] \in Stage
  /\ \A c \in Settings \cup {None}, s \in Settings :
       [at |-> "put", seen |-> c, value |-> s] \in Stage
  /\ \A n \in Names, r \in Roles, boot \in BOOLEAN : NewUser(n, r, boot) \in Stage
BY DEF Down, Idle, Auditing, NewUser, Stage

\* What get_config returned when a put began cannot vanish.
PutSeen == \A p \in Processes : proc[p].at = "put" /\ proc[p].seen # None => configs # <<>>

TypeInv == TypeOK /\ PutSeen

DeploymentRow == [host : Hosts \cup {None}, url : Addresses \cup {None}, revs : Nat, version : Nat]

LEMMA ConfigType ==
  ASSUME NEW table \in Seq(Settings)
  PROVE  /\ Config(table) \in Settings \cup {None}
         /\ Config(table) # None => table # <<>>
BY DEF Config

LEMMA StoreType ==
  ASSUME NEW table \in Seq(Settings), NEW seen \in Settings \cup {None}, NEW value \in Settings,
         seen # None => table # <<>>
  PROVE  Store(table, seen, value) \in Seq(Settings) /\ Store(table, seen, value) # <<>>
<1>1. CASE seen = None
  <2>1. Store(table, seen, value) = Append(table, value)
    BY <1>1 DEF Store
  <2>2. Append(table, value) \in Seq(Settings) /\ Len(Append(table, value)) = Len(table) + 1
    OBVIOUS
  <2>3. Append(table, value) # <<>>
    BY <2>2
  <2> QED
    BY <2>1, <2>2, <2>3
<1>2. CASE seen # None
  <2> DEFINE new == Flush(seen, value, table[1])
  <2>1. Len(table) \in Nat \ {0} /\ 1 \in 1..Len(table)
    BY <1>2
  <2>2. new \in Settings
    BY <2>1 DEF Flush
  <2>3. Store(table, seen, value) = [table EXCEPT ![1] = new]
    BY <1>2 DEF Store
  <2> HIDE DEF new
  <2>4. [table EXCEPT ![1] = new] \in Seq(Settings) /\ Len([table EXCEPT ![1] = new]) = Len(table)
    BY <2>1, <2>2, ExceptSeq
  <2> QED
    BY <2>1, <2>3, <2>4
<1> QED
  BY <1>1, <1>2

\* A step of one process puts its stage in place of the old one.
LEMMA GotoType ==
  ASSUME proc \in [Processes -> Stage], NEW p \in Processes, NEW s \in Stage, Goto(p, s)
  PROVE  /\ proc' \in [Processes -> Stage]
         /\ proc'[p] = s
         /\ \A q \in Processes : q # p => proc'[q] = proc[q]
BY DEF Goto

\* What a step that stores no configuration leaves of the process part.
LEMMA GotoTyped ==
  ASSUME TypeInv, NEW p \in Processes, NEW s \in Stage, Goto(p, s), s.at # "put",
         configs' = configs
  PROVE  proc' \in [Processes -> Stage] /\ PutSeen'
<1>1. proc \in [Processes -> Stage] /\ PutSeen
  BY DEF TypeInv, TypeOK
<1> QED
  BY <1>1, GotoType DEF PutSeen

\* A step that changes no row.
LEMMA StageStep ==
  ASSUME TypeInv, NEW p \in Processes, NEW s \in Stage, Goto(p, s), s.at # "put",
         UNCHANGED rows, requests' \in 0..MaxRequests, crashes' = crashes
  PROVE  TypeInv'
<1>1. UNCHANGED hosts /\ UNCHANGED deps /\ UNCHANGED users /\ UNCHANGED configs /\ UNCHANGED events
  BY DEF rows
<1>2. proc' \in [Processes -> Stage] /\ PutSeen'
  BY <1>1, GotoTyped
<1> QED
  BY <1>1, <1>2 DEF TypeInv, TypeOK

LEMMA AskTyped ==
  ASSUME TypeInv, NEW p \in Processes, NEW s \in Stage, NEW role, Ask(p, role, s),
         s.at # "put", UNCHANGED rows
  PROVE  TypeInv'
<1>1. Goto(p, s) /\ crashes' = crashes /\ requests' \in 0..MaxRequests
  BY Parameters DEF Ask, TypeInv, TypeOK
<1> QED
  BY <1>1, StageStep

LEMMA InitTyped == Init => TypeInv
BY Parameters, Stages DEF Init, TypeInv, TypeOK, PutSeen, Down, Stage

(***************************************************************************)
(* Types, with what get_config returned to a process that stores a         *)
(* configuration.                                                          *)
(***************************************************************************)
THEOREM TypeStep == TypeInv /\ [Next]_vars => TypeInv'
<1> SUFFICES ASSUME TypeInv, [Next]_vars PROVE TypeInv'
  OBVIOUS
<1> USE DEF TypeInv, TypeOK
<1>1. ASSUME NEW p \in Processes, Boot(p) PROVE TypeInv'
  <2>1. NewUser(Root, "admin", TRUE) \in Stage /\ Idle \in Stage
    BY Stages, Parameters DEF Roles
  <2> DEFINE s == IF users[Root] = "none" THEN NewUser(Root, "admin", TRUE) ELSE Idle
  <2>2. s \in Stage /\ s.at # "put"
    BY <2>1 DEF NewUser, Idle
  <2>3. Goto(p, s) /\ UNCHANGED rows /\ requests' = requests /\ crashes' = crashes
    BY <1>1 DEF Boot, Commit
  <2> HIDE DEF s
  <2> QED
    BY <2>2, <2>3, StageStep
<1>2. ASSUME NEW p \in Processes, CreateUser(p) PROVE TypeInv'
  <2>1. PICK n \in Names, role \in Roles : CreateUser(p)!(n, role)
    BY <1>2 DEF CreateUser
  <2>2. NewUser(n, role, FALSE) \in Stage /\ Auditing(Ev("auth.user_create", n)) \in Stage
    BY Stages, Events
  <2> DEFINE s == IF users[n] = "none" THEN NewUser(n, role, FALSE)
                  ELSE Auditing(Ev("auth.user_create", n))
  <2>3. s \in Stage /\ s.at # "put"
    BY <2>2 DEF NewUser, Auditing
  <2>4. Ask(p, "admin", s) /\ UNCHANGED rows
    BY <2>1
  <2> HIDE DEF s
  <2> QED
    BY <2>3, <2>4, AskTyped
<1>3. ASSUME NEW p \in Processes, InsertUser(p) PROVE TypeInv'
  <2>1. proc[p].name \in Names /\ proc[p].role \in Roles /\ proc[p].at = "user"
    BY <1>3, StageFields DEF InsertUser
  <2>2. UserAdded(proc[p]) \in Stage /\ Down \in Stage /\ Idle \in Stage
    BY <2>1, Stages, Events DEF UserAdded
  <2>3. users' \in [Names -> Roles \cup {"none"}]
    BY <1>3, <2>1 DEF InsertUser
  <2> QED
    BY <1>3, <2>2, <2>3, GotoType DEF InsertUser, Commit, PutSeen, UserAdded, Auditing, Idle, Down
<1>4. ASSUME NEW p \in Processes, CreateHost(p) PROVE TypeInv'
  <2>1. PICK h \in Hosts, a \in Addresses : CreateHost(p)!(h, a)
    BY <1>4 DEF CreateHost
  <2>2. Auditing(Ev("host.create", h)) \in Stage
    BY Stages, Events
  <2>3. proc' \in [Processes -> Stage] /\ PutSeen'
    BY <2>1, <2>2, GotoTyped DEF Ask, Auditing
  <2>4. hosts' \in [Hosts -> Addresses \cup {"unused", "gone"}]
    BY <2>1
  <2>5. requests' \in 0..MaxRequests /\ UNCHANGED crashes
    BY <2>1, Parameters DEF Ask
  <2> QED
    BY <2>1, <2>3, <2>4, <2>5
<1>5. ASSUME NEW p \in Processes, UpdateHost(p) PROVE TypeInv'
  <2>1. PICK h \in Hosts, a \in Addresses : UpdateHost(p)!(h, a)
    BY <1>5 DEF UpdateHost
  <2> DEFINE s == [at |-> "update", host |-> h, seen |-> hosts[h], ip |-> a]
  <2>2. s \in Stage /\ s.at # "put"
    BY <2>1, Stages DEF Present
  <2>3. Ask(p, "operator", s) /\ UNCHANGED rows
    BY <2>1
  <2> HIDE DEF s
  <2> QED
    BY <2>2, <2>3, AskTyped
<1>6. ASSUME NEW p \in Processes, WriteHost(p) PROVE TypeInv'
  <2>1. /\ proc[p].host \in Hosts /\ proc[p].seen \in Addresses /\ proc[p].ip \in Addresses
        /\ Updated(proc[p].host) \in Stage /\ Idle \in Stage
    BY <1>6, StageFields, Stages, Events DEF WriteHost, Updated
  <2>2. hosts' \in [Hosts -> Addresses \cup {"unused", "gone"}]
    BY <1>6, <2>1 DEF WriteHost, Flush, Present
  <2>3. proc' \in [Processes -> Stage] /\ PutSeen'
    BY <1>6, <2>1, GotoTyped DEF WriteHost, Commit, Updated, Auditing, Idle
  <2> QED
    BY <1>6, <2>2, <2>3 DEF WriteHost, Commit
<1>7. ASSUME NEW p \in Processes, DeleteHost(p) PROVE TypeInv'
  <2>1. PICK h \in Hosts : DeleteHost(p)!(h)
    BY <1>7 DEF DeleteHost
  <2> DEFINE s == [at |-> "announce", host |-> h]
  <2>2. s \in Stage /\ s.at # "put"
    BY Stages
  <2>3. Ask(p, "operator", s) /\ UNCHANGED rows
    BY <2>1
  <2> HIDE DEF s
  <2> QED
    BY <2>2, <2>3, AskTyped
<1>8. ASSUME NEW p \in Processes, AnnounceDeletion(p) PROVE TypeInv'
  <2>1. proc[p].host \in Hosts
    BY <1>8, StageFields DEF AnnounceDeletion
  <2>2. [at |-> "delete", host |-> proc[p].host] \in Stage /\ Ev("host.delete", proc[p].host) \in Event
    BY <2>1, Stages, Events
  <2> QED
    BY <1>8, <2>2, GotoType DEF AnnounceDeletion, Commit, PutSeen
<1>9. ASSUME NEW p \in Processes, RemoveHost(p) PROVE TypeInv'
  <2>1. proc[p].host \in Hosts /\ Idle \in Stage
    BY <1>9, StageFields, Stages DEF RemoveHost, Commit
  <2>2. hosts' \in [Hosts -> Addresses \cup {"unused", "gone"}]
    BY <1>9, <2>1 DEF RemoveHost
  <2> QED
    BY <1>9, <2>1, <2>2, GotoType DEF RemoveHost, Commit, PutSeen, Idle
<1>10. ASSUME NEW p \in Processes, CreateDeployment(p) PROVE TypeInv'
  <2>1. PICK h \in Hosts : CreateDeployment(p)!(h)
    BY <1>10 DEF CreateDeployment
  <2> DEFINE s == [at |-> "insert", host |-> h, ip |-> hosts[h]]
  <2>2. s \in Stage /\ s.at # "put"
    BY <2>1, Stages DEF Present
  <2>3. Ask(p, "operator", s) /\ UNCHANGED rows
    BY <2>1
  <2> HIDE DEF s
  <2> QED
    BY <2>2, <2>3, AskTyped
<1>11. ASSUME NEW p \in Processes, InsertDeployment(p) PROVE TypeInv'
  <2>1. proc[p].host \in Hosts /\ proc[p].ip \in Addresses /\ Idle \in Stage
    BY <1>11, StageFields, Stages DEF InsertDeployment
  <2>2. CASE Commit(p, "insert", Idle) /\ UNCHANGED deps
    <3>1. UNCHANGED <<rows>>
      BY <1>11, <2>2 DEF InsertDeployment, rows
    <3>2. proc' \in [Processes -> Stage] /\ PutSeen'
      BY <2>1, <2>2, <3>1, GotoTyped DEF Commit, Idle, rows
    <3> QED
      BY <2>2, <3>1, <3>2 DEF Commit, rows
  <2>3. CASE ~(Commit(p, "insert", Idle) /\ UNCHANGED deps)
    <3> DEFINE row == [host |-> proc[p].host, url |-> proc[p].ip, revs |-> 0, version |-> 0]
    <3>1. PICK d \in Deployments :
            /\ Commit(p, "insert", [at |-> "revise", dep |-> d, ip |-> proc[p].ip, new |-> TRUE])
            /\ deps' = [deps EXCEPT ![d] = row]
      BY <1>11, <2>3 DEF InsertDeployment
    <3>2. row \in DeploymentRow
      BY <2>1 DEF DeploymentRow
    <3>3. [at |-> "revise", dep |-> d, ip |-> proc[p].ip, new |-> TRUE] \in Stage
      BY <2>1, Stages
    <3> HIDE DEF row
    <3>4. deps' \in [Deployments -> DeploymentRow]
      BY <3>1, <3>2 DEF DeploymentRow
    <3> QED
      BY <1>11, <3>1, <3>3, <3>4, GotoType DEF InsertDeployment, Commit, PutSeen, DeploymentRow
  <2> QED
    BY <2>2, <2>3
<1>12. ASSUME NEW p \in Processes, Redeploy(p) PROVE TypeInv'
  <2>1. PICK d \in Deployments : Redeploy(p)!(d)
    BY <1>12 DEF Redeploy
  <2>2. [at |-> "revise", dep |-> d, ip |-> hosts[deps[d].host], new |-> FALSE] \in Stage
    BY <2>1, Stages DEF Present
  <2> QED
    BY <2>1, <2>2, GotoType, Parameters DEF Ask, rows, PutSeen
<1>13. ASSUME NEW p \in Processes, Revise(p) PROVE TypeInv'
  <2> DEFINE d == proc[p].dep
             no == deps[d].revs + 1
  <2>1. d \in Deployments /\ proc[p].ip \in Addresses /\ proc[p].new \in BOOLEAN /\ no \in Nat
    BY <1>13, StageFields DEF Revise
  <2>2. [at |-> "point", dep |-> d, rev |-> no, new |-> proc[p].new] \in Stage
    BY <2>1, Stages
  <2>3. deps' \in [Deployments -> DeploymentRow]
    <3> DEFINE row == [deps[d] EXCEPT !.url = proc[p].ip, !.revs = no]
    <3>1. deps' = [deps EXCEPT ![d] = row] /\ deps \in [Deployments -> DeploymentRow]
      BY <1>13, <2>1 DEF Revise, DeploymentRow
    <3>2. row \in DeploymentRow
      BY <2>1, <3>1 DEF DeploymentRow
    <3> HIDE DEF row
    <3> QED
      BY <2>1, <3>1, <3>2
  <2>4. proc' \in [Processes -> Stage] /\ PutSeen'
    BY <1>13, <2>2, GotoTyped DEF Revise, Commit
  <2> QED
    BY <1>13, <2>3, <2>4 DEF Revise, Commit, DeploymentRow
<1>14. ASSUME NEW p \in Processes, Point(p) PROVE TypeInv'
  <2> DEFINE d == proc[p].dep
  <2>1. d \in Deployments /\ proc[p].rev \in Nat /\ proc[p].at = "point"
    BY <1>14, StageFields DEF Point
  <2>2. Auditing(Ev("deployment.create", d)) \in Stage /\ Idle \in Stage
    BY <2>1, Stages, Events
  <2>3. deps' \in [Deployments -> DeploymentRow]
    BY <1>14, <2>1 DEF Point, DeploymentRow
  <2>4. proc' \in [Processes -> Stage] /\ PutSeen'
    BY <1>14, <2>2, GotoTyped DEF Point, Commit, Auditing, Idle
  <2> QED
    BY <1>14, <2>3, <2>4 DEF Point, Commit, DeploymentRow
<1>15. ASSUME NEW p \in Processes, PutConfig(p) PROVE TypeInv'
  <2>1. PICK s \in Settings : PutConfig(p)!(s)
    BY <1>15 DEF PutConfig
  <2>2. /\ [at |-> "put", seen |-> Config(configs), value |-> s] \in Stage
        /\ Config(configs) # None => configs # <<>>
    BY Stages, ConfigType
  <2> QED
    BY <2>1, <2>2, GotoType, Parameters DEF Ask, rows, PutSeen
<1>16. ASSUME NEW p \in Processes, WriteConfig(p) PROVE TypeInv'
  <2>1. /\ proc[p].seen \in Settings \cup {None} /\ proc[p].value \in Settings
        /\ proc[p].seen # None => configs # <<>>
    BY <1>16, StageFields DEF WriteConfig, PutSeen
  <2>2. configs' \in Seq(Settings) /\ configs' # <<>>
    BY <1>16, <2>1, StoreType DEF WriteConfig
  <2>3. Auditing(Ev("monitoring.config_update", "default")) \in Stage
    BY Stages, Events
  <2> QED
    BY <1>16, <2>2, <2>3, GotoType DEF WriteConfig, Commit, PutSeen
<1>17. ASSUME NEW p \in Processes, Audit(p) PROVE TypeInv'
  <2>1. proc[p].event \in Event /\ Idle \in Stage
    BY <1>17, StageFields, Stages DEF Audit, Commit
  <2> QED
    BY <1>17, <2>1, GotoType DEF Audit, Commit, PutSeen, Idle
<1>18. ASSUME NEW p \in Processes, Crash(p) PROVE TypeInv'
  BY <1>18, Stages, GotoType, Parameters DEF Crash, rows, PutSeen, Down
<1>19. CASE UNCHANGED vars
  BY <1>19 DEF vars, rows, PutSeen
<1> QED
  BY <1>1, <1>2, <1>3, <1>4, <1>5, <1>6, <1>7, <1>8, <1>9, <1>10, <1>11, <1>12, <1>13,
     <1>14, <1>15, <1>16, <1>17, <1>18, <1>19 DEF Next, Step

THEOREM TypesAlways == Spec => []TypeInv
<1> QED
  BY InitTyped, TypeStep, PTL DEF Spec

\* Every table and every stage of every process keeps to its domain (db/models).
THEOREM TypeCorrect == Spec => []TypeOK
<1>1. TypeInv => TypeOK
  BY DEF TypeInv
<1> QED
  BY <1>1, TypesAlways, PTL

(***************************************************************************)
(* Steps that belong to one table leave the others, and the stages that    *)
(* invariants speak of are entered by one action only.                     *)
(***************************************************************************)
LEMMA EventsGrow == ASSUME NEW p \in Processes, Step(p) PROVE events \subseteq events'
<1>1. \/ UNCHANGED events
      \/ \E e : events' = events \cup {e}
  BY DEF Step, rows, Boot, CreateUser, InsertUser, CreateHost, UpdateHost, WriteHost, DeleteHost,
     AnnounceDeletion, RemoveHost, CreateDeployment, InsertDeployment, Redeploy, Revise, Point,
     PutConfig, WriteConfig, Audit, Crash
<1> QED
  BY <1>1

\* What is true when a step takes process p to stage s, as far as invariants need it.
Origin(p, s) ==
  /\ s.at = "delete" => Ev("host.delete", s.host) \in events'
  /\ s.at = "user" => IF s.boot THEN s.name = Root /\ s.role = "admin"
                      ELSE proc[p].at = "idle" /\ users[s.name] = "none"
  /\ s.at \notin {"down", "user"} =>
       \/ proc[p].at \notin {"down", "user"} \/ users[Root] # "none"
       \/ proc[p].at = "user" /\ (proc[p].boot => users' = [users EXCEPT ![proc[p].name] = proc[p].role])
  /\ s.at = "revise" => s.dep \in Deployments /\ deps'[s.dep].host # None
  /\ s.at = "point" => proc[p].at = "revise" /\ s.dep = proc[p].dep /\ s.rev = deps[s.dep].revs + 1
  /\ s.at = "audit" =>
       /\ s.event.kind # "host.delete"
       /\ s.event.kind = "deployment.create" =>
            proc[p].at = "point" /\ s.event.of = proc[p].dep
       /\ s.event.kind = "auth.user_create" => users'[s.event.of] # "none"
       /\ s.event.kind = "monitoring.config_update" => proc[p].at = "put"

LEMMA Origins ==
  ASSUME TypeInv, NEW p \in Processes, Step(p)
  PROVE  \E s : Goto(p, s) /\ Origin(p, s)
<1> USE DEF Origin
<1>0. /\ proc[p] \in Stage
      /\ users \in [Names -> Roles \cup {"none"}]
      /\ deps \in [Deployments -> [host : Hosts \cup {None}, url : Addresses \cup {None},
                                   revs : Nat, version : Nat]]
  BY DEF TypeInv, TypeOK
<1>1. CASE Boot(p)
  <2> DEFINE s == IF users[Root] = "none" THEN NewUser(Root, "admin", TRUE) ELSE Idle
  <2>1. Goto(p, s)
    BY <1>1 DEF Boot, Commit
  <2>2. Origin(p, s)
    BY DEF NewUser, Idle
  <2> HIDE DEF s, Origin
  <2> QED
    BY <2>1, <2>2
<1>2. CASE CreateUser(p)
  <2>1. PICK n \in Names, role \in Roles : CreateUser(p)!(n, role)
    BY <1>2 DEF CreateUser
  <2> DEFINE s == IF users[n] = "none" THEN NewUser(n, role, FALSE)
                  ELSE Auditing(Ev("auth.user_create", n))
  <2>2. Goto(p, s) /\ proc[p].at = "idle" /\ users' = users
    BY <2>1 DEF Ask, rows
  <2>3. Origin(p, s)
    BY <2>2 DEF NewUser, Auditing, Ev
  <2> HIDE DEF s, Origin
  <2> QED
    BY <2>2, <2>3
<1>3. CASE InsertUser(p)
  <2>1. proc[p].at = "user" /\ proc[p].name \in Names /\ proc[p].role \in Roles /\ proc[p].boot \in BOOLEAN
    BY <1>0, <1>3, StageFields DEF InsertUser
  <2>2. CASE users[proc[p].name] = "none"
    <3>1. Goto(p, UserAdded(proc[p])) /\ users' = [users EXCEPT ![proc[p].name] = proc[p].role]
      BY <1>3, <2>2 DEF InsertUser, Commit
    <3>2. users'[proc[p].name] # "none"
      BY <1>0, <2>1, <3>1 DEF Roles
    <3>3. Origin(p, UserAdded(proc[p]))
      BY <2>1, <3>1, <3>2 DEF UserAdded, Auditing, Ev, Idle
    <3> QED
      BY <3>1, <3>3
  <2>3. CASE users[proc[p].name] # "none"
    <3> DEFINE s == IF proc[p].boot THEN Down ELSE Idle
    <3>1. Goto(p, s)
      BY <1>3, <2>3 DEF InsertUser, Commit
    <3>2. Origin(p, s)
      BY <2>1 DEF Down, Idle
    <3> QED
      BY <3>1, <3>2
  <2> QED
    BY <2>2, <2>3
<1>4. CASE CreateHost(p)
  <2>1. PICK h \in Hosts, a \in Addresses : CreateHost(p)!(h, a)
    BY <1>4 DEF CreateHost
  <2>2. Goto(p, Auditing(Ev("host.create", h))) /\ proc[p].at = "idle"
    BY <2>1 DEF Ask
  <2> QED
    BY <2>2 DEF Auditing, Ev
<1>5. CASE UpdateHost(p)
  BY <1>5 DEF UpdateHost, Ask
<1>6. CASE WriteHost(p)
  <2>1. proc[p].at = "update" /\ (Goto(p, Idle) \/ Goto(p, Updated(proc[p].host)))
    BY <1>6 DEF WriteHost, Commit
  <2>2. Origin(p, Idle)
    BY <2>1 DEF Idle
  <2>3. Origin(p, Updated(proc[p].host))
    <3> DEFINE s == Updated(proc[p].host)
    <3>1. s.at = "audit" /\ s.event.kind = "host.update"
      BY DEF Updated, Auditing, Ev
    <3> HIDE DEF s
    <3>2. Origin(p, s)
      BY <2>1, <3>1
    <3> QED
      BY <3>2 DEF s
  <2> QED
    BY <2>1, <2>2, <2>3
<1>7. CASE DeleteHost(p)
  BY <1>7 DEF DeleteHost, Ask
<1>8. CASE AnnounceDeletion(p)
  BY <1>8 DEF AnnounceDeletion, Commit
<1>9. CASE RemoveHost(p)
  BY <1>9 DEF RemoveHost, Commit, Idle
<1>10. CASE CreateDeployment(p)
  BY <1>10 DEF CreateDeployment, Ask
<1>11. CASE InsertDeployment(p)
  <2>1. proc[p].at = "insert" /\ proc[p].host \in Hosts
    BY <1>0, <1>11, StageFields DEF InsertDeployment
  <2>2. CASE Goto(p, Idle)
    BY <2>1, <2>2 DEF Idle
  <2>3. CASE ~Goto(p, Idle)
    <3>1. PICK d \in Deployments :
            /\ Goto(p, [at |-> "revise", dep |-> d, ip |-> proc[p].ip, new |-> TRUE])
            /\ deps' = [deps EXCEPT ![d] = [host |-> proc[p].host, url |-> proc[p].ip,
                                            revs |-> 0, version |-> 0]]
      BY <1>11, <2>3 DEF InsertDeployment, Commit
    <3>2. deps'[d].host = proc[p].host
      BY <1>0, <3>1
    <3>3. Exists(d)'
      BY <2>1, <3>2, Parameters DEF Exists
    <3> QED
      BY <2>1, <3>1, <3>3 DEF Exists
  <2> QED
    BY <2>2, <2>3
<1>12. CASE Redeploy(p)
  <2>1. PICK d \in Deployments : Redeploy(p)!(d)
    BY <1>12 DEF Redeploy
  <2>2. /\ Goto(p, [at |-> "revise", dep |-> d, ip |-> hosts[deps[d].host], new |-> FALSE])
        /\ proc[p].at = "idle" /\ Exists(d)'
    BY <2>1 DEF Ask, rows, Exists
  <2> QED
    BY <2>2 DEF Exists
<1>13. CASE Revise(p)
  BY <1>13 DEF Revise, Commit
<1>14. CASE Point(p)
  <2> DEFINE s == IF proc[p].new THEN Auditing(Ev("deployment.create", proc[p].dep)) ELSE Idle
  <2>1. proc[p].at = "point" /\ Goto(p, s)
    BY <1>14 DEF Point, Commit
  <2>2. Origin(p, s)
    BY <2>1 DEF Auditing, Ev, Idle
  <2> QED
    BY <2>1, <2>2
<1>15. CASE PutConfig(p)
  BY <1>15 DEF PutConfig, Ask
<1>16. CASE WriteConfig(p)
  BY <1>16 DEF WriteConfig, Commit, Auditing, Ev
<1>17. CASE Audit(p)
  BY <1>17 DEF Audit, Commit, Idle
<1>18. CASE Crash(p)
  BY <1>18 DEF Crash, Down
<1> QED
  BY <1>1, <1>2, <1>3, <1>4, <1>5, <1>6, <1>7, <1>8, <1>9, <1>10, <1>11, <1>12, <1>13,
     <1>14, <1>15, <1>16, <1>17, <1>18 DEF Step

\* Each stage after a step is an old one or has the origin of the step.
LEMMA NewStages ==
  ASSUME TypeInv, NEW p \in Processes, Step(p), NEW q \in Processes
  PROVE  proc'[q] = proc[q] \/ (q = p /\ Origin(p, proc'[q]))
<1>1. PICK s : Goto(p, s) /\ Origin(p, s)
  BY Origins
<1>2. proc \in [Processes -> Stage]
  BY DEF TypeInv, TypeOK
<1>3. CASE q = p
  <2>1. proc'[q] = s
    BY <1>1, <1>2, <1>3 DEF Goto
  <2> QED
    BY <1>1, <1>3, <2>1
<1>4. CASE q # p
  BY <1>1, <1>2, <1>4 DEF Goto
<1> QED
  BY <1>3, <1>4

\* Only a deletion that was announced takes a row away.
LEMMA HostsGo ==
  ASSUME TypeInv, NEW p \in Processes, Step(p), NEW h \in Hosts, hosts'[h] = "gone"
  PROVE  \/ hosts[h] = "gone"
         \/ proc[p].at = "delete" /\ proc[p].host = h
<1>0. hosts \in [Hosts -> Addresses \cup {"unused", "gone"}]
  BY DEF TypeInv, TypeOK
<1>1. CASE CreateHost(p)
  BY <1>0, <1>1, Parameters DEF CreateHost
<1>2. CASE WriteHost(p)
  <2>1. proc[p] \in Stage
    BY DEF TypeInv, TypeOK
  <2>2. proc[p].at = "update"
    BY <1>2 DEF WriteHost
  <2>3. proc[p].host \in Hosts /\ proc[p].seen \in Addresses /\ proc[p].ip \in Addresses
    BY <2>1, <2>2, StageFields
  <2> QED
    BY <1>0, <1>2, <2>3, Parameters DEF WriteHost, Flush, Present
<1>3. CASE RemoveHost(p)
  BY <1>0, <1>3 DEF RemoveHost, Commit
<1>4. CASE ~CreateHost(p) /\ ~WriteHost(p) /\ ~RemoveHost(p)
  <2>1. UNCHANGED hosts
    BY <1>4 DEF Step, rows, Boot, CreateUser, InsertUser, UpdateHost, DeleteHost, AnnounceDeletion,
       CreateDeployment, InsertDeployment, Redeploy, Revise, Point, PutConfig, WriteConfig, Audit, Crash
  <2> QED
    BY <2>1
<1> QED
  BY <1>1, <1>2, <1>3, <1>4

AnnouncedInv ==
  /\ DeletionsAreAudited
  /\ \A p \in Processes : proc[p].at = "delete" => Ev("host.delete", proc[p].host) \in events

\* No host disappears without an event, whatever dies and whoever deletes it at the
\* same time (hosts.py delete_host).
THEOREM DeletionsAudited == Spec => []DeletionsAreAudited
<1>1. Init => AnnouncedInv
  BY DEF Init, AnnouncedInv, DeletionsAreAudited, Down
<1>2. TypeInv /\ AnnouncedInv /\ [Next]_vars => AnnouncedInv'
  <2> SUFFICES ASSUME TypeInv, AnnouncedInv, [Next]_vars PROVE AnnouncedInv'
    OBVIOUS
  <2>1. CASE UNCHANGED vars
    BY <2>1 DEF vars, rows, AnnouncedInv, DeletionsAreAudited
  <2>2. ASSUME NEW p \in Processes, Step(p) PROVE AnnouncedInv'
    <3>1. events \subseteq events'
      BY <2>2, EventsGrow
    <3>2. ASSUME NEW h \in Hosts, hosts'[h] = "gone" PROVE Ev("host.delete", h) \in events'
      BY <2>2, <3>1, <3>2, HostsGo DEF AnnouncedInv, DeletionsAreAudited
    <3>3. ASSUME NEW q \in Processes, proc'[q].at = "delete"
          PROVE  Ev("host.delete", proc'[q].host) \in events'
      BY <2>2, <3>1, <3>3, NewStages DEF AnnouncedInv, Origin
    <3> QED
      BY <3>2, <3>3 DEF AnnouncedInv, DeletionsAreAudited
  <2> QED
    BY <2>1, <2>2 DEF Next
<1>3. AnnouncedInv => DeletionsAreAudited
  BY DEF AnnouncedInv
<1> QED
  BY <1>1, <1>2, <1>3, TypesAlways, PTL DEF Spec

\* Users are only added.
LEMMA UsersMove ==
  ASSUME NEW p \in Processes, Step(p)
  PROVE  \/ users' = users
         \/ /\ proc[p].at = "user" /\ users[proc[p].name] = "none"
            /\ users' = [users EXCEPT ![proc[p].name] = proc[p].role]
<1>1. CASE InsertUser(p)
  BY <1>1 DEF InsertUser
<1>2. CASE ~InsertUser(p)
  BY <1>2 DEF Step, rows, Boot, CreateUser, CreateHost, UpdateHost, WriteHost, DeleteHost,
     AnnounceDeletion, RemoveHost, CreateDeployment, InsertDeployment, Redeploy, Revise, Point,
     PutConfig, WriteConfig, Audit, Crash
<1> QED
  BY <1>1, <1>2

LEMMA UserRowsStay ==
  ASSUME TypeInv, NEW p \in Processes, Step(p), NEW n \in Names, users[n] # "none"
  PROVE  users'[n] = users[n]
<1>1. users \in [Names -> Roles \cup {"none"}]
  BY DEF TypeInv, TypeOK
<1> QED
  BY <1>1, UsersMove

AdminInv ==
  /\ SomeAdmin
  /\ users[Root] \in {"none", "admin"}
  /\ \A p \in Processes : proc[p].at = "user" =>
       IF proc[p].boot THEN proc[p].name = Root /\ proc[p].role = "admin"
       ELSE proc[p].name # Root

LEMMA AdminAlways == Spec => []AdminInv
<1>1. Init => AdminInv
  BY Parameters DEF Init, AdminInv, SomeAdmin, Down
<1>2. TypeInv /\ AdminInv /\ [Next]_vars => AdminInv'
  <2> SUFFICES ASSUME TypeInv, AdminInv, [Next]_vars PROVE AdminInv'
    OBVIOUS
  <2>1. CASE UNCHANGED vars
    BY <2>1 DEF vars, rows, AdminInv, SomeAdmin
  <2>2. ASSUME NEW p \in Processes, Step(p) PROVE AdminInv'
    <3>0. users \in [Names -> Roles \cup {"none"}] /\ Root \in Names
      BY Parameters DEF TypeInv, TypeOK
    <3>1. users[Root] = "admin" => users'[Root] = "admin"
      BY <2>2, <3>0, UserRowsStay
    <3>2. users'[Root] \in {"none", "admin"}
      BY <2>2, <3>0, UsersMove DEF AdminInv
    <3>3. ASSUME NEW q \in Processes, proc'[q].at = "user"
          PROVE  IF proc'[q].boot THEN proc'[q].name = Root /\ proc'[q].role = "admin"
                 ELSE proc'[q].name # Root
      <4>1. CASE proc'[q] = proc[q]
        BY <3>3, <4>1 DEF AdminInv
      <4>2. CASE q = p /\ Origin(p, proc'[q])
        BY <3>3, <4>2 DEF AdminInv, SomeAdmin, Origin
      <4> QED
        BY <2>2, <4>1, <4>2, NewStages
    <3>4. ASSUME NEW q \in Processes, proc'[q].at # "down",
                 ~(proc'[q].at = "user" /\ proc'[q].boot)
          PROVE  users'[Root] = "admin"
      <4>1. CASE proc'[q] = proc[q]
        BY <3>1, <3>4, <4>1 DEF AdminInv, SomeAdmin
      <4>2. CASE q = p /\ Origin(p, proc'[q])
        <5>1. CASE proc[p].at = "user" /\ proc[p].boot
          BY <3>0, <3>1, <3>2, <3>4, <4>2, <5>1 DEF AdminInv, Origin
        <5>2. CASE proc[p].at # "down" /\ ~(proc[p].at = "user" /\ proc[p].boot)
          BY <3>1, <5>2 DEF AdminInv, SomeAdmin
        <5>3. CASE proc[p].at = "down"
          BY <3>1, <3>4, <4>2, <5>3 DEF AdminInv, Origin
        <5> QED
          BY <5>1, <5>2, <5>3
      <4> QED
        BY <2>2, <4>1, <4>2, NewStages
    <3> QED
      BY <3>2, <3>3, <3>4 DEF AdminInv, SomeAdmin
  <2> QED
    BY <2>1, <2>2 DEF Next
<1> QED
  BY <1>1, <1>2, TypesAlways, PTL DEF Spec

\* However many applications start at once, none serves before the administrator's
\* row is committed (main.py _bootstrap_admin_user).
THEOREM AdminFirst == Spec => []SomeAdmin
<1>1. AdminInv => SomeAdmin
  BY DEF AdminInv
<1> QED
  BY <1>1, AdminAlways, PTL

\* Where a new event comes from.
LEMMA EventsMove ==
  ASSUME NEW p \in Processes, Step(p), NEW e \in events', e \notin events
  PROVE  \/ proc[p].at = "audit" /\ e = proc[p].event
         \/ /\ e = Ev("host.delete", proc[p].host)
            /\ Goto(p, [at |-> "delete", host |-> proc[p].host])
<1>1. CASE Audit(p)
  BY <1>1 DEF Audit, Commit
<1>2. CASE AnnounceDeletion(p)
  BY <1>2 DEF AnnounceDeletion, Commit
<1>3. CASE ~Audit(p) /\ ~AnnounceDeletion(p)
  <2>1. UNCHANGED events
    BY <1>3 DEF Step, rows, Boot, CreateUser, InsertUser, CreateHost, UpdateHost, WriteHost, DeleteHost,
       RemoveHost, CreateDeployment, InsertDeployment, Redeploy, Revise, Point, PutConfig, WriteConfig,
       Crash
  <2> QED
    BY <2>1
<1> QED
  BY <1>1, <1>2, <1>3

\* A deployment keeps its host, and its version changes to that of a revision.
LEMMA DepsMove ==
  ASSUME TypeInv, NEW p \in Processes, Step(p), NEW d \in Deployments, Exists(d)
  PROVE  /\ deps'[d].host = deps[d].host
         /\ \/ deps'[d].version = deps[d].version
            \/ proc[p].at = "point" /\ proc[p].dep = d /\ deps'[d].version = proc[p].rev
         /\ proc[p].at = "point" /\ proc[p].dep = d => deps'[d].version \in {deps[d].version, proc[p].rev}
         /\ Point(p) /\ proc[p].dep = d => deps'[d].version = proc[p].rev
<1>0. deps \in [Deployments -> [host : Hosts \cup {None}, url : Addresses \cup {None},
                                revs : Nat, version : Nat]]
  BY DEF TypeInv, TypeOK
<1>1. CASE InsertDeployment(p)
  BY <1>0, <1>1 DEF InsertDeployment, Exists, Point
<1>2. CASE Revise(p)
  BY <1>0, <1>2 DEF Revise, Point
<1>3. CASE Point(p)
  BY <1>0, <1>3 DEF Point
<1>4. CASE ~InsertDeployment(p) /\ ~Revise(p) /\ ~Point(p)
  <2>1. UNCHANGED deps
    BY <1>4 DEF Step, rows, Boot, CreateUser, InsertUser, CreateHost, UpdateHost, WriteHost, DeleteHost,
       AnnounceDeletion, RemoveHost, CreateDeployment, Redeploy, PutConfig, WriteConfig, Audit, Crash
  <2> QED
    BY <1>4, <2>1
<1> QED
  BY <1>1, <1>2, <1>3, <1>4

\* Only its own step can take a process out of the stage "point" into an event.
LEMMA PointsAudit ==
  ASSUME TypeInv, NEW p \in Processes, Step(p), proc[p].at = "point", proc'[p].at = "audit"
  PROVE  Point(p)
<1>0. proc \in [Processes -> Stage]
  BY DEF TypeInv, TypeOK
<1>1. CASE Crash(p)
  BY <1>0, <1>1 DEF Crash, Goto, Down
<1>2. CASE ~Crash(p)
  BY <1>2 DEF Step, Ask, Commit, Boot, CreateUser, InsertUser, CreateHost, UpdateHost, WriteHost,
     DeleteHost, AnnounceDeletion, RemoveHost, CreateDeployment, InsertDeployment, Redeploy, Revise,
     PutConfig, WriteConfig, Audit
<1> QED
  BY <1>1, <1>2

\* A configuration, once stored, stays, and storing one leaves its event to be recorded.
LEMMA ConfigsMove ==
  ASSUME TypeInv, NEW p \in Processes, Step(p)
  PROVE  /\ configs # <<>> => configs' # <<>>
         /\ \/ configs' = configs
            \/ proc'[p] = Auditing(Ev("monitoring.config_update", "default"))
         /\ proc[p].at = "put" /\ proc'[p].at = "audit" => configs' # <<>>
<1>0. proc \in [Processes -> Stage] /\ configs \in Seq(Settings) /\ PutSeen
  BY DEF TypeInv, TypeOK
<1>1. CASE WriteConfig(p)
  <2>1. /\ proc[p].seen \in Settings \cup {None} /\ proc[p].value \in Settings
        /\ proc[p].seen # None => configs # <<>>
        /\ configs' = Store(configs, proc[p].seen, proc[p].value)
    BY <1>0, <1>1, StageFields DEF WriteConfig, PutSeen
  <2>2. configs' # <<>>
    BY <1>0, <2>1, StoreType
  <2>3. proc'[p] = Auditing(Ev("monitoring.config_update", "default"))
    BY <1>0, <1>1 DEF WriteConfig, Commit, Goto
  <2> QED
    BY <2>2, <2>3
<1>2. CASE ~WriteConfig(p)
  <2>1. configs' = configs
    BY <1>2 DEF Step, rows, Boot, CreateUser, InsertUser, CreateHost, UpdateHost, WriteHost,
       DeleteHost, AnnounceDeletion, RemoveHost, CreateDeployment, InsertDeployment, Redeploy,
       Revise, Point, PutConfig, Audit, Crash
  <2>2. ASSUME proc[p].at = "put" PROVE proc'[p].at # "audit"
    <3>1. Crash(p)
      BY <1>2, <2>2 DEF Step, Ask, Commit, Boot, CreateUser, InsertUser, CreateHost, UpdateHost,
         WriteHost, DeleteHost, AnnounceDeletion, RemoveHost, CreateDeployment, InsertDeployment,
         Redeploy, Revise, Point, PutConfig, Audit
    <3> QED
      BY <1>0, <3>1 DEF Crash, Goto, Down
  <2> QED
    BY <2>1, <2>2
<1> QED
  BY <1>1, <1>2

\* A deletion ends with its row gone or its host held by the foreign key, or with its process.
LEMMA DeletionsEnd ==
  ASSUME TypeInv, NEW p \in Processes, Step(p), NEW h \in Hosts,
         proc[p] = [at |-> "delete", host |-> h]
  PROVE  hosts'[h] = "gone" \/ Restricted(h)' \/ crashes' > 0
<1>0. hosts \in [Hosts -> Addresses \cup {"unused", "gone"}] /\ crashes \in Nat
  BY Parameters DEF TypeInv, TypeOK
<1>1. CASE RemoveHost(p)
  BY <1>0, <1>1 DEF RemoveHost, Restricted, InUse
<1>2. CASE Crash(p)
  BY <1>0, <1>2 DEF Crash
<1>3. CASE ~RemoveHost(p) /\ ~Crash(p)
  BY <1>3 DEF Step, Ask, Commit, Boot, CreateUser, InsertUser, CreateHost, UpdateHost, WriteHost,
     DeleteHost, AnnounceDeletion, CreateDeployment, InsertDeployment, Redeploy, Revise, Point,
     PutConfig, WriteConfig, Audit
<1> QED
  BY <1>1, <1>2, <1>3

LEMMA GoneStays ==
  ASSUME TypeInv, NEW p \in Processes, Step(p), NEW h \in Hosts, hosts[h] = "gone"
  PROVE  hosts'[h] = "gone"
<1>0. hosts \in [Hosts -> Addresses \cup {"unused", "gone"}]
  BY DEF TypeInv, TypeOK
<1>1. CASE CreateHost(p) \/ WriteHost(p) \/ RemoveHost(p)
  BY <1>0, <1>1, Parameters DEF CreateHost, WriteHost, RemoveHost, Present
<1>2. CASE ~CreateHost(p) /\ ~WriteHost(p) /\ ~RemoveHost(p)
  BY <1>2 DEF Step, rows, Boot, CreateUser, InsertUser, UpdateHost, DeleteHost, AnnounceDeletion,
     CreateDeployment, InsertDeployment, Redeploy, Revise, Point, PutConfig, WriteConfig, Audit, Crash
<1> QED
  BY <1>1, <1>2

LEMMA CrashesGrow ==
  ASSUME TypeInv, NEW p \in Processes, Step(p), crashes > 0
  PROVE  crashes' > 0
<1>0. crashes \in Nat
  BY Parameters DEF TypeInv, TypeOK
<1>1. crashes' = crashes \/ crashes' = crashes + 1
  BY DEF Step, Ask, Commit, Boot, CreateUser, InsertUser, CreateHost, UpdateHost, WriteHost,
     DeleteHost, AnnounceDeletion, RemoveHost, CreateDeployment, InsertDeployment, Redeploy, Revise,
     Point, PutConfig, WriteConfig, Audit, Crash
<1> QED
  BY <1>0, <1>1

\* What an event that is about to be recorded says is already true.
PendingIsTrue(s) ==
  /\ s.at \in {"revise", "point"} => Exists(s.dep)
  /\ s.at = "point" => s.rev > 0
  /\ s.at = "audit" =>
       /\ s.event.kind # "host.delete"
       /\ s.event.kind = "deployment.create" =>
            Exists(s.event.of) /\ deps[s.event.of].version > 0
       /\ s.event.kind = "auth.user_create" => users[s.event.of] # "none"
       /\ s.event.kind = "monitoring.config_update" => configs # <<>>

AuditInv ==
  /\ AuditIsTrue
  /\ \A d \in Deployments : Ev("deployment.create", d) \in events => Exists(d)
  /\ \A p \in Processes : PendingIsTrue(proc[p])

LEMMA EventTargets ==
  ASSUME NEW e \in Event
  PROVE  /\ e.kind \in {"host.create", "host.update", "host.delete"} => e.of \in Hosts
         /\ e.kind = "deployment.create" => e.of \in Deployments
         /\ e.kind = "auth.user_create" => e.of \in Names
BY DEF Event

LEMMA ExistsStays ==
  ASSUME TypeInv, NEW p \in Processes, Step(p), PendingIsTrue(proc[p]),
         NEW d \in Deployments, Exists(d)
  PROVE  /\ Exists(d)'
         /\ deps[d].version > 0 => deps'[d].version > 0
<1>1. deps'[d].host = deps[d].host
  BY DepsMove
<1>2. ASSUME deps[d].version > 0 PROVE deps'[d].version > 0
  BY <1>2, DepsMove DEF PendingIsTrue
<1> QED
  BY <1>1, <1>2 DEF Exists

LEMMA NewEvent ==
  ASSUME NEW p \in Processes, Step(p), PendingIsTrue(proc[p]), NEW kind, NEW x,
         Ev(kind, x) \in events', Ev(kind, x) \notin events
  PROVE  IF kind = "host.delete" THEN Goto(p, [at |-> "delete", host |-> x])
         ELSE proc[p].at = "audit" /\ proc[p].event.kind = kind /\ proc[p].event.of = x
<1>1. Ev(kind, x).kind = kind /\ Ev(kind, x).of = x
  BY DEF Ev
<1>2. /\ Ev("host.delete", proc[p].host).kind = "host.delete"
      /\ Ev("host.delete", proc[p].host).of = proc[p].host
  BY DEF Ev
<1>3. CASE proc[p].at = "audit" /\ Ev(kind, x) = proc[p].event
  BY <1>1, <1>3 DEF PendingIsTrue
<1>4. CASE /\ Ev(kind, x) = Ev("host.delete", proc[p].host)
           /\ Goto(p, [at |-> "delete", host |-> proc[p].host])
  BY <1>1, <1>2, <1>4
<1> QED
  BY <1>3, <1>4, EventsMove

LEMMA PendingStays ==
  ASSUME TypeInv, NEW p \in Processes, Step(p), \A q \in Processes : PendingIsTrue(proc[q]),
         NEW r \in Processes
  PROVE  PendingIsTrue(proc[r])'
<1> DEFINE s == proc'[r]
<1>0. /\ proc[r] \in Stage /\ proc[p] \in Stage
      /\ deps \in [Deployments -> [host : Hosts \cup {None}, url : Addresses \cup {None},
                                   revs : Nat, version : Nat]]
  BY DEF TypeInv, TypeOK
<1>1. CASE proc'[r] = proc[r]
  <2>1. ASSUME proc[r].at \in {"revise", "point"} PROVE Exists(proc[r].dep)'
    <3>1. proc[r].dep \in Deployments /\ Exists(proc[r].dep)
      BY <1>0, <2>1, StageFields DEF PendingIsTrue
    <3>2. deps'[proc[r].dep].host # None
      BY <3>1, ExistsStays DEF Exists
    <3> QED
      BY <1>1, <3>2 DEF Exists
  <2>2. ASSUME proc[r].at = "audit", proc[r].event.kind = "deployment.create"
        PROVE  deps'[proc[r].event.of].host # None /\ deps'[proc[r].event.of].version > 0
    <3>1. proc[r].event.of \in Deployments
      BY <1>0, <2>2, StageFields, EventTargets
    <3> QED
      BY <2>2, <3>1, ExistsStays DEF PendingIsTrue, Exists
  <2>3. ASSUME proc[r].at = "audit", proc[r].event.kind = "auth.user_create"
        PROVE  users'[proc[r].event.of] # "none"
    <3>1. proc[r].event.of \in Names
      BY <1>0, <2>3, StageFields, EventTargets
    <3> QED
      BY <2>3, <3>1, UserRowsStay DEF PendingIsTrue
  <2>4. /\ proc[r].at = "point" => proc[r].rev > 0
        /\ proc[r].at = "audit" => proc[r].event.kind # "host.delete"
        /\ proc[r].at = "audit" /\ proc[r].event.kind = "monitoring.config_update"
             => configs' # <<>>
    BY ConfigsMove DEF PendingIsTrue
  <2> QED
    BY <1>1, <2>1, <2>2, <2>3, <2>4 DEF PendingIsTrue, Exists
<1>2. CASE r = p /\ Origin(p, proc'[r])
  <2>1. ASSUME s.at = "point" PROVE deps'[s.dep].host # None /\ s.rev > 0
    <3>1. proc[p].at = "revise" /\ s.dep = proc[p].dep /\ s.rev = deps[s.dep].revs + 1
      BY <1>2, <2>1 DEF Origin
    <3>2. s.dep \in Deployments /\ Exists(s.dep)
      BY <1>0, <3>1, StageFields DEF PendingIsTrue
    <3>3. deps[s.dep].revs \in Nat
      BY <1>0, <3>2
    <3>4. deps'[s.dep].host # None
      BY <3>2, ExistsStays DEF Exists
    <3> QED
      BY <3>1, <3>3, <3>4
  <2>2. ASSUME s.at = "audit", s.event.kind = "deployment.create"
        PROVE  deps'[s.event.of].host # None /\ deps'[s.event.of].version > 0
    <3>1. proc[p].at = "point" /\ s.event.of = proc[p].dep
      BY <1>2, <2>2 DEF Origin
    <3>2. Point(p)
      BY <1>2, <2>2, <3>1, PointsAudit
    <3>3. proc[p].dep \in Deployments /\ Exists(proc[p].dep) /\ proc[p].rev > 0
      BY <1>0, <3>1, StageFields DEF PendingIsTrue
    <3>4. deps'[proc[p].dep].version = proc[p].rev
      BY <3>2, <3>3, DepsMove
    <3>5. deps'[proc[p].dep].host # None
      BY <3>3, ExistsStays DEF Exists
    <3> QED
      BY <3>1, <3>3, <3>4, <3>5
  <2>3. /\ s.at = "revise" => deps'[s.dep].host # None
        /\ s.at = "audit" => s.event.kind # "host.delete"
        /\ s.at = "audit" /\ s.event.kind = "auth.user_create" => users'[s.event.of] # "none"
    BY <1>2 DEF Origin
  <2>4. s.at = "audit" /\ s.event.kind = "monitoring.config_update" => configs' # <<>>
    BY <1>2, ConfigsMove DEF Origin
  <2> QED
    BY <2>1, <2>2, <2>3, <2>4 DEF PendingIsTrue, Exists
<1> QED
  BY <1>1, <1>2, NewStages

LEMMA AuditAlways == Spec => []AuditInv
<1>1. Init => AuditInv
  BY DEF Init, AuditInv, AuditIsTrue, PendingIsTrue, Down
<1>2. TypeInv /\ AuditInv /\ [Next]_vars => AuditInv'
  <2> SUFFICES ASSUME TypeInv, AuditInv, [Next]_vars PROVE AuditInv'
    OBVIOUS
  <2>1. CASE UNCHANGED vars
    BY <2>1 DEF vars, rows, AuditInv, AuditIsTrue, PendingIsTrue, Exists, Restricted, InUse
  <2>2. ASSUME NEW p \in Processes, Step(p) PROVE AuditInv'
    <3>0. /\ proc \in [Processes -> Stage] /\ PendingIsTrue(proc[p])
          /\ \A q \in Processes : PendingIsTrue(proc[q])
      BY DEF TypeInv, TypeOK, AuditInv
    <3>1. ASSUME NEW d \in Deployments, Ev("deployment.create", d) \in events'
          PROVE  deps'[d].host # None /\ deps'[d].version > 0
      <4>1. Exists(d) /\ deps[d].version > 0
        <5>1. CASE Ev("deployment.create", d) \in events
          BY <5>1 DEF AuditInv, AuditIsTrue
        <5>2. CASE Ev("deployment.create", d) \notin events
          <6>1. /\ proc[p].at = "audit" /\ proc[p].event.kind = "deployment.create"
                /\ proc[p].event.of = d
            BY <2>2, <3>0, <3>1, <5>2, NewEvent
          <6> QED
            BY <3>0, <6>1 DEF PendingIsTrue
        <5> QED
          BY <5>1, <5>2
      <4> QED
        BY <2>2, <3>0, <4>1, ExistsStays DEF Exists
    <3>2. ASSUME NEW n \in Names, Ev("auth.user_create", n) \in events'
          PROVE  users'[n] # "none"
      <4>1. users[n] # "none"
        <5>1. CASE Ev("auth.user_create", n) \in events
          BY <5>1 DEF AuditInv, AuditIsTrue
        <5>2. CASE Ev("auth.user_create", n) \notin events
          <6>1. /\ proc[p].at = "audit" /\ proc[p].event.kind = "auth.user_create"
                /\ proc[p].event.of = n
            BY <2>2, <3>0, <3>2, <5>2, NewEvent
          <6> QED
            BY <3>0, <6>1 DEF PendingIsTrue
        <5> QED
          BY <5>1, <5>2
      <4> QED
        BY <2>2, <4>1, UserRowsStay
    <3>3. ASSUME NEW h \in Hosts, Ev("host.delete", h) \in events'
          PROVE  \/ hosts'[h] = "gone" \/ Restricted(h)' \/ crashes' > 0
                 \/ \E q \in Processes : proc'[q] = [at |-> "delete", host |-> h]
      <4>1. CASE Ev("host.delete", h) \notin events
        <5>1. Goto(p, [at |-> "delete", host |-> h])
          BY <2>2, <3>0, <3>3, <4>1, NewEvent
        <5> QED
          BY <3>0, <5>1 DEF Goto
      <4>2. CASE Ev("host.delete", h) \in events
        <5>1. CASE hosts[h] = "gone"
          BY <2>2, <5>1, GoneStays
        <5>2. CASE Restricted(h)
          <6>1. PICK d \in Deployments : deps[d].host = h
            BY <5>2 DEF Restricted, InUse
          <6>2. deps'[d].host = h
            BY <2>2, <6>1, DepsMove, Parameters DEF Exists
          <6> QED
            BY <5>2, <6>2 DEF Restricted, InUse
        <5>3. CASE crashes > 0
          BY <2>2, <5>3, CrashesGrow
        <5>4. ASSUME NEW q \in Processes, proc[q] = [at |-> "delete", host |-> h]
              PROVE  \/ hosts'[h] = "gone" \/ Restricted(h)' \/ crashes' > 0
                     \/ proc'[q] = [at |-> "delete", host |-> h]
          <6>1. CASE q = p
            BY <2>2, <5>4, <6>1, DeletionsEnd
          <6>2. CASE q # p
            BY <2>2, <5>4, <6>2, NewStages
          <6> QED
            BY <6>1, <6>2
        <5> QED
          BY <4>2, <5>1, <5>2, <5>3, <5>4 DEF AuditInv, AuditIsTrue
      <4> QED
        BY <4>1, <4>2
    <3>4. \A q \in Processes : PendingIsTrue(proc[q])'
      BY <2>2, <3>0, PendingStays
    <3>5. ASSUME Ev("monitoring.config_update", "default") \in events' PROVE configs' # <<>>
      <4>1. configs # <<>>
        <5>1. CASE Ev("monitoring.config_update", "default") \in events
          BY <5>1 DEF AuditInv, AuditIsTrue
        <5>2. CASE Ev("monitoring.config_update", "default") \notin events
          <6> DEFINE kind == "monitoring.config_update"
                     x == "default"
          <6>0. kind # "host.delete" /\ Ev(kind, x) \in events' /\ Ev(kind, x) \notin events
            BY <3>5, <5>2
          <6> HIDE DEF kind, x
          <6>1. proc[p].at = "audit" /\ proc[p].event.kind = kind
            BY <2>2, <3>0, <6>0, NewEvent
          <6> USE DEF kind
          <6> QED
            BY <3>0, <6>1 DEF PendingIsTrue
        <5> QED
          BY <5>1, <5>2
      <4> QED
        BY <2>2, <4>1, ConfigsMove
    <3> QED
      BY <3>1, <3>2, <3>3, <3>4, <3>5 DEF AuditInv, AuditIsTrue, Exists
  <2> QED
    BY <2>1, <2>2 DEF Next
<1> QED
  BY <1>1, <1>2, TypesAlways, PTL DEF Spec

\* What the audit log says is true: a recorded deployment has a current revision, a
\* recorded user and configuration exist, and a recorded deletion took place, is about
\* to, was refused by the foreign key or lost with its process (hosts.py, deployments.py,
\* auth.py, audit_service.py record_event).
THEOREM AuditTells == Spec => []AuditIsTrue
<1>1. AuditInv => AuditIsTrue
  BY DEF AuditInv
<1> QED
  BY <1>1, AuditAlways, PTL

(***************************************************************************)
(* That every change is audited.  A creation is answered for by its event, *)
(* stored or pending, or by the process that still revises; an address     *)
(* that is no longer its host's by the event of the update or of the       *)
(* deletion, also while a process holds it.                                *)
(***************************************************************************)
Creating(d) == \E p \in Processes : proc[p].at \in {"revise", "point"} /\ proc[p].dep = d /\ proc[p].new

Explained(h) == Recorded(IF Present(h) THEN "host.update" ELSE "host.delete", h)

ChangesInv ==
  crashes = 0 =>
    /\ \A h \in Hosts : hosts[h] # "unused" => Recorded("host.create", h)
    /\ \A n \in Names \ {Root} : users[n] # "none" => Recorded("auth.user_create", n)
    /\ configs # <<>> => Recorded("monitoring.config_update", "default")
    /\ \A d \in Deployments : Exists(d) =>
         /\ Recorded("deployment.create", d) \/ Creating(d)
         /\ hosts[deps[d].host] # "unused"
         /\ deps[d].url # hosts[deps[d].host] => Explained(deps[d].host)
    /\ \A p \in Processes :
         /\ proc[p].at \in {"announce", "delete", "insert"} => hosts[proc[p].host] # "unused"
         /\ proc[p].at = "insert" /\ proc[p].ip # hosts[proc[p].host]
              => Explained(proc[p].host)
         /\ proc[p].at = "revise" /\ proc[p].ip # hosts[deps[proc[p].dep].host]
              => Explained(deps[proc[p].dep].host)

LEMMA AuditingIs ==
  ASSUME NEW e PROVE Auditing(e).at = "audit" /\ Auditing(e).event = e
BY DEF Auditing

LEMMA RecordedStays ==
  ASSUME TypeInv, NEW p \in Processes, Step(p), crashes' = 0, NEW kind, NEW x, Recorded(kind, x)
  PROVE  Recorded(kind, x)'
<1> DEFINE e == Ev(kind, x)
<1>0. crashes \in Nat
  BY Parameters DEF TypeInv, TypeOK
<1>1. CASE e \in events
  BY <1>1, EventsGrow DEF Recorded
<1>2. ASSUME NEW q \in Processes, proc[q] = Auditing(e) PROVE Recorded(kind, x)'
  <2>1. CASE q # p
    BY <1>2, <2>1, NewStages DEF Recorded
  <2>2. CASE q = p
    <3>1. proc[p].at = "audit" /\ proc[p].event = e
      BY <1>2, <2>2, AuditingIs
    <3>2. ~Crash(p)
      BY <1>0 DEF Crash
    <3>3. Audit(p)
      BY <3>1, <3>2 DEF Step, Ask, Commit, Boot, CreateUser, InsertUser, CreateHost, UpdateHost,
         WriteHost, DeleteHost, AnnounceDeletion, RemoveHost, CreateDeployment, InsertDeployment,
         Redeploy, Revise, Point, PutConfig, WriteConfig
    <3> QED
      BY <3>1, <3>3 DEF Audit, Recorded
  <2> QED
    BY <2>1, <2>2
<1> QED
  BY <1>1, <1>2 DEF Recorded

LEMMA Gone ==
  ASSUME proc \in [Processes -> Stage], NEW p \in Processes, NEW s, Goto(p, s)
  PROVE  proc'[p] = s
BY DEF Goto

\* What a step does to a host's row.
LEMMA HostMoves ==
  ASSUME TypeInv, NEW p \in Processes, Step(p), NEW h \in Hosts
  PROVE  \/ hosts'[h] = hosts[h]
         \/ hosts[h] = "unused" /\ proc'[p] = Auditing(Ev("host.create", h))
         \/ /\ Present(h) /\ Present(h)'
            /\ proc'[p] = Auditing(Ev("host.update", h))
         \/ /\ hosts'[h] = "gone"
            /\ proc[p].at = "delete" /\ proc[p].host = h
<1>0. /\ hosts \in [Hosts -> Addresses \cup {"unused", "gone"}]
      /\ proc \in [Processes -> Stage]
  BY DEF TypeInv, TypeOK
<1>1. CASE CreateHost(p)
  <2>1. PICK g \in Hosts, a \in Addresses : CreateHost(p)!(g, a)
    BY <1>1 DEF CreateHost
  <2>2. proc'[p] = Auditing(Ev("host.create", g))
    BY <1>0, <2>1, Gone DEF Ask
  <2> QED
    BY <1>0, <2>1, <2>2
<1>2. CASE WriteHost(p)
  <2>1. CASE ~Present(proc[p].host)
    BY <1>2, <2>1 DEF WriteHost
  <2>2. CASE Present(proc[p].host)
    <3>1. /\ Goto(p, Auditing(Ev("host.update", proc[p].host)))
          /\ hosts' = [hosts EXCEPT ![proc[p].host] = Flush(proc[p].seen, proc[p].ip, @)]
          /\ UNCHANGED deps
      BY <1>2, <2>2 DEF WriteHost, Commit, Updated
    <3>2. proc'[p] = Auditing(Ev("host.update", proc[p].host))
      BY <1>0, <3>1, Gone
    <3>3. /\ proc[p].host \in Hosts
          /\ Flush(proc[p].seen, proc[p].ip, hosts[proc[p].host]) \in Addresses
      BY <1>0, <1>2, <2>2, StageFields DEF WriteHost, Flush, Present
    <3> QED
      BY <1>0, <2>2, <3>1, <3>2, <3>3 DEF Present
  <2> QED
    BY <2>1, <2>2
<1>3. CASE RemoveHost(p)
  <2>1. CASE Restricted(proc[p].host) \/ h # proc[p].host
    BY <1>0, <1>3, <2>1 DEF RemoveHost
  <2>2. CASE ~Restricted(proc[p].host) /\ h = proc[p].host
    BY <1>0, <1>3, <2>2 DEF RemoveHost, Commit
  <2> QED
    BY <2>1, <2>2
<1>4. CASE ~CreateHost(p) /\ ~WriteHost(p) /\ ~RemoveHost(p)
  <2>1. UNCHANGED hosts
    BY <1>4 DEF Step, rows, Boot, CreateUser, InsertUser, UpdateHost, DeleteHost, AnnounceDeletion,
       CreateDeployment, InsertDeployment, Redeploy, Revise, Point, PutConfig, WriteConfig, Audit, Crash
  <2> QED
    BY <2>1
<1> QED
  BY <1>1, <1>2, <1>3, <1>4

\* What a step does to a deployment's row.
LEMMA RowMoves ==
  ASSUME TypeInv, NEW p \in Processes, Step(p), NEW d \in Deployments
  PROVE  \/ deps'[d].host = deps[d].host /\ deps'[d].url = deps[d].url
         \/ /\ proc[p].at = "insert" /\ ~Exists(d) /\ UNCHANGED hosts
            /\ deps'[d].host = proc[p].host /\ deps'[d].url = proc[p].ip
            /\ proc'[p] = [at |-> "revise", dep |-> d, ip |-> proc[p].ip, new |-> TRUE]
         \/ /\ proc[p].at = "revise" /\ proc[p].dep = d /\ UNCHANGED hosts
            /\ deps'[d].host = deps[d].host /\ deps'[d].url = proc[p].ip
<1>0. /\ deps \in [Deployments -> [host : Hosts \cup {None}, url : Addresses \cup {None},
                                   revs : Nat, version : Nat]]
      /\ proc \in [Processes -> Stage]
  BY DEF TypeInv, TypeOK
<1>1. CASE InsertDeployment(p)
  <2>1. CASE UNCHANGED deps
    BY <2>1
  <2>2. CASE ~UNCHANGED deps
    <3>1. PICK c \in Deployments :
            /\ proc[p].at = "insert" /\ ~Exists(c) /\ UNCHANGED hosts
            /\ Goto(p, [at |-> "revise", dep |-> c, ip |-> proc[p].ip, new |-> TRUE])
            /\ deps' = [deps EXCEPT ![c] = [host |-> proc[p].host, url |-> proc[p].ip,
                                            revs |-> 0, version |-> 0]]
      BY <1>1, <2>2 DEF InsertDeployment, Commit
    <3>2. proc'[p] = [at |-> "revise", dep |-> c, ip |-> proc[p].ip, new |-> TRUE]
      BY <1>0, <3>1, Gone
    <3> QED
      BY <1>0, <3>1, <3>2
  <2> QED
    BY <2>1, <2>2
<1>2. CASE Revise(p)
  BY <1>0, <1>2 DEF Revise
<1>3. CASE Point(p)
  BY <1>0, <1>3 DEF Point
<1>4. CASE ~InsertDeployment(p) /\ ~Revise(p) /\ ~Point(p)
  <2>1. UNCHANGED deps
    BY <1>4 DEF Step, rows, Boot, CreateUser, InsertUser, CreateHost, UpdateHost, WriteHost, DeleteHost,
       AnnounceDeletion, RemoveHost, CreateDeployment, Redeploy, PutConfig, WriteConfig, Audit, Crash
  <2> QED
    BY <2>1
<1> QED
  BY <1>1, <1>2, <1>3, <1>4

\* A creation in progress goes on, or ends by leaving its event to be recorded.
LEMMA CreatingStays ==
  ASSUME TypeInv, NEW p \in Processes, Step(p), crashes' = 0, NEW d \in Deployments, Creating(d)
  PROVE  (Creating(d) \/ Recorded("deployment.create", d))'
<1>0. proc \in [Processes -> Stage] /\ crashes \in Nat
  BY Parameters DEF TypeInv, TypeOK
<1>1. PICK q \in Processes : proc[q].at \in {"revise", "point"} /\ proc[q].dep = d /\ proc[q].new
  BY DEF Creating
<1>2. CASE q # p
  BY <1>1, <1>2, NewStages DEF Creating
<1>3. CASE q = p
  <2>1. ~Crash(p)
    BY <1>0 DEF Crash
  <2>2. CASE Revise(p)
    <3>1. proc'[p] = [at |-> "point", dep |-> d, rev |-> deps[d].revs + 1, new |-> proc[p].new]
      BY <1>0, <1>1, <1>3, <2>2, Gone DEF Revise, Commit
    <3> QED
      BY <1>1, <1>3, <3>1 DEF Creating
  <2>3. CASE Point(p)
    <3>1. proc'[p] = Auditing(Ev("deployment.create", d))
      BY <1>0, <1>1, <1>3, <2>3, Gone DEF Point, Commit
    <3> QED
      BY <3>1 DEF Recorded
  <2>4. Revise(p) \/ Point(p)
    BY <1>1, <1>3, <2>1 DEF Step, Ask, Commit, Boot, CreateUser, InsertUser, CreateHost, UpdateHost,
       WriteHost, DeleteHost, AnnounceDeletion, RemoveHost, CreateDeployment, InsertDeployment,
       Redeploy, PutConfig, WriteConfig, Audit
  <2> QED
    BY <2>2, <2>3, <2>4
<1> QED
  BY <1>2, <1>3

\* Where a process enters a stage that ChangesInv speaks of, or none.
Enters(p, s) ==
  /\ s.at = "announce" => hosts'[s.host] \in Addresses
  /\ s.at = "delete" => proc[p].at = "announce" /\ s.host = proc[p].host /\ UNCHANGED hosts
  /\ s.at = "insert" => hosts'[s.host] \in Addresses /\ s.ip = hosts'[s.host]
  /\ s.at = "revise" =>
       \/ s.ip = hosts'[deps'[s.dep].host]
       \/ /\ proc[p].at = "insert" /\ UNCHANGED hosts
          /\ s.ip = proc[p].ip /\ deps'[s.dep].host = proc[p].host

LEMMA Entries ==
  ASSUME TypeInv, NEW p \in Processes, Step(p)
  PROVE  \E s : Goto(p, s) /\ Enters(p, s)
<1> USE DEF Enters
<1>0. deps \in [Deployments -> [host : Hosts \cup {None}, url : Addresses \cup {None},
                                revs : Nat, version : Nat]]
  BY DEF TypeInv, TypeOK
<1>1. CASE Boot(p)
  <2> DEFINE s == IF users[Root] = "none" THEN NewUser(Root, "admin", TRUE) ELSE Idle
  <2>1. Goto(p, s)
    BY <1>1 DEF Boot, Commit
  <2>2. Enters(p, s)
    BY DEF NewUser, Idle
  <2> HIDE DEF s, Enters
  <2> QED
    BY <2>1, <2>2
<1>2. CASE CreateUser(p)
  <2>1. PICK n \in Names, role \in Roles : CreateUser(p)!(n, role)
    BY <1>2 DEF CreateUser
  <2> DEFINE s == IF users[n] = "none" THEN NewUser(n, role, FALSE)
                  ELSE Auditing(Ev("auth.user_create", n))
  <2>2. Goto(p, s)
    BY <2>1 DEF Ask
  <2>3. Enters(p, s)
    BY DEF NewUser, Auditing
  <2> HIDE DEF s, Enters
  <2> QED
    BY <2>2, <2>3
<1>3. CASE InsertUser(p)
  <2>1. \/ Goto(p, UserAdded(proc[p])) \/ Goto(p, Down) \/ Goto(p, Idle)
    BY <1>3 DEF InsertUser, Commit
  <2>2. Enters(p, UserAdded(proc[p])) /\ Enters(p, Down) /\ Enters(p, Idle)
    BY DEF UserAdded, Auditing, Idle, Down
  <2> QED
    BY <2>1, <2>2
<1>4. CASE CreateHost(p)
  <2>1. PICK h \in Hosts, a \in Addresses : CreateHost(p)!(h, a)
    BY <1>4 DEF CreateHost
  <2>2. Goto(p, Auditing(Ev("host.create", h))) /\ Enters(p, Auditing(Ev("host.create", h)))
    BY <2>1 DEF Ask, Auditing
  <2> QED
    BY <2>2
<1>5. CASE UpdateHost(p)
  BY <1>5 DEF UpdateHost, Ask
<1>6. CASE WriteHost(p)
  <2>1. Goto(p, Idle) \/ Goto(p, Updated(proc[p].host))
    BY <1>6 DEF WriteHost, Commit
  <2>2. Enters(p, Idle) /\ Enters(p, Updated(proc[p].host))
    BY DEF Updated, Auditing, Idle
  <2> QED
    BY <2>1, <2>2
<1>7. CASE DeleteHost(p)
  <2>1. PICK h \in Hosts : DeleteHost(p)!(h)
    BY <1>7 DEF DeleteHost
  <2>2. Goto(p, [at |-> "announce", host |-> h]) /\ hosts'[h] \in Addresses
    BY <2>1 DEF Ask, rows, Present
  <2> QED
    BY <2>2
<1>8. CASE AnnounceDeletion(p)
  BY <1>8 DEF AnnounceDeletion, Commit
<1>9. CASE RemoveHost(p)
  BY <1>9 DEF RemoveHost, Commit, Idle
<1>10. CASE CreateDeployment(p)
  <2>1. PICK h \in Hosts : CreateDeployment(p)!(h)
    BY <1>10 DEF CreateDeployment
  <2>2. /\ Goto(p, [at |-> "insert", host |-> h, ip |-> hosts[h]])
        /\ hosts' = hosts /\ hosts[h] \in Addresses
    BY <2>1 DEF Ask, rows, Present
  <2> QED
    BY <2>2
<1>11. CASE InsertDeployment(p)
  <2>1. CASE Goto(p, Idle)
    BY <2>1 DEF Idle
  <2>2. CASE ~Goto(p, Idle)
    <3>1. PICK d \in Deployments :
            /\ proc[p].at = "insert" /\ UNCHANGED hosts
            /\ Goto(p, [at |-> "revise", dep |-> d, ip |-> proc[p].ip, new |-> TRUE])
            /\ deps' = [deps EXCEPT ![d] = [host |-> proc[p].host, url |-> proc[p].ip,
                                            revs |-> 0, version |-> 0]]
      BY <1>11, <2>2 DEF InsertDeployment, Commit
    <3>2. deps'[d].host = proc[p].host
      BY <1>0, <3>1
    <3> QED
      BY <3>1, <3>2
  <2> QED
    BY <2>1, <2>2
<1>12. CASE Redeploy(p)
  <2>1. PICK d \in Deployments : Redeploy(p)!(d)
    BY <1>12 DEF Redeploy
  <2>2. /\ Goto(p, [at |-> "revise", dep |-> d, ip |-> hosts[deps[d].host], new |-> FALSE])
        /\ hosts' = hosts /\ deps' = deps
    BY <2>1 DEF Ask, rows
  <2> QED
    BY <2>2
<1>13. CASE Revise(p)
  <2> DEFINE s == [at |-> "point", dep |-> proc[p].dep, rev |-> deps[proc[p].dep].revs + 1,
                   new |-> proc[p].new]
  <2>1. Goto(p, s)
    BY <1>13 DEF Revise, Commit
  <2>2. Enters(p, s)
    OBVIOUS
  <2> HIDE DEF s, Enters
  <2> QED
    BY <2>1, <2>2
<1>14. CASE Point(p)
  <2> DEFINE s == IF proc[p].new THEN Auditing(Ev("deployment.create", proc[p].dep)) ELSE Idle
  <2>1. Goto(p, s)
    BY <1>14 DEF Point, Commit
  <2>2. Enters(p, s)
    BY DEF Auditing, Idle
  <2> QED
    BY <2>1, <2>2
<1>15. CASE PutConfig(p)
  BY <1>15 DEF PutConfig, Ask
<1>16. CASE WriteConfig(p)
  BY <1>16 DEF WriteConfig, Commit, Auditing
<1>17. CASE Audit(p)
  BY <1>17 DEF Audit, Commit, Idle
<1>18. CASE Crash(p)
  BY <1>18 DEF Crash, Down
<1> QED
  BY <1>1, <1>2, <1>3, <1>4, <1>5, <1>6, <1>7, <1>8, <1>9, <1>10, <1>11, <1>12, <1>13,
     <1>14, <1>15, <1>16, <1>17, <1>18 DEF Step

LEMMA StageEntries ==
  ASSUME TypeInv, NEW p \in Processes, Step(p), NEW q \in Processes
  PROVE  proc'[q] = proc[q] \/ (q = p /\ Enters(p, proc'[q]))
<1>1. PICK s : Goto(p, s) /\ Enters(p, s)
  BY Entries
<1>2. proc \in [Processes -> Stage]
  BY DEF TypeInv, TypeOK
<1>3. CASE q = p
  <2>1. proc'[q] = s
    BY <1>1, <1>2, <1>3 DEF Goto
  <2> QED
    BY <1>1, <1>3, <2>1
<1>4. CASE q # p
  BY <1>1, <1>2, <1>4 DEF Goto
<1> QED
  BY <1>3, <1>4

\* A row of users that appears leaves its event to be recorded, but the administrator's.
LEMMA UserAudited ==
  ASSUME TypeInv, AdminInv, NEW p \in Processes, Step(p), NEW n \in Names \ {Root},
         users[n] = "none", users'[n] # "none"
  PROVE  proc'[p] = Auditing(Ev("auth.user_create", n))
<1>0. proc \in [Processes -> Stage] /\ users \in [Names -> Roles \cup {"none"}]
  BY DEF TypeInv, TypeOK
<1>1. InsertUser(p)
  BY DEF Step, rows, Boot, CreateUser, CreateHost, UpdateHost, WriteHost, DeleteHost,
     AnnounceDeletion, RemoveHost, CreateDeployment, InsertDeployment, Redeploy, Revise, Point,
     PutConfig, WriteConfig, Audit, Crash
<1>2. /\ proc[p].at = "user" /\ Goto(p, UserAdded(proc[p]))
      /\ users' = [users EXCEPT ![proc[p].name] = proc[p].role]
  BY <1>1 DEF InsertUser, Commit
<1>3. proc[p].name = n
  BY <1>0, <1>2
<1>4. ~proc[p].boot
  BY <1>2, <1>3 DEF AdminInv
<1>5. UserAdded(proc[p]) = Auditing(Ev("auth.user_create", n))
  BY <1>3, <1>4 DEF UserAdded
<1> QED
  BY <1>0, <1>2, <1>5, Gone

\* Without a crash every row has the event of its creation, stored or pending, and
\* so has the update or the deletion that explains a deployment whose URLs are not at
\* its host's address (hosts.py, deployments.py, auth.py, monitoring.py).
THEOREM ChangesAudited == Spec => []ChangesAreAudited
<1>1. Init => ChangesInv
  BY Parameters DEF Init, ChangesInv, Exists, Down
<1>2. TypeInv /\ AdminInv /\ AuditInv /\ DeletionsAreAudited' /\ ChangesInv /\ [Next]_vars => ChangesInv'
  <2> SUFFICES ASSUME TypeInv, AdminInv, AuditInv, DeletionsAreAudited', ChangesInv, [Next]_vars
               PROVE  ChangesInv'
    OBVIOUS
  <2>1. CASE UNCHANGED vars
    BY <2>1 DEF vars, rows, ChangesInv, Exists, Present, Recorded, Explained, Creating
  <2>2. ASSUME NEW p \in Processes, Step(p), crashes' = 0 PROVE ChangesInv'
    <3>0. /\ hosts \in [Hosts -> Addresses \cup {"unused", "gone"}]
          /\ deps \in [Deployments -> [host : Hosts \cup {None}, url : Addresses \cup {None},
                                       revs : Nat, version : Nat]]
          /\ proc \in [Processes -> Stage] /\ crashes \in Nat
          /\ None \notin Hosts /\ "unused" \notin Addresses /\ "gone" \notin Addresses
      BY Parameters DEF TypeInv, TypeOK
    <3>1. crashes = 0
      BY <2>2, <3>0, CrashesGrow
    <3>2. ASSUME NEW kind, NEW x, Recorded(kind, x) PROVE Recorded(kind, x)'
      BY <2>2, <3>2, RecordedStays
    <3>3. ASSUME NEW h \in Hosts, hosts[h] # "unused" PROVE hosts'[h] # "unused"
      BY <2>2, <3>0, <3>3, HostMoves DEF Present
    <3>4. ASSUME NEW h \in Hosts, hosts'[h] # "unused" PROVE Recorded("host.create", h)'
      <4>1. CASE proc'[p] = Auditing(Ev("host.create", h))
        BY <4>1 DEF Recorded
      <4>2. CASE hosts[h] # "unused"
        BY <3>1, <3>2, <4>2 DEF ChangesInv
      <4>3. CASE proc[p].at = "delete" /\ proc[p].host = h
        BY <3>1, <3>2, <4>3 DEF ChangesInv
      <4> QED
        BY <2>2, <3>0, <3>4, <4>1, <4>2, <4>3, HostMoves DEF Present
    <3>5. ASSUME NEW n \in Names \ {Root}, users'[n] # "none" PROVE Recorded("auth.user_create", n)'
      <4>1. CASE users[n] # "none"
        BY <3>1, <3>2, <4>1 DEF ChangesInv
      <4>2. CASE users[n] = "none"
        <5>1. proc'[p] = Auditing(Ev("auth.user_create", n))
          BY <2>2, <3>5, <4>2, UserAudited
        <5> QED
          BY <5>1 DEF Recorded
      <4> QED
        BY <4>1, <4>2
    <3>6. ASSUME NEW d \in Deployments, Exists(d)'
          PROVE  (Recorded("deployment.create", d) \/ Creating(d))'
      <4>1. CASE Exists(d)
        <5>1. Recorded("deployment.create", d) \/ Creating(d)
          BY <3>1, <4>1 DEF ChangesInv
        <5> QED
          BY <2>2, <3>2, <5>1, CreatingStays
      <4>2. CASE ~Exists(d)
        <5>1. deps'[d].host # deps[d].host
          BY <3>6, <4>2 DEF Exists
        <5>2. proc'[p] = [at |-> "revise", dep |-> d, ip |-> proc[p].ip, new |-> TRUE]
          BY <2>2, <5>1, RowMoves
        <5> QED
          BY <5>2 DEF Creating
      <4> QED
        BY <4>1, <4>2
    \* An address that a host had differs from its new one.
    <3>7. ASSUME NEW g \in Hosts, NEW a, hosts[g] # "unused", a # hosts'[g],
                 a # hosts[g] => Explained(g)
          PROVE  Explained(g)'
      <4>1. CASE hosts'[g] = hosts[g]
        <5>1. Explained(g) /\ Present(g)' = Present(g)
          BY <3>7, <4>1 DEF Present
        <5> QED
          BY <3>2, <5>1 DEF Explained
      <4>2. CASE Present(g)' /\ proc'[p] = Auditing(Ev("host.update", g))
        BY <4>2 DEF Explained, Recorded
      <4>3. CASE hosts'[g] = "gone"
        <5>1. Ev("host.delete", g) \in events' /\ ~Present(g)'
          BY <3>0, <4>3 DEF DeletionsAreAudited, Present
        <5> QED
          BY <5>1 DEF Explained, Recorded
      <4> QED
        BY <2>2, <3>7, <4>1, <4>2, <4>3, HostMoves
    <3>8. ASSUME NEW d \in Deployments, NEW g \in Hosts, deps'[d].host = g
          PROVE  /\ hosts'[g] # "unused"
                 /\ deps'[d].url # hosts'[g] => Explained(g)'
      <4>1. CASE deps'[d].host = deps[d].host /\ deps'[d].url = deps[d].url
        <5>1. Exists(d)
          BY <3>0, <3>8, <4>1 DEF Exists
        <5>2. hosts[g] # "unused" /\ (deps[d].url # hosts[g] => Explained(g))
          BY <3>1, <3>8, <4>1, <5>1 DEF ChangesInv
        <5> QED
          BY <3>3, <3>7, <4>1, <5>2
      <4>2. CASE /\ proc[p].at = "insert" /\ UNCHANGED hosts
                 /\ deps'[d].host = proc[p].host /\ deps'[d].url = proc[p].ip
        <5>1. hosts[g] # "unused" /\ (proc[p].ip # hosts[g] => Explained(g))
          BY <3>1, <3>8, <4>2 DEF ChangesInv
        <5> QED
          BY <3>7, <4>2, <5>1
      <4>3. CASE /\ proc[p].at = "revise" /\ proc[p].dep = d /\ UNCHANGED hosts
                 /\ deps'[d].host = deps[d].host /\ deps'[d].url = proc[p].ip
        <5>1. Exists(d)
          BY <3>0, <3>8, <4>3 DEF Exists
        <5>2. hosts[g] # "unused" /\ (proc[p].ip # hosts[g] => Explained(g))
          BY <3>1, <3>8, <4>3, <5>1 DEF ChangesInv
        <5> QED
          BY <3>7, <4>3, <5>2
      <4> QED
        BY <2>2, <4>1, <4>2, <4>3, RowMoves
    <3>9. ASSUME NEW q \in Processes, proc'[q].at \in {"announce", "delete", "insert"}
          PROVE  hosts'[proc'[q].host] # "unused"
      <4>1. CASE proc'[q] = proc[q]
        <5>1. proc[q].host \in Hosts /\ hosts[proc[q].host] # "unused"
          BY <3>0, <3>1, <3>9, <4>1, StageFields DEF ChangesInv
        <5> QED
          BY <3>3, <4>1, <5>1
      <4>2. CASE q = p /\ Enters(p, proc'[q])
        BY <3>0, <3>1, <3>9, <4>2 DEF Enters, ChangesInv
      <4> QED
        BY <2>2, <4>1, <4>2, StageEntries
    <3>10. ASSUME NEW q \in Processes, NEW g \in Hosts, proc'[q].at = "insert", proc'[q].host = g,
                  proc'[q].ip # hosts'[g]
           PROVE  Explained(g)'
      <4>1. CASE proc'[q] = proc[q]
        <5>1. hosts[g] # "unused" /\ (proc[q].ip # hosts[g] => Explained(g))
          BY <3>1, <3>10, <4>1 DEF ChangesInv
        <5> QED
          BY <3>7, <3>10, <4>1, <5>1
      <4>2. CASE q = p /\ Enters(p, proc'[q])
        BY <3>10, <4>2 DEF Enters
      <4> QED
        BY <2>2, <4>1, <4>2, StageEntries
    <3>11. ASSUME NEW q \in Processes, NEW g \in Hosts, proc'[q].at = "revise",
                  deps'[proc'[q].dep].host = g, proc'[q].ip # hosts'[g]
           PROVE  Explained(g)'
      <4>1. CASE proc'[q] = proc[q]
        <5>1. proc[q].dep \in Deployments /\ Exists(proc[q].dep)
          BY <3>0, <3>11, <4>1, StageFields DEF AuditInv, PendingIsTrue
        <5>2. deps[proc[q].dep].host = g
          BY <2>2, <3>11, <4>1, <5>1, DepsMove
        <5>3. hosts[g] # "unused" /\ (proc[q].ip # hosts[g] => Explained(g))
          BY <3>1, <3>11, <4>1, <5>1, <5>2 DEF ChangesInv
        <5> QED
          BY <3>7, <3>11, <4>1, <5>3
      <4>2. CASE q = p /\ Enters(p, proc'[q])
        <5>1. /\ proc[p].at = "insert" /\ UNCHANGED hosts
              /\ proc'[q].ip = proc[p].ip /\ g = proc[p].host
          BY <3>11, <4>2 DEF Enters
        <5>2. hosts[g] # "unused" /\ Explained(g)
          BY <3>1, <3>11, <5>1 DEF ChangesInv
        <5> QED
          BY <3>7, <3>11, <5>1, <5>2
      <4> QED
        BY <2>2, <4>1, <4>2, StageEntries
    <3>12. /\ deps' \in [Deployments -> [host : Hosts \cup {None}, url : Addresses \cup {None},
                                         revs : Nat, version : Nat]]
           /\ proc' \in [Processes -> Stage]
      BY <2>2, TypeStep DEF Next, TypeInv, TypeOK
    <3>13. \A h \in Hosts : hosts'[h] # "unused" => Recorded("host.create", h)'
      BY <3>4
    <3>14. \A n \in Names \ {Root} : users'[n] # "none" => Recorded("auth.user_create", n)'
      BY <3>5
    <3>15. ASSUME configs' # <<>> PROVE Recorded("monitoring.config_update", "default")'
      <4>1. CASE configs' = configs
        BY <3>1, <3>2, <3>15, <4>1 DEF ChangesInv
      <4>2. CASE proc'[p] = Auditing(Ev("monitoring.config_update", "default"))
        BY <4>2 DEF Recorded
      <4> QED
        BY <2>2, <4>1, <4>2, ConfigsMove
    <3>16. ASSUME NEW d \in Deployments, Exists(d)'
           PROVE  /\ (Recorded("deployment.create", d) \/ Creating(d))'
                  /\ hosts'[deps'[d].host] # "unused"
                  /\ (deps[d].url # hosts[deps[d].host] => Explained(deps[d].host))'
      <4>1. deps'[d].host \in Hosts
        BY <3>12, <3>16 DEF Exists
      <4> QED
        BY <3>6, <3>8, <3>16, <4>1 DEF Explained, Recorded, Present
    <3>17. ASSUME NEW q \in Processes
           PROVE  /\ proc'[q].at \in {"announce", "delete", "insert"} => hosts'[proc'[q].host] # "unused"
                  /\ (proc[q].at = "insert" /\ proc[q].ip # hosts[proc[q].host]
                        => Explained(proc[q].host))'
                  /\ (proc[q].at = "revise" /\ proc[q].ip # hosts[deps[proc[q].dep].host]
                        => Explained(deps[proc[q].dep].host))'
      <4>1. proc'[q].at = "insert" => proc'[q].host \in Hosts
        BY <3>12, StageFields
      <4>2. ASSUME proc'[q].at = "revise" PROVE deps'[proc'[q].dep].host \in Hosts
        <5>1. proc'[q].dep \in Deployments
          BY <3>12, <4>2, StageFields
        <5>2. deps'[proc'[q].dep].host # None
          BY <2>2, <3>0, <4>2, <5>1, PendingStays DEF AuditInv, PendingIsTrue, Exists
        <5> QED
          BY <3>12, <5>1, <5>2
      <4> QED
        BY <3>9, <3>10, <3>11, <4>1, <4>2 DEF Explained, Recorded, Present
    <3> QED
      BY <3>13, <3>14, <3>15, <3>16, <3>17 DEF ChangesInv
  <2>3. CASE crashes' # 0
    BY <2>3 DEF ChangesInv
  <2> QED
    BY <2>1, <2>2, <2>3 DEF Next
<1>3. ChangesInv => ChangesAreAudited
  BY DEF ChangesInv, ChangesAreAudited, Creating, Explained, Revising
<1> QED
  BY <1>1, <1>2, <1>3, TypesAlways, AdminAlways, AuditAlways, DeletionsAudited, PTL DEF Spec
================================================================================
