--------------------------- MODULE HealthCheck_proofs ---------------------------
(***************************************************************************)
(* Proofs about HealthCheck: its types, that the stored health belongs to  *)
(* the configuration in the row, that the dashboard agrees with it, that   *)
(* an OK leaves out no layer, and that the layered call implements         *)
(* HealthProbe.                                                            *)
(***************************************************************************)
EXTENDS HealthCheck, SequenceTheorems, TLAPS

Statuses == {"draft", "busy"} \cup Redeployable
Results == Verdicts \cup {"SKIPPED"}
HealthRows == [verdict : Verdicts \cup {"none"},
               metrics : {"OK", "WARN", "SKIPPED", "none"},
               of : Configs \cup {NoConfig}]
Rows == [status : Statuses, config : Configs, health : HealthRows]
Checks == [at : {"idle", "commands", "layers", "server_info", "told", "recorded"},
           redeploy : BOOLEAN, config : Configs \cup {NoConfig}, url : BOOLEAN,
           old : Redeployable, layers : Seq(Results)]

\* Layers are collected in order, the call ends with the last one or without a host,
\* and each layer gives only the results that it can give.
LayersInOrder ==
  LET n == Len(check.layers) IN
  /\ check.at \in {"idle", "commands"} => check.layers = <<>>
  /\ check.at \in {"layers", "server_info"} => n < 8
  /\ check.at = "server_info" => n = 5
  /\ check.at \in {"told", "recorded"} => n = 8 \/ (n = 1 /\ check.layers[1] = "ERROR")
  /\ n <= 8
  /\ n >= 5 => check.layers[5] \in {"OK", "ERROR"}
  /\ n = 8 => check.layers[8] \in {"OK", "WARN", "SKIPPED"}

\* A job works on a busy row and, unless it redeploys, checks the configuration in it.
JobOnRow ==
  check.at # "idle" =>
    /\ row.status = "busy" /\ check.config \in Configs
    /\ ~check.redeploy \/ check.at = "recorded" => check.config = row.config

TypeInv == /\ row \in Rows /\ check \in Checks /\ box \in Container \cup {NoContainer}
           /\ LayersInOrder /\ JobOnRow

\* What a layer reports.
LEMMA LayerIsKnown ==
  ASSUME NEW n \in 0..7
  PROVE  /\ Layers[n + 1] = "host_reachable" <=> n = 0
         /\ Layers[n + 1] = "http_health" <=> n = 4
         /\ Layers[n + 1] = "model_or_server_info" <=> n = 5
         /\ Layers[n + 1] = "metrics" <=> n = 7
<1>1. \/ n = 0 \/ n = 1 \/ n = 2 \/ n = 3 \/ n = 4 \/ n = 5 \/ n = 6 \/ n = 7
  OBVIOUS
<1> QED
  BY <1>1 DEF Layers

LEMMA Below8 ==
  \A n \in Nat : /\ n < 8 <=> n \in 0..7
                 /\ n + 1 >= 5 <=> n = 4 \/ n >= 5
                 /\ n + 1 = 8 <=> n = 7
                 /\ n < 8 => n + 1 <= 8
                 /\ n < 8 /\ n # 7 => n + 1 < 8
OBVIOUS

LEMMA LengthOfLayers == Len(Layers) = 8
BY DEF Layers

\* Commands, carried out or interrupted, leave a container or none.
LEMMA ContainerTyped ==
  ASSUME NEW b \in Container \cup {NoContainer}, NEW cmd \in Commands, NEW c \in Configs
  PROVE  Interrupted(cmd, c, b) \subseteq Container \cup {NoContainer}
<1>1. NoContainer = [state |-> "absent", config |-> NoConfig]
  BY DEF NoContainer
<1>2. /\ [state |-> "idle", config |-> c] \in Container
      /\ [state |-> "exited", config |-> c] \in Container
  BY DEF Container, Running
<1>3. \A s \in {"exited", "idle", "loading", "serving"} :
        b \in Container => To(b, s) \in Container
  BY DEF Container, Running, To
<1>4. b \in Container => IF b.state = "idle" THEN TRUE
                         ELSE b.state \in {"exited", "loading", "serving"}
  BY DEF Container, Running
<1>5. [state : Running, config : Configs] \subseteq Container
  BY DEF Container, Running
<1>6. Applied(cmd, c, b) \subseteq Container \cup {NoContainer}
  <2>1. CASE cmd \in {"pull", "inspect", "port_check", "rm", "run"}
    BY <2>1, <1>2 DEF Applied
  <2>2. CASE cmd = "exec"
    BY <2>2, <1>3, <1>4, <1>5 DEF Applied
  <2>3. CASE cmd \in {"stop", "restart"}
    BY <2>3, <1>3 DEF Applied
  <2>4. CASE cmd = "start"
    BY <2>4, <1>3, <1>4 DEF Applied
  <2> QED
    BY <2>1, <2>2, <2>3, <2>4 DEF Commands
<1> QED
  BY <1>2, <1>6 DEF Interrupted

LEMMA TypeInit == Init => TypeInv
<1> SUFFICES ASSUME Init PROVE TypeInv
  OBVIOUS
<1>1. <<>> \in Seq(Results) /\ Len(<<>>) = 0
  BY EmptySeq
<1>2. NoHealth \in HealthRows
  BY DEF NoHealth, HealthRows
<1>3. row \in Rows
  BY <1>2 DEF Init, Rows, Statuses
<1>4. check \in Checks
  BY <1>1 DEF Init, IdleCheck, Checks, Redeployable
<1>5. LayersInOrder /\ JobOnRow
  BY <1>1 DEF Init, IdleCheck, LayersInOrder, JobOnRow
<1> QED
  BY <1>3, <1>4, <1>5 DEF Init, TypeInv

\* What asking for a layer does.
LEMMA CollectShape ==
  ASSUME TypeInv, Pass \/ LayerFails \/ Skip
  PROVE  /\ UNCHANGED <<box, row>> /\ check \in Checks
         /\ check.at \in {"layers", "server_info"} /\ Len(check.layers) \in 0..7
         /\ \/ /\ check' = [check EXCEPT !.at = "server_info"]
               /\ Len(check.layers) = 5
            \/ \E s \in Results, at \in {"layers", "told"} :
                 /\ check' = [check EXCEPT !.layers = Append(@, s), !.at = at]
                 /\ at = "told" => \/ Len(check.layers) = 7
                                   \/ Len(check.layers) = 0 /\ s = "ERROR"
                 /\ Len(check.layers) = 7 => at = "told" /\ s \in {"OK", "WARN", "SKIPPED"}
                 /\ Len(check.layers) = 4 => s \in {"OK", "ERROR"} /\ (s = "OK" => Serving)
<1> DEFINE n == Len(check.layers)
<1>1. /\ UNCHANGED <<box, row>> /\ check \in Checks
      /\ check.at \in {"layers", "server_info"} /\ n \in 0..7
  <2>1. check \in Checks /\ check.at \in {"layers", "server_info"}
    BY DEF TypeInv, Pass, LayerFails, Skip
  <2>2. n \in Nat /\ n < 8
    BY <2>1, LenProperties DEF TypeInv, LayersInOrder, Checks
  <2>3. UNCHANGED <<box, row>>
    BY DEF Pass, LayerFails, Skip
  <2>4. n \in 0..7
    BY <2>2, Below8
  <2> QED
    BY <2>1, <2>3, <2>4
<1>2. /\ Layer = "host_reachable" <=> n = 0
      /\ Layer = "http_health" <=> n = 4
      /\ Layer = "model_or_server_info" <=> n = 5
      /\ Layer = "metrics" <=> n = 7
  BY <1>1, LayerIsKnown DEF Layer
<1>3. ASSUME NEW s \in Results, Collect(s),
             n = 7 => s \in {"OK", "WARN", "SKIPPED"},
             n = 4 => s \in {"OK", "ERROR"} /\ (s = "OK" => Serving)
      PROVE  \E t \in Results, at \in {"layers", "told"} :
                 /\ check' = [check EXCEPT !.layers = Append(@, t), !.at = at]
                 /\ at = "told" => n = 7 \/ (n = 0 /\ t = "ERROR")
                 /\ n = 7 => at = "told" /\ t \in {"OK", "WARN", "SKIPPED"}
                 /\ n = 4 => t \in {"OK", "ERROR"} /\ (t = "OK" => Serving)
  <2> DEFINE at == IF \/ Layer = "host_reachable" /\ s = "ERROR"
                      \/ Layer = "metrics"
                   THEN "told" ELSE "layers"
  <2>1. check' = [check EXCEPT !.layers = Append(@, s), !.at = at]
    BY <1>3 DEF Collect
  <2>2. /\ at \in {"layers", "told"}
        /\ at = "told" => n = 7 \/ (n = 0 /\ s = "ERROR")
        /\ n = 7 => at = "told"
    BY <1>2
  <2> QED
    BY <1>3, <2>1, <2>2
<1>4. CASE Pass
  <2>1. Collect("OK") /\ (n = 4 => Serving)
    BY <1>2, <1>4 DEF Pass, CanPass, Serving
  <2> QED
    BY <1>1, <1>3, <2>1 DEF Results, Verdicts
<1>5. CASE LayerFails
  <2>1. CASE Layer = "model_or_server_info" /\ check.at = "layers"
    BY <1>1, <1>2, <1>5, <2>1 DEF LayerFails
  <2>2. CASE ~(Layer = "model_or_server_info" /\ check.at = "layers")
    <3>1. /\ Collect(Trouble(Layer)) /\ Trouble(Layer) \in {"WARN", "ERROR"}
          /\ n = 4 => Trouble(Layer) = "ERROR"
          /\ n = 7 => Trouble(Layer) = "WARN"
      BY <1>2, <1>5, <2>2 DEF LayerFails, Trouble
    <3> QED
      BY <1>1, <1>3, <3>1 DEF Results, Verdicts
  <2> QED
    BY <2>1, <2>2
<1>6. CASE Skip
  <2>1. Collect("SKIPPED") /\ n = 7
    BY <1>2, <1>6 DEF Skip
  <2> HIDE DEF n
  <2>2. n # 4 /\ "SKIPPED" \in Results
    BY <2>1 DEF Results
  <2>3. \E t \in Results, at \in {"layers", "told"} :
                 /\ check' = [check EXCEPT !.layers = Append(@, t), !.at = at]
                 /\ at = "told" => n = 7 \/ (n = 0 /\ t = "ERROR")
                 /\ n = 7 => at = "told" /\ t \in {"OK", "WARN", "SKIPPED"}
                 /\ n = 4 => t \in {"OK", "ERROR"} /\ (t = "OK" => Serving)
    BY <1>3, <2>1, <2>2
  <2> USE DEF n
  <2> QED
    BY <1>1, <2>3
<1> QED
  BY <1>4, <1>5, <1>6

\* Adding a layer keeps the order.
LEMMA TypeCollect ==
  ASSUME TypeInv, Pass \/ LayerFails \/ Skip
  PROVE  TypeInv'
<1> DEFINE n == Len(check.layers)
<1>1. /\ UNCHANGED <<box, row>> /\ check \in Checks
      /\ check.at \in {"layers", "server_info"} /\ n \in 0..7
      /\ LayersInOrder /\ JobOnRow
  BY CollectShape DEF TypeInv
<1>2. CASE check' = [check EXCEPT !.at = "server_info"] /\ n = 5
  <2>1. /\ check' \in Checks /\ check'.at = "server_info" /\ check'.layers = check.layers
        /\ check'.config = check.config /\ check'.redeploy = check.redeploy
    BY <1>1, <1>2 DEF Checks
  <2>2. JobOnRow'
    BY <1>1, <2>1 DEF JobOnRow
  <2>3. LayersInOrder'
    BY <1>1, <1>2, <2>1 DEF LayersInOrder
  <2> QED
    BY <1>1, <2>1, <2>2, <2>3 DEF TypeInv
<1>3. ASSUME NEW s \in Results, NEW at \in {"layers", "told"},
             check' = [check EXCEPT !.layers = Append(@, s), !.at = at],
             at = "told" => n = 7 \/ (n = 0 /\ s = "ERROR"),
             n = 7 => at = "told" /\ s \in {"OK", "WARN", "SKIPPED"},
             n = 4 => s \in {"OK", "ERROR"}
      PROVE  TypeInv'
  <2> DEFINE old == check.layers
             new == Append(old, s)
  <2>1. /\ old \in Seq(Results) /\ new \in Seq(Results) /\ Len(new) = n + 1
        /\ new[n + 1] = s /\ \A i \in 1..n : new[i] = old[i]
    <3>1. old \in Seq(Results)
      BY <1>1 DEF Checks
    <3> QED
      BY <3>1, AppendProperties
  <2> HIDE DEF new
  <2>2. check' = [check EXCEPT !.layers = new, !.at = at]
    BY <1>3 DEF new
  <2>3. /\ check' \in Checks /\ check'.at = at /\ check'.layers = new
        /\ check'.config = check.config /\ check'.redeploy = check.redeploy
    BY <1>1, <2>1, <2>2 DEF Checks
  <2>4. JobOnRow'
    BY <1>1, <2>3 DEF JobOnRow
  <2>5. /\ n + 1 <= 8 /\ (at = "layers" => n + 1 < 8)
        /\ at = "told" => n + 1 = 8 \/ (n + 1 = 1 /\ new[1] = "ERROR")
    <3>1. n + 1 <= 8 /\ (n # 7 => n + 1 < 8)
      <4>1. n \in Nat /\ n \in 0..7
        BY <1>1
      <4> QED
        BY <4>1, Below8
    <3>2. n = 0 => new[1] = s
      BY <1>1, <2>1
    <3> HIDE DEF n
    <3> QED
      BY <1>3, <3>1, <3>2
  <2>6. n + 1 >= 5 => new[5] \in {"OK", "ERROR"}
    <3>1. CASE n = 4
      BY <1>3, <2>1, <3>1
    <3>2. CASE n >= 5
      BY <1>1, <2>1, <3>2 DEF LayersInOrder
    <3>3. n \in Nat
      BY <1>1
    <3> QED
      BY <3>1, <3>2, <3>3, Below8
  <2>7. n + 1 = 8 => new[8] \in {"OK", "WARN", "SKIPPED"}
    <3>1. n \in Nat
      BY <1>1
    <3>2. n = 7 => new[8] = s
      BY <2>1
    <3> QED
      BY <1>3, <3>1, <3>2, Below8
  <2>8. LayersInOrder'
    BY <1>1, <2>1, <2>3, <2>5, <2>6, <2>7 DEF LayersInOrder
  <2> QED
    BY <1>1, <2>3, <2>4, <2>8 DEF TypeInv
<1> QED
  BY <1>2, <1>3, CollectShape

LEMMA VerdictTyped ==
  \A layers : Aggregate(layers) \in Verdicts
BY DEF Aggregate, Verdicts

LEMMA IdleTyped == IdleCheck \in Checks /\ IdleCheck.at = "idle" /\ IdleCheck.layers = <<>>
BY EmptySeq DEF IdleCheck, Checks, Redeployable

LEMMA TypeStep == TypeInv /\ [Next]_vars => TypeInv'
<1> SUFFICES ASSUME TypeInv, [Next]_vars PROVE TypeInv'
  OBVIOUS
<1>0. Len(<<>>) = 0 /\ <<>> \in Seq(Results)
  BY EmptySeq
<1>1. CASE Begin
  <2>1. PICK redeploy \in BOOLEAN, c \in Configs :
          /\ IF redeploy THEN row.status \in Redeployable ELSE c = row.config
          /\ check' = [IdleCheck EXCEPT !.at = "commands", !.redeploy = redeploy, !.config = c,
                                        !.url = row.config \in Metrics,
                                        !.old = IF redeploy THEN row.status ELSE "failed"]
    BY <1>1 DEF Begin
  <2> DEFINE old == IF redeploy THEN row.status ELSE "failed"
  <2>2. old \in Redeployable
    BY <2>1 DEF Redeployable
  <2>3. check' = [at |-> "commands", redeploy |-> redeploy, config |-> c,
                  url |-> row.config \in Metrics, old |-> old, layers |-> <<>>]
    BY <2>1 DEF IdleCheck
  <2> HIDE DEF old
  <2>4. check' \in Checks /\ LayersInOrder'
    BY <1>0, <2>2, <2>3 DEF Checks, LayersInOrder
  <2>5. row' = [row EXCEPT !.status = "busy"] /\ box' = box
    BY <1>1 DEF Begin
  <2>6. row' \in Rows /\ row'.status = "busy" /\ row'.config = row.config
    BY <2>5 DEF TypeInv, Rows, Statuses
  <2>7. JobOnRow'
    BY <2>1, <2>3, <2>6 DEF JobOnRow
  <2> QED
    BY <2>4, <2>5, <2>6, <2>7 DEF TypeInv
<1>2. CASE Call
  <2>1. /\ check' = [check EXCEPT !.at = "layers"] /\ UNCHANGED <<box, row>>
        /\ check.at = "commands" /\ check \in Checks
    BY <1>2 DEF Call, TypeInv
  <2>2. /\ check' \in Checks /\ check'.at = "layers" /\ check'.layers = check.layers
        /\ check'.config = check.config /\ check'.redeploy = check.redeploy
    BY <2>1 DEF Checks
  <2> QED
    BY <1>0, <2>1, <2>2 DEF TypeInv, LayersInOrder, JobOnRow
<1>3. CASE CommandFails \/ Fail
  <2>1. /\ row' = [row EXCEPT !.status = check.old] /\ check' = IdleCheck /\ box' = box
    BY <1>3 DEF CommandFails, Fail
  <2>2. row' \in Rows
    BY <2>1 DEF TypeInv, Rows, Statuses, Checks
  <2> QED
    BY <1>0, <2>1, <2>2, IdleTyped DEF TypeInv, LayersInOrder, JobOnRow
<1>4. CASE Stop
  <2>1. /\ \E s \in {"stopped", "failed"} : row' = [row EXCEPT !.status = s]
        /\ check.at = "idle" /\ UNCHANGED <<box, check>>
    BY <1>4 DEF Stop
  <2>2. row' \in Rows
    BY <2>1 DEF TypeInv, Rows, Statuses, Redeployable
  <2> QED
    BY <2>1, <2>2 DEF TypeInv, LayersInOrder, JobOnRow
<1>5. CASE Pass \/ LayerFails \/ Skip
  BY <1>5, TypeCollect
<1>6. CASE Abort
  BY <1>0, <1>6, IdleTyped DEF Abort, TypeInv, LayersInOrder, JobOnRow
<1>7. Health \in [verdict : Verdicts, of : {check.config},
                  metrics : {"OK", "WARN", "SKIPPED", "none"}]
  BY VerdictTyped, LengthOfLayers DEF Health, Verdict, TypeInv, LayersInOrder
<1>8. check.config \in Configs => Health \in HealthRows
  BY <1>7 DEF HealthRows
<1>9. CASE Record
  <2>1. /\ check' = [check EXCEPT !.at = "recorded"] /\ box' = box /\ check.at = "told"
        /\ row' = IF check.redeploy THEN [row EXCEPT !.config = check.config]
                                    ELSE [row EXCEPT !.health = Health]
    BY <1>9 DEF Record
  <2>2. /\ check' \in Checks /\ check'.at = "recorded" /\ check'.layers = check.layers
        /\ check'.config = check.config /\ check'.redeploy = check.redeploy
    BY <2>1 DEF TypeInv, Checks
  <2>3. /\ row.status = "busy" /\ check.config \in Configs
        /\ ~check.redeploy => check.config = row.config
    BY <2>1 DEF TypeInv, JobOnRow
  <2>4. row' \in Rows /\ row'.status = "busy" /\ row'.config = check.config
    BY <1>8, <2>1, <2>3 DEF TypeInv, Rows
  <2> QED
    BY <2>1, <2>2, <2>3, <2>4 DEF TypeInv, LayersInOrder, JobOnRow
<1>10. CASE Succeed
  <2> DEFINE status == IF Verdict = "OK" THEN "running" ELSE "degraded"
  <2>1. /\ check' = IdleCheck /\ box' = box /\ check.config \in Configs
        /\ row' = [row EXCEPT !.status = status, !.health = Health]
    BY <1>10 DEF Succeed, TypeInv, JobOnRow
  <2>2. status \in Statuses
    BY DEF Statuses, Redeployable
  <2> HIDE DEF status
  <2>3. row' \in Rows
    BY <1>8, <2>1, <2>2 DEF TypeInv, Rows
  <2> QED
    BY <1>0, <2>1, <2>3, IdleTyped DEF TypeInv, LayersInOrder, JobOnRow
<1>11. CASE Command
  BY <1>11, ContainerTyped DEF Command, TypeInv, LayersInOrder, JobOnRow
<1>12. CASE Serve \/ Die
  <2>1. box' \in Container /\ UNCHANGED <<row, check>>
    BY <1>12 DEF Serve, Die, TypeInv, To, Container, NoContainer, Running
  <2> QED
    BY <2>1 DEF TypeInv, LayersInOrder, JobOnRow
<1>13. CASE UNCHANGED vars
  BY <1>13 DEF vars, TypeInv, LayersInOrder, JobOnRow
<1> QED
  BY <1>1, <1>2, <1>3, <1>4, <1>5, <1>6, <1>9, <1>10, <1>11, <1>12, <1>13 DEF Next

LEMMA TypeInvariant == Spec => []TypeInv
BY TypeInit, TypeStep, PTL DEF Spec

\* The row, the stored health and the collected layers keep to their domains.
THEOREM HealthTypeCorrect == Spec => []TypeOK
<1>1. TypeInv => TypeOK
  BY LengthOfLayers
     DEF TypeInv, TypeOK, LayersInOrder, Rows, Checks, HealthRows, Results, Statuses, Verdicts
<1> QED
  BY <1>1, TypeInvariant, PTL

-----------------------------------------------------------------------------
(* The stored health                                                         *)

\* Between the two commits of a redeployment that succeeds, and for ever when it is
\* aborted between them, the row has the new configuration and the old health.
HealthOfRow ==
  /\ row.health # NoHealth
  /\ \/ row.status # "busy"
     \/ check.at # "idle" /\ ~(check.redeploy /\ check.at = "recorded")
  => row.health.of = row.config

LEMMA HealthInit == Init => HealthOfRow
BY DEF Init, HealthOfRow

LEMMA HealthStep == TypeInv /\ HealthOfRow /\ [Next]_vars => HealthOfRow'
<1> SUFFICES ASSUME TypeInv, HealthOfRow, [Next]_vars PROVE HealthOfRow'
  OBVIOUS
<1>1. row \in Rows /\ check \in Checks /\ JobOnRow
  BY DEF TypeInv
<1>2. CASE Begin
  <2>1. /\ row' = [row EXCEPT !.status = "busy"] /\ row.status # "busy"
    BY <1>2 DEF Begin
  <2> QED
    BY <1>1, <2>1 DEF HealthOfRow, Rows
<1>3. CASE Call
  <2>1. /\ check.at = "commands" /\ check'.at = "layers" /\ row' = row
    BY <1>1, <1>3 DEF Call, Checks
  <2> QED
    BY <2>1 DEF HealthOfRow
<1>4. CASE CommandFails \/ Fail
  <2>1. /\ row' = [row EXCEPT !.status = check.old]
        /\ check.at # "idle" /\ ~(check.redeploy /\ check.at = "recorded")
    BY <1>4 DEF CommandFails, Fail
  <2> QED
    BY <1>1, <2>1 DEF HealthOfRow, Rows
<1>5. CASE Stop
  <2>1. /\ row.status # "busy"
        /\ \E s \in {"stopped", "failed"} : row' = [row EXCEPT !.status = s]
    BY <1>5 DEF Stop, Redeployable
  <2> QED
    BY <1>1, <2>1 DEF HealthOfRow, Rows
<1>6. CASE Pass \/ LayerFails \/ Skip
  <2>1. /\ row' = row /\ check.at \in {"layers", "server_info"}
    BY <1>6, CollectShape
  <2> QED
    BY <2>1 DEF HealthOfRow
<1>7. CASE Abort
  <2>1. row' = row /\ check'.at = "idle" /\ row.status = "busy"
    BY <1>1, <1>7, IdleTyped DEF Abort, JobOnRow
  <2> QED
    BY <2>1 DEF HealthOfRow
<1>8. Health.of = check.config
  BY DEF Health
<1>9. CASE Record
  <2>1. check.at = "told" /\ check' = [check EXCEPT !.at = "recorded"]
    BY <1>9 DEF Record
  <2>2. /\ check'.at = "recorded" /\ check'.redeploy = check.redeploy
        /\ row.status = "busy" /\ (~check.redeploy => check.config = row.config)
    BY <1>1, <2>1 DEF Checks, JobOnRow
  <2>3. CASE check.redeploy
    <3>1. row'.status = "busy"
      BY <1>1, <1>9, <2>2, <2>3 DEF Record, Rows
    <3> QED
      BY <2>2, <2>3, <3>1 DEF HealthOfRow
  <2>4. CASE ~check.redeploy
    <3>1. row'.health = Health /\ row'.config = row.config
      BY <1>1, <1>9, <2>4 DEF Record, Rows
    <3> QED
      BY <1>8, <2>2, <2>4, <3>1 DEF HealthOfRow
  <2> QED
    BY <2>3, <2>4
<1>10. CASE Succeed
  <2>1. row'.health = Health /\ row'.config = row.config
    BY <1>1, <1>10 DEF Succeed, Rows
  <2>2. check.config = row.config
    BY <1>1, <1>10 DEF Succeed, JobOnRow
  <2> QED
    BY <1>8, <2>1, <2>2 DEF HealthOfRow
<1>11. CASE Command \/ Serve \/ Die \/ UNCHANGED vars
  BY <1>11 DEF Command, Serve, Die, vars, HealthOfRow
<1> QED
  BY <1>2, <1>3, <1>4, <1>5, <1>6, <1>7, <1>9, <1>10, <1>11 DEF Next

\* The health shown with a deployment belongs to the configuration in its row, with any
\* number of configurations and of redeployments that fail on the way.
THEOREM HealthBelongsToRow == Spec => []StoredHealthIsOfRow
<1>1. HealthOfRow => StoredHealthIsOfRow
  BY DEF HealthOfRow, StoredHealthIsOfRow
<1> QED
  BY <1>1, TypeInvariant, HealthInit, HealthStep, PTL DEF Spec

-----------------------------------------------------------------------------
(* The dashboard                                                             *)

\* A status that says the deployment is up says what its last check found.
ShownAsChecked(status) ==
  /\ status = "running"  => row.health.verdict = "OK"
  /\ status = "degraded" => row.health.verdict = "WARN"

\* So does the status that a job falls back to: only a redeployment falls back to one
\* of these, and it leaves the health alone until it cannot fail any more.
StatusOfHealth ==
  /\ ShownAsChecked(row.status) /\ ShownAsChecked(check.old)
  /\ check.redeploy \/ check.old = "failed"
  /\ row.health.metrics = "WARN" => row.health.verdict # "OK"

LEMMA StatusInit == Init => StatusOfHealth
BY DEF Init, NoHealth, IdleCheck, StatusOfHealth, ShownAsChecked

LEMMA MetricsCount == Health.verdict = Verdict /\ (Health.metrics = "WARN" => Verdict # "OK")
<1>1. ASSUME NEW layers, NEW i \in 1..Len(layers), layers[i] = "WARN"
      PROVE  Aggregate(layers) # "OK"
  BY <1>1 DEF Aggregate, Reported
<1>2. Health.metrics = "WARN" =>
        8 \in 1..Len(check.layers) /\ check.layers[8] = "WARN"
  BY LengthOfLayers DEF Health
<1> QED
  BY <1>1, <1>2 DEF Health, Verdict

LEMMA StatusStep == TypeInv /\ StatusOfHealth /\ [Next]_vars => StatusOfHealth'
<1> SUFFICES ASSUME TypeInv, StatusOfHealth, [Next]_vars PROVE StatusOfHealth'
  OBVIOUS
<1>1. row \in Rows /\ check \in Checks /\ JobOnRow
  BY DEF TypeInv
<1>2. IdleCheck.old = "failed"
  BY DEF IdleCheck
<1>3. CASE Begin
  <2>1. PICK redeploy \in BOOLEAN, c \in Configs :
          check' = [IdleCheck EXCEPT !.at = "commands", !.redeploy = redeploy, !.config = c,
                                     !.url = row.config \in Metrics,
                                     !.old = IF redeploy THEN row.status ELSE "failed"]
    BY <1>3 DEF Begin
  <2>2. /\ check'.redeploy = redeploy
        /\ check'.old = IF redeploy THEN row.status ELSE "failed"
    BY <2>1 DEF IdleCheck
  <2>3. row'.status = "busy" /\ row'.health = row.health
    BY <1>1, <1>3 DEF Begin, Rows
  <2> QED
    BY <2>2, <2>3 DEF StatusOfHealth, ShownAsChecked
<1>4. CASE Call \/ Pass \/ LayerFails \/ Skip
  <2>1. row' = row /\ check'.old = check.old /\ check'.redeploy = check.redeploy
    BY <1>1, <1>4 DEF Call, Pass, LayerFails, Skip, Collect, Checks
  <2> QED
    BY <2>1 DEF StatusOfHealth, ShownAsChecked
<1>5. CASE CommandFails \/ Fail
  <2>1. row'.status = check.old /\ row'.health = row.health /\ check' = IdleCheck
    BY <1>1, <1>5 DEF CommandFails, Fail, Rows
  <2> QED
    BY <1>2, <2>1 DEF StatusOfHealth, ShownAsChecked
<1>6. CASE Stop
  <2>1. row'.status \in {"stopped", "failed"} /\ row'.health = row.health /\ check' = check
    BY <1>1, <1>6 DEF Stop, Rows
  <2> QED
    BY <2>1 DEF StatusOfHealth, ShownAsChecked
<1>7. CASE Abort
  BY <1>2, <1>7 DEF Abort, StatusOfHealth, ShownAsChecked
<1>8. CASE Record
  <2>1. /\ check'.old = check.old /\ check'.redeploy = check.redeploy
        /\ row.status = "busy" /\ row'.status = "busy"
    BY <1>1, <1>8 DEF Record, Checks, Rows, JobOnRow
  <2>2. CASE check.redeploy
    <3>1. row'.health = row.health
      BY <1>1, <1>8, <2>2 DEF Record, Rows
    <3> QED
      BY <2>1, <3>1 DEF StatusOfHealth, ShownAsChecked
  <2>3. CASE ~check.redeploy
    <3>1. row'.health = Health
      BY <1>1, <1>8, <2>3 DEF Record, Rows
    <3> QED
      BY <2>1, <2>3, <3>1, MetricsCount DEF StatusOfHealth, ShownAsChecked
  <2> QED
    BY <2>2, <2>3
<1>9. CASE Succeed
  <2>1. /\ row'.status = (IF Verdict = "OK" THEN "running" ELSE "degraded")
        /\ row'.health = Health /\ check' = IdleCheck /\ Verdict # "ERROR"
    BY <1>1, <1>9 DEF Succeed, Rows
  <2>2. Verdict \in Verdicts
    BY VerdictTyped DEF Verdict
  <2> QED
    BY <1>2, <2>1, <2>2, MetricsCount DEF StatusOfHealth, ShownAsChecked, Verdicts
<1>10. CASE Command \/ Serve \/ Die \/ UNCHANGED vars
  BY <1>10 DEF Command, Serve, Die, vars, StatusOfHealth, ShownAsChecked
<1> QED
  BY <1>3, <1>4, <1>5, <1>6, <1>7, <1>8, <1>9, <1>10 DEF Next

LEMMA StatusAlways == Spec => []StatusOfHealth
BY TypeInvariant, StatusInit, StatusStep, PTL DEF Spec

\* What the dashboard counts as healthy has passed its last check, and what it counts as
\* a warning was warned about, however redeployments failed, restored or were aborted.
THEOREM DashboardIsRight == Spec => []DashboardAgrees
<1>1. StatusOfHealth => DashboardAgrees
  BY DEF StatusOfHealth, ShownAsChecked, DashboardAgrees, DashboardStatus
<1> QED
  BY <1>1, StatusAlways, PTL

\* A deployment that is up and is listed with unreachable metrics is counted as a warning,
\* and the configuration in its row is the one whose metrics did not answer.
THEOREM UnreachableIsCounted == Spec => []UnreachableIsWarned
<1>1. StatusOfHealth /\ StoredHealthIsOfRow => UnreachableIsWarned
  <2> SUFFICES ASSUME StatusOfHealth, StoredHealthIsOfRow, MetricsUnreachable,
                      row.status \in {"running", "degraded"}
               PROVE  DashboardStatus = "warning" /\ row.health.of = row.config
    BY DEF UnreachableIsWarned
  <2>1. row.health.metrics = "WARN"
    BY DEF MetricsUnreachable, MetricsStatus
  <2>2. row.status = "degraded"
    BY <2>1 DEF StatusOfHealth, ShownAsChecked
  <2>3. row.health # NoHealth
    BY <2>1 DEF NoHealth
  <2> QED
    BY <2>2, <2>3 DEF StoredHealthIsOfRow, DashboardStatus
<1> QED
  BY <1>1, StatusAlways, HealthBelongsToRow, PTL

\* Only the metrics are ever skipped: when the row as loaded has none, and then always.
OnlyMetricsSkipped ==
  \A i \in 1..Len(check.layers) : check.layers[i] = "SKIPPED" <=> i = 8 /\ ~check.url

LEMMA SkippedStep == TypeInv /\ OnlyMetricsSkipped /\ [Next]_vars => OnlyMetricsSkipped'
<1> SUFFICES ASSUME TypeInv, OnlyMetricsSkipped, [Next]_vars PROVE OnlyMetricsSkipped'
  OBVIOUS
<1>1. check \in Checks /\ LayersInOrder
  BY DEF TypeInv
<1>2. check'.layers = <<>> => OnlyMetricsSkipped'
  BY EmptySeq DEF OnlyMetricsSkipped
<1>3. check'.layers = check.layers /\ check'.url = check.url => OnlyMetricsSkipped'
  BY DEF OnlyMetricsSkipped
<1>4. CASE Begin
  BY <1>2, <1>4 DEF Begin, IdleCheck
<1>5. CASE CommandFails \/ Abort \/ Succeed \/ Fail
  BY <1>2, <1>5, IdleTyped DEF CommandFails, Abort, Succeed, Fail
<1>6. CASE Call \/ Stop \/ Record \/ Command \/ Serve \/ Die \/ UNCHANGED vars
  BY <1>1, <1>3, <1>6 DEF Call, Stop, Record, Command, Serve, Die, vars, Checks
<1>7. CASE Pass \/ LayerFails \/ Skip
  <2> DEFINE n == Len(check.layers)
  <2>1. n \in 0..7 /\ (Layer = "metrics" <=> n = 7) /\ check.layers \in Seq(Results)
    BY <1>1, <1>7, CollectShape, LayerIsKnown DEF Layer, Checks
  <2>2. ASSUME NEW s, Collect(s), s = "SKIPPED" <=> n = 7 /\ ~check.url
        PROVE  OnlyMetricsSkipped'
    <3> DEFINE new == Append(check.layers, s)
    <3>1. check'.layers = new /\ check'.url = check.url
      BY <1>1, <2>2 DEF Collect, Checks
    <3>2. Len(new) = n + 1 /\ new[n + 1] = s /\ \A i \in 1..n : new[i] = check.layers[i]
      BY <2>1
    <3> HIDE DEF new, n
    <3>3. ASSUME NEW i \in 1..(n + 1)
          PROVE  new[i] = "SKIPPED" <=> i = 8 /\ ~check.url
      <4>1. CASE i = n + 1
        BY <2>1, <2>2, <3>2, <4>1
      <4>2. CASE i \in 1..n
        BY <3>2, <4>2 DEF OnlyMetricsSkipped, n
      <4> QED
        BY <2>1, <4>1, <4>2
    <3> QED
      BY <3>1, <3>2, <3>3 DEF OnlyMetricsSkipped
  <2>3. CASE Pass
    <3>1. Collect("OK") /\ (Layer = "metrics" => check.url)
      BY <2>3 DEF Pass
    <3>2. "OK" = "SKIPPED" <=> n = 7 /\ ~check.url
      BY <2>1, <3>1
    <3> HIDE DEF n
    <3> QED
      BY <2>2, <3>1, <3>2
  <2>4. CASE LayerFails
    <3>1. CASE Layer = "model_or_server_info" /\ check.at = "layers"
      BY <1>1, <1>3, <2>4, <3>1 DEF LayerFails, Checks
    <3>2. CASE ~(Layer = "model_or_server_info" /\ check.at = "layers")
      <4>1. Collect(Trouble(Layer)) /\ (Layer = "metrics" => check.url)
        BY <2>4, <3>2 DEF LayerFails
      <4>2. Trouble(Layer) # "SKIPPED"
        BY DEF Trouble
      <4>3. Trouble(Layer) = "SKIPPED" <=> n = 7 /\ ~check.url
        BY <2>1, <4>1, <4>2
      <4> HIDE DEF n
      <4> QED
        BY <2>2, <4>1, <4>3
    <3> QED
      BY <3>1, <3>2
  <2>5. CASE Skip
    <3>1. Collect("SKIPPED") /\ n = 7 /\ ~check.url
      BY <2>1, <2>5 DEF Skip
    <3> HIDE DEF n
    <3> QED
      BY <2>2, <3>1
  <2> QED
    BY <1>7, <2>3, <2>4, <2>5
<1> QED
  BY <1>4, <1>5, <1>6, <1>7 DEF Next

\* An overall OK has an answer of every layer; nothing but metrics that the row does not
\* have is passed over, on every path through the call.
THEOREM OkIsComplete == Spec => []OkMeansAllLayers
<1>1. Init => OnlyMetricsSkipped
  BY EmptySeq DEF Init, IdleCheck, OnlyMetricsSkipped
<1>2. TypeInv /\ OnlyMetricsSkipped => OkMeansAllLayers
  <2> SUFFICES ASSUME TypeInv, OnlyMetricsSkipped, check.at \in {"told", "recorded"},
                      Verdict = "OK", NEW i \in 1..8
               PROVE  check.layers[i] = IF Layers[i] = "metrics" /\ ~check.url
                                        THEN "SKIPPED" ELSE "OK"
    BY LengthOfLayers DEF OkMeansAllLayers
  <2> DEFINE n == Len(check.layers)
  <2>1. check.layers \in Seq(Results) /\ LayersInOrder
    BY DEF TypeInv, Checks
  <2>2. \A k \in 1..n : check.layers[k] \notin {"ERROR", "WARN"}
    BY DEF Verdict, Aggregate, Reported
  <2>3. n = 8
    BY <2>1, <2>2 DEF LayersInOrder
  <2>4. check.layers[i] \in {"OK", "SKIPPED"}
    <3>1. check.layers[i] \in Results
      BY <2>1, <2>3
    <3> QED
      BY <2>2, <2>3, <3>1 DEF Results, Verdicts
  <2>5. Layers[i] = "metrics" <=> i = 8
    <3>1. i - 1 \in 0..7 /\ (i - 1) + 1 = i
      OBVIOUS
    <3> QED
      BY <3>1, LayerIsKnown
  <2> QED
    BY <2>3, <2>4, <2>5 DEF OnlyMetricsSkipped
<1> QED
  BY <1>1, <1>2, SkippedStep, TypeInvariant, PTL DEF Spec

-----------------------------------------------------------------------------
(* HealthCheck implements HealthProbe                                        *)

LEMMA ErrorReported ==
  ASSUME NEW layers, NEW i \in 1..Len(layers), layers[i] = "ERROR"
  PROVE  Aggregate(layers) = "ERROR"
BY DEF Aggregate, Reported

LEMMA VerdictOf == Verdict = Aggregate(check.layers) /\ Verdict' = Aggregate(check'.layers)
BY DEF Verdict

\* A step that leaves the container alone, seen through the refinement mapping.
LEMMA MappedStep ==
  ASSUME TypeInv, Next, ~(Command \/ Serve \/ Die)
  PROVE  /\ Serving' = Serving
         /\ \/ Telling' = Telling /\ Answered' = Answered
            \/ Telling = "none" /\ Telling' = "asking" /\ Answered' = FALSE
            \/ Telling = "asking" /\ Telling' = Telling /\ Serving /\ Answered' = TRUE
            \/ /\ Telling = "asking" /\ Answered' = Answered
               /\ Telling' \in IF Answered THEN Verdicts ELSE {"ERROR"}
            \/ Telling' = "none" /\ Answered' = FALSE
<1>1. check \in Checks /\ LayersInOrder
  BY DEF TypeInv
<1>2. box' = box
  BY DEF Next, Begin, Call, CommandFails, Stop, Pass, LayerFails, Skip, Abort, Record,
         Succeed, Fail
<1>3. Serving' = Serving
  BY <1>2 DEF Serving
<1>4. /\ check.layers = <<>> => Answered = FALSE
      /\ check'.layers = <<>> => Answered' = FALSE
  BY EmptySeq DEF Answered
<1>5. CASE Begin
  <2>1. check.at = "idle" /\ check'.at = "commands" /\ check'.layers = <<>>
    BY <1>5 DEF Begin, IdleCheck
  <2>2. check.layers = <<>>
    BY <1>1, <2>1 DEF LayersInOrder
  <2> QED
    BY <1>3, <1>4, <2>1, <2>2 DEF Telling
<1>6. CASE Call
  <2>1. check.at = "commands" /\ check'.at = "layers" /\ check'.layers = <<>>
    BY <1>1, <1>6 DEF Call, Checks, LayersInOrder
  <2> QED
    BY <1>3, <1>4, <2>1 DEF Telling
<1>7. CASE CommandFails \/ Abort \/ Succeed \/ Fail
  <2>1. check' = IdleCheck
    BY <1>7 DEF CommandFails, Abort, Succeed, Fail
  <2> QED
    BY <1>3, <1>4, <2>1, IdleTyped DEF Telling
<1>8. CASE Stop
  BY <1>3, <1>8 DEF Stop, Telling, Answered, Verdict
<1>9. CASE Record
  <2>1. /\ check.at = "told" /\ check'.at = "recorded" /\ check'.layers = check.layers
    BY <1>1, <1>9 DEF Record, Checks
  <2> QED
    BY <1>3, <2>1, VerdictOf DEF Telling, Answered
<1>10. CASE Pass \/ LayerFails \/ Skip
  <2> DEFINE old == check.layers
             n == Len(old)
  <2>1. /\ check.at \in {"layers", "server_info"} /\ n \in Nat /\ n < 8
        /\ old \in Seq(Results) /\ (n >= 5 => old[5] \in {"OK", "ERROR"})
    <3>1. old \in Seq(Results)
      BY <1>1 DEF Checks
    <3>2. check.at \in {"layers", "server_info"}
      BY <1>10, CollectShape
    <3> QED
      BY <1>1, <3>1, <3>2, LenProperties DEF LayersInOrder
  <2>2. Telling = "asking"
    BY <2>1 DEF Telling
  <2>3. CASE check' = [check EXCEPT !.at = "server_info"]
    <3>1. check'.at = "server_info" /\ check'.layers = check.layers
      BY <1>1, <2>3 DEF Checks
    <3> QED
      BY <1>3, <2>2, <3>1 DEF Telling, Answered
  <2>4. ASSUME NEW s \in Results, NEW at \in {"layers", "told"},
               check' = [check EXCEPT !.layers = Append(@, s), !.at = at],
               at = "told" => n = 7 \/ (n = 0 /\ s = "ERROR"),
               n = 4 => (s = "OK" => Serving)
        PROVE  \/ Telling' = "asking" /\ Answered' = Answered
               \/ Telling' = "asking" /\ Serving /\ Answered' = TRUE
               \/ /\ Answered' = Answered
                  /\ Telling' \in IF Answered THEN Verdicts ELSE {"ERROR"}
    <3> DEFINE new == Append(old, s)
    <3>1. /\ Len(new) = n + 1 /\ new[n + 1] = s /\ \A i \in 1..n : new[i] = old[i]
      BY <2>1, AppendProperties
    <3>2. check'.at = at /\ check'.layers = new
      BY <1>1, <2>4 DEF Checks
    <3> HIDE DEF new, n
    <3>3. Answered <=> n >= 5 /\ old[5] = "OK"
      BY DEF Answered, n
    <3>4. Answered' <=> n + 1 >= 5 /\ new[5] = "OK"
      BY <3>1, <3>2 DEF Answered
    <3>5. n # 4 => Answered' = Answered
      <4>1. n >= 5 => new[5] = old[5]
        BY <2>1, <3>1
      <4> QED
        BY <2>1, <3>3, <3>4, <4>1, Below8 DEF Answered
    <3>6. CASE at = "layers"
      <4>1. Telling' = "asking"
        BY <3>2, <3>6 DEF Telling
      <4>2. CASE n = 4
        <5>1. new[5] = s
          BY <3>1, <4>2
        <5>2. CASE s = "OK"
          <6>1. Answered' = TRUE
            BY <3>4, <4>2, <5>1, <5>2 DEF Answered
          <6> QED
            BY <2>4, <4>1, <4>2, <5>2, <6>1
        <5>3. CASE s # "OK"
          <6>1. ~Answered' /\ ~Answered
            BY <3>3, <3>4, <4>2, <5>1, <5>3
          <6> QED
            BY <4>1, <6>1 DEF Answered
        <5> QED
          BY <5>2, <5>3
      <4> QED
        BY <3>5, <4>1, <4>2
    <3>7. CASE at = "told"
      <4>1. Telling' = Aggregate(new)
        BY <3>2, <3>7, VerdictOf DEF Telling
      <4>2. n = 7 \/ (n = 0 /\ s = "ERROR")
        BY <2>4, <3>7
      <4>3. Answered' = Answered
        BY <3>5, <4>2
      <4>4. ~Answered => Aggregate(new) = "ERROR"
        <5>1. CASE n = 7
          <6>1. ~Answered => new[5] = "ERROR" /\ 5 \in 1..Len(new)
            BY <2>1, <3>1, <3>3, <5>1 DEF n
          <6> QED
            BY <6>1, ErrorReported
        <5>2. CASE n = 0 /\ s = "ERROR"
          <6>1. new[1] = "ERROR" /\ 1 \in 1..Len(new)
            BY <3>1, <5>2
          <6> QED
            BY <6>1, ErrorReported
        <5> QED
          BY <4>2, <5>1, <5>2
      <4>5. Aggregate(new) \in Verdicts
        BY VerdictTyped
      <4> QED
        BY <4>1, <4>3, <4>4, <4>5
    <3> QED
      BY <3>6, <3>7
  <2> QED
    BY <1>3, <1>10, <2>2, <2>3, <2>4, CollectShape
<1> QED
  BY <1>5, <1>6, <1>7, <1>8, <1>9, <1>10 DEF Next

LEMMA ProbeInit == Init => Probe!Init
BY EmptySeq DEF Init, Probe!Init, IdleCheck, Telling, Serving, Answered

LEMMA ProbeStep == TypeInv /\ [Next]_vars => [Probe!Next]_<<Serving, Telling, Answered>>
<1> SUFFICES ASSUME TypeInv, [Next]_vars
             PROVE  [Probe!Next]_<<Serving, Telling, Answered>>
  OBVIOUS
<1>1. CASE Command \/ Serve \/ Die
  <2>1. check' = check
    BY <1>1 DEF Command, Serve, Die
  <2>2. Telling' = Telling /\ Answered' = Answered
    BY <2>1 DEF Telling, Answered, Verdict
  <2>3. Serving' \in BOOLEAN
    BY DEF Serving
  <2> QED
    BY <2>2, <2>3 DEF Probe!Next, Probe!Live
<1>2. CASE UNCHANGED vars
  BY <1>2 DEF vars, Serving, Telling, Answered, Verdict
<1>3. CASE Next /\ ~(Command \/ Serve \/ Die)
  BY <1>3, MappedStep
     DEF Probe!Next, Probe!Ask, Probe!Look, Probe!Tell, Probe!Forget, Verdicts
<1> QED
  BY <1>1, <1>2, <1>3

\* check_deployment is the one look at the container that the runners take it for: every
\* verdict but ERROR was deserved while the call ran, whatever else changes the container.
THEOREM CallIsProbe == Spec => ProbeIsDeserved
BY TypeInvariant, ProbeInit, ProbeStep, PTL DEF Spec, ProbeIsDeserved, Probe!Spec
================================================================================
