-------------------------- MODULE RedeployPlan_proofs --------------------------
(***************************************************************************)
(* Theorems of RedeployPlan, for any number of requests and any images,    *)
(* sizes and configurations of containers.                                 *)
(***************************************************************************)
EXTENDS RedeployPlan, TLAPS

-----------------------------------------------------------------------------
(* Documents                                                                 *)

Scalars == {"privileged", "network", "user", "ipc", "gpus", "volumes"}

\* A document is determined by its image, its size and its docker_config.
LEMMA DocumentShape ==
  ASSUME NEW doc \in Documents
  PROVE  /\ DOMAIN doc = {"image", "tp_size", "docker_config", "sglang_config"}
         /\ doc.sglang_config = [tp_size |-> doc.tp_size]
         /\ doc.docker_config \in DockerConfigs
         /\ doc = Document(doc.image, doc.tp_size, doc.docker_config)
  BY DEF Documents, Document

\* Every docker_config has the same fields.
LEMMA DockerShape ==
  ASSUME NEW docker \in DockerConfigs
  PROVE  /\ DOMAIN docker = Scalars \cup {"env"}
         /\ \A key \in DOMAIN docker.env : docker.env[key] # "None"
         /\ docker.env = [key \in DOMAIN docker.env |-> docker.env[key]]
  BY DocumentsAssumption DEF IsDocker, Scalars

\* The task gets what the page or the API sent, without the request's own fields.
LEMMA RequestedIsDocument ==
  ASSUME NEW doc \in Documents
  PROVE  Requested(doc) = doc /\ Requested(AsRequest(doc)) = doc
  <1>1. /\ DOMAIN doc \ Own = DOMAIN doc
        /\ DOMAIN AsRequest(doc) \ Own = DOMAIN doc
        /\ \A k \in DOMAIN doc : AsRequest(doc)[k] = doc[k]
    BY DocumentShape DEF Own, AsRequest
  <1>2. doc = [k \in DOMAIN doc |-> doc[k]]
    BY DEF Documents, Document
  <1> QED BY <1>1, <1>2 DEF Requested

LEMMA FormIsDocument ==
  ASSUME NEW image \in Images, NEW privileged \in {"True", "False"}
  PROVE  FromForm(image, privileged) \in Documents
  BY DocumentsAssumption DEF FromForm, Documents

-----------------------------------------------------------------------------
(* The plan                                                                  *)

\* The items of a plan of two documents.
IsItemOf(item, old, new) ==
  \/ \E k \in {"image", "tp_size"} :
       old[k] # new[k] /\ item = [field |-> <<k>>, new_value |-> new[k]]
  \/ /\ old.tp_size # new.tp_size
     /\ item = [field |-> <<"sglang_config", "tp_size">>, new_value |-> new.tp_size]
  \/ \E k \in Scalars :
       /\ old.docker_config[k] # new.docker_config[k]
       /\ item = [field |-> <<"docker_config", k>>, new_value |-> new.docker_config[k]]
  \/ \E k \in Keys(old.docker_config.env, new.docker_config.env) :
       /\ ValueOf(old.docker_config.env, k) # ValueOf(new.docker_config.env, k)
       /\ item = [field |-> <<"docker_config", "env", k>>,
                  new_value |-> ValueOf(new.docker_config.env, k)]

LEMMA ItemOfConfig ==
  ASSUME NEW old \in Documents, NEW new \in Documents, NEW item
  PROVE  /\ item \in ConfigDiff("sglang_config", old.sglang_config, new.sglang_config)
            <=> /\ old.tp_size # new.tp_size
                /\ item = [field |-> <<"sglang_config", "tp_size">>, new_value |-> new.tp_size]
         /\ item \in ConfigDiff("docker_config", old.docker_config, new.docker_config)
            <=> \/ \E k \in Scalars :
                     /\ old.docker_config[k] # new.docker_config[k]
                     /\ item = [field |-> <<"docker_config", k>>,
                                new_value |-> new.docker_config[k]]
                \/ \E k \in Keys(old.docker_config.env, new.docker_config.env) :
                     /\ ValueOf(old.docker_config.env, k) # ValueOf(new.docker_config.env, k)
                     /\ item = [field |-> <<"docker_config", "env", k>>,
                                new_value |-> ValueOf(new.docker_config.env, k)]
  <1> DEFINE a == old.docker_config
             b == new.docker_config
  <1>1. /\ DOMAIN a = Scalars \cup {"env"}
        /\ DOMAIN b = Scalars \cup {"env"}
    BY DocumentShape, DockerShape
  <1>2. \A k \in Scalars \cup {"env"} : ValueOf(a, k) = a[k] /\ ValueOf(b, k) = b[k]
    BY <1>1 DEF ValueOf
  <1>3. item \in EnvDiff(a.env, b.env)
        <=> \E k \in Keys(a.env, b.env) :
              /\ ValueOf(a.env, k) # ValueOf(b.env, k)
              /\ item = [field |-> <<"docker_config", "env", k>>, new_value |-> ValueOf(b.env, k)]
    BY DEF EnvDiff, Item
  <1>4. "env" \notin Scalars
    BY DEF Scalars
  <1>5. item \in ConfigDiff("docker_config", a, b)
        <=> \/ \E k \in Scalars :
                 a[k] # b[k] /\ item = [field |-> <<"docker_config", k>>, new_value |-> b[k]]
            \/ item \in EnvDiff(a.env, b.env)
    <2>1. item \in ConfigDiff("docker_config", a, b)
          <=> \E k \in Scalars \cup {"env"} :
                item \in IF k = "env" THEN EnvDiff(ValueOf(a, k), ValueOf(b, k))
                         ELSE Item(<<"docker_config", k>>, ValueOf(a, k), ValueOf(b, k))
      BY <1>1 DEF ConfigDiff, Keys
    <2> QED BY <2>1, <1>2, <1>4 DEF Item
  <1>6. item \in ConfigDiff("sglang_config", old.sglang_config, new.sglang_config)
        <=> /\ old.tp_size # new.tp_size
            /\ item = [field |-> <<"sglang_config", "tp_size">>, new_value |-> new.tp_size]
    <2>1. /\ DOMAIN old.sglang_config = {"tp_size"} /\ DOMAIN new.sglang_config = {"tp_size"}
          /\ ValueOf(old.sglang_config, "tp_size") = old.tp_size
          /\ ValueOf(new.sglang_config, "tp_size") = new.tp_size
      <3>1. /\ old.sglang_config = [tp_size |-> old.tp_size]
            /\ new.sglang_config = [tp_size |-> new.tp_size]
        BY DocumentShape
      <3> QED BY <3>1 DEF ValueOf
    <2> QED BY <2>1 DEF ConfigDiff, Keys, Item
  <1> QED BY <1>3, <1>5, <1>6

LEMMA ItemOfPlan ==
  ASSUME NEW old \in Documents, NEW new \in Documents, NEW item
  PROVE  item \in Plan(old, new) <=> IsItemOf(item, old, new)
  <1>1. Keys(old, new) = {"image", "tp_size"} \cup {"docker_config", "sglang_config"}
    BY DocumentShape DEF Keys
  <1>2. \A k \in {"image", "tp_size"} : ValueOf(old, k) = old[k] /\ ValueOf(new, k) = new[k]
    BY DocumentShape DEF ValueOf
  <1>3. item \in Plan(old, new)
        <=> \/ \E k \in {"image", "tp_size"} :
                 old[k] # new[k] /\ item = [field |-> <<k>>, new_value |-> new[k]]
            \/ item \in ConfigDiff("docker_config", old.docker_config, new.docker_config)
            \/ item \in ConfigDiff("sglang_config", old.sglang_config, new.sglang_config)
    BY <1>1, <1>2 DEF Plan, Item
  <1> QED BY <1>3, ItemOfConfig DEF IsItemOf

LEMMA ItemOfRequestPlan ==
  ASSUME NEW old \in Documents, NEW new \in Documents, NEW item
  PROVE  item \in Plan(old, AsRequest(new))
         <=> \/ IsItemOf(item, old, new)
             \/ \E k \in Own : item = [field |-> <<k>>, new_value |-> "given"]
  <1> DEFINE request_ == AsRequest(new)
  <1>1. Keys(old, request_) = {"image", "tp_size"} \cup {"docker_config", "sglang_config"} \cup Own
    BY DocumentShape DEF Keys, AsRequest
  <1>2. /\ \A k \in {"image", "tp_size"} : ValueOf(old, k) = old[k] /\ ValueOf(request_, k) = new[k]
        /\ request_.docker_config = new.docker_config
        /\ request_.sglang_config = new.sglang_config
        /\ \A k \in Own : ValueOf(old, k) = "None" /\ ValueOf(request_, k) = "given"
    BY DocumentShape DEF ValueOf, AsRequest, Own
  <1>3. item \in Plan(old, request_)
        <=> \/ \E k \in {"image", "tp_size"} :
                 old[k] # new[k] /\ item = [field |-> <<k>>, new_value |-> new[k]]
            \/ item \in ConfigDiff("docker_config", old.docker_config, new.docker_config)
            \/ item \in ConfigDiff("sglang_config", old.sglang_config, new.sglang_config)
            \/ \E k \in Own : item = [field |-> <<k>>, new_value |-> "given"]
    <2>1. \A k \in Own : k \notin {"docker_config", "sglang_config"}
      BY DEF Own
    <2> HIDE DEF request_
    <2> QED BY <1>1, <1>2, <2>1 DEF Plan, Item
  <1> QED BY <1>3, ItemOfConfig DEF IsItemOf

-----------------------------------------------------------------------------
(* The plan names the leaves that differ                                     *)

\* The same leaves, one disjunct per level of a document.
IsDifferingLeaf(leaf, old, new) ==
  \/ \E k \in {"image", "tp_size"} : old[k] # new[k] /\ leaf = <<k>>
  \/ old.tp_size # new.tp_size /\ leaf = <<"sglang_config", "tp_size">>
  \/ \E k \in Scalars :
       old.docker_config[k] # new.docker_config[k] /\ leaf = <<"docker_config", k>>
  \/ \E k \in Keys(old.docker_config.env, new.docker_config.env) :
       /\ ValueOf(old.docker_config.env, k) # ValueOf(new.docker_config.env, k)
       /\ leaf = <<"docker_config", "env", k>>

LEMMA LeavesOfDocument ==
  ASSUME NEW doc \in Documents
  PROVE  Leaves(doc) = {<<k>> : k \in {"image", "tp_size"}}
                       \cup {<<"sglang_config", k>> : k \in {"tp_size"}}
                       \cup {<<"docker_config", k>> : k \in Scalars}
                       \cup {<<"docker_config", "env", k>> : k \in DOMAIN doc.docker_config.env}
  <1>1. DOMAIN doc.sglang_config = {"tp_size"}
    <2>1. doc.sglang_config = [tp_size |-> doc.tp_size]
      BY DocumentShape
    <2> QED BY <2>1
  <1>2. DOMAIN doc.docker_config \ {"env"} = Scalars
    <2>1. doc.docker_config \in DockerConfigs
      BY DocumentShape
    <2>2. DOMAIN doc.docker_config = Scalars \cup {"env"}
      BY <2>1, DockerShape
    <2> QED BY <2>2 DEF Scalars
  <1> QED BY <1>1, <1>2 DEF Leaves

LEMMA AtLeaf ==
  ASSUME NEW doc \in Documents, NEW k
  PROVE  /\ At(doc, <<k>>) = doc[k]
         /\ At(doc, <<"sglang_config", "tp_size">>) = doc.tp_size
         /\ At(doc, <<"docker_config", k>>) = doc.docker_config[k]
         /\ At(doc, <<"docker_config", "env", k>>) = ValueOf(doc.docker_config.env, k)
  <1>1. doc.sglang_config = [tp_size |-> doc.tp_size]
    BY DocumentShape
  <1> QED BY <1>1 DEF At

LEMMA DifferingLeaf ==
  ASSUME NEW old \in Documents, NEW new \in Documents, NEW leaf
  PROVE  leaf \in Differing(old, new) <=> IsDifferingLeaf(leaf, old, new)
  <1>1. leaf \in Leaves(old) \cup Leaves(new)
        <=> \/ \E k \in {"image", "tp_size"} : leaf = <<k>>
            \/ leaf = <<"sglang_config", "tp_size">>
            \/ \E k \in Scalars : leaf = <<"docker_config", k>>
            \/ \E k \in Keys(old.docker_config.env, new.docker_config.env) :
                 leaf = <<"docker_config", "env", k>>
    BY LeavesOfDocument DEF Keys
  <1> DEFINE Same(leaf_) == At(old, leaf_) = At(new, leaf_)
  <1>at. /\ \A k : Same(<<k>>) <=> old[k] = new[k]
         /\ Same(<<"sglang_config", "tp_size">>) <=> old.tp_size = new.tp_size
         /\ \A k : Same(<<"docker_config", k>>) <=> old.docker_config[k] = new.docker_config[k]
         /\ \A k : Same(<<"docker_config", "env", k>>)
                   <=> ValueOf(old.docker_config.env, k) = ValueOf(new.docker_config.env, k)
    <2>1. ASSUME NEW doc \in {old, new}, NEW k
          PROVE  /\ At(doc, <<k>>) = doc[k]
                 /\ At(doc, <<"sglang_config", "tp_size">>) = doc.tp_size
                 /\ At(doc, <<"docker_config", k>>) = doc.docker_config[k]
                 /\ At(doc, <<"docker_config", "env", k>>) = ValueOf(doc.docker_config.env, k)
      BY AtLeaf
    <2> QED BY <2>1
  <1>2. ASSUME leaf \in Differing(old, new) PROVE IsDifferingLeaf(leaf, old, new)
    <2>1. leaf \in Leaves(old) \cup Leaves(new) /\ ~Same(leaf)
      BY <1>2 DEF Differing
    <2> HIDE DEF Same
    <2>2. CASE \E k \in {"image", "tp_size"} : leaf = <<k>>
      BY <2>1, <2>2, <1>at DEF IsDifferingLeaf
    <2>3. CASE leaf = <<"sglang_config", "tp_size">>
      BY <2>1, <2>3, <1>at DEF IsDifferingLeaf
    <2>4. CASE \E k \in Scalars : leaf = <<"docker_config", k>>
      BY <2>1, <2>4, <1>at DEF IsDifferingLeaf
    <2>5. CASE \E k \in Keys(old.docker_config.env, new.docker_config.env) :
                 leaf = <<"docker_config", "env", k>>
      BY <2>1, <2>5, <1>at DEF IsDifferingLeaf
    <2> QED BY <2>1, <2>2, <2>3, <2>4, <2>5, <1>1
  <1>3. ASSUME IsDifferingLeaf(leaf, old, new) PROVE leaf \in Differing(old, new)
    <2>1. leaf \in Leaves(old) \cup Leaves(new)
      BY <1>1, <1>3 DEF IsDifferingLeaf
    <2>2. ~Same(leaf)
      <3> HIDE DEF Same
      <3> QED BY <1>3, <1>at DEF IsDifferingLeaf
    <2> QED BY <2>1, <2>2 DEF Differing
  <1> QED BY <1>2, <1>3

LEMMA FieldsOfPlan ==
  ASSUME NEW old \in Documents, NEW new \in Documents
  PROVE  Fields(Plan(old, new)) = Differing(old, new)
  <1>1. ASSUME NEW leaf
        PROVE  (\E item : IsItemOf(item, old, new) /\ leaf = item.field)
               <=> IsDifferingLeaf(leaf, old, new)
    <2>1. ASSUME NEW item, IsItemOf(item, old, new) PROVE IsDifferingLeaf(item.field, old, new)
      BY <2>1 DEF IsItemOf, IsDifferingLeaf
    <2>2. ASSUME IsDifferingLeaf(leaf, old, new)
          PROVE  \E value : IsItemOf([field |-> leaf, new_value |-> value], old, new)
      <3> DEFINE Named == \E value : IsItemOf([field |-> leaf, new_value |-> value], old, new)
      <3>1. (\E k \in {"image", "tp_size"} : old[k] # new[k] /\ leaf = <<k>>) => Named
        BY DEF IsItemOf
      <3>2. (old.tp_size # new.tp_size /\ leaf = <<"sglang_config", "tp_size">>) => Named
        BY DEF IsItemOf
      <3>3. ASSUME NEW k \in Scalars, old.docker_config[k] # new.docker_config[k],
                   leaf = <<"docker_config", k>>
            PROVE  IsItemOf([field |-> leaf, new_value |-> new.docker_config[k]], old, new)
        BY <3>3 DEF IsItemOf
      <3>4. ASSUME NEW k \in Keys(old.docker_config.env, new.docker_config.env),
                   ValueOf(old.docker_config.env, k) # ValueOf(new.docker_config.env, k),
                   leaf = <<"docker_config", "env", k>>
            PROVE  IsItemOf([field |-> leaf, new_value |-> ValueOf(new.docker_config.env, k)],
                            old, new)
        <4>1. [field |-> leaf, new_value |-> ValueOf(new.docker_config.env, k)]
              = [field |-> <<"docker_config", "env", k>>,
                 new_value |-> ValueOf(new.docker_config.env, k)]
          BY <3>4
        <4> QED BY <4>1, <3>4 DEF IsItemOf
      <3>5. (\E k \in Scalars : /\ old.docker_config[k] # new.docker_config[k]
                                /\ leaf = <<"docker_config", k>>) => Named
        BY <3>3
      <3>6. (\E k \in Keys(old.docker_config.env, new.docker_config.env) :
               /\ ValueOf(old.docker_config.env, k) # ValueOf(new.docker_config.env, k)
               /\ leaf = <<"docker_config", "env", k>>) => Named
        BY <3>4
      <3> HIDE DEF Named
      <3>7. Named
        BY <2>2, <3>1, <3>2, <3>5, <3>6 DEF IsDifferingLeaf
      <3> QED BY <3>7 DEF Named
    <2>3. ASSUME IsDifferingLeaf(leaf, old, new)
          PROVE  \E item : IsItemOf(item, old, new) /\ leaf = item.field
      <3>1. PICK value : IsItemOf([field |-> leaf, new_value |-> value], old, new)
        BY <2>2, <2>3
      <3>2. leaf = [field |-> leaf, new_value |-> value].field
        OBVIOUS
      <3> QED BY <3>1, <3>2
    <2>4. IsDifferingLeaf(leaf, old, new) \in BOOLEAN
      BY DEF IsDifferingLeaf
    <2> QED BY <2>1, <2>3, <2>4
  <1>2. ASSUME NEW leaf
        PROVE  leaf \in Fields(Plan(old, new)) <=> leaf \in Differing(old, new)
    BY <1>1, ItemOfPlan, DifferingLeaf DEF Fields
  <1> QED BY <1>2

\* No item of a plan of two documents is about one of the request's own fields.
LEMMA OwnItems ==
  ASSUME NEW old \in Documents, NEW new \in Documents
  PROVE  Plan(old, new) = {item \in Plan(old, AsRequest(new)) : item.field[1] \notin Own}
  <1>1. ASSUME NEW item, IsItemOf(item, old, new) PROVE item.field[1] \notin Own
    BY <1>1 DEF IsItemOf, Own
  <1>2. ASSUME NEW item, NEW k \in Own, item = [field |-> <<k>>, new_value |-> "given"]
        PROVE  item.field[1] \in Own
    BY <1>2
  <1> QED BY <1>1, <1>2, ItemOfPlan, ItemOfRequestPlan

-----------------------------------------------------------------------------
(* Risks                                                                     *)

\* Nothing in the plan carries a risk.
Harmless(config, payload) == \A item \in Plan(config, payload) : ~Risk(item)

LEMMA EnvIsRisk ==
  ASSUME NEW key, NEW value
  PROVE  Risk([field |-> <<"docker_config", "env", key>>, new_value |-> value])
  BY DEF Risk, IsPrefix

\* The request's own fields add no risk to hide behind, and take none away.
LEMMA RequestIsNoLessRisky ==
  ASSUME NEW old \in Documents, NEW new \in Documents, Harmless(old, AsRequest(new))
  PROVE  Harmless(old, new)
  BY ItemOfPlan, ItemOfRequestPlan DEF Harmless

LEMMA HarmlessKeeps ==
  ASSUME NEW old \in Documents, NEW new \in Documents, Harmless(old, new)
  PROVE  /\ Warnings(new.docker_config) \subseteq Warnings(old.docker_config)
         /\ new.docker_config.volumes = old.docker_config.volumes
         /\ new.docker_config.env = old.docker_config.env
  <1> DEFINE a == old.docker_config
             b == new.docker_config
  <1>1. ASSUME NEW k \in Scalars, a[k] # b[k]
        PROVE  ~Risk([field |-> <<"docker_config", k>>, new_value |-> b[k]])
    BY <1>1, ItemOfPlan DEF Harmless, IsItemOf
  <1>2. a.volumes = b.volumes
    BY <1>1 DEF Scalars, Risk
  <1>3. \A key \in Keys(a.env, b.env) : ValueOf(a.env, key) = ValueOf(b.env, key)
    BY EnvIsRisk, ItemOfPlan DEF Harmless, IsItemOf
  <1>4. a.env = b.env
    <2> a \in DockerConfigs /\ b \in DockerConfigs
      BY DocumentShape
    <2>1. DOMAIN a.env = DOMAIN b.env
      <3>1. /\ \A key \in DOMAIN a.env : a.env[key] # "None"
            /\ \A key \in DOMAIN b.env : b.env[key] # "None"
        BY DockerShape
      <3> QED BY <3>1, <1>3 DEF Keys, ValueOf
    <2>2. \A key \in DOMAIN a.env : a.env[key] = b.env[key]
      BY <1>3, <2>1 DEF Keys, ValueOf
    <2>3. /\ a.env = [key \in DOMAIN a.env |-> a.env[key]]
          /\ b.env = [key \in DOMAIN b.env |-> b.env[key]]
      BY DockerShape
    <2> QED BY <2>1, <2>2, <2>3
  <1>5. ASSUME NEW f \in Warnings(b) PROVE f \in Warnings(a)
    <2>1. f \in Scalars /\ f \in {"privileged", "network", "ipc", "user"}
      BY DEF Warnings, Scalars
    <2>2. CASE a[f] = b[f]
      BY <2>2 DEF Warnings
    <2>3. CASE a[f] # b[f]
      BY <2>1, <2>3, <1>1 DEF Warnings, Risk
    <2> QED BY <2>2, <2>3
  <1> QED BY <1>2, <1>4, <1>5

-----------------------------------------------------------------------------
(* Type correctness                                                          *)

Statuses == Redeployable \cup {"redeploying"}

AcceptedRequests ==
  [at : {"created", "queued", "refused", "running", "applied"}, from : {"api", "page"},
   payload : Documents, confirmed : BOOLEAN, old : Redeployable, seen : Statuses,
   base : Documents]

LEMMA TypeOKRestated ==
  TypeOK <=> /\ row \in [status : Statuses, config : Documents]
             /\ \A r \in Requests : request[r] \in {NoRequest} \cup AcceptedRequests
  BY DEF TypeOK, Statuses, AcceptedRequests

\* What TypeOK and the functions' domains say of the state.
Typed == request = [r \in Requests |-> request[r]] /\ TypeOK

LEMMA SubmitTyped ==
  ASSUME Typed, NEW r \in Requests, SubmitApi(r) \/ SubmitPage(r)
  PROVE  /\ UNCHANGED row
         /\ request[r] = NoRequest
         /\ \E new \in AcceptedRequests :
              /\ request' = [request EXCEPT ![r] = new]
              /\ new.at = "created"
              /\ Acceptable(new.base, new.payload, new.confirmed)
  <1>1. PICK from \in {"api", "page"}, doc \in Documents, confirmed \in BOOLEAN :
          \/ from = "api" /\ Submit(r, from, AsRequest(doc), confirmed)
          \/ from = "page" /\ Submit(r, from, doc, confirmed)
    BY FormIsDocument DEF SubmitApi, SubmitPage
  <1> DEFINE new == [at |-> "created", from |-> from, payload |-> doc, confirmed |-> confirmed,
                     old |-> row.status, seen |-> row.status, base |-> row.config]
  <1>2. request' = [request EXCEPT ![r] = new] /\ UNCHANGED row /\ request[r] = NoRequest
    BY <1>1, RequestedIsDocument DEF Submit
  <1>3. row.status \in Redeployable
    BY <1>1 DEF Submit
  <1>4. row.config \in Documents
    BY DEF Typed, TypeOK
  <1>5. new \in AcceptedRequests
    BY <1>3, <1>4 DEF AcceptedRequests, Statuses
  <1>6. Acceptable(row.config, doc, confirmed)
    <2>1. CASE Acceptable(row.config, doc, confirmed)
      BY <2>1
    <2>2. CASE Acceptable(row.config, AsRequest(doc), confirmed)
      BY <1>4, <2>2, RequestIsNoLessRisky DEF Acceptable, Harmless
    <2> QED BY <1>1, <2>1, <2>2 DEF Submit
  <1> QED BY <1>2, <1>5, <1>6

\* Whatever is stored meanwhile, the columns come from two documents.
LEMMA FlushTyped ==
  ASSUME NEW seen \in Documents, NEW new \in Documents, NEW stored \in Documents
  PROVE  FlushDocument(seen, new, stored) \in Documents
  <1>1. ASSUME NEW doc \in Documents
        PROVE  doc.image \in Images /\ doc.tp_size \in Sizes /\ doc.docker_config \in DockerConfigs
    BY DEF Documents, Document
  <1> QED BY <1>1 DEF FlushDocument, Flush, Documents

LEMMA TypeStep == Typed /\ [Next]_vars => Typed'
  <1> SUFFICES ASSUME Typed, [Next]_vars PROVE Typed'
    OBVIOUS
  <1> USE DEF Typed
  <1>1. /\ row \in [status : Statuses, config : Documents]
        /\ \A r \in Requests : request[r] \in {NoRequest} \cup AcceptedRequests
    BY TypeOKRestated
  <1>2. SUFFICES /\ request' = [r \in Requests |-> request'[r]]
                 /\ row' \in [status : Statuses, config : Documents]
                 /\ \A r \in Requests : request'[r] \in {NoRequest} \cup AcceptedRequests
    BY DEF TypeOK, Statuses, AcceptedRequests
  <1>3. CASE UNCHANGED vars
    BY <1>1, <1>3 DEF vars
  <1>4. ASSUME NEW r \in Requests, SubmitApi(r) \/ SubmitPage(r)
        PROVE  <1>2!1
    BY <1>1, <1>4, SubmitTyped
  <1>5. ASSUME NEW r \in Requests, request[r].at # "idle"
        PROVE  request[r] \in AcceptedRequests
    BY <1>1, <1>5 DEF NoRequest
  <1>6. ASSUME NEW r \in Requests, Accept(r) PROVE <1>2!1
    BY <1>1, <1>5, <1>6 DEF Accept, AcceptedRequests, Statuses
  <1>7. ASSUME NEW r \in Requests, Begin(r) PROVE <1>2!1
    <2>1. request[r] \in AcceptedRequests /\ row.status \in Statuses /\ row.config \in Documents
      BY <1>1, <1>5, <1>7 DEF Begin
    <2> DEFINE new == [request[r] EXCEPT !.at = "running", !.seen = row.status,
                                         !.base = row.config]
    <2>2. new \in AcceptedRequests
      BY <2>1 DEF AcceptedRequests
    <2>3. request' = [request EXCEPT ![r] = new] /\ UNCHANGED row
      BY <1>7 DEF Begin
    <2> QED BY <1>1, <2>2, <2>3
  <1>8. ASSUME NEW r \in Requests, Refuse(r) PROVE <1>2!1
    <2>1. request[r] \in AcceptedRequests /\ row.status \in Statuses
      BY <1>1, <1>5, <1>8 DEF Refuse
    <2> DEFINE new == [request[r] EXCEPT !.at = "refused", !.seen = row.status]
    <2>2. new \in AcceptedRequests
      BY <2>1 DEF AcceptedRequests
    <2>3. request' = [request EXCEPT ![r] = new] /\ UNCHANGED row
      BY <1>8 DEF Refuse
    <2> QED BY <1>1, <2>2, <2>3
  <1>9. ASSUME NEW r \in Requests, Fail(r) PROVE <1>2!1
    BY <1>1, <1>5, <1>9 DEF Fail, Flush, AcceptedRequests, Statuses
  <1>10. ASSUME NEW r \in Requests, Apply(r) PROVE <1>2!1
    <2>1. request[r] \in AcceptedRequests
      BY <1>5, <1>10 DEF Apply
    <2>2. request[r].base \in Documents /\ request[r].payload \in Documents
      BY <2>1 DEF AcceptedRequests
    <2>3. FlushDocument(request[r].base, request[r].payload, row.config) \in Documents
      BY <1>1, <2>2, FlushTyped
    <2>4. row' = [row EXCEPT !.config
                    = FlushDocument(request[r].base, request[r].payload, row.config)]
      BY <1>10 DEF Apply
    <2>5. [request[r] EXCEPT !.at = "applied"] \in AcceptedRequests
      BY <2>1 DEF AcceptedRequests
    <2>6. request' = [request EXCEPT ![r] = [request[r] EXCEPT !.at = "applied"]]
      BY <1>10 DEF Apply
    <2> QED BY <1>1, <2>3, <2>4, <2>5, <2>6
  <1>11. ASSUME NEW r \in Requests, Settle(r) PROVE <1>2!1
    BY <1>1, <1>11 DEF Settle, Statuses, Redeployable
  <1> QED BY <1>3, <1>4, <1>6, <1>7, <1>8, <1>9, <1>10, <1>11 DEF Next

-----------------------------------------------------------------------------
(* What was validated, on the configuration that it was validated on         *)

Validated ==
  \A r \in Requests :
    request[r].at \in {"created", "queued", "running"}
    => Acceptable(request[r].base, request[r].payload, request[r].confirmed)

Inv == Typed /\ Validated

\* A step disturbs Validated only by the request it changes, whatever it does to the row.
LEMMA OneRequestStep ==
  ASSUME Inv, NEW r \in Requests, NEW new, request' = [request EXCEPT ![r] = new],
         new.at \in {"created", "queued", "running"}
           => Acceptable(new.base, new.payload, new.confirmed)
  PROVE  Validated'
  <1>1. request'[r] = new /\ \A q \in Requests \ {r} : request'[q] = request[q]
    BY DEF Inv, Typed
  <1>2. ASSUME NEW q \in Requests, request'[q].at \in {"created", "queued", "running"}
        PROVE  Acceptable(request'[q].base, request'[q].payload, request'[q].confirmed)
    BY <1>1, <1>2 DEF Inv, Validated
  <1> QED BY <1>2 DEF Validated, Acceptable, Plan

LEMMA InvInit == Init => Inv
  <1> SUFFICES ASSUME Init PROVE Inv
    OBVIOUS
  <1>1. Typed
    BY DEF Init, Typed, TypeOK, NoRequest, Redeployable
  <1>2. \A r \in Requests : request[r].at = "idle"
    BY DEF Init, NoRequest
  <1> QED BY <1>1, <1>2 DEF Inv, Validated

LEMMA InvStep == Inv /\ [Next]_vars => Inv'
  <1> SUFFICES ASSUME Inv, [Next]_vars PROVE Validated'
    BY TypeStep DEF Inv
  <1> Typed
    BY DEF Inv
  <1>1. CASE UNCHANGED vars
    BY <1>1 DEF vars, Inv, Validated
  <1>2. \A r \in Requests :
          /\ request[r].at # "idle" => request[r] \in AcceptedRequests
          /\ request[r].at \in {"created", "queued", "running"}
             => Acceptable(request[r].base, request[r].payload, request[r].confirmed)
    BY TypeOKRestated DEF Typed, NoRequest, Inv, Validated
  <1>3. NoRequest.at \notin {"created", "queued", "running"}
    BY DEF NoRequest
  <1>4. ASSUME NEW r \in Requests, SubmitApi(r) \/ SubmitPage(r)
        PROVE  Validated'
    BY <1>4, SubmitTyped, OneRequestStep
  <1>5. ASSUME NEW r \in Requests, Accept(r) PROVE Validated'
    <2> DEFINE new == [request[r] EXCEPT !.at = "queued"]
    <2>1. request[r] \in AcceptedRequests /\ request[r].at = "created"
      BY <1>2, <1>5 DEF Accept
    <2>2. /\ new.base = request[r].base /\ new.payload = request[r].payload
          /\ new.confirmed = request[r].confirmed
      BY <2>1 DEF AcceptedRequests
    <2>3. request' = [request EXCEPT ![r] = new]
      BY <1>5 DEF Accept
    <2> HIDE DEF new
    <2> QED BY <1>2, <2>1, <2>2, <2>3, OneRequestStep
  <1>6. ASSUME NEW r \in Requests, Begin(r) PROVE Validated'
    <2> DEFINE new == [request[r] EXCEPT !.at = "running", !.seen = row.status,
                                         !.base = row.config]
    <2>1. request[r] \in AcceptedRequests
      BY <1>2, <1>6 DEF Begin
    <2>2. /\ new.base = row.config /\ new.payload = request[r].payload
          /\ new.confirmed = request[r].confirmed
      BY <2>1 DEF AcceptedRequests
    <2>3. /\ request' = [request EXCEPT ![r] = new]
          /\ Acceptable(row.config, request[r].payload, request[r].confirmed)
      BY <1>6 DEF Begin
    <2> HIDE DEF new
    <2> QED BY <2>2, <2>3, OneRequestStep
  <1>7. ASSUME NEW r \in Requests, Refuse(r) PROVE Validated'
    <2> DEFINE new == [request[r] EXCEPT !.at = "refused", !.seen = row.status]
    <2>1. request[r] \in AcceptedRequests
      BY <1>2, <1>7 DEF Refuse
    <2>2. new.at = "refused"
      BY <2>1 DEF AcceptedRequests
    <2>3. request' = [request EXCEPT ![r] = new]
      BY <1>7 DEF Refuse
    <2> HIDE DEF new
    <2> QED BY <2>2, <2>3, OneRequestStep
  <1>8. ASSUME NEW r \in Requests, Apply(r) PROVE Validated'
    <2> DEFINE new == [request[r] EXCEPT !.at = "applied"]
    <2>1. request[r] \in AcceptedRequests
      BY <1>2, <1>8 DEF Apply
    <2>2. new.at = "applied"
      BY <2>1 DEF AcceptedRequests
    <2>3. request' = [request EXCEPT ![r] = new]
      BY <1>8 DEF Apply
    <2> HIDE DEF new
    <2> QED BY <2>2, <2>3, OneRequestStep
  <1>9. ASSUME NEW r \in Requests, Fail(r) \/ Settle(r) PROVE Validated'
    <2>1. request' = [request EXCEPT ![r] = NoRequest]
      BY <1>9 DEF Fail, Settle
    <2> QED BY <1>3, <2>1, OneRequestStep
  <1> QED BY <1>1, <1>4, <1>5, <1>6, <1>7, <1>8, <1>9 DEF Next

LEMMA Invariance == Spec => []Inv
  <1> QED BY InvInit, InvStep, PTL DEF Spec

-----------------------------------------------------------------------------
(* Theorems                                                                  *)

\* The row holds a configuration and a known status, and every request has a document
\* and the fields that its task gets.
THEOREM TypeCorrect == Spec => []TypeOK
  <1> QED BY Invariance, PTL DEF Inv, Typed

\* The plan of a payload names the leaves at which the row and the payload differ, all of
\* them and no other, and the plan of the API's request has the same items, but for those
\* of the request's own fields.
THEOREM PlansAreDiffs == Spec => []PlanIsDiff
  <1>1. Inv => PlanIsDiff
    <2> SUFFICES ASSUME Inv, NEW r \in Requests, request[r] # NoRequest
                 PROVE  LET payload == request[r].payload IN
                        /\ Fields(Plan(row.config, payload)) = Differing(row.config, payload)
                        /\ Plan(row.config, payload)
                             = {item \in Plan(row.config, AsRequest(payload)) :
                                  item.field[1] \notin Own}
      BY DEF PlanIsDiff
    <2>1. request[r].payload \in Documents /\ row.config \in Documents
      BY TypeOKRestated DEF Inv, Typed, AcceptedRequests
    <2> QED BY <2>1, FieldsOfPlan, OwnItems
  <1> QED BY <1>1, Invariance, PTL

\* Which step ends a request's work, and how.
LEMMA LastSteps ==
  ASSUME Inv, Next, NEW r \in Requests
  PROVE  /\ request[r].at = "running" /\ request'[r].at = "applied" => Apply(r)
         /\ request[r].at = "queued" /\ request'[r].at = "refused" => Refuse(r)
  <1> Typed /\ \A q \in Requests : request[q] \in {NoRequest} \cup AcceptedRequests
    BY TypeOKRestated DEF Inv, Typed
  <1>1. PICK q \in Requests :
          \/ SubmitApi(q) \/ SubmitPage(q) \/ Accept(q)
          \/ Begin(q) \/ Refuse(q) \/ Fail(q) \/ Apply(q) \/ Settle(q)
    BY DEF Next
  <1>2. CASE SubmitApi(q) \/ SubmitPage(q)
    BY <1>2, SubmitTyped DEF Typed, NoRequest
  <1>3. CASE Accept(q)
    <2>1. request[q].at = "created"
      BY <1>3 DEF Accept
    <2> QED BY <1>3, <2>1 DEF Typed, Accept
  <1>4. CASE Begin(q)
    <2>1. request[q] \in AcceptedRequests
      BY <1>4 DEF Begin, NoRequest
    <2>2. [request[q] EXCEPT !.at = "running", !.seen = row.status,
                             !.base = row.config].at = "running"
      BY <2>1 DEF AcceptedRequests
    <2> QED BY <1>4, <2>2 DEF Typed, Begin
  <1>5. CASE Refuse(q)
    BY <1>5 DEF Typed, Refuse
  <1>6. CASE Fail(q)
    BY <1>6 DEF Typed, Fail, NoRequest
  <1>7. CASE Apply(q)
    BY <1>7 DEF Typed, Apply
  <1>8. CASE Settle(q)
    BY <1>8 DEF Typed, Settle, NoRequest
  <1> QED BY <1>1, <1>2, <1>3, <1>4, <1>5, <1>6, <1>7, <1>8

\* However many redeployments overlap, the docker configuration that one of them stores
\* without confirmation warns of nothing that the row its task had validated did not warn
\* of, and has that row's volumes and environment.
THEOREM UnconfirmedAreHarmless == Spec => UnconfirmedIsHarmless
  <1> DEFINE Kept(r) ==
        LET base == request[r].base.docker_config
            new  == row'.config.docker_config IN
        \/ request[r].confirmed
        \/ new = row.config.docker_config
        \/ /\ Warnings(new) \subseteq Warnings(base)
           /\ new.volumes = base.volumes /\ new.env = base.env
  <1>1. ASSUME Inv, Next, NEW r \in Requests,
               request[r].at = "running", request'[r].at = "applied"
        PROVE  Kept(r)
    <2> DEFINE base == request[r].base
               payload == request[r].payload
    <2>1. Apply(r)
      BY <1>1, LastSteps
    <2>2. request[r].confirmed \/ Harmless(base, payload)
      BY <1>1 DEF Inv, Validated, Acceptable, Harmless
    <2>3. base \in Documents /\ payload \in Documents /\ row.config \in Documents
      BY <1>1, TypeOKRestated DEF Inv, Typed, AcceptedRequests, NoRequest
    <2>4. row'.config = FlushDocument(base, payload, row.config)
      BY <1>1, <2>1, TypeOKRestated DEF Inv, Typed, Apply
    <2> HIDE DEF base, payload
    <2>5. row'.config.docker_config
            = Flush(base.docker_config, payload.docker_config, row.config.docker_config)
      BY <2>4 DEF FlushDocument, Document
    <2>6. row'.config.docker_config \in {row.config.docker_config, payload.docker_config}
      BY <2>5 DEF Flush
    <2>7. Harmless(base, payload) =>
            /\ Warnings(payload.docker_config) \subseteq Warnings(base.docker_config)
            /\ payload.docker_config.volumes = base.docker_config.volumes
            /\ payload.docker_config.env = base.docker_config.env
      BY <2>3, HarmlessKeeps
    <2> QED BY <2>2, <2>6, <2>7 DEF base
  <1>2. Inv /\ [Next]_vars =>
          [\A r \in Requests :
             request[r].at = "running" /\ request'[r].at = "applied" => Kept(r)]_vars
    BY <1>1
  <1> QED BY <1>2, Invariance, PTL DEF Spec, UnconfirmedIsHarmless

\* A task refuses a request only on a row whose configuration another redeployment has
\* replaced since the request was accepted.
THEOREM RefusalsHaveCause == Spec => RefusalHasCause
  <1>1. ASSUME Inv, Next, NEW r \in Requests,
               request[r].at = "queued", request'[r].at = "refused"
        PROVE  request[r].base # row.config
    <2>1. ~Acceptable(row.config, request[r].payload, request[r].confirmed)
      BY <1>1, LastSteps DEF Refuse
    <2>2. Acceptable(request[r].base, request[r].payload, request[r].confirmed)
      BY <1>1 DEF Inv, Validated
    <2> QED BY <2>1, <2>2
  <1>2. Inv /\ [Next]_vars =>
          [\A r \in Requests :
             request[r].at = "queued" /\ request'[r].at = "refused"
             => request[r].base # row.config]_vars
    BY <1>1
  <1> QED BY <1>2, Invariance, PTL DEF Spec, RefusalHasCause
================================================================================
