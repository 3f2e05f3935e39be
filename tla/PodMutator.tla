----------------------------- MODULE PodMutator -----------------------------
(***************************************************************************)
(* The mutating webhook of pods                                            *)
(* (operator/internal/webhook/v1/pod_mutator.go) in the path of every      *)
(* CREATE and UPDATE of a pod (operator/config/webhook/manifests.yaml).    *)
(*                                                                         *)
(* A write of a pod goes through Handle and then through the validation of *)
(* the API server, which refuses repeated volumes and mounts, and any      *)
(* update that changes the spec of a pod.  The agents' health annotation   *)
(* is such a write.                                                        *)
(***************************************************************************)
EXTENDS Integers, Sequences

CONSTANTS
  Pods, Labels, Containers,
  Own,            \* LD_PRELOAD the user gave each container, <<>> for none
  Policies,       \* the ComputeSentryPolicy specs that may exist
  NoPod, NoPolicy, NoConfig

Config == [p2p : Nat, hbm : Nat, evalConfig : Nat]

Policy == [selector : SUBSET Labels, enabled : BOOLEAN, config : Config]

ASSUME PolicyAssumption ==
  /\ Policies \subseteq Policy /\ NoPolicy \notin Policies
  /\ NoConfig \notin Config
  /\ Own \in [Containers -> Seq({"own"})]

PrecheckEnv == {"PRECHECK_MIN_P2P_GBPS", "PRECHECK_MIN_HBM_GBPS"} \X Nat

(* The names the webhook adds; the user's own entries are left out. *)
EnvName    == {"COMPUTE_SENTRY_UDS_PATH", "COMPUTE_SENTRY_POD_NAME", "COMPUTE_SENTRY_POD_NAMESPACE"}
VolumeName == {"compute-sentry-uds", "compute-sentry-lib", "compute-sentry-bin"}

(* What the webhook changes of a pod's spec; an init container is known by *)
(* its environment.                                                        *)
PodSpec == [preload : [Containers -> Seq({"own", "spy"})],
            env     : [Containers -> Seq(EnvName)],
            mounts  : [Containers -> Seq(VolumeName)],
            volumes : Seq(VolumeName),
            inits   : Seq(SUBSET PrecheckEnv)]

(* The annotations are fields: inject (by the user), injected and          *)
(* governance-config (by the webhook), health (by the agent).              *)
Pod == [label      : Labels,
        inject     : {"unset", "true", "false"},
        injected   : BOOLEAN,
        governance : Config \cup {NoConfig},
        health     : {"unset", "healthy", "unhealthy"},
        spec       : PodSpec]

ASSUME PodAssumption == NoPod \notin Pod

VARIABLES
  policies,  \* the policies in the webhook's cache
  pods,      \* the pods on the API server
  answer     \* ghost: who sent the last write of a pod, and what it got

vars == <<policies, pods, answer>>

Answer == [from : {"nobody", "user", "agent"}, result : {"none", "stored", "denied", "invalid"}]

TypeOK ==
  /\ policies \in SUBSET Policies
  /\ pods \in [Pods -> Pod \cup {NoPod}]
  /\ answer \in Answer

Init ==
  /\ policies \in SUBSET Policies
  /\ pods = [p \in Pods |-> NoPod]
  /\ answer = [from |-> "nobody", result |-> "none"]
-----------------------------------------------------------------------------
(* Handle *)

(* The first match of a listing whose order the cache does not define. *)
MatchedPolicy(obj) ==
  LET matching == {policy \in policies : obj.label \in policy.selector}
  IN  IF matching = {} THEN {NoPolicy} ELSE matching

(* Annotation before policy before off. *)
shouldInject(obj, policy) ==
  IF obj.inject # "unset"
  THEN obj.inject = "true"
  ELSE policy # NoPolicy /\ policy.enabled

(* Mutant: the HBM limit is filled from the P2P threshold. *)
precheckEnvsOnlyP2P(policy) ==
  IF policy = NoPolicy
  THEN {}
  ELSE {e \in { <<"PRECHECK_MIN_P2P_GBPS", policy.config.p2p>>,
                <<"PRECHECK_MIN_HBM_GBPS", policy.config.p2p>> } : e[2] # 0}

precheckEnvs(policy) ==
  IF policy = NoPolicy
  THEN {}
  ELSE {e \in { <<"PRECHECK_MIN_P2P_GBPS", policy.config.p2p>>,
                <<"PRECHECK_MIN_HBM_GBPS", policy.config.hbm>> } : e[2] # 0}

SpyEnv     == <<"COMPUTE_SENTRY_UDS_PATH", "COMPUTE_SENTRY_POD_NAME", "COMPUTE_SENTRY_POD_NAMESPACE">>
SpyMounts  == <<"compute-sentry-uds", "compute-sentry-lib">>
SpyVolumes == <<"compute-sentry-uds", "compute-sentry-lib", "compute-sentry-bin">>

(* Mutant: LD_PRELOAD of the user is overwritten. *)
InjectPreloadOverwrites(preload) == <<"spy">>

InjectPreload(preload) == <<"spy">> \o preload

InjectSpec(spec, policy) ==
  [preload |-> [c \in Containers |-> InjectPreload(spec.preload[c])],
   env     |-> [c \in Containers |-> spec.env[c] \o SpyEnv],
   mounts  |-> [c \in Containers |-> spec.mounts[c] \o SpyMounts],
   volumes |-> spec.volumes \o SpyVolumes,
   inits   |-> Append(spec.inits, precheckEnvs(policy))]

(* Mutant: the whole policy is serialized. *)
GovernanceWholePolicy(obj, policy) == IF policy = NoPolicy THEN obj.governance ELSE policy

Governance(obj, policy) == IF policy = NoPolicy THEN obj.governance ELSE policy.config

Handle(obj, policy) ==
  IF shouldInject(obj, policy)
  THEN [obj EXCEPT !.spec       = InjectSpec(obj.spec, policy),
                   !.injected   = TRUE,
                   !.governance = Governance(obj, policy)]
  ELSE obj
-----------------------------------------------------------------------------
(* A write of a pod *)

NoRepeat(seq) == \A i, j \in DOMAIN seq : seq[i] = seq[j] => i = j

Valid(spec) == NoRepeat(spec.volumes) /\ \A c \in Containers : NoRepeat(spec.mounts[c])

Store(p, obj, from) ==
  /\ pods'   = [pods EXCEPT ![p] = obj]
  /\ answer' = [from |-> from, result |-> "stored"]

Refuse(from, result) ==
  /\ answer' = [from |-> from, result |-> result]
  /\ UNCHANGED pods

(* The request could not be decoded or the policies not be listed; with    *)
(* failurePolicy Fail the API server gives up too when it has no answer.   *)
Denied(from) == Refuse(from, "denied")

Create(p, obj) ==
  /\ pods[p] = NoPod
  /\ \/ \E policy \in MatchedPolicy(obj) :
          LET new == Handle(obj, policy)
          IN  IF Valid(new.spec) THEN Store(p, new, "user") ELSE Refuse("user", "invalid")
     \/ Denied("user")
  /\ UNCHANGED policies

Update(p, obj, from) ==
  /\ \/ \E policy \in MatchedPolicy(obj) :
          LET new == Handle(obj, policy)
          IN  IF Valid(new.spec) /\ new.spec = pods[p].spec
              THEN Store(p, new, from)
              ELSE Refuse(from, "invalid")
     \/ Denied(from)
  /\ UNCHANGED policies
-----------------------------------------------------------------------------
UserSpec ==
  [preload |-> Own,
   env     |-> [c \in Containers |-> <<>>],
   mounts  |-> [c \in Containers |-> <<>>],
   volumes |-> <<>>,
   inits   |-> <<>>]

(* A pod as its user wrote it. *)
CreatePod(p, label, inject) ==
  Create(p, [label |-> label, inject |-> inject, injected |-> FALSE,
             governance |-> NoConfig, health |-> "unset", spec |-> UserSpec])

(* A pod from the manifest of a stored one, with what was injected into it. *)
CopyPod(p, q, inject) ==
  pods[q] # NoPod /\ Create(p, [pods[q] EXCEPT !.inject = inject])

(* The user edits the label or the inject annotation. *)
EditPod(p, label, inject) ==
  pods[p] # NoPod /\ Update(p, [pods[p] EXCEPT !.label = label, !.inject = inject], "user")

RunsSpy(p) == pods[p] # NoPod /\ \E c \in Containers : pods[p].spec.preload[c] # Own[c]

(* markPodStatus of the agent, for a pod whose spy sends events. *)
AgentMarks(p, health) ==
  RunsSpy(p) /\ Update(p, [pods[p] EXCEPT !.health = health], "agent")

RemovePod(p) ==
  /\ pods[p] # NoPod
  /\ pods' = [pods EXCEPT ![p] = NoPod]
  /\ UNCHANGED <<policies, answer>>

ChangePolicies(new) ==
  /\ policies' = new
  /\ UNCHANGED <<pods, answer>>

Next ==
  \/ \E p \in Pods, label \in Labels, inject \in {"unset", "true", "false"} :
       CreatePod(p, label, inject) \/ EditPod(p, label, inject)
  \/ \E p, q \in Pods, inject \in {"unset", "true", "false"} : CopyPod(p, q, inject)
  \/ \E p \in Pods, health \in {"healthy", "unhealthy"} : AgentMarks(p, health)
  \/ \E p \in Pods : RemovePod(p)
  \/ \E new \in SUBSET Policies : ChangePolicies(new)

Spec == Init /\ [][Next]_vars
-----------------------------------------------------------------------------
(* Properties *)

InjectedSpec(spec) ==
  /\ spec.preload = [c \in Containers |-> <<"spy">> \o Own[c]]
  /\ spec.env     = [c \in Containers |-> SpyEnv]
  /\ spec.mounts  = [c \in Containers |-> SpyMounts]
  /\ spec.volumes = SpyVolumes
  /\ Len(spec.inits) = 1

(* Injection is all or nothing and happens once: however a pod is created, *)
(* copied, edited and marked while policies come and go, its spec is the   *)
(* user's or has every part of the injection once, in front of the user's  *)
(* own LD_PRELOAD, and the injected annotation tells which.                *)
InjectedOnce ==
  \A p \in Pods : pods[p] # NoPod =>
    IF pods[p].injected THEN InjectedSpec(pods[p].spec) ELSE pods[p].spec = UserSpec

LimitsOf(config) ==
  IF config = NoConfig
  THEN {}
  ELSE {e \in { <<"PRECHECK_MIN_P2P_GBPS", config.p2p>>,
                <<"PRECHECK_MIN_HBM_GBPS", config.hbm>> } : e[2] # 0}

(* The limits the pre-check of a pod enforces are those of its             *)
(* governance-config annotation: both come from one policy and neither is  *)
(* renewed without the other, although the policies change under the pod.  *)
PrecheckMatchesGovernance ==
  \A p \in Pods : pods[p] # NoPod /\ pods[p].injected =>
    pods[p].spec.inits = <<LimitsOf(pods[p].governance)>>

(* docs "the agent patches the pod's annotation with its verdict": the     *)
(* patch of the agent is not one the API server refuses as invalid.        *)
VerdictPatchValid == answer.from = "agent" => answer.result # "invalid"
=============================================================================
