-------------------------- MODULE PodMutatorProofs --------------------------
(* Proofs about PodMutator, for any pods, labels, containers, LD_PRELOADs  *)
(* of the users and policies.                                              *)
EXTENDS PodMutator, SequenceTheorems, TLAPS

USE PolicyAssumption, PodAssumption

(* A pod is as its user wrote it, or injected once under one policy. *)
PodOK(obj) ==
  /\ obj \in Pod
  /\ obj.injected  => InjectedSpec(obj.spec) /\ obj.spec.inits = <<LimitsOf(obj.governance)>>
  /\ ~obj.injected => obj.spec = UserSpec /\ obj.governance = NoConfig

MInv ==
  /\ policies \in SUBSET Policies
  /\ pods \in [Pods -> Pod \cup {NoPod}]
  /\ answer \in Answer
  /\ \A p \in Pods : pods[p] # NoPod => PodOK(pods[p])

LEMMA MatchedType ==
  ASSUME policies \in SUBSET Policies, NEW obj, NEW policy \in MatchedPolicy(obj)
  PROVE  policy \in Policies \cup {NoPolicy}
  BY DEF MatchedPolicy

LEMMA EnvsAreLimits ==
  ASSUME NEW policy \in Policies \cup {NoPolicy}
  PROVE  /\ precheckEnvs(policy) \in SUBSET PrecheckEnv
         /\ policy = NoPolicy => precheckEnvs(policy) = LimitsOf(NoConfig)
         /\ policy # NoPolicy => policy.config \in Config /\ precheckEnvs(policy) = LimitsOf(policy.config)
  <1>1. policy # NoPolicy => policy.config \in Config /\ policy.config.p2p \in Nat /\ policy.config.hbm \in Nat
    BY DEF Policy, Config
  <1> QED
    BY <1>1 DEF precheckEnvs, LimitsOf, PrecheckEnv

LEMMA UserSpecType == UserSpec \in PodSpec
  <1>1. Own \in [Containers -> Seq({"own", "spy"})]
    OBVIOUS
  <1> QED
    BY <1>1 DEF UserSpec, PodSpec

LEMMA SpySeqs ==
  /\ SpyEnv \in Seq(EnvName) /\ SpyMounts \in Seq(VolumeName) /\ SpyVolumes \in Seq(VolumeName)
  <1>1. SpyEnv \in Seq(EnvName)
    BY DEF SpyEnv, EnvName
  <1>2. SpyMounts \in Seq(VolumeName)
    BY DEF SpyMounts, VolumeName
  <1>3. SpyVolumes \in Seq(VolumeName)
    BY DEF SpyVolumes, VolumeName
  <1> QED
    BY <1>1, <1>2, <1>3

(* A second injection repeats a volume. *)
LEMMA SecondInjectionInvalid ==
  ASSUME NEW spec, InjectedSpec(spec), NEW policy
  PROVE  ~Valid(InjectSpec(spec, policy))
  <1>1. InjectSpec(spec, policy).volumes = SpyVolumes \o SpyVolumes
    BY DEF InjectSpec, InjectedSpec
  <1>2. ~NoRepeat(SpyVolumes \o SpyVolumes)
    <2> DEFINE twice == SpyVolumes \o SpyVolumes
    <2>1. twice[1] = twice[4] /\ DOMAIN twice = 1 .. 6
      BY DEF SpyVolumes
    <2> QED
      BY <2>1 DEF NoRepeat
  <1> QED
    BY <1>1, <1>2 DEF Valid

(* The first injection gives every part once. *)
LEMMA FirstInjection ==
  ASSUME NEW policy \in Policies \cup {NoPolicy}
  PROVE  /\ InjectSpec(UserSpec, policy) \in PodSpec
         /\ InjectedSpec(InjectSpec(UserSpec, policy))
         /\ InjectSpec(UserSpec, policy).inits = <<precheckEnvs(policy)>>
  <1> DEFINE new == InjectSpec(UserSpec, policy)
  <1>1. new.preload = [c \in Containers |-> <<"spy">> \o Own[c]]
    BY DEF InjectSpec, UserSpec, InjectPreload
  <1>2. new.preload \in [Containers -> Seq({"own", "spy"})]
    <2>1. ASSUME NEW c \in Containers PROVE <<"spy">> \o Own[c] \in Seq({"own", "spy"})
      <3>1. Own[c] \in Seq({"own", "spy"}) /\ <<"spy">> \in Seq({"own", "spy"})
        OBVIOUS
      <3> QED
        BY <3>1, ConcatProperties
    <2> QED
      BY <1>1, <2>1
  <1>3. new.env = [c \in Containers |-> SpyEnv] /\ new.mounts = [c \in Containers |-> SpyMounts]
    BY DEF InjectSpec, UserSpec, SpyEnv, SpyMounts
  <1>4. new.volumes = SpyVolumes
    BY DEF InjectSpec, UserSpec, SpyVolumes
  <1>5. new.inits = <<precheckEnvs(policy)>>
    BY DEF InjectSpec, UserSpec
  <1>6. precheckEnvs(policy) \in SUBSET PrecheckEnv
    BY EnvsAreLimits
  <1>7. new.inits \in Seq(SUBSET PrecheckEnv) /\ Len(new.inits) = 1
    BY <1>5, <1>6
  <1>8. new \in PodSpec
    <2>1. new = [preload |-> new.preload, env |-> new.env, mounts |-> new.mounts,
                 volumes |-> new.volumes, inits |-> new.inits]
      BY DEF InjectSpec
    <2>2. new.env \in [Containers -> Seq(EnvName)] /\ new.mounts \in [Containers -> Seq(VolumeName)]
          /\ new.volumes \in Seq(VolumeName)
      BY <1>3, <1>4, SpySeqs
    <2> HIDE DEF new
    <2> QED
      BY <1>2, <1>7, <2>1, <2>2 DEF PodSpec
  <1> QED
    BY <1>1, <1>3, <1>4, <1>5, <1>7, <1>8 DEF InjectedSpec

(* Whatever the webhook makes of a good pod is good or refused. *)
LEMMA HandleOK ==
  ASSUME NEW obj, PodOK(obj), NEW policy \in Policies \cup {NoPolicy}, Valid(Handle(obj, policy).spec)
  PROVE  PodOK(Handle(obj, policy))
  <1>1. CASE ~shouldInject(obj, policy)
    BY <1>1 DEF Handle
  <1>2. CASE shouldInject(obj, policy)
    <2> DEFINE new == [obj EXCEPT !.spec       = InjectSpec(obj.spec, policy),
                                  !.injected   = TRUE,
                                  !.governance = Governance(obj, policy)]
    <2>1. Handle(obj, policy) = new
      BY <1>2 DEF Handle
    <2>2. obj \in Pod
      BY DEF PodOK
    <2>3. new.spec = InjectSpec(obj.spec, policy) /\ new.injected = TRUE
          /\ new.governance = Governance(obj, policy)
      BY <2>2 DEF Pod
    <2>4. ~obj.injected
      BY <2>1, <2>3, SecondInjectionInvalid DEF PodOK
    <2>5. obj.spec = UserSpec /\ obj.governance = NoConfig
      BY <2>4 DEF PodOK
    <2>6. new.governance \in Config \cup {NoConfig} /\ precheckEnvs(policy) = LimitsOf(new.governance)
      BY <2>3, <2>5, EnvsAreLimits DEF Governance
    <2>7. new.spec \in PodSpec /\ InjectedSpec(new.spec) /\ new.spec.inits = <<LimitsOf(new.governance)>>
      BY <2>3, <2>5, <2>6, FirstInjection
    <2>8. new \in Pod
      BY <2>2, <2>3, <2>6, <2>7 DEF Pod
    <2> QED
      BY <2>1, <2>3, <2>7, <2>8 DEF PodOK
  <1> QED
    BY <1>1, <1>2

LEMMA StoreKeeps ==
  ASSUME MInv, NEW p \in Pods, NEW obj, PodOK(obj), NEW from \in {"user", "agent"},
         Store(p, obj, from), UNCHANGED policies
  PROVE  MInv'
  <1>1. obj \in Pod
    BY DEF PodOK
  <1>2. \A q \in Pods : pods'[q] = IF q = p THEN obj ELSE pods[q]
    BY DEF Store, MInv
  <1>3. pods' \in [Pods -> Pod \cup {NoPod}]
    BY <1>1 DEF Store, MInv
  <1>4. answer' \in Answer
    BY DEF Store, Answer
  <1>5. \A q \in Pods : pods'[q] # NoPod => PodOK(pods'[q])
    BY <1>2 DEF MInv
  <1> QED
    BY <1>3, <1>4, <1>5 DEF MInv

LEMMA RefuseKeeps ==
  ASSUME MInv, NEW from \in {"user", "agent"}, NEW result \in {"denied", "invalid"},
         Refuse(from, result), UNCHANGED policies
  PROVE  MInv'
  BY DEF Refuse, MInv, Answer

LEMMA CreateKeeps ==
  ASSUME MInv, NEW p \in Pods, NEW obj, PodOK(obj), Create(p, obj)
  PROVE  MInv'
  <1>0. UNCHANGED policies
    BY DEF Create
  <1>1. ASSUME NEW policy \in MatchedPolicy(obj), Valid(Handle(obj, policy).spec),
               Store(p, Handle(obj, policy), "user")
        PROVE  MInv'
    <2>1. PodOK(Handle(obj, policy))
      BY <1>1, MatchedType, HandleOK DEF MInv
    <2> QED
      BY <1>0, <1>1, <2>1, StoreKeeps
  <1>2. CASE Refuse("user", "invalid") \/ Refuse("user", "denied")
    BY <1>0, <1>2, RefuseKeeps
  <1> QED
    BY <1>1, <1>2 DEF Create, Denied

LEMMA UpdateKeeps ==
  ASSUME MInv, NEW p \in Pods, NEW obj, PodOK(obj), NEW from \in {"user", "agent"}, Update(p, obj, from)
  PROVE  MInv'
  <1>0. UNCHANGED policies
    BY DEF Update
  <1>1. ASSUME NEW policy \in MatchedPolicy(obj), Valid(Handle(obj, policy).spec),
               Store(p, Handle(obj, policy), from)
        PROVE  MInv'
    <2>1. PodOK(Handle(obj, policy))
      BY <1>1, MatchedType, HandleOK DEF MInv
    <2> QED
      BY <1>0, <1>1, <2>1, StoreKeeps
  <1>2. CASE Refuse(from, "invalid") \/ Refuse(from, "denied")
    BY <1>0, <1>2, RefuseKeeps
  <1> QED
    BY <1>1, <1>2 DEF Update, Denied

(* An edit of the label or of the user's and the agent's annotations. *)
LEMMA EditOK ==
  ASSUME NEW obj, PodOK(obj), NEW new \in Pod,
         new.spec = obj.spec, new.injected = obj.injected, new.governance = obj.governance
  PROVE  PodOK(new)
  BY DEF PodOK

LEMMA MInvStep == MInv /\ [Next]_vars => MInv'
  <1> SUFFICES ASSUME MInv, [Next]_vars PROVE MInv'
    OBVIOUS
  <1>o. \A p \in Pods : pods[p] # NoPod => PodOK(pods[p])
    BY DEF MInv
  <1>1. ASSUME NEW p \in Pods, NEW label \in Labels, NEW inject \in {"unset", "true", "false"},
               CreatePod(p, label, inject)
        PROVE  MInv'
    <2> DEFINE obj == [label |-> label, inject |-> inject, injected |-> FALSE,
                       governance |-> NoConfig, health |-> "unset", spec |-> UserSpec]
    <2>1. PodOK(obj)
      BY UserSpecType DEF PodOK, Pod
    <2>2. Create(p, obj)
      BY <1>1 DEF CreatePod
    <2> HIDE DEF obj
    <2> QED
      BY <2>1, <2>2, CreateKeeps
  <1>2. ASSUME NEW p \in Pods, NEW label \in Labels, NEW inject \in {"unset", "true", "false"},
               EditPod(p, label, inject)
        PROVE  MInv'
    <2> DEFINE new == [pods[p] EXCEPT !.label = label, !.inject = inject]
    <2>1. PodOK(pods[p]) /\ Update(p, new, "user")
      BY <1>2, <1>o DEF EditPod
    <2>2. PodOK(new)
      BY <2>1, EditOK DEF PodOK, Pod
    <2> HIDE DEF new
    <2> QED
      BY <2>1, <2>2, UpdateKeeps
  <1>3. ASSUME NEW p \in Pods, NEW q \in Pods, NEW inject \in {"unset", "true", "false"}, CopyPod(p, q, inject)
        PROVE  MInv'
    <2> DEFINE new == [pods[q] EXCEPT !.inject = inject]
    <2>1. PodOK(pods[q]) /\ Create(p, new)
      BY <1>3, <1>o DEF CopyPod
    <2>2. PodOK(new)
      BY <2>1, EditOK DEF PodOK, Pod
    <2> HIDE DEF new
    <2> QED
      BY <2>1, <2>2, CreateKeeps
  <1>4. ASSUME NEW p \in Pods, NEW health \in {"healthy", "unhealthy"}, AgentMarks(p, health)
        PROVE  MInv'
    <2> DEFINE new == [pods[p] EXCEPT !.health = health]
    <2>1. PodOK(pods[p]) /\ Update(p, new, "agent")
      BY <1>4, <1>o DEF AgentMarks, RunsSpy
    <2>2. PodOK(new)
      BY <2>1, EditOK DEF PodOK, Pod
    <2> HIDE DEF new
    <2> QED
      BY <2>1, <2>2, UpdateKeeps
  <1>5. ASSUME NEW p \in Pods, RemovePod(p) PROVE MInv'
    <2>1. \A q \in Pods : pods'[q] = IF q = p THEN NoPod ELSE pods[q]
      BY <1>5 DEF RemovePod, MInv
    <2> QED
      BY <1>5, <2>1 DEF RemovePod, MInv
  <1>6. ASSUME NEW new \in SUBSET Policies, ChangePolicies(new) PROVE MInv'
    BY <1>6 DEF ChangePolicies, MInv
  <1>7. CASE UNCHANGED vars
    BY <1>7 DEF vars, MInv
  <1> QED
    BY <1>1, <1>2, <1>3, <1>4, <1>5, <1>6, <1>7 DEF Next

LEMMA MInvInit == Init => MInv
  BY DEF Init, MInv, Answer

(* The pods stay well-formed through every write. *)
THEOREM TypeCorrect == Spec => []TypeOK
  <1>1. MInv => TypeOK
    BY DEF MInv, TypeOK
  <1> QED
    BY <1>1, MInvInit, MInvStep, PTL DEF Spec

(* Injection is all or nothing and happens once, for any policies and any  *)
(* sequence of creations, copies, edits and verdicts.                      *)
THEOREM InjectedOnceHolds == Spec => []InjectedOnce
  <1>1. MInv => InjectedOnce
    BY DEF MInv, PodOK, InjectedOnce, Pod
  <1> QED
    BY <1>1, MInvInit, MInvStep, PTL DEF Spec

(* A pod's pre-check enforces the limits of its governance-config.         *)
THEOREM PrecheckMatchesGovernanceHolds == Spec => []PrecheckMatchesGovernance
  <1>1. MInv => PrecheckMatchesGovernance
    BY DEF MInv, PodOK, PrecheckMatchesGovernance
  <1> QED
    BY <1>1, MInvInit, MInvStep, PTL DEF Spec
=============================================================================
