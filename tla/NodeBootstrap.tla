---------------------------- MODULE NodeBootstrap ----------------------------
(***************************************************************************)
(* How a node is prepared and how an injected pod starts on it: main of    *)
(* the agent (agent/main.go) copies the spy library and the pre-check      *)
(* script to the host, the init container that the webhook added           *)
(* (operator/internal/webhook/v1/pod_mutator.go) runs the script           *)
(* (scripts/precheck.sh), and the dynamic linker loads the library into    *)
(* the containers.                                                         *)
(*                                                                         *)
(* The agent writes both files in place, so a file has its mode from an    *)
(* earlier copy while it is written again.  The kernel may refuse to       *)
(* execute a file that is open for writing; the shell of the init          *)
(* container reads the script later, in one piece, and takes whatever it   *)
(* finds there, an empty file too.                                         *)
(***************************************************************************)
EXTENDS Integers

CONSTANTS
  Pods,
  Never,    \* the pods with restartPolicy Never
  Limits,   \* thresholds of the policy of each pod, 0 for none
  Probes,   \* what the tools may measure on this node for each pod
  NoProbe   \* no measurement

DefaultHBM == 1000
DefaultP2P == 20

(* hbm: the figures of the two directions, p2p: 0 if the tool gives none *)
Probe == [tools : SUBSET {"nvidia-smi", "bandwidthTest", "p2pBandwidthLatencyTest"},
          hbm   : SUBSET Nat,
          gpus  : Nat,
          p2p   : Nat]

ASSUME BootstrapAssumption ==
  /\ Never \subseteq Pods
  /\ Limits \in [Pods -> [hbm : Nat, p2p : Nat]]
  /\ Probes \in [Pods -> SUBSET Probe]
  /\ NoProbe \notin Probe

Files == {"lib", "script"}

VARIABLES
  agent,         \* where main of the agent is
  file,          \* the file distributeFile is called for
  content,       \* what is at the two destinations
  executable,    \* the destinations with mode 0755
  rewritten,     \* ghost: files that were written again when pods could pass already
  status,        \* the pods of the node
  evidence,      \* ghost: what the script that let the pod through had measured
  loaded         \* the pods whose processes have the spy

podVars  == <<status, evidence, loaded>>
fileVars == <<content, executable>>
vars     == <<agent, file, fileVars, rewritten, podVars>>

TypeOK ==
  /\ agent \in {"down", "create", "copy", "chmod", "collector", "serving"}
  /\ file \in Files
  /\ content \in [Files -> {"absent", "partial", "whole"}]
  /\ executable \in SUBSET Files
  /\ rewritten \in SUBSET Files
  /\ status \in [Pods -> {"none", "init", "checked", "running", "failed"}]
  /\ evidence \in [Pods -> Probe \cup {NoProbe}]
  /\ loaded \in SUBSET {p \in Pods : status[p] = "running"}

Init ==
  /\ agent = "down" /\ file = "lib"
  /\ content = [f \in Files |-> "absent"]
  /\ executable = {}
  /\ rewritten = {}
  /\ status = [p \in Pods |-> "none"]
  /\ evidence = [p \in Pods |-> NoProbe]
  /\ loaded = {}
-----------------------------------------------------------------------------
(* The agent *)

(* Mutant: an agent that cannot copy the library goes on. *)
AgentStartSkipsLibrary ==
  /\ agent = "down"
  /\ agent' = "create" /\ file' = "script"
  /\ UNCHANGED <<fileVars, rewritten, podVars>>

(* main up to the first copy.  The topology labels it asks the API server  *)
(* for only go into metrics, but it waits for them without a timeout.      *)
AgentStart ==
  /\ agent = "down"
  /\ agent' = "create" /\ file' = "lib"
  /\ UNCHANGED <<fileVars, rewritten, podVars>>

(* Mutant: the destination is created with mode 0755. *)
CreateDestExecutable ==
  /\ agent = "create"
  /\ agent' = "copy"
  /\ content' = [content EXCEPT ![file] = "partial"]
  /\ executable' = executable \cup {file}
  /\ rewritten' = rewritten \cup {f \in {file} : "script" \in executable}
  /\ UNCHANGED <<file, podVars>>

(* Mutant: a destination that exists is not copied again. *)
CreateDestUnlessExists ==
  /\ agent = "create"
  /\ agent' = IF content[file] = "absent" THEN "copy" ELSE "chmod"
  /\ content' = [content EXCEPT ![file] = IF @ = "absent" THEN "partial" ELSE @]
  /\ UNCHANGED <<file, executable, rewritten, podVars>>

(* os.Create truncates a file that exists and leaves its mode alone. *)
CreateDest ==
  /\ agent = "create"
  /\ agent' = "copy"
  /\ content' = [content EXCEPT ![file] = "partial"]
  /\ rewritten' = rewritten \cup {f \in {file} : "script" \in executable}
  /\ UNCHANGED <<file, executable, podVars>>

CopyFile ==
  /\ agent = "copy"
  /\ agent' = "chmod"
  /\ content' = [content EXCEPT ![file] = "whole"]
  /\ UNCHANGED <<file, executable, rewritten, podVars>>

(* Mutant: mode 0644. *)
ChmodReadOnly ==
  /\ agent = "chmod"
  /\ agent' = IF file = "lib" THEN "create" ELSE "collector"
  /\ file' = "script"
  /\ UNCHANGED <<fileVars, rewritten, podVars>>

(* The end of distributeFile: first the library, then the script. *)
Chmod ==
  /\ agent = "chmod"
  /\ executable' = executable \cup {file}
  /\ agent' = IF file = "lib" THEN "create" ELSE "collector"
  /\ file' = "script"
  /\ UNCHANGED <<content, rewritten, podVars>>

(* Collector.Start; for the rest of main see EventPipeline. *)
Serve ==
  /\ agent = "collector"
  /\ agent' = "serving"
  /\ UNCHANGED <<file, fileVars, rewritten, podVars>>

(* A crash, a rollout, or log.Fatalf after any step that failed. *)
AgentDies ==
  /\ agent # "down"
  /\ agent' = "down"
  /\ UNCHANGED <<file, fileVars, rewritten, podVars>>
-----------------------------------------------------------------------------
(* The pre-check *)

(* The webhook leaves a threshold of 0 out and the script fills it in. *)
MinHBM(p) == IF Limits[p].hbm = 0 THEN DefaultHBM ELSE Limits[p].hbm
MinP2P(p) == IF Limits[p].p2p = 0 THEN DefaultP2P ELSE Limits[p].p2p

(* The awk program compares the second figure with the first one as texts, *)
(* so it may keep either of them.                                          *)
ActualHBM(probe) == probe.hbm \ {0}

ActualP2P(probe, hbm) == IF probe.p2p > 0 THEN probe.p2p ELSE (6 * hbm + 5) \div 10

PassesP2P(p, probe, hbm) ==
  \/ "p2pBandwidthLatencyTest" \notin probe.tools
  \/ probe.gpus < 2
  \/ ActualP2P(probe, hbm) >= MinP2P(p)

(* The exit codes precheck.sh may end with; 1 stands for every failure. *)
precheck(p, probe) ==
  IF {"nvidia-smi", "bandwidthTest"} \subseteq probe.tools /\ ActualHBM(probe) # {}
  THEN {IF hbm >= MinHBM(p) /\ PassesP2P(p, probe, hbm) THEN 0 ELSE 1 : hbm \in ActualHBM(probe)}
  ELSE {1}

(* distributeFile closes its destination on return, after Chmod. *)
Writing(f) == file = f /\ agent \in {"copy", "chmod"}

(* What the init container may end with, and on which measurement. *)
Outcomes(p) ==
  LET refused  == {[code |-> 1, probe |-> NoProbe]}
      measured == UNION {[code : precheck(p, probe), probe : {probe}] : probe \in Probes[p]}
      cutOff   == [code : {0, 1}, probe : {NoProbe}]
  IN  IF "script" \notin executable
      THEN refused
      ELSE {o \in refused : Writing("script")}
             \cup (IF content["script"] = "whole" THEN measured ELSE cutOff)
-----------------------------------------------------------------------------
(* The pods, as the kubelet runs them *)

Schedule(p) ==
  /\ status[p] = "none"
  /\ status' = [status EXCEPT ![p] = "init"]
  /\ UNCHANGED <<agent, file, fileVars, rewritten, evidence, loaded>>

(* The init container ends; after a failure it is run again. *)
RunPrecheck(p) ==
  /\ status[p] = "init"
  /\ \E outcome \in Outcomes(p) :
       \/ /\ outcome.code = 0
          /\ status' = [status EXCEPT ![p] = "checked"]
          /\ evidence' = [evidence EXCEPT ![p] = outcome.probe]
       \/ /\ outcome.code # 0
          /\ status' = [status EXCEPT ![p] = IF p \in Never THEN "failed" ELSE "init"]
          /\ UNCHANGED evidence
  /\ UNCHANGED <<agent, file, fileVars, rewritten, loaded>>

(* The linker goes on without a preload it cannot open or does not take;   *)
(* a library without its end may also take the process with it.            *)
StartMain(p) ==
  /\ status[p] = "checked"
  /\ \/ /\ status' = [status EXCEPT ![p] = "running"]
        /\ loaded' = IF content["lib"] = "whole" THEN loaded \cup {p} ELSE loaded
     \/ /\ content["lib"] = "partial"
        /\ status' = [status EXCEPT ![p] = IF p \in Never THEN "failed" ELSE "checked"]
        /\ UNCHANGED loaded
  /\ UNCHANGED <<agent, file, fileVars, rewritten, evidence>>

(* Mutant: a process that ended still counts as observed. *)
ContainerExitsObserved(p) ==
  /\ status[p] = "running"
  /\ status' = [status EXCEPT ![p] = IF p \in Never THEN "failed" ELSE "checked"]
  /\ UNCHANGED <<agent, file, fileVars, rewritten, evidence, loaded>>

(* The training process ends, of itself or because the library was cut off *)
(* under it; the kubelet starts it again without a second pre-check.       *)
ContainerExits(p) ==
  /\ status[p] = "running"
  /\ status' = [status EXCEPT ![p] = IF p \in Never THEN "failed" ELSE "checked"]
  /\ loaded' = loaded \ {p}
  /\ UNCHANGED <<agent, file, fileVars, rewritten, evidence>>

Remove(p) ==
  /\ status[p] # "none"
  /\ status' = [status EXCEPT ![p] = "none"]
  /\ evidence' = [evidence EXCEPT ![p] = NoProbe]
  /\ loaded' = loaded \ {p}
  /\ UNCHANGED <<agent, file, fileVars, rewritten>>
-----------------------------------------------------------------------------
Next ==
  \/ AgentStart \/ CreateDest \/ CopyFile \/ Chmod \/ Serve \/ AgentDies
  \/ \E p \in Pods : Schedule(p) \/ RunPrecheck(p) \/ StartMain(p) \/ ContainerExits(p) \/ Remove(p)

Spec == Init /\ [][Next]_vars

(* The kubelet runs the containers of its pods.  Nothing is assumed of the *)
(* agent, which may wait for the API server before it copies anything.     *)
FairSpec ==
  /\ Spec
  /\ \A p \in Pods : WF_vars(RunPrecheck(p)) /\ WF_vars(StartMain(p))
-----------------------------------------------------------------------------
(* Properties *)

P2PTested(probe) ==
  "p2pBandwidthLatencyTest" \in probe.tools /\ probe.gpus >= 2 /\ probe.p2p > 0

(* No figure that was measured is below the policy: an HBM figure there    *)
(* always is, a P2P figure only if its test ran and gave one.              *)
Sound(p, probe) ==
  /\ probe # NoProbe
  /\ \E hbm \in probe.hbm \ {0} : hbm >= Limits[p].hbm
  /\ P2PTested(probe) => probe.p2p >= Limits[p].p2p

(* No pod gets past the init container unless the script has measured the  *)
(* HBM of its node and the figure it judged meets the policy, and so does  *)
(* the P2P figure if there is one: in whatever order agents and pods start *)
(* and die while the first agents distribute the files, and also while a   *)
(* later one writes the library again.  Not promised is that P2P is        *)
(* measured: without the tool, with one GPU or after a failed test         *)
(* precheck.sh:56-76 does without.  It all ends when a later agent gets to *)
(* the script: a pod that runs what is there of it passes unmeasured, and  *)
(* if that agent dies all do.                                              *)
PrecheckSound ==
  "script" \notin rewritten =>
    \A p \in Pods : status[p] \in {"checked", "running"} => Sound(p, evidence[p])

(* Until an agent writes the library a second time no process runs         *)
(* unobserved: who passed the pre-check finds the whole library, which is  *)
(* why it is copied before the script.                                     *)
SpyAlwaysLoaded ==
  "lib" \notin rewritten => \A p \in Pods : status[p] = "running" => p \in loaded

(* An agent that serves has repaired its node: whatever agents before it   *)
(* left half written, the library is whole, and every init container that  *)
(* runs now really measures and ends as its policy says.                   *)
ServingNodeRepaired ==
  agent = "serving" =>
    /\ content["lib"] = "whole"
    /\ \A p \in Pods : \A outcome \in Outcomes(p) :
         outcome.probe \in Probes[p] /\ outcome.code \in precheck(p, outcome.probe)

Healthy(p) == Probes[p] # {} /\ \A probe \in Probes[p] : precheck(p, probe) = {0}

(* A pod that came before the agent, or while it copied, is not stuck: on  *)
(* healthy hardware it starts once an agent stays.                         *)
PodStarts ==
  <>[](agent = "serving") =>
    \A p \in Pods \ Never : Healthy(p) => (status[p] = "init" ~> status[p] \notin {"init", "checked"})
=============================================================================
