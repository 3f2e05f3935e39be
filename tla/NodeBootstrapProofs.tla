------------------------ MODULE NodeBootstrapProofs ------------------------
(***************************************************************************)
(* The type invariant of NodeBootstrap, that no pod gets past the init     *)
(* container unmeasured and that none runs unobserved, for any pods,       *)
(* policies and measurements.  The inductive invariant says what state of  *)
(* the two files goes with every place of main, and with an executable     *)
(* script, as long as the files were not written again.                    *)
(***************************************************************************)
EXTENDS NodeBootstrap, TLAPS

(* Where main is says how far the current file has come. *)
CopyProgress ==
  /\ agent = "copy" => content[file] = "partial"
  /\ agent = "chmod" => content[file] = "whole"

(* An executable script is whole. *)
ScriptWhole ==
  "script" \notin rewritten /\ "script" \in executable => content["script"] = "whole"

(* Before the library is written again, whatever comes after it finds it   *)
(* whole.                                                                  *)
LibraryFirst ==
  "lib" \notin rewritten =>
    /\ "script" \in executable => content["lib"] = "whole"
    /\ \A p \in Pods : status[p] \in {"checked", "running"} => "script" \in executable

(* An agent past a file has left it whole and executable, whatever state   *)
(* it found it in.                                                         *)
Repaired ==
  /\ file = "script" /\ agent # "down" => content["lib"] = "whole"
  /\ agent \in {"collector", "serving"} =>
       file = "script" /\ content["script"] = "whole" /\ "script" \in executable

Inv == TypeOK /\ Repaired /\ CopyProgress /\ ScriptWhole /\ LibraryFirst /\ PrecheckSound /\ SpyAlwaysLoaded
-----------------------------------------------------------------------------
(* A script that ends with 0 has measured no figure below the policy. *)
LEMMA PrecheckMeasures ==
  ASSUME NEW p \in Pods, NEW probe \in Probe, 0 \in precheck(p, probe)
  PROVE  Sound(p, probe)
<1>1. PICK hbm \in ActualHBM(probe) : hbm >= MinHBM(p) /\ PassesP2P(p, probe, hbm)
  BY DEF precheck
<1>2. hbm \in probe.hbm \ {0} /\ hbm >= Limits[p].hbm
  <2>1. hbm \in probe.hbm \ {0} /\ hbm \in Nat /\ Limits[p].hbm \in Nat
    BY <1>1, BootstrapAssumption DEF ActualHBM, Probe
  <2> QED
    BY <1>1, <2>1 DEF MinHBM
<1>3. probe # NoProbe
  BY BootstrapAssumption
<1>4. ASSUME P2PTested(probe) PROVE probe.p2p >= Limits[p].p2p
  <2>1. "p2pBandwidthLatencyTest" \in probe.tools /\ ~(probe.gpus < 2)
    BY <1>4 DEF P2PTested, Probe
  <2>2. ActualP2P(probe, hbm) = probe.p2p
    BY <1>4 DEF ActualP2P, P2PTested
  <2>3. probe.p2p >= MinP2P(p)
    BY <1>1, <2>1, <2>2 DEF PassesP2P
  <2>4. probe.p2p \in Nat /\ Limits[p].p2p \in Nat
    BY BootstrapAssumption DEF Probe
  <2> QED
    BY <2>3, <2>4 DEF MinP2P
<1> QED
  BY <1>2, <1>3, <1>4 DEF Sound

(* An init container that lets its pod through has measured, unless its    *)
(* script was being written again.                                         *)
LEMMA OutcomeMeasures ==
  ASSUME Inv, NEW p \in Pods, NEW outcome \in Outcomes(p), outcome.code = 0
  PROVE  /\ "script" \in executable
         /\ outcome.probe \in Probe \cup {NoProbe}
         /\ "script" \notin rewritten => Sound(p, outcome.probe)
<1>1. "script" \in executable /\ outcome \notin {[code |-> 1, probe |-> NoProbe]}
  BY DEF Outcomes
<1>2. CASE content["script"] = "whole"
  <2>1. PICK probe \in Probes[p] : outcome \in [code : precheck(p, probe), probe : {probe}]
    BY <1>1, <1>2 DEF Outcomes
  <2>2. probe \in Probe
    BY BootstrapAssumption
  <2>3. 0 \in precheck(p, probe) /\ outcome.probe = probe
    BY <2>1
  <2> QED
    BY <1>1, <2>2, <2>3, PrecheckMeasures
<1>3. CASE content["script"] # "whole"
  <2>1. outcome \in [code : {0, 1}, probe : {NoProbe}]
    BY <1>1, <1>3 DEF Outcomes
  <2>2. "script" \in rewritten
    BY <1>1, <1>3 DEF Inv, ScriptWhole
  <2> QED
    BY <1>1, <2>1, <2>2
<1> QED
  BY <1>2, <1>3
-----------------------------------------------------------------------------
LEMMA InitEstablishes == Init => Inv
BY DEF Init, Inv, TypeOK, Repaired, CopyProgress, ScriptWhole, LibraryFirst, PrecheckSound,
       SpyAlwaysLoaded, Files

(* The steps of the agent change the files and leave the pods alone. *)
LEMMA AgentSteps ==
  Inv /\ (AgentStart \/ CreateDest \/ CopyFile \/ Chmod \/ Serve \/ AgentDies) => Inv'
<1> SUFFICES ASSUME Inv, AgentStart \/ CreateDest \/ CopyFile \/ Chmod \/ Serve \/ AgentDies
             PROVE  Inv'
  OBVIOUS
<1> USE DEF Inv
<1>1. UNCHANGED podVars
  BY DEF AgentStart, CreateDest, CopyFile, Chmod, Serve, AgentDies
<1>2. TypeOK'
  BY DEF AgentStart, CreateDest, CopyFile, Chmod, Serve, AgentDies, TypeOK, Files, podVars, fileVars
<1>3. CopyProgress'
  BY DEF AgentStart, CreateDest, CopyFile, Chmod, Serve, AgentDies, CopyProgress, TypeOK, Files, fileVars
<1>4. ScriptWhole'
  BY DEF AgentStart, CreateDest, CopyFile, Chmod, Serve, AgentDies, CopyProgress, ScriptWhole,
         TypeOK, Files, fileVars
<1>5. LibraryFirst'
  BY <1>1 DEF AgentStart, CreateDest, CopyFile, Chmod, Serve, AgentDies, CopyProgress, LibraryFirst, Repaired,
         TypeOK, Files, podVars, fileVars
<1>r. Repaired'
  BY DEF AgentStart, CreateDest, CopyFile, Chmod, Serve, AgentDies, CopyProgress, Repaired,
         TypeOK, Files, fileVars
<1>6. rewritten \subseteq rewritten'
  BY DEF AgentStart, CreateDest, CopyFile, Chmod, Serve, AgentDies
<1>7. PrecheckSound' /\ SpyAlwaysLoaded'
  BY <1>1, <1>6 DEF PrecheckSound, SpyAlwaysLoaded, Sound, P2PTested, podVars
<1> QED
  BY <1>2, <1>3, <1>4, <1>5, <1>7, <1>r

(* The steps of a pod change the pod and leave the files alone. *)
LEMMA PodSteps ==
  ASSUME Inv, NEW p \in Pods,
         Schedule(p) \/ RunPrecheck(p) \/ StartMain(p) \/ ContainerExits(p) \/ Remove(p)
  PROVE  Inv'
<1> USE DEF Inv
<1>1. UNCHANGED <<agent, file, content, executable, rewritten>>
  BY DEF Schedule, RunPrecheck, StartMain, ContainerExits, Remove, fileVars
<1>2. CopyProgress' /\ ScriptWhole' /\ Repaired'
  BY <1>1 DEF CopyProgress, ScriptWhole, Repaired
<1>3. ASSUME TypeOK',
             \A q \in Pods : status'[q] \in {"checked", "running"} =>
               /\ status[q] \notin {"checked", "running"} =>
                    /\ "script" \in executable
                    /\ "script" \notin rewritten => Sound(q, evidence'[q])
               /\ status[q] \in {"checked", "running"} => evidence'[q] = evidence[q],
             \A q \in Pods : status'[q] = "running" =>
               q \in loaded' \/ (status[q] = "running" /\ q \notin loaded)
                             \/ (status[q] = "checked" /\ content["lib"] # "whole")
      PROVE  Inv'
  <2>1. LibraryFirst'
    BY <1>1, <1>3 DEF LibraryFirst
  <2>2. PrecheckSound'
    BY <1>1, <1>3 DEF PrecheckSound, Sound, P2PTested
  <2>3. SpyAlwaysLoaded'
    BY <1>1, <1>3 DEF SpyAlwaysLoaded, LibraryFirst
  <2> QED
    BY <1>2, <1>3, <2>1, <2>2, <2>3
<1>4. CASE Schedule(p)
  BY <1>3, <1>4 DEF Schedule, TypeOK, fileVars
<1>5. CASE RunPrecheck(p)
  <2>1. PICK outcome \in Outcomes(p) :
          \/ /\ outcome.code = 0
             /\ status' = [status EXCEPT ![p] = "checked"]
             /\ evidence' = [evidence EXCEPT ![p] = outcome.probe]
          \/ /\ status' = [status EXCEPT ![p] = IF p \in Never THEN "failed" ELSE "init"]
             /\ UNCHANGED evidence
    BY <1>5 DEF RunPrecheck
  <2>2. status[p] = "init" /\ loaded' = loaded
    BY <1>5 DEF RunPrecheck
  <2>3. CASE /\ outcome.code = 0
             /\ status' = [status EXCEPT ![p] = "checked"]
             /\ evidence' = [evidence EXCEPT ![p] = outcome.probe]
    BY <1>1, <1>3, <2>2, <2>3, OutcomeMeasures DEF TypeOK
  <2>4. CASE /\ status' = [status EXCEPT ![p] = IF p \in Never THEN "failed" ELSE "init"]
             /\ UNCHANGED evidence
    BY <1>1, <1>3, <2>2, <2>4 DEF TypeOK
  <2> QED
    BY <2>1, <2>3, <2>4
<1>6. CASE StartMain(p)
  BY <1>1, <1>3, <1>6 DEF StartMain, TypeOK
<1>7. CASE ContainerExits(p)
  BY <1>1, <1>3, <1>7 DEF ContainerExits, TypeOK
<1>8. CASE Remove(p)
  BY <1>1, <1>3, <1>8 DEF Remove, TypeOK
<1> QED
  BY <1>4, <1>5, <1>6, <1>7, <1>8

LEMMA NextPreserves == Inv /\ [Next]_vars => Inv'
<1> SUFFICES ASSUME Inv, [Next]_vars PROVE Inv'
  OBVIOUS
<1>1. CASE UNCHANGED vars
  BY <1>1 DEF Inv, TypeOK, Repaired, CopyProgress, ScriptWhole, LibraryFirst, PrecheckSound, SpyAlwaysLoaded,
              Sound, P2PTested, vars, podVars, fileVars
<1>2. CASE Next
  BY <1>2, AgentSteps, PodSteps DEF Next
<1> QED
  BY <1>1, <1>2

LEMMA Invariance == Spec => []Inv
<1> QED
  BY InitEstablishes, NextPreserves, PTL DEF Spec
-----------------------------------------------------------------------------
(* The start of agent and pods (agent/main.go, the init container and the  *)
(* linker) keeps to its types.                                             *)
THEOREM TypeCorrect == Spec => []TypeOK
<1>1. Inv => TypeOK
  BY DEF Inv
<1> QED
  BY <1>1, Invariance, PTL

(* precheck.sh is a gate: however agents and pods start, die and start     *)
(* again, a pod gets past it only if HBM was measured and no figure that   *)
(* was measured is below its policy, until os.Create truncates a script    *)
(* that is in use.  A P2P figure is not promised.                          *)
THEOREM Gated == Spec => []PrecheckSound
<1>1. Inv => PrecheckSound
  BY DEF Inv
<1> QED
  BY <1>1, Invariance, PTL

(* distributeFile is called for the library first, and that is enough: no  *)
(* pod runs without the spy until the library is written again.            *)
THEOREM Observed == Spec => []SpyAlwaysLoaded
<1>1. Inv => SpyAlwaysLoaded
  BY DEF Inv
<1> QED
  BY <1>1, Invariance, PTL

(* A crash between os.Create and Chmod (agent/main.go:146) does no lasting *)
(* harm: once an agent has come to serve, the library is whole and every   *)
(* init container measures, whatever the agents before it left behind.     *)
THEOREM RepairedHolds == Spec => []ServingNodeRepaired
<1>1. ASSUME Inv, agent = "serving", NEW p \in Pods, NEW outcome \in Outcomes(p)
      PROVE  outcome.probe \in Probes[p] /\ outcome.code \in precheck(p, outcome.probe)
  <2>1. content["script"] = "whole" /\ "script" \in executable /\ ~Writing("script")
    BY <1>1 DEF Inv, Repaired, Writing
  <2>2. PICK probe \in Probes[p] : outcome \in [code : precheck(p, probe), probe : {probe}]
    BY <2>1 DEF Outcomes
  <2> QED
    BY <2>2
<1>2. Inv => ServingNodeRepaired
  BY <1>1 DEF Inv, Repaired, ServingNodeRepaired
<1> QED
  BY <1>2, Invariance, PTL
=============================================================================
