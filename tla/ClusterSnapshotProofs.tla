------------------------- MODULE ClusterSnapshotProofs -------------------------
(***************************************************************************)
(* Proofs about ClusterSnapshot for any hosts and VMs, any requests lost   *)
(* and any number of migrations and power operations between the reads.    *)
(***************************************************************************)
EXTENDS ClusterSnapshot, FiniteSums, TLAPS

Unchanged == Vm \ (moved \cup switched)

(***************************************************************************)
(* The inductive invariant.  Shape: what the reads so far can have filled  *)
(* in.  WalkIsRight: a host that has been read has those of the unchanged  *)
(* VMs that are on it.  PowerIsRight: once the properties are read, an     *)
(* unchanged VM that was read somewhere is taken to be on when it is.      *)
(***************************************************************************)
Shape ==
    /\ where \in [Vm -> Host] /\ power \in [Vm -> {"on", "off"}]
    /\ step \in {"children", "vms", "props", "hostStats", "vmStats", "metrics", "done"}
    /\ hosts \in {{}, Host} /\ unread \subseteq Host
    /\ all_vms \in [Host -> SUBSET Vm]
    /\ step = "vms" => hosts = Host
    /\ step \in {"props", "hostStats", "vmStats"} => hosts = Host /\ unread = {}
    /\ step = "children" => lost = {}
    /\ step \in {"children", "vms", "props"} => \A v \in Vm : <<"props", v>> \notin lost
    /\ step = "vms" => \A h \in unread : <<"vms", h>> \notin lost /\ all_vms[h] = {}
    /\ step = "children" => all_vms = [h \in Host |-> {}]

WalkIsRight ==
    step \in {"vms", "props", "hostStats", "vmStats"} =>
        \A v \in Unchanged : \A h \in Host \ unread :
            v \in all_vms[h] <=> where[v] = h /\ <<"vms", h>> \notin lost

PowerIsRight ==
    step \in {"hostStats", "vmStats"} =>
        \A v \in Unchanged : \A h \in Host :
            v \in all_vms[h] => (v \in props <=> power[v] = "on" /\ <<"props", v>> \notin lost)

Inv == Shape /\ WalkIsRight /\ PowerIsRight

\* Nothing is read and nothing has changed.
LEMMA InitInv == Init => Inv
BY DEF Init, Inv, Shape, WalkIsRight, PowerIsRight

\* A VM that changes is no longer one of those the invariant is about.
LEMMA ChangeStep == ASSUME Inv, Migrate \/ SwitchPower PROVE Inv'
<1>1. PICK v \in Vm : /\ Unchanged' \subseteq Unchanged \ {v}
                      /\ \A u \in Vm \ {v} : where'[u] = where[u] /\ power'[u] = power[u]
                      /\ where' \in [Vm -> Host] /\ power' \in [Vm -> {"on", "off"}]
  <2>1. CASE Migrate
    <3>1. PICK v \in Vm, h \in Host : /\ where' = [where EXCEPT ![v] = h] /\ power' = power
                                     /\ moved' = moved \cup {v} /\ switched' = switched
      BY <2>1 DEF Migrate
    <3> QED  BY <3>1 DEF Unchanged, Inv, Shape
  <2>2. CASE SwitchPower
    <3>1. PICK v \in Vm :
            /\ power' = [power EXCEPT ![v] = IF @ = "on" THEN "off" ELSE "on"] /\ where' = where
            /\ switched' = switched \cup {v} /\ moved' = moved
      BY <2>2 DEF SwitchPower
    <3> QED  BY <3>1 DEF Unchanged, Inv, Shape
  <2> QED  BY <2>1, <2>2
<1>2. /\ step' = step /\ hosts' = hosts /\ unread' = unread /\ all_vms' = all_vms
      /\ props' = props /\ lost' = lost
  BY DEF Migrate, SwitchPower, Change, snap
<1>3. Shape'  BY <1>1, <1>2 DEF Inv, Shape
<1>4. WalkIsRight' /\ PowerIsRight'
  <2>1. \A u \in Unchanged' : u \in Unchanged /\ where'[u] = where[u] /\ power'[u] = power[u]
    BY <1>1 DEF Unchanged
  <2> QED  BY <1>2, <2>1 DEF Inv, WalkIsRight, PowerIsRight
<1> QED  BY <1>3, <1>4 DEF Inv

\* The collector's own steps, one read each.
LEMMA ReadStep ==
    ASSUME Inv, \/ ReadChildren \/ ReadHostVms \/ ReadProperties
                \/ ReadHostStats \/ ReadVmStats \/ ComputeMetrics
    PROVE  Inv'
<1> USE DEF Inv
<1>1. /\ where' = where /\ power' = power /\ Unchanged' = Unchanged
  BY DEF ReadChildren, ReadHostVms, ReadProperties, ReadHostStats, ReadVmStats, ComputeMetrics,
         world, Unchanged
<1>2. CASE ReadChildren
  BY <1>1, <1>2 DEF ReadChildren, Shape, WalkIsRight, PowerIsRight
<1>3. CASE ReadHostVms
  <2>1. PICK h \in unread :
          /\ unread' = unread \ {h}
          /\ \/ /\ all_vms' = [all_vms EXCEPT ![h] = {v \in Vm : where[v] = h}]
                /\ UNCHANGED lost
             \/ /\ lost' = lost \cup {<<"vms", h>>}
                /\ UNCHANGED all_vms
    BY <1>3 DEF ReadHostVms
  <2>2. Shape'
    <3>1. h \in Host  BY DEF Shape
    <3>2. \A v \in Vm : <<"props", v>> \in lost' <=> <<"props", v>> \in lost
      BY <2>1
    <3>3. all_vms' \in [Host -> SUBSET Vm]  BY <2>1 DEF Shape
    <3>4. unread' \subseteq unread /\ h \notin unread' /\ step = "vms"
          /\ step' \in {"vms", "props"} /\ (step' = "props" => unread' = {}) /\ hosts' = hosts
      BY <1>3, <2>1 DEF ReadHostVms
    <3>5. ASSUME NEW g \in unread'  PROVE <<"vms", g>> \notin lost' /\ all_vms'[g] = {}
      <4>1. g \in unread /\ g # h /\ step = "vms"  BY <3>4
      <4>2. <<"vms", g>> \notin lost /\ all_vms[g] = {} /\ g \in Host  BY <4>1 DEF Shape
      <4>3. all_vms'[g] = all_vms[g]  BY <2>1, <3>1, <4>1, <4>2 DEF Shape
      <4>4. <<"vms", g>> \in lost' <=> <<"vms", g>> \in lost  BY <2>1, <4>1
      <4> QED  BY <4>2, <4>3, <4>4
    <3>6. hosts' = Host /\ \A v \in Vm : <<"props", v>> \notin lost'
      BY <3>2, <3>4 DEF Shape
    <3>7. unread' \subseteq Host  BY <3>4 DEF Shape
    <3> HIDE DEF Inv
    <3> QED  BY <1>1, <3>3, <3>4, <3>5, <3>6, <3>7 DEF Inv, Shape
  <2>3. step = "vms" /\ h \in Host  BY <1>3 DEF ReadHostVms, Shape
  <2>4. WalkIsRight'
    <3> SUFFICES ASSUME NEW v \in Unchanged, NEW g \in Host \ unread'
                 PROVE  v \in all_vms'[g] <=> where[v] = g /\ <<"vms", g>> \notin lost'
      BY <1>1 DEF WalkIsRight
    <3>1. CASE g = h
      <4>1. <<"vms", h>> \notin lost  BY <2>3 DEF Shape
      <4>2. v \in Vm  BY DEF Unchanged
      <4>3. v \notin all_vms[h] \/ lost' = lost  BY <2>1, <2>3 DEF Shape
      <4> QED  BY <2>1, <2>3, <3>1, <4>1, <4>2, <4>3 DEF Shape
    <3>2. CASE g # h
      <4>1. g \in Host \ unread  BY <2>1, <3>2
      <4>2. all_vms'[g] = all_vms[g]  BY <2>1, <2>3, <3>2, <4>1 DEF Shape
      <4>3. <<"vms", g>> \in lost' <=> <<"vms", g>> \in lost  BY <2>1, <3>2
      <4> QED  BY <2>3, <4>1, <4>2, <4>3 DEF WalkIsRight
    <3> QED  BY <3>1, <3>2
  <2>5. PowerIsRight'  BY <1>3 DEF ReadHostVms, PowerIsRight
  <2> QED  BY <2>2, <2>4, <2>5
<1>4. CASE ReadProperties
  <2>1. PICK refused \in SUBSET (hosts \cup vm_ids) :
          /\ props' = (Hyperthreaded \cup {v \in vm_ids : power[v] = "on"}) \ refused
          /\ lost' = lost \cup {<<"props", x>> : x \in refused}
    BY <1>4 DEF ReadProperties
  <2>2. /\ step = "props" /\ step' = "hostStats" /\ hosts = Host /\ unread = {}
        /\ hosts' = hosts /\ unread' = unread /\ all_vms' = all_vms
    BY <1>4 DEF ReadProperties, Shape
  <2>3. \A h \in Host : <<"vms", h>> \in lost' <=> <<"vms", h>> \in lost
    BY <2>1
  <2>4. \A v \in Vm : <<"props", v>> \in lost' <=> v \in refused
    BY <2>1, <2>2 DEF Shape
  <2>5. Shape'  BY <1>1, <2>2 DEF Shape
  <2>6. WalkIsRight'  BY <1>1, <2>2, <2>3 DEF WalkIsRight
  <2>7. PowerIsRight'
    <3> SUFFICES ASSUME NEW v \in Unchanged, NEW h \in Host, v \in all_vms[h]
                 PROVE  v \in props' <=> power[v] = "on" /\ <<"props", v>> \notin lost'
      BY <1>1, <2>2 DEF PowerIsRight
    <3>1. v \in Vm /\ v \notin Hyperthreaded /\ v \in vm_ids
      BY <2>2, VmAssumption DEF Unchanged, vm_ids
    <3> QED  BY <2>1, <2>4, <3>1
  <2> QED  BY <2>5, <2>6, <2>7
<1>5. CASE ReadHostStats
  BY <1>1, <1>5 DEF ReadHostStats, Shape, WalkIsRight, PowerIsRight, HostStats
<1>6. CASE ReadVmStats
  BY <1>1, <1>6 DEF ReadVmStats, Shape, WalkIsRight, PowerIsRight
<1>7. CASE ComputeMetrics
  BY <1>1, <1>7 DEF ComputeMetrics, snap, Shape, WalkIsRight, PowerIsRight
<1> QED  BY <1>2, <1>3, <1>4, <1>5, <1>6, <1>7

\* Every step keeps the invariant.
LEMMA Invariance == Spec => []Inv
<1>1. Inv /\ UNCHANGED vars => Inv'
  BY DEF vars, world, snap, Inv, Shape, WalkIsRight, PowerIsRight, Unchanged
<1>2. Inv /\ [Next]_vars => Inv'
  BY <1>1, ChangeStep, ReadStep DEF Next, Terminated
<1> QED  BY InitInv, <1>2, PTL DEF Spec

(* The read is right about every VM that stays as it is, whatever the other *)
(* VMs do meanwhile.                                                        *)
THEOREM UnchangedVmIsCountedWhereItIsAlways == Spec => []UnchangedVmIsCountedWhereItIs
<1>1. Inv => UnchangedVmIsCountedWhereItIs
  <2> SUFFICES ASSUME Inv, step \in {"hostStats", "vmStats"}, NEW v \in Unchanged, NEW h \in Host
               PROVE  v \in vms_by_host(h) <=> /\ where[v] = h /\ power[v] = "on"
                                                /\ {<<"vms", h>>, <<"props", v>>} \cap lost = {}
    BY DEF UnchangedVmIsCountedWhereItIs, Unchanged
  <2>1. v \in all_vms[h] <=> where[v] = h /\ <<"vms", h>> \notin lost
    BY DEF Inv, Shape, WalkIsRight
  <2>2. v \in all_vms[h] => (v \in props <=> power[v] = "on" /\ <<"props", v>> \notin lost)
    BY DEF Inv, PowerIsRight
  <2> HIDE DEF Inv
  <2> QED  BY <2>1, <2>2 DEF vms_by_host
<1> QED  BY Invariance, <1>1, PTL

--------------------------------------------------------------------------------
(***************************************************************************)
(* Types.  What a read fills in is empty before it, so that what refers to *)
(* hosts and VMs read earlier cannot refer to others.                      *)
(***************************************************************************)
NothingYet ==
    /\ step = "children" => hosts = {}
    /\ step \in {"children", "vms", "props"} => props = {}
    /\ step \in {"children", "vms", "props", "hostStats"} => stats = {}

TypeInv == TypeOK /\ Shape /\ NothingYet

\* The model's sum is the sum of FiniteSums.
LEMMA VCpusOfIsTotal == \A vms : VCpusOf(vms) = Total(VCpus, vms)
BY DEF VCpusOf, Total

\* A sum of vCPUs is a number, and that of fewer VMs is no greater.
LEMMA VCpusOfFacts ==
    ASSUME NEW few \in SUBSET Vm, NEW many \in SUBSET Vm, few \subseteq many
    PROVE  /\ VCpusOf(few) \in Nat /\ VCpusOf(many) \in Nat
           /\ VCpusOf(few) <= VCpusOf(many)
<1>1. IsFiniteSet(few) /\ IsFiniteSet(many) /\ \A v \in Vm : VCpus[v] \in Nat
  BY VmAssumption, FS_Subset
<1>2. Total(VCpus, few) \in Nat /\ Total(VCpus, many) \in Nat
  BY <1>1, TotalFacts
<1>3. Total(VCpus, few) <= Total(VCpus, many)
  BY <1>1, TotalOfSubset
<1> QED  BY <1>2, <1>3, VCpusOfIsTotal

\* Types at first, at every step, and so always.
LEMMA TypeInit == Init => TypeInv
<1> SUFFICES ASSUME Init  PROVE TypeOK /\ NothingYet
  BY InitInv DEF TypeInv, Inv
<1>1. TypeOK
  BY VmAssumption DEF Init, TypeOK, vm_ids
<1> QED  BY <1>1 DEF Init, NothingYet

\* One operation of the client or of VCF Operations keeps the types.
LEMMA TypeStep == ASSUME TypeInv, Inv, [Next]_vars  PROVE TypeInv'
<1>1. Shape'
  <2>1. Inv'
    BY ChangeStep, ReadStep DEF Next, Terminated, vars, world, snap, Inv, Shape, WalkIsRight,
       PowerIsRight, Unchanged
  <2> QED  BY <2>1 DEF Inv
<1>2. TypeOK' /\ NothingYet'
  <2> USE DEF TypeInv
  <2>1. CASE Migrate \/ SwitchPower
    <3>1. changes' \in 0..MaxChanges
      BY <2>1, VmAssumption DEF Migrate, SwitchPower, Change, TypeOK
    <3>2. moved' \subseteq Vm /\ switched' \subseteq Vm
      BY <2>1 DEF Migrate, SwitchPower, TypeOK
    <3>3. UNCHANGED <<step, snap, metrics, lost>>
      BY <2>1 DEF Migrate, SwitchPower, Change
    <3>4. UNCHANGED <<vm_ids, powered_on>>
      BY <3>3 DEF snap, vm_ids, powered_on, vms_by_host
    <3> QED  BY <1>1, <3>1, <3>2, <3>3, <3>4 DEF Shape, TypeOK, NothingYet, snap
  <2>2. CASE ReadChildren
    BY <2>2 DEF ReadChildren, world, TypeOK, NothingYet, Requests
  <2>3. CASE ReadHostVms
    BY <2>3 DEF ReadHostVms, world, TypeOK, NothingYet, Shape, Requests
  <2>4. CASE ReadProperties
    <3>1. PICK refused \in SUBSET (hosts \cup vm_ids) :
            /\ props' = (Hyperthreaded \cup {v \in vm_ids : power[v] = "on"}) \ refused
            /\ lost' = lost \cup {<<"props", x>> : x \in refused}
      BY <2>4 DEF ReadProperties
    <3>2. vm_ids \subseteq Vm /\ hosts \subseteq Host
      BY DEF vm_ids, TypeOK
    <3>3. props' \subseteq Host \cup vm_ids
      BY <3>1, VmAssumption
    <3>4. lost' \subseteq Requests
      BY <3>1, <3>2 DEF TypeOK, Requests
    <3>5. /\ UNCHANGED <<world, hosts, unread, all_vms, stats, allocated, metrics>>
          /\ step = "props" /\ step' = "hostStats" /\ stats = {} /\ vm_ids' = vm_ids
      BY <2>4 DEF ReadProperties, NothingYet, vm_ids
    <3> QED  BY <3>3, <3>4, <3>5 DEF TypeOK, NothingYet, world
  <2>5. CASE ReadHostStats
    BY <2>5, VCpusOfFacts DEF ReadHostStats, world, TypeOK, NothingYet, vm_ids, HostStats, Requests
  <2>6. CASE ReadVmStats
    BY <2>6 DEF ReadVmStats, world, TypeOK, NothingYet, vm_ids, powered_on, vms_by_host, Requests
  <2>7. CASE ComputeMetrics
    BY <2>7 DEF ComputeMetrics, world, snap, TypeOK, NothingYet, vm_ids, powered_on, vms_by_host
  <2>8. CASE UNCHANGED vars
    BY <2>8 DEF vars, world, snap, TypeOK, NothingYet, vm_ids, powered_on, vms_by_host
  <2> QED  BY <2>1, <2>2, <2>3, <2>4, <2>5, <2>6, <2>7, <2>8 DEF Next, Terminated
<1> QED  BY <1>1, <1>2 DEF TypeInv

\* So the types hold in every state.
LEMMA TypeInvariance == Spec => []TypeInv
<1>1. TypeInv /\ Inv /\ [Next]_vars => TypeInv'
  BY TypeStep
<1> QED  BY TypeInit, Invariance, <1>1, PTL DEF Spec

(* What is read refers to what was read before it: a property to a host or  *)
(* a VM that was listed, a VM's stat to one that is taken to be on.         *)
THEOREM TypeCorrect == Spec => []TypeOK
<1>1. TypeInv => TypeOK
  BY DEF TypeInv
<1> QED  BY TypeInvariance, <1>1, PTL

--------------------------------------------------------------------------------
(***************************************************************************)
(* What is known while nothing has changed.  HonestSoFar: whatever was     *)
(* lost, what did come back is so.  CompleteSoFar: when nothing was lost,  *)
(* all that is so came back.                                               *)
(***************************************************************************)
On == {v \in Vm : power[v] = "on"}

HonestSoFar ==
    changes = 0 =>
        /\ \A h \in Host : all_vms[h] \subseteq {v \in Vm : where[v] = h}
        /\ props \subseteq Hyperthreaded \cup On
        /\ \A h \in Host : allocated[h] \in {NoData, VCpusOf(RunningOn(h))}
        /\ step = "done" => metrics = [h \in hosts |-> HostMetrics(h)]

CompleteSoFar ==
    changes = 0 /\ lost = {} /\ step # "children" =>
        /\ hosts = Host
        /\ step # "vms" => unread = {}
        /\ \A h \in Host \ unread : {v \in Vm : where[v] = h} \subseteq all_vms[h]
        /\ step \notin {"vms", "props"} => Hyperthreaded \cup On \subseteq props
        /\ step \notin {"vms", "props", "hostStats"} => HostStats \X Host \subseteq stats
        /\ step \in {"metrics", "done"} => {"vcpus"} \X On \subseteq stats

QuietInv == HonestSoFar /\ CompleteSoFar

\* What a still inventory was found to be, at first.
LEMMA QuietInit == Init => QuietInv
BY VmAssumption DEF Init, QuietInv, HonestSoFar, CompleteSoFar

\* The reads are functions of what the world and the snapshot are.
LEMMA QuietDefinitions ==
    /\ world' = world => On' = On /\ \A h : RunningOn(h)' = RunningOn(h)
    /\ snap' = snap => \A h : HostMetrics(h)' = HostMetrics(h)
<1>1. ASSUME world' = world  PROVE On' = On /\ \A h : RunningOn(h)' = RunningOn(h)
  BY <1>1 DEF world, On, RunningOn
<1>2. ASSUME snap' = snap, NEW h  PROVE HostMetrics(h)' = HostMetrics(h)
  BY <1>2 DEF snap, HostMetrics, vms_by_host
<1> QED  BY <1>1, <1>2

\* A request answered or refused keeps what was found true of the inventory.
LEMMA QuietStep == ASSUME QuietInv, TypeInv, Inv, [Next]_vars  PROVE QuietInv'
<1> USE DEF QuietInv
<1>1. CASE Migrate \/ SwitchPower
  <2>1. changes' # 0
    BY <1>1 DEF Migrate, SwitchPower, Change, TypeInv, TypeOK
  <2> QED  BY <2>1 DEF HonestSoFar, CompleteSoFar
<1>2. CASE UNCHANGED world
  <2>1. /\ changes' = changes /\ where' = where /\ power' = power /\ On' = On
        /\ \A h \in Host : VCpusOf(RunningOn(h))' = VCpusOf(RunningOn(h))
    <3>1. /\ changes' = changes /\ where' = where /\ power' = power /\ On' = On
      BY <1>2, QuietDefinitions DEF world
    <3>2. ASSUME NEW h \in Host  PROVE VCpusOf(RunningOn(h))' = VCpusOf(RunningOn(h))
      BY <3>1 DEF RunningOn
    <3> QED  BY <3>1, <3>2
  <2>2. On \subseteq Vm /\ \A h \in Host : RunningOn(h) = {v \in Vm : where[v] = h /\ power[v] = "on"}
    BY DEF On, RunningOn
  <2>3. CASE ReadChildren
    BY <2>1, <2>3 DEF ReadChildren, HonestSoFar, CompleteSoFar
  <2>4. CASE ReadHostVms
    <3>1. PICK h \in unread :
            /\ unread' = unread \ {h}
            /\ \/ /\ all_vms' = [all_vms EXCEPT ![h] = {v \in Vm : where[v] = h}]
                  /\ UNCHANGED lost
               \/ /\ lost' = lost \cup {<<"vms", h>>}
                  /\ UNCHANGED all_vms
      BY <2>4 DEF ReadHostVms
    <3>2. /\ step = "vms" /\ step' = IF unread' = {} THEN "props" ELSE "vms"
          /\ hosts' = hosts /\ props' = props /\ allocated' = allocated
      BY <2>4 DEF ReadHostVms
    <3>3. h \in Host /\ all_vms \in [Host -> SUBSET Vm]
      BY <3>2 DEF Inv, Shape
    <3>4. HonestSoFar'
      BY <2>1, <3>1, <3>2, <3>3 DEF HonestSoFar
    <3>5. CompleteSoFar'
      BY <2>1, <3>1, <3>2, <3>3 DEF CompleteSoFar
    <3> QED  BY <3>4, <3>5
  <2>5. CASE ReadProperties
    <3>1. PICK refused \in SUBSET (hosts \cup vm_ids) :
            /\ props' = (Hyperthreaded \cup {v \in vm_ids : power[v] = "on"}) \ refused
            /\ lost' = lost \cup {<<"props", x>> : x \in refused}
      BY <2>5 DEF ReadProperties
    <3>2. /\ step = "props" /\ step' = "hostStats" /\ hosts = Host
          /\ UNCHANGED <<hosts, unread, all_vms, allocated>>
      BY <2>5 DEF ReadProperties, Inv, Shape
    <3>3. vm_ids \subseteq Vm
      BY DEF vm_ids, Inv, Shape
    <3>4. HonestSoFar'
      BY <2>1, <3>1, <3>2, <3>3 DEF HonestSoFar, On
    <3>5. ASSUME changes = 0, lost' = {}  PROVE Hyperthreaded \cup On \subseteq props'
      <4>1. refused = {} /\ lost = {}
        BY <3>1, <3>5
      <4>2. On \subseteq vm_ids
        <5> SUFFICES ASSUME NEW v \in On  PROVE \E h \in hosts : v \in all_vms[h]
          BY DEF vm_ids
        <5>1. v \in Vm /\ where[v] \in Host
          BY DEF On, Inv, Shape
        <5>2. where[v] \in Host \ unread /\ {u \in Vm : where[u] = where[v]} \subseteq all_vms[where[v]]
          BY <3>2, <3>5, <4>1, <5>1 DEF CompleteSoFar
        <5> QED  BY <3>2, <5>1, <5>2
      <4> QED  BY <3>1, <4>1, <4>2 DEF On
    <3>6. CompleteSoFar'
      BY <2>1, <3>1, <3>2, <3>5 DEF CompleteSoFar
    <3> QED  BY <3>4, <3>6
  <2>6. CASE ReadHostStats
    <3>1. PICK missing \in SUBSET (HostStats \X hosts), native \in SUBSET hosts :
            /\ stats' = (HostStats \X hosts) \ missing
            /\ lost' = lost \cup missing
            /\ allocated' = [h \in Host |->
                   IF h \in native THEN VCpusOf({v \in Vm : where[v] = h /\ power[v] = "on"})
                   ELSE NoData]
      BY <2>6 DEF ReadHostStats
    <3>2. /\ step = "hostStats" /\ step' = "vmStats"
          /\ UNCHANGED <<hosts, unread, all_vms, props>>
      BY <2>6 DEF ReadHostStats
    <3>3. HonestSoFar'
      BY <2>1, <2>2, <3>1, <3>2 DEF HonestSoFar
    <3>4. CompleteSoFar'
      BY <2>1, <3>1, <3>2 DEF CompleteSoFar
    <3> QED  BY <3>3, <3>4
  <2>7. CASE ReadVmStats
    <3>1. PICK missing \in SUBSET powered_on :
            /\ stats' = stats \cup ({"vcpus"} \X (powered_on \ missing))
            /\ lost' = lost \cup ({"vcpus"} \X missing)
      BY <2>7 DEF ReadVmStats
    <3>2. /\ step = "vmStats" /\ step' = "metrics" /\ hosts = Host
          /\ UNCHANGED <<hosts, unread, all_vms, props, allocated>>
      BY <2>7 DEF ReadVmStats, Inv, Shape
    <3>3. HonestSoFar'
      BY <2>1, <3>1, <3>2 DEF HonestSoFar
    <3>4. ASSUME changes = 0, lost' = {}  PROVE missing = {} /\ lost = {} /\ On \subseteq powered_on
      <4>1. missing = {} /\ lost = {}
        <5>1. \A v \in missing : <<"vcpus", v>> \in lost'
          BY <3>1
        <5> QED  BY <3>1, <3>4, <5>1
      <4>2. ASSUME NEW v \in On  PROVE v \in powered_on
        <5>1. v \in Vm /\ where[v] \in Host
          BY DEF On, Inv, Shape
        <5>2. where[v] \in Host \ unread /\ {u \in Vm : where[u] = where[v]} \subseteq all_vms[where[v]]
          BY <3>2, <3>4, <4>1, <5>1 DEF CompleteSoFar
        <5>3. v \in props
          BY <3>2, <3>4, <4>1 DEF CompleteSoFar
        <5> QED  BY <3>2, <5>1, <5>2, <5>3 DEF powered_on, vms_by_host
      <4> QED  BY <4>1, <4>2
    <3>5. CompleteSoFar'
      BY <2>1, <3>1, <3>2, <3>4 DEF CompleteSoFar
    <3> QED  BY <3>3, <3>5
  <2>8. CASE ComputeMetrics
    <3>1. /\ UNCHANGED <<snap, lost>> /\ metrics' = [h \in hosts |-> HostMetrics(h)]
          /\ step = "metrics" /\ step' = "done"
      BY <2>8 DEF ComputeMetrics
    <3>2. metrics' = [h \in hosts' |-> HostMetrics(h)']
      BY <3>1, QuietDefinitions DEF snap
    <3> QED  BY <2>1, <3>1, <3>2 DEF HonestSoFar, CompleteSoFar, snap
  <2>9. CASE UNCHANGED vars
    <3>1. \A h : HostMetrics(h)' = HostMetrics(h)
      BY <2>9, QuietDefinitions DEF vars
    <3> QED  BY <2>1, <2>9, <3>1 DEF HonestSoFar, CompleteSoFar, vars, snap
  <2> QED  BY <1>1, <2>3, <2>4, <2>5, <2>6, <2>7, <2>8, <2>9 DEF Next, Terminated
<1>3. Migrate \/ SwitchPower \/ UNCHANGED world
  BY DEF Next, Terminated, vars, ReadChildren, ReadHostVms, ReadProperties, ReadHostStats,
     ReadVmStats, ComputeMetrics
<1> QED  BY <1>1, <1>2, <1>3

\* So it is true in every state.
LEMMA QuietInvariance == Spec => [](QuietInv /\ TypeInv /\ Inv)
<1>1. QuietInv /\ TypeInv /\ Inv /\ [Next]_vars => QuietInv'
  BY QuietStep
<1> QED  BY QuietInit, TypeInvariance, Invariance, <1>1, PTL DEF Spec

\* The greatest of fewer VMs is no greater.
LEMMA LargestFacts ==
    ASSUME NEW few \in SUBSET Vm, NEW many \in SUBSET Vm, few \subseteq many, few # {}
    PROVE  LET largest(vms) == Max({VCpus[v] : v \in vms})
           IN  /\ largest(few) \in Nat \ {0} /\ largest(many) \in Nat \ {0}
               /\ largest(few) <= largest(many)
<1> DEFINE sizes(vms) == {VCpus[v] : v \in vms}
<1>1. IsFiniteSet(few) /\ IsFiniteSet(many)
  BY VmAssumption, FS_Subset
<1>2. IsFiniteSet(sizes(few)) /\ IsFiniteSet(sizes(many))
  BY <1>1, ImageIsFinite
<1>3. /\ sizes(few) # {} /\ sizes(few) \subseteq sizes(many)
      /\ sizes(many) \subseteq Nat \ {0} /\ sizes(many) \subseteq Int
  BY VmAssumption
<1> HIDE DEF sizes
<1>4. /\ Max(sizes(few)) \in sizes(few)
      /\ Max(sizes(many)) \in sizes(many) /\ \A x \in sizes(many) : x <= Max(sizes(many))
  BY <1>2, <1>3, MaxFacts
<1>5. /\ Max(sizes(few)) \in Nat \ {0} /\ Max(sizes(many)) \in Nat \ {0}
      /\ Max(sizes(few)) <= Max(sizes(many))
  BY <1>3, <1>4
<1> QED  BY <1>5 DEF sizes

(* One host's row, while nothing has changed: the VMs it is computed of are *)
(* some of those that are on.                                               *)
LEMMA RowNeverOverstates ==
    ASSUME QuietInv, TypeInv, Inv, step = "done", changes = 0, NEW h \in hosts, NEW m \in Metrics,
           HostMetrics(h)[m] # NoData
    PROVE  AtMost(HostMetrics(h)[m], Actual(h)[m]) \/ Actual(h)[m] = NoData
<1> DEFINE known == {v \in vms_by_host(h) : <<"vcpus", v>> \in stats}
           cores == IF <<"cores", h>> \in stats THEN Cores[h] ELSE 0
           running == RunningOn(h)
<1>1. h \in Host /\ Cores[h] \in Nat \ {0} /\ MonsterPct \in Nat \ {0}
  BY VmAssumption DEF Inv, Shape
<1>2. known \subseteq vms_by_host(h) /\ vms_by_host(h) \subseteq running /\ running \subseteq Vm
  <2>1. \A v \in vms_by_host(h) : v \in Vm /\ where[v] = h /\ v \in Hyperthreaded \cup On
    BY <1>1 DEF vms_by_host, Inv, Shape, QuietInv, HonestSoFar
  <2>2. \A v \in Vm : v \notin Hyperthreaded
    BY VmAssumption
  <2> QED  BY <2>1, <2>2 DEF RunningOn, On
<1>3. VCpusOf(known) \in Nat /\ VCpusOf(running) \in Nat /\ VCpusOf(known) <= VCpusOf(running)
  BY <1>2, VCpusOfFacts
<1>4. CASE m = "monster"
  <2>1. HostMetrics(h)[m] = monster_size_ratio({VCpus[v] : v \in known}, cores * MonsterPct,
                                               Cardinality(vms_by_host(h)))
    BY <1>4 DEF HostMetrics
  <2>2. Actual(h)[m] = IF running = {} THEN Zero
                       ELSE Ratio(100 * Max({VCpus[v] : v \in running}), Cores[h] * MonsterPct)
    BY <1>4 DEF Actual
  <2>3. cores = Cores[h] /\ cores * MonsterPct \in Nat \ {0}
    <3>1. cores * MonsterPct # 0
      BY <2>1 DEF monster_size_ratio
    <3>2. cores # 0
      BY <1>1, <3>1
    <3> QED  BY <1>1, <3>1, <3>2
  <2> DEFINE size == cores * MonsterPct
             largest(vms) == Max({VCpus[v] : v \in vms})
  <2>4. CASE known = {}
    <3>1. HostMetrics(h)[m] = Zero
      BY <2>1, <2>3, <2>4 DEF monster_size_ratio
    <3>2. CASE running = {}
      BY <2>2, <3>1, <3>2 DEF AtMost, Zero
    <3>3. CASE running # {}
      <4>1. largest(running) \in Nat
        BY <1>2, <3>3, LargestFacts
      <4>2. Actual(h)[m] = <<100 * largest(running), size>>
        BY <2>2, <2>3, <3>3 DEF Ratio
      <4> HIDE DEF largest, size
      <4>3. size \in Nat
        BY <2>3 DEF size
      <4> QED  BY <3>1, <4>1, <4>2, <4>3 DEF AtMost, Zero
    <3> QED  BY <3>2, <3>3
  <2>5. CASE known # {}
    <3>1. largest(known) \in Nat /\ largest(running) \in Nat /\ largest(known) <= largest(running)
      BY <1>2, <2>5, LargestFacts
    <3>2. HostMetrics(h)[m] = <<100 * largest(known), size>>
      BY <2>1, <2>3, <2>5 DEF monster_size_ratio, Ratio
    <3>3. Actual(h)[m] = <<100 * largest(running), size>>
      BY <1>2, <2>2, <2>3, <2>5 DEF Ratio
    <3> HIDE DEF largest, size
    <3>4. size \in Nat
      BY <2>3 DEF size
    <3>5. (100 * largest(known)) * size <= (100 * largest(running)) * size
      BY <3>1, <3>4, ProductGrows
    <3> QED  BY <3>2, <3>3, <3>5 DEF AtMost
  <2> QED  BY <2>4, <2>5
<1>5. CASE m = "overcommit"
  <2> DEFINE total == IF allocated[h] # NoData THEN allocated[h] ELSE VCpusOf(known)
  <2>1. HostMetrics(h)[m] = IF cores = 0 THEN NoData ELSE Ratio(total, cores)
    BY <1>5 DEF HostMetrics
  <2>2. Actual(h)[m] = Ratio(VCpusOf(running), Cores[h])
    BY <1>5 DEF Actual
  <2>3. total \in Nat /\ total <= VCpusOf(running)
    BY <1>1, <1>3 DEF QuietInv, HonestSoFar
  <2>4. cores = Cores[h]
    BY <2>1
  <2> HIDE DEF total, cores, running
  <2>5. total * Cores[h] <= VCpusOf(running) * Cores[h]
    BY <1>1, <1>3, <2>3, ProductGrows
  <2> QED  BY <1>1, <2>1, <2>2, <2>4, <2>5 DEF AtMost, Ratio
<1>6. CASE m = "imbalance"
  <2>1. HostMetrics(h)[m] = host_cpu_imbalance_ratio(h, cores # 0 /\ <<"utilization", h>> \in stats,
                                                     h \in props)
    BY <1>6 DEF HostMetrics
  <2>2. Actual(h)[m] = host_cpu_imbalance_ratio(h, TRUE, h \in Hyperthreaded)
    BY <1>6 DEF Actual
  <2>3. h \in props => h \in Hyperthreaded
    BY <1>1, VmAssumption DEF QuietInv, HonestSoFar, On
  <2>4. RunningThreads[h] \in Nat /\ RunningCores[h] \in Nat
    BY <1>1, VmAssumption
  <2> DEFINE threads(ht) == IF ht THEN 2 * RunningThreads[h] ELSE RunningThreads[h]
             ratio(ht) == IF RunningCores[h] = 0 THEN (IF threads(ht) = 0 THEN One ELSE NoData)
                          ELSE Ratio(threads(ht), RunningCores[h])
  <2>5. HostMetrics(h)[m] = ratio(h \in props) /\ Actual(h)[m] = ratio(h \in Hyperthreaded)
    BY <2>1, <2>2 DEF host_cpu_imbalance_ratio
  <2>6. threads(h \in props) * RunningCores[h] <= threads(h \in Hyperthreaded) * RunningCores[h]
    BY <2>3, <2>4, ProductGrows
  <2> HIDE DEF cores, known
  <2> QED  BY <2>3, <2>4, <2>5, <2>6 DEF AtMost, One, Ratio
<1> QED  BY <1>4, <1>5, <1>6 DEF Metrics

(* However requests fail and stats go missing, no metric shows more risk    *)
(* than there is while the VMs stay as they are.                            *)
THEOREM FailureNeverOverstatesAlways == Spec => []FailureNeverOverstates
<1>1. QuietInv /\ TypeInv /\ Inv => FailureNeverOverstates
  <2> SUFFICES ASSUME QuietInv, TypeInv, Inv, step = "done", changes = 0,
                      NEW h \in hosts, NEW m \in Metrics,
                      metrics[h][m] # NoData, Actual(h)[m] # NoData
               PROVE  AtMost(metrics[h][m], Actual(h)[m])
    BY DEF FailureNeverOverstates
  <2>1. metrics[h] = HostMetrics(h)
    BY DEF QuietInv, HonestSoFar
  <2> QED  BY <2>1, RowNeverOverstates
<1> QED  BY QuietInvariance, <1>1, PTL

(* When nothing is lost and nothing moves, every metric is exact, and the   *)
(* cluster shows its worst host.                                            *)
THEOREM CompleteReadIsExactAlways == Spec => []CompleteReadIsExact
<1>1. QuietInv /\ TypeInv /\ Inv => CompleteReadIsExact
  <2> SUFFICES ASSUME QuietInv, TypeInv, Inv, step = "done", changes = 0, lost = {}
               PROVE  /\ hosts = Host
                      /\ \A h \in Host, m \in Metrics : Same(metrics[h][m], Actual(h)[m])
                      /\ \A m \in Metrics :
                             Same(ClusterMetric(m), _worst({Actual(h)[m] : h \in Host}))
    BY DEF CompleteReadIsExact
  <2>1. /\ hosts = Host /\ unread = {} /\ Hyperthreaded \cup On = props
        /\ \A h \in Host : all_vms[h] = {v \in Vm : where[v] = h}
        /\ HostStats \X Host \subseteq stats /\ {"vcpus"} \X On \subseteq stats
        /\ metrics = [h \in hosts |-> HostMetrics(h)]
    BY DEF QuietInv, HonestSoFar, CompleteSoFar
  <2>2. ASSUME NEW h \in Host, NEW m \in Metrics  PROVE metrics[h][m] = Actual(h)[m]
    <3>1. /\ <<"cores", h>> \in stats /\ <<"utilization", h>> \in stats
          /\ h \in props <=> h \in Hyperthreaded
      BY <2>1, VmAssumption DEF HostStats, On
    <3>2. vms_by_host(h) = RunningOn(h)
      BY <2>1, VmAssumption DEF vms_by_host, RunningOn, On
    <3>3. {v \in vms_by_host(h) : <<"vcpus", v>> \in stats} = RunningOn(h)
      BY <2>1, <3>2 DEF RunningOn, On
    <3>4. /\ Cores[h] # 0 /\ Cores[h] * MonsterPct # 0
          /\ allocated[h] \in {NoData, VCpusOf(RunningOn(h))}
      <4>1. Cores[h] \in Nat \ {0} /\ MonsterPct \in Nat \ {0}
        BY VmAssumption
      <4> QED  BY <4>1 DEF QuietInv, HonestSoFar
    <3>5. IsFiniteSet(RunningOn(h)) /\ (Cardinality(RunningOn(h)) = 0 <=> RunningOn(h) = {})
      <4>1. IsFiniteSet(RunningOn(h))
        BY VmAssumption, FS_Subset DEF RunningOn
      <4> QED  BY <4>1, FS_EmptySet
    <3>6. metrics[h] = HostMetrics(h)
      BY <2>1
    <3>7. CASE m = "monster"
      <4>1. HostMetrics(h)[m] = monster_size_ratio({VCpus[v] : v \in RunningOn(h)},
                                                   Cores[h] * MonsterPct, Cardinality(RunningOn(h)))
        BY <3>1, <3>2, <3>3, <3>7 DEF HostMetrics
      <4> QED  BY <3>4, <3>5, <3>6, <3>7, <4>1 DEF monster_size_ratio, Actual
    <3>8. CASE m = "overcommit"
      <4>1. HostMetrics(h)[m] = Ratio(VCpusOf(RunningOn(h)), Cores[h])
        BY <3>1, <3>3, <3>4, <3>8 DEF HostMetrics
      <4> QED  BY <3>6, <3>8, <4>1 DEF Actual
    <3>9. CASE m = "imbalance"
      <4>1. HostMetrics(h)[m] = host_cpu_imbalance_ratio(h, TRUE, h \in Hyperthreaded)
        BY <3>1, <3>4, <3>9 DEF HostMetrics, host_cpu_imbalance_ratio
      <4> QED  BY <3>6, <3>9, <4>1 DEF Actual
    <3> QED  BY <3>7, <3>8, <3>9 DEF Metrics
  <2>3. ASSUME NEW m \in Metrics
        PROVE  ClusterMetric(m) = _worst({Actual(h)[m] : h \in Host})
    <3>1. {metrics[h][m] : h \in hosts} = {Actual(h)[m] : h \in Host}
      BY <2>1, <2>2
    <3> QED  BY <3>1 DEF ClusterMetric
  <2> QED  BY <2>1, <2>2, <2>3 DEF Same
<1> QED  BY QuietInvariance, <1>1, PTL
================================================================================
