----------------------------- MODULE NodeProofs -----------------------------
(* What pods rely on holds for every kind of volume, number of pods, failure  *)
(* and restart.                                                               *)
EXTENDS NodeInvariants, TLAPS

USE DEF volume, host, pods, orders, vars, Fine, Fault, Error, Slips, At, Fails, NoJob

\* A handler goes on, ends, or another one begins.
Moves(l) == job'.op = job.op /\ job'.need = job.need /\ job'.pc = l
Ends == job'.op = "stage" /\ job'.pc = "idle"
Starts(op, l) == job'.op = op /\ job'.pc = l

\* What a step of one pod's handler does to all of them.
TaskMoves(t, l) == \A u \in Pod : tasks'[u] = IF u = t THEN l ELSE tasks[u]
PodKnown(t, k) == \A u \in Pod : published'[u] = IF u = t THEN k ELSE published[u]

LEMMA GotoMoves == ASSUME JobType, NEW l, Goto(l) PROVE Moves(l)
BY DEF JobType, Job, Goto, Moves

LEMMA EndEnds == ASSUME End PROVE Ends
BY DEF End, Ends

LEMMA GotoTaskMoves == ASSUME TaskType, NEW t \in Pod, NEW l, GotoTask(t, l) PROVE TaskMoves(t, l)
BY DEF TaskType, GotoTask, TaskMoves

\* A mount more on a target path, or one less.
TopAdded(t, x) ==
    /\ \A u \in Pod : u # t => targets'[u] = targets[u]
    /\ targets'[t] # <<>> /\ Len(targets'[t]) = Len(targets[t]) + 1
    /\ \A i \in DOMAIN targets'[t] :
          targets'[t][i] = x \/ (i \in DOMAIN targets[t] /\ targets'[t][i] = targets[t][i])
TopTaken(t) ==
    /\ \A u \in Pod : u # t => targets'[u] = targets[u]
    /\ targets'[t] # <<>> => targets[t] # <<>>
    /\ Len(targets[t]) <= 1 => targets'[t] = <<>>
    /\ Len(targets'[t]) <= Len(targets[t])
    /\ \A i \in DOMAIN targets'[t] : i \in DOMAIN targets[t] /\ targets'[t][i] = targets[t][i]

-----------------------------------------------------------------------------
(* Types *)

LEMMA VolumeTypeKept == ASSUME VolumeType, UNCHANGED <<kind, header, inner, data>> PROVE VolumeType'
BY DEF VolumeType

LEMMA HostTypeKept == ASSUME HostType, UNCHANGED <<device, mapping, path, staging>> PROVE HostType'
BY DEF HostType

LEMMA SizeTypeKept == ASSUME SizeType, UNCHANGED size PROVE SizeType'
BY DEF SizeType

LEMMA TargetTypeKept == ASSUME TargetType, UNCHANGED <<targets, paths>> PROVE TargetType'
BY DEF TargetType

LEMMA JobTypeKept == ASSUME JobType, UNCHANGED job PROVE JobType'
BY DEF JobType

LEMMA TaskTypeKept == ASSUME TaskType, UNCHANGED tasks PROVE TaskType'
BY DEF TaskType

LEMMA KnownTypeKept == ASSUME KnownType, UNCHANGED <<staged, published, expanded>> PROVE KnownType'
BY DEF KnownType

LEMMA BoundTypeKept == ASSUME BoundType, UNCHANGED <<wanted, slips, faults, wishes>> PROVE BoundType'
BY DEF BoundType

\* What is left when the mount on top is gone.
LEMMA FrontSeq ==
    ASSUME NEW s \in Seq(Source), s # <<>>
    PROVE  /\ Front(s) \in Seq(Source) /\ Len(Front(s)) = Len(s) - 1
           /\ \A i \in DOMAIN Front(s) : i \in DOMAIN s /\ Front(s)[i] = s[i]
<1>1. Len(s) \in Nat /\ Len(s) >= 1
  OBVIOUS
<1>2. Front(s) = [i \in 1..(Len(s) - 1) |-> s[i]]
  BY <1>1 DEF Front, SubSeq
<1> QED
  BY <1>1, <1>2

LEMMA AppendSeq ==
    ASSUME NEW s \in Seq(Source), NEW x \in Source
    PROVE  /\ Append(s, x) \in Seq(Source) /\ Append(s, x) # <<>>
           /\ Len(Append(s, x)) = Len(s) + 1
           /\ \A i \in DOMAIN Append(s, x) :
                 Append(s, x)[i] = x \/ (i \in DOMAIN s /\ Append(s, x)[i] = s[i])
<1>1. Append(s, x) \in Seq(Source) /\ Len(Append(s, x)) = Len(s) + 1
  OBVIOUS
<1>2. Append(s, x) # <<>>
  <2>1. Len(s) + 1 # 0 /\ Len(<<>>) = 0
    OBVIOUS
  <2> QED
    BY <1>1, <2>1
<1>3. ASSUME NEW i \in DOMAIN Append(s, x)
      PROVE  Append(s, x)[i] = x \/ (i \in DOMAIN s /\ Append(s, x)[i] = s[i])
  <2>1. i \in 1..(Len(s) + 1) /\ DOMAIN s = 1..Len(s) /\ Len(s) \in Nat
    BY <1>1
  <2>2. CASE i = Len(s) + 1
    BY <2>2
  <2>3. CASE i \in 1..Len(s)
    BY <2>1, <2>3
  <2> QED
    BY <2>1, <2>2, <2>3
<1> QED
  BY <1>1, <1>2, <1>3

LEMMA LastSeq ==
    ASSUME NEW s \in Seq(Source), s # <<>>
    PROVE  Last(s) \in Source /\ \E i \in DOMAIN s : Last(s) = s[i]
<1>1. Len(s) \in DOMAIN s
  OBVIOUS
<1> QED
  BY <1>1 DEF Last

LEMMA EmptySeq ==
    ASSUME NEW s \in Seq(Source)
    PROVE  (Len(s) = 0 <=> s = <<>>) /\ Len(s) \in Nat
OBVIOUS

LEMMA AddTop ==
    ASSUME TargetType, NEW t \in Pod, NEW x \in Source,
           targets' = [targets EXCEPT ![t] = Append(@, x)]
    PROVE  targets' \in [Pod -> Seq(Source)] /\ TopAdded(t, x)
<1>1. targets[t] \in Seq(Source) /\ targets'[t] = Append(targets[t], x)
  BY DEF TargetType
<1>2. \A u \in Pod : u # t => targets'[u] = targets[u]
  BY DEF TargetType
<1>3. targets' \in [Pod -> Seq(Source)]
  BY <1>1, AppendSeq DEF TargetType
<1> QED
  BY <1>1, <1>2, <1>3, AppendSeq DEF TopAdded

LEMMA TakeTop ==
    ASSUME TargetType, NEW t \in Pod,
           targets' = [targets EXCEPT ![t] = IF @ = <<>> THEN @ ELSE Front(@)]
    PROVE  targets' \in [Pod -> Seq(Source)] /\ TopTaken(t)
<1>1. targets[t] \in Seq(Source)
  BY DEF TargetType
<1>2. \A u \in Pod : u # t => targets'[u] = targets[u]
  BY DEF TargetType
<1>3. CASE targets[t] = <<>>
  <2>1. targets'[t] = targets[t] /\ targets' \in [Pod -> Seq(Source)]
    BY <1>3 DEF TargetType
  <2> QED
    BY <1>1, <1>2, <1>3, <2>1, EmptySeq DEF TopTaken
<1>4. CASE targets[t] # <<>>
  <2>1. targets'[t] = Front(targets[t])
    BY <1>4 DEF TargetType
  <2>2. Front(targets[t]) \in Seq(Source) /\ Len(Front(targets[t])) = Len(targets[t]) - 1
    BY <1>1, <1>4, FrontSeq
  <2>3. targets' \in [Pod -> Seq(Source)]
    BY <2>2, <1>4 DEF TargetType
  <2>4. Len(targets[t]) \in Nat /\ Len(targets[t]) # 0
    BY <1>1, <1>4, EmptySeq
  <2>5. Len(targets[t]) <= 1 => targets'[t] = <<>>
    <3> SUFFICES ASSUME Len(targets[t]) <= 1 PROVE Len(targets'[t]) = 0
      BY <2>1, <2>2, EmptySeq
    <3> QED
      BY <2>1, <2>2, <2>4
  <2>6. \A i \in DOMAIN targets'[t] : i \in DOMAIN targets[t] /\ targets'[t][i] = targets[t][i]
    BY <1>1, <1>4, <2>1, FrontSeq
  <2>7. Len(targets'[t]) <= Len(targets[t])
    BY <2>1, <2>2, <2>4
  <2> QED
    BY <1>2, <1>4, <2>3, <2>5, <2>6, <2>7 DEF TopTaken
<1> QED
  BY <1>3, <1>4

LEMMA StageType ==
    ASSUME TypeOK, Stage \/ StageAgain
    PROVE  TypeOK'
<1>1. UNCHANGED <<kind, header, inner, data, device, mapping, staging, size, targets, paths,
         tasks, published, expanded, wanted, wishes>>
  BY DEF Stage, StageAgain, CallStage
<1>2. VolumeType' /\ SizeType' /\ TargetType' /\ TaskType'
  BY <1>1, VolumeTypeKept, SizeTypeKept, TargetTypeKept, TaskTypeKept DEF TypeOK
<1>3. HostType'
  BY BoundsAssumption DEF TypeOK, Stage, StageAgain, CallStage, HostType, Device
<1>4. JobType'
  BY BoundsAssumption DEF TypeOK, Stage, StageAgain, CallStage, JobType, Job, JobPc, Goto,
     End
<1>5. KnownType'
  BY BoundsAssumption DEF TypeOK, Stage, StageAgain, CallStage, KnownType, Known
<1>6. BoundType'
  <2>1. slips' \subseteq Slip
    BY DEF TypeOK, BoundType, Stage, StageAgain, CallStage, Slip
  <2>2. faults' \in 0..MaxFaults
    BY BoundsAssumption DEF TypeOK, BoundType, Stage, StageAgain, CallStage
  <2> QED
    BY <1>1, <2>1, <2>2 DEF TypeOK, BoundType
<1> QED
  BY <1>2, <1>3, <1>4, <1>5, <1>6 DEF TypeOK

LEMMA AttachType ==
    ASSUME TypeOK, Attach
    PROVE  TypeOK'
<1>1. UNCHANGED <<kind, header, inner, data, mapping, path, staging, targets, paths, tasks,
         staged, published, expanded, wanted, slips, wishes>>
  BY DEF Attach
<1>2. VolumeType' /\ TargetType' /\ TaskType' /\ KnownType'
  BY <1>1, VolumeTypeKept, TargetTypeKept, TaskTypeKept, KnownTypeKept DEF TypeOK
<1>3. HostType'
  BY BoundsAssumption DEF TypeOK, Attach, HostType, Device
<1>4. SizeType'
  BY BoundsAssumption DEF TypeOK, Attach, SizeType, Size, Encrypted, Mount, MappedSize
<1>5. JobType'
  BY BoundsAssumption DEF TypeOK, Attach, JobType, Job, JobPc, Goto, End
<1>6. BoundType'
  BY BoundsAssumption DEF TypeOK, Attach, BoundType, Slip
<1> QED
  BY <1>2, <1>3, <1>4, <1>5, <1>6 DEF TypeOK

LEMMA WaitForIOType ==
    ASSUME TypeOK, WaitForIO
    PROVE  TypeOK'
<1>1. UNCHANGED <<kind, header, inner, data, device, mapping, path, staging, size, targets,
         paths, tasks, staged, published, expanded, wanted, wishes>>
  BY DEF WaitForIO
<1>2. VolumeType' /\ HostType' /\ SizeType' /\ TargetType' /\ TaskType' /\ KnownType'
  BY <1>1, VolumeTypeKept, HostTypeKept, SizeTypeKept, TargetTypeKept, TaskTypeKept,
     KnownTypeKept DEF TypeOK
<1>3. JobType'
  BY BoundsAssumption DEF TypeOK, WaitForIO, JobType, Job, JobPc, Goto, End
<1>4. BoundType'
  <2>1. slips' \subseteq Slip
    BY DEF TypeOK, BoundType, WaitForIO, Slip
  <2>2. faults' \in 0..MaxFaults
    BY BoundsAssumption DEF TypeOK, BoundType, WaitForIO
  <2> QED
    BY <1>1, <2>1, <2>2 DEF TypeOK, BoundType
<1> QED
  BY <1>2, <1>3, <1>4 DEF TypeOK

LEMMA ProbeType ==
    ASSUME TypeOK, Probe
    PROVE  TypeOK'
<1>1. UNCHANGED <<kind, header, inner, data, device, mapping, path, staging, size, targets,
         paths, tasks, staged, published, expanded, wanted, slips, wishes>>
  BY DEF Probe
<1>2. VolumeType' /\ HostType' /\ SizeType' /\ TargetType' /\ TaskType' /\ KnownType'
  BY <1>1, VolumeTypeKept, HostTypeKept, SizeTypeKept, TargetTypeKept, TaskTypeKept,
     KnownTypeKept DEF TypeOK
<1>3. JobType'
  BY BoundsAssumption DEF TypeOK, Probe, JobType, Job, JobPc, Goto, End
<1>4. BoundType'
  BY BoundsAssumption DEF TypeOK, Probe, BoundType, Slip
<1> QED
  BY <1>2, <1>3, <1>4 DEF TypeOK

LEMMA EncryptType ==
    ASSUME TypeOK, Encrypt
    PROVE  TypeOK'
<1>1. UNCHANGED <<kind, device, mapping, path, staging, size, targets, paths, tasks, staged,
         published, expanded, wanted, slips, wishes>>
  BY DEF Encrypt
<1>2. HostType' /\ SizeType' /\ TargetType' /\ TaskType' /\ KnownType'
  BY <1>1, HostTypeKept, SizeTypeKept, TargetTypeKept, TaskTypeKept,
     KnownTypeKept DEF TypeOK
<1>3. VolumeType'
  BY BoundsAssumption DEF TypeOK, Encrypt, VolumeType, Content
<1>4. JobType'
  BY BoundsAssumption DEF TypeOK, Encrypt, JobType, Job, JobPc, Goto, End
<1>5. BoundType'
  BY BoundsAssumption DEF TypeOK, Encrypt, BoundType, Slip
<1> QED
  BY <1>2, <1>3, <1>4, <1>5 DEF TypeOK

LEMMA OpenType ==
    ASSUME TypeOK, Open
    PROVE  TypeOK'
<1>1. UNCHANGED <<kind, header, inner, data, device, path, staging, targets, paths, tasks,
         staged, published, expanded, wanted, slips, wishes>>
  BY DEF Open
<1>2. VolumeType' /\ TargetType' /\ TaskType' /\ KnownType'
  BY <1>1, VolumeTypeKept, TargetTypeKept, TaskTypeKept, KnownTypeKept DEF TypeOK
<1>3. HostType'
  BY BoundsAssumption DEF TypeOK, Open, HostType, Device
<1>4. SizeType'
  BY BoundsAssumption DEF TypeOK, Open, SizeType, Size, Encrypted, Mount, MappedSize
<1>5. JobType'
  BY BoundsAssumption DEF TypeOK, Open, JobType, Job, JobPc, Goto, End
<1>6. BoundType'
  BY BoundsAssumption DEF TypeOK, Open, BoundType, Slip
<1> QED
  BY <1>2, <1>3, <1>4, <1>5, <1>6 DEF TypeOK

LEMMA ReadTypeType ==
    ASSUME TypeOK, ReadType
    PROVE  TypeOK'
<1>1. UNCHANGED <<kind, header, inner, data, device, mapping, path, staging, size, targets,
         paths, tasks, staged, published, expanded, wanted, wishes>>
  BY DEF ReadType
<1>2. VolumeType' /\ HostType' /\ SizeType' /\ TargetType' /\ TaskType' /\ KnownType'
  BY <1>1, VolumeTypeKept, HostTypeKept, SizeTypeKept, TargetTypeKept, TaskTypeKept,
     KnownTypeKept DEF TypeOK
<1>3. JobType'
  BY BoundsAssumption DEF TypeOK, ReadType, JobType, Job, JobPc, Goto, End
<1>4. BoundType'
  <2>1. slips' \subseteq Slip
    BY DEF TypeOK, BoundType, ReadType, Slip
  <2>2. faults' \in 0..MaxFaults
    BY BoundsAssumption DEF TypeOK, BoundType, ReadType
  <2> QED
    BY <1>1, <2>1, <2>2 DEF TypeOK, BoundType
<1> QED
  BY <1>2, <1>3, <1>4 DEF TypeOK

LEMMA FormatType ==
    ASSUME TypeOK, Format
    PROVE  TypeOK'
<1>1. UNCHANGED <<kind, device, mapping, path, staging, targets, paths, tasks, staged,
         published, expanded, wanted, slips, wishes>>
  BY DEF Format
<1>2. HostType' /\ TargetType' /\ TaskType' /\ KnownType'
  BY <1>1, HostTypeKept, TargetTypeKept, TaskTypeKept, KnownTypeKept DEF TypeOK
<1>3. VolumeType'
  BY BoundsAssumption DEF TypeOK, Format, VolumeType, Content
<1>4. SizeType'
  BY BoundsAssumption DEF TypeOK, Format, SizeType, Size, Encrypted, Mount, MappedSize
<1>5. JobType'
  BY BoundsAssumption DEF TypeOK, Format, JobType, Job, JobPc, Goto, End
<1>6. BoundType'
  BY BoundsAssumption DEF TypeOK, Format, BoundType, Slip
<1> QED
  BY <1>2, <1>3, <1>4, <1>5, <1>6 DEF TypeOK

LEMMA MountVolumeType ==
    ASSUME TypeOK, MountVolume
    PROVE  TypeOK'
<1>1. UNCHANGED <<kind, header, inner, data, device, mapping, path, size, targets, paths,
         tasks, staged, published, expanded, wanted, slips, wishes>>
  BY DEF MountVolume
<1>2. VolumeType' /\ SizeType' /\ TargetType' /\ TaskType' /\ KnownType'
  BY <1>1, VolumeTypeKept, SizeTypeKept, TargetTypeKept, TaskTypeKept,
     KnownTypeKept DEF TypeOK
<1>3. HostType'
  BY BoundsAssumption DEF TypeOK, MountVolume, HostType, Device
<1>4. JobType'
  BY BoundsAssumption DEF TypeOK, MountVolume, JobType, Job, JobPc, Goto, End
<1>5. BoundType'
  BY BoundsAssumption DEF TypeOK, MountVolume, BoundType, Slip
<1> QED
  BY <1>2, <1>3, <1>4, <1>5 DEF TypeOK

LEMMA UnstageType ==
    ASSUME TypeOK, Unstage
    PROVE  TypeOK'
<1>1. UNCHANGED <<kind, header, inner, data, device, mapping, path, staging, size, targets,
         paths, tasks, published, expanded, wanted, slips, faults, wishes>>
  BY DEF Unstage
<1>2. VolumeType' /\ HostType' /\ SizeType' /\ TargetType' /\ TaskType' /\ BoundType'
  BY <1>1, VolumeTypeKept, HostTypeKept, SizeTypeKept, TargetTypeKept, TaskTypeKept,
     BoundTypeKept DEF TypeOK
<1>3. JobType'
  BY BoundsAssumption DEF TypeOK, Unstage, JobType, Job, JobPc, Goto, End
<1>4. KnownType'
  BY BoundsAssumption DEF TypeOK, Unstage, KnownType, Known
<1> QED
  BY <1>2, <1>3, <1>4 DEF TypeOK

LEMMA UmountType ==
    ASSUME TypeOK, Umount
    PROVE  TypeOK'
<1>1. UNCHANGED <<kind, header, inner, data, device, mapping, path, size, targets, paths,
         tasks, staged, published, expanded, wanted, slips, wishes>>
  BY DEF Umount
<1>2. VolumeType' /\ SizeType' /\ TargetType' /\ TaskType' /\ KnownType'
  BY <1>1, VolumeTypeKept, SizeTypeKept, TargetTypeKept, TaskTypeKept,
     KnownTypeKept DEF TypeOK
<1>3. HostType'
  BY BoundsAssumption DEF TypeOK, Umount, HostType, Device
<1>4. JobType'
  BY BoundsAssumption DEF TypeOK, Umount, JobType, Job, JobPc, Goto, End
<1>5. BoundType'
  BY BoundsAssumption DEF TypeOK, Umount, BoundType, Slip
<1> QED
  BY <1>2, <1>3, <1>4, <1>5 DEF TypeOK

LEMMA RemoveStagingType ==
    ASSUME TypeOK, RemoveStaging
    PROVE  TypeOK'
<1>1. UNCHANGED <<kind, header, inner, data, device, mapping, staging, size, targets, paths,
         tasks, staged, published, expanded, wanted, slips, wishes>>
  BY DEF RemoveStaging
<1>2. VolumeType' /\ SizeType' /\ TargetType' /\ TaskType' /\ KnownType'
  BY <1>1, VolumeTypeKept, SizeTypeKept, TargetTypeKept, TaskTypeKept,
     KnownTypeKept DEF TypeOK
<1>3. HostType'
  BY BoundsAssumption DEF TypeOK, RemoveStaging, HostType, Device
<1>4. JobType'
  BY BoundsAssumption DEF TypeOK, RemoveStaging, JobType, Job, JobPc, Goto, End
<1>5. BoundType'
  BY BoundsAssumption DEF TypeOK, RemoveStaging, BoundType, Slip
<1> QED
  BY <1>2, <1>3, <1>4, <1>5 DEF TypeOK

LEMMA CloseType ==
    ASSUME TypeOK, Close
    PROVE  TypeOK'
<1>1. UNCHANGED <<kind, header, inner, data, device, path, staging, size, targets, paths,
         tasks, staged, published, expanded, wanted, slips, wishes>>
  BY DEF Close
<1>2. VolumeType' /\ SizeType' /\ TargetType' /\ TaskType' /\ KnownType'
  BY <1>1, VolumeTypeKept, SizeTypeKept, TargetTypeKept, TaskTypeKept,
     KnownTypeKept DEF TypeOK
<1>3. HostType'
  BY BoundsAssumption DEF TypeOK, Close, HostType, Device
<1>4. JobType'
  BY BoundsAssumption DEF TypeOK, Close, JobType, Job, JobPc, Goto, End
<1>5. BoundType'
  BY BoundsAssumption DEF TypeOK, Close, BoundType, Slip
<1> QED
  BY <1>2, <1>3, <1>4, <1>5 DEF TypeOK

LEMMA DetachVolumeType ==
    ASSUME TypeOK, DetachVolume
    PROVE  TypeOK'
<1>1. UNCHANGED <<kind, header, inner, data, mapping, path, staging, size, targets, paths,
         tasks, staged, published, expanded, wanted, slips, wishes>>
  BY DEF DetachVolume
<1>2. VolumeType' /\ SizeType' /\ TargetType' /\ TaskType' /\ KnownType'
  BY <1>1, VolumeTypeKept, SizeTypeKept, TargetTypeKept, TaskTypeKept,
     KnownTypeKept DEF TypeOK
<1>3. HostType'
  BY DEF TypeOK, DetachVolume, Leave, HostType, Device
<1>4. JobType'
  BY BoundsAssumption DEF TypeOK, DetachVolume, JobType, Job, JobPc, Goto, End
<1>5. BoundType'
  BY BoundsAssumption DEF TypeOK, DetachVolume, BoundType, Slip
<1> QED
  BY <1>2, <1>3, <1>4, <1>5 DEF TypeOK

LEMMA WaitForDetachType ==
    ASSUME TypeOK, WaitForDetach
    PROVE  TypeOK'
<1>1. UNCHANGED <<kind, header, inner, data, device, mapping, path, staging, size, targets,
         paths, tasks, staged, published, expanded, wanted, slips, wishes>>
  BY DEF WaitForDetach
<1>2. VolumeType' /\ HostType' /\ SizeType' /\ TargetType' /\ TaskType' /\ KnownType'
  BY <1>1, VolumeTypeKept, HostTypeKept, SizeTypeKept, TargetTypeKept, TaskTypeKept,
     KnownTypeKept DEF TypeOK
<1>3. JobType'
  BY BoundsAssumption DEF TypeOK, WaitForDetach, JobType, Job, JobPc, Goto, End
<1>4. BoundType'
  BY BoundsAssumption DEF TypeOK, WaitForDetach, BoundType, Slip
<1> QED
  BY <1>2, <1>3, <1>4 DEF TypeOK

LEMMA ExpandType ==
    ASSUME TypeOK, Expand
    PROVE  TypeOK'
<1>1. UNCHANGED <<kind, header, inner, data, device, mapping, path, staging, size, targets,
         paths, tasks, staged, published, expanded, wanted, slips, faults, wishes>>
  BY DEF Expand
<1>2. VolumeType' /\ HostType' /\ SizeType' /\ TargetType' /\ TaskType' /\ KnownType' /\ BoundType'
  BY <1>1, VolumeTypeKept, HostTypeKept, SizeTypeKept, TargetTypeKept, TaskTypeKept,
     KnownTypeKept, BoundTypeKept DEF TypeOK
<1>3. JobType'
  BY BoundsAssumption DEF TypeOK, Expand, JobType, Job, JobPc, SizeType, Size
<1> QED
  BY <1>2, <1>3 DEF TypeOK

LEMMA WaitForExtendType ==
    ASSUME TypeOK, WaitForExtend
    PROVE  TypeOK'
<1>1. UNCHANGED <<kind, header, inner, data, device, mapping, path, staging, size, targets,
         paths, tasks, staged, published, expanded, wanted, slips, wishes>>
  BY DEF WaitForExtend
<1>2. VolumeType' /\ HostType' /\ SizeType' /\ TargetType' /\ TaskType' /\ KnownType'
  BY <1>1, VolumeTypeKept, HostTypeKept, SizeTypeKept, TargetTypeKept, TaskTypeKept,
     KnownTypeKept DEF TypeOK
<1>3. JobType'
  BY BoundsAssumption DEF TypeOK, WaitForExtend, JobType, Job, JobPc, Goto, End
<1>4. BoundType'
  BY BoundsAssumption DEF TypeOK, WaitForExtend, BoundType, Slip
<1> QED
  BY <1>2, <1>3, <1>4 DEF TypeOK

LEMMA ResizeType ==
    ASSUME TypeOK, Resize
    PROVE  TypeOK'
<1>1. UNCHANGED <<kind, header, inner, data, device, mapping, path, staging, targets, paths,
         tasks, staged, published, expanded, wanted, slips, wishes>>
  BY DEF Resize
<1>2. VolumeType' /\ HostType' /\ TargetType' /\ TaskType' /\ KnownType'
  BY <1>1, VolumeTypeKept, HostTypeKept, TargetTypeKept, TaskTypeKept,
     KnownTypeKept DEF TypeOK
<1>3. SizeType'
  BY BoundsAssumption DEF TypeOK, Resize, SizeType, Size, Encrypted, Mount, MappedSize
<1>4. JobType'
  BY BoundsAssumption DEF TypeOK, Resize, JobType, Job, JobPc, Goto, End
<1>5. BoundType'
  BY BoundsAssumption DEF TypeOK, Resize, BoundType, Slip
<1> QED
  BY <1>2, <1>3, <1>4, <1>5 DEF TypeOK

LEMMA GrowType ==
    ASSUME TypeOK, Grow
    PROVE  TypeOK'
<1>1. UNCHANGED <<kind, header, inner, data, device, mapping, path, staging, targets, paths,
         tasks, staged, published, expanded, wanted, slips, wishes>>
  BY DEF Grow
<1>2. VolumeType' /\ HostType' /\ TargetType' /\ TaskType' /\ KnownType'
  BY <1>1, VolumeTypeKept, HostTypeKept, TargetTypeKept, TaskTypeKept,
     KnownTypeKept DEF TypeOK
<1>3. SizeType'
  BY BoundsAssumption DEF TypeOK, Grow, SizeType, Size, Encrypted, Mount, MappedSize
<1>4. JobType'
  BY BoundsAssumption DEF TypeOK, Grow, JobType, Job, JobPc, Goto, End
<1>5. BoundType'
  BY BoundsAssumption DEF TypeOK, Grow, BoundType, Slip
<1> QED
  BY <1>2, <1>3, <1>4, <1>5 DEF TypeOK

LEMMA AnswerType ==
    ASSUME TypeOK, Answer
    PROVE  TypeOK'
<1>1. UNCHANGED <<kind, header, inner, data, device, mapping, path, staging, size, targets,
         paths, tasks, published, wanted, slips, faults, wishes>>
  BY DEF Answer
<1>2. VolumeType' /\ HostType' /\ SizeType' /\ TargetType' /\ TaskType' /\ BoundType'
  BY <1>1, VolumeTypeKept, HostTypeKept, SizeTypeKept, TargetTypeKept, TaskTypeKept,
     BoundTypeKept DEF TypeOK
<1>3. JobType'
  BY BoundsAssumption DEF TypeOK, Answer, JobType, Job, JobPc, Goto, End
<1>4. KnownType'
  BY BoundsAssumption DEF TypeOK, Answer, KnownType, Known, JobType, Job
<1> QED
  BY <1>2, <1>3, <1>4 DEF TypeOK

LEMMA EnableIOType ==
    ASSUME TypeOK, EnableIO
    PROVE  TypeOK'
<1>1. UNCHANGED <<kind, header, inner, data, mapping, path, staging, size, targets, paths,
         job, tasks, staged, published, expanded, wanted, slips, faults, wishes>>
  BY DEF EnableIO
<1>2. VolumeType' /\ SizeType' /\ TargetType' /\ JobType' /\ TaskType' /\ KnownType' /\ BoundType'
  BY <1>1, VolumeTypeKept, SizeTypeKept, TargetTypeKept, JobTypeKept, TaskTypeKept,
     KnownTypeKept, BoundTypeKept DEF TypeOK
<1>3. HostType'
  BY BoundsAssumption DEF TypeOK, EnableIO, HostType, Device
<1> QED
  BY <1>2, <1>3 DEF TypeOK

LEMMA DetachedType ==
    ASSUME TypeOK, Detached
    PROVE  TypeOK'
<1>1. UNCHANGED <<kind, header, inner, data, mapping, path, staging, size, targets, paths,
         job, tasks, staged, published, expanded, wanted, slips, faults, wishes>>
  BY DEF Detached
<1>2. VolumeType' /\ SizeType' /\ TargetType' /\ JobType' /\ TaskType' /\ KnownType' /\ BoundType'
  BY <1>1, VolumeTypeKept, SizeTypeKept, TargetTypeKept, JobTypeKept, TaskTypeKept,
     KnownTypeKept, BoundTypeKept DEF TypeOK
<1>3. HostType'
  BY BoundsAssumption DEF TypeOK, Detached, HostType, Device
<1> QED
  BY <1>2, <1>3 DEF TypeOK

LEMMA ExpandVolumeType ==
    ASSUME TypeOK, ExpandVolume
    PROVE  TypeOK'
<1>1. UNCHANGED <<kind, header, inner, data, device, mapping, path, staging, targets, paths,
         job, tasks, staged, published, expanded, wanted, slips, faults, wishes>>
  BY DEF ExpandVolume
<1>2. VolumeType' /\ HostType' /\ TargetType' /\ JobType' /\ TaskType' /\ KnownType' /\ BoundType'
  BY <1>1, VolumeTypeKept, HostTypeKept, TargetTypeKept, JobTypeKept, TaskTypeKept,
     KnownTypeKept, BoundTypeKept DEF TypeOK
<1>3. SizeType'
  BY BoundsAssumption DEF TypeOK, ExpandVolume, SizeType, Size, Encrypted, Mount, MappedSize
<1> QED
  BY <1>2, <1>3 DEF TypeOK

LEMMA ExtendDeviceType ==
    ASSUME TypeOK, ExtendDevice
    PROVE  TypeOK'
<1>1. UNCHANGED <<kind, header, inner, data, device, mapping, path, staging, targets, paths,
         job, tasks, staged, published, expanded, wanted, slips, faults, wishes>>
  BY DEF ExtendDevice
<1>2. VolumeType' /\ HostType' /\ TargetType' /\ JobType' /\ TaskType' /\ KnownType' /\ BoundType'
  BY <1>1, VolumeTypeKept, HostTypeKept, TargetTypeKept, JobTypeKept, TaskTypeKept,
     KnownTypeKept, BoundTypeKept DEF TypeOK
<1>3. SizeType'
  BY BoundsAssumption DEF TypeOK, ExtendDevice, SizeType, Size, Encrypted, Mount, MappedSize
<1> QED
  BY <1>2, <1>3 DEF TypeOK

LEMMA RestartType ==
    ASSUME TypeOK, Restart
    PROVE  TypeOK'
<1>1. UNCHANGED <<kind, header, inner, data, device, mapping, path, staging, size, targets,
         paths, staged, published, expanded, wanted, slips, wishes>>
  BY DEF Restart
<1>2. VolumeType' /\ HostType' /\ SizeType' /\ TargetType' /\ KnownType'
  BY <1>1, VolumeTypeKept, HostTypeKept, SizeTypeKept, TargetTypeKept,
     KnownTypeKept DEF TypeOK
<1>3. JobType'
  BY BoundsAssumption DEF TypeOK, Restart, JobType, Job, JobPc, Goto, End
<1>4. TaskType'
  BY BoundsAssumption DEF TypeOK, Restart, TaskType, TaskPc, GotoTask
<1>5. BoundType'
  BY BoundsAssumption DEF TypeOK, Restart, BoundType, Slip
<1> QED
  BY <1>2, <1>3, <1>4, <1>5 DEF TypeOK

LEMMA PublishType ==
    ASSUME NEW t \in Pod, TypeOK, Publish(t) \/ PublishAgain(t)
    PROVE  TypeOK'
<1>1. UNCHANGED <<kind, header, inner, data, device, mapping, path, staging, size, targets,
         paths, job, staged, expanded, wanted, slips, wishes>>
  BY DEF Publish, PublishAgain, CallPublish
<1>2. VolumeType' /\ HostType' /\ SizeType' /\ TargetType' /\ JobType'
  BY <1>1, VolumeTypeKept, HostTypeKept, SizeTypeKept, TargetTypeKept,
     JobTypeKept DEF TypeOK
<1>3. TaskType'
  BY BoundsAssumption DEF TypeOK, Publish, PublishAgain, CallPublish, TaskType, TaskPc,
     GotoTask
<1>4. KnownType'
  BY BoundsAssumption DEF TypeOK, Publish, PublishAgain, CallPublish, KnownType, Known
<1>5. BoundType'
  <2>1. slips' \subseteq Slip
    BY DEF TypeOK, BoundType, Publish, PublishAgain, CallPublish, Slip
  <2>2. faults' \in 0..MaxFaults
    BY BoundsAssumption DEF TypeOK, BoundType, Publish, PublishAgain, CallPublish
  <2> QED
    BY <1>1, <2>1, <2>2 DEF TypeOK, BoundType
<1> QED
  BY <1>2, <1>3, <1>4, <1>5 DEF TypeOK

LEMMA BindType ==
    ASSUME NEW t \in Pod, TypeOK, Bind(t)
    PROVE  TypeOK'
<1>1. UNCHANGED <<kind, header, inner, data, device, mapping, path, staging, size, job,
         staged, published, expanded, wanted, wishes>>
  BY DEF Bind
<1>2. VolumeType' /\ HostType' /\ SizeType' /\ JobType' /\ KnownType'
  BY <1>1, VolumeTypeKept, HostTypeKept, SizeTypeKept, JobTypeKept, KnownTypeKept DEF TypeOK
<1>3. TargetType'
  <2>1. Bound \in Source
    BY DEF Bound, Source
  <2> QED
    BY <2>1, AddTop DEF TypeOK, Bind, TargetType
<1>4. TaskType'
  BY BoundsAssumption DEF TypeOK, Bind, TaskType, TaskPc, GotoTask
<1>5. BoundType'
  <2>1. slips' \subseteq Slip
    BY DEF TypeOK, BoundType, Bind, Slip
  <2>2. faults' \in 0..MaxFaults
    BY BoundsAssumption DEF TypeOK, BoundType, Bind
  <2> QED
    BY <1>1, <2>1, <2>2 DEF TypeOK, BoundType
<1> QED
  BY <1>2, <1>3, <1>4, <1>5 DEF TypeOK

LEMMA ChmodType ==
    ASSUME NEW t \in Pod, TypeOK, Chmod(t)
    PROVE  TypeOK'
<1>1. UNCHANGED <<kind, header, inner, data, device, mapping, path, staging, size, targets,
         paths, job, staged, published, expanded, wanted, slips, wishes>>
  BY DEF Chmod
<1>2. VolumeType' /\ HostType' /\ SizeType' /\ TargetType' /\ JobType' /\ KnownType'
  BY <1>1, VolumeTypeKept, HostTypeKept, SizeTypeKept, TargetTypeKept, JobTypeKept,
     KnownTypeKept DEF TypeOK
<1>3. TaskType'
  BY BoundsAssumption DEF TypeOK, Chmod, TaskType, TaskPc, GotoTask
<1>4. BoundType'
  BY BoundsAssumption DEF TypeOK, Chmod, BoundType, Slip
<1> QED
  BY <1>2, <1>3, <1>4 DEF TypeOK

LEMMA UnpublishType ==
    ASSUME NEW t \in Pod, TypeOK, Unpublish(t)
    PROVE  TypeOK'
<1>1. UNCHANGED <<kind, header, inner, data, device, mapping, path, staging, size, targets,
         paths, job, staged, expanded, wanted, slips, faults, wishes>>
  BY DEF Unpublish
<1>2. VolumeType' /\ HostType' /\ SizeType' /\ TargetType' /\ JobType' /\ BoundType'
  BY <1>1, VolumeTypeKept, HostTypeKept, SizeTypeKept, TargetTypeKept, JobTypeKept,
     BoundTypeKept DEF TypeOK
<1>3. TaskType'
  BY BoundsAssumption DEF TypeOK, Unpublish, TaskType, TaskPc, GotoTask
<1>4. KnownType'
  BY BoundsAssumption DEF TypeOK, Unpublish, KnownType, Known
<1> QED
  BY <1>2, <1>3, <1>4 DEF TypeOK

LEMMA UmountTargetType ==
    ASSUME NEW t \in Pod, TypeOK, UmountTarget(t)
    PROVE  TypeOK'
<1>1. UNCHANGED <<kind, header, inner, data, device, mapping, path, staging, size, paths,
         job, staged, published, expanded, wanted, slips, wishes>>
  BY DEF UmountTarget
<1>2. VolumeType' /\ HostType' /\ SizeType' /\ JobType' /\ KnownType'
  BY <1>1, VolumeTypeKept, HostTypeKept, SizeTypeKept, JobTypeKept, KnownTypeKept DEF TypeOK
<1>3. TargetType'
  BY TakeTop DEF TypeOK, UmountTarget, TargetType
<1>4. TaskType'
  BY BoundsAssumption DEF TypeOK, UmountTarget, TaskType, TaskPc, GotoTask
<1>5. BoundType'
  BY BoundsAssumption DEF TypeOK, UmountTarget, BoundType, Slip
<1> QED
  BY <1>2, <1>3, <1>4, <1>5 DEF TypeOK

LEMMA RemoveTargetType ==
    ASSUME NEW t \in Pod, TypeOK, RemoveTarget(t)
    PROVE  TypeOK'
<1>1. UNCHANGED <<kind, header, inner, device, mapping, path, staging, size, targets, job,
         staged, published, expanded, wanted, slips, faults, wishes>>
  BY DEF RemoveTarget
<1>2. HostType' /\ SizeType' /\ JobType' /\ KnownType' /\ BoundType'
  BY <1>1, HostTypeKept, SizeTypeKept, JobTypeKept, KnownTypeKept, BoundTypeKept DEF TypeOK
<1>3. VolumeType'
  BY BoundsAssumption DEF TypeOK, RemoveTarget, VolumeType, Content
<1>4. TargetType'
  BY BoundsAssumption DEF TypeOK, RemoveTarget, TargetType
<1>5. TaskType'
  BY BoundsAssumption DEF TypeOK, RemoveTarget, TaskType, TaskPc, GotoTask
<1> QED
  BY <1>2, <1>3, <1>4, <1>5 DEF TypeOK

LEMMA AnswerTaskType ==
    ASSUME NEW t \in Pod, TypeOK, AnswerTask(t)
    PROVE  TypeOK'
<1>1. UNCHANGED <<kind, header, inner, data, device, mapping, path, staging, size, targets,
         paths, job, staged, expanded, wanted, slips, faults, wishes>>
  BY DEF AnswerTask
<1>2. VolumeType' /\ HostType' /\ SizeType' /\ TargetType' /\ JobType' /\ BoundType'
  BY <1>1, VolumeTypeKept, HostTypeKept, SizeTypeKept, TargetTypeKept, JobTypeKept,
     BoundTypeKept DEF TypeOK
<1>3. TaskType'
  BY BoundsAssumption DEF TypeOK, AnswerTask, TaskType, TaskPc, GotoTask
<1>4. KnownType'
  BY BoundsAssumption DEF TypeOK, AnswerTask, KnownType, Known
<1> QED
  BY <1>2, <1>3, <1>4 DEF TypeOK

LEMMA WishType ==
    ASSUME NEW t \in Pod, TypeOK, Wish(t)
    PROVE  TypeOK'
<1>1. UNCHANGED <<kind, header, inner, data, device, mapping, path, staging, size, targets,
         paths, job, tasks, staged, published, expanded, slips, faults>>
  BY DEF Wish
<1>2. VolumeType' /\ HostType' /\ SizeType' /\ TargetType' /\ JobType' /\ TaskType' /\ KnownType'
  BY <1>1, VolumeTypeKept, HostTypeKept, SizeTypeKept, TargetTypeKept, JobTypeKept,
     TaskTypeKept, KnownTypeKept DEF TypeOK
<1>3. BoundType'
  BY BoundsAssumption DEF TypeOK, Wish, BoundType, Slip
<1> QED
  BY <1>2, <1>3 DEF TypeOK

LEMMA WriteType ==
    ASSUME NEW t \in Pod, TypeOK, Write(t)
    PROVE  TypeOK'
<1>1. UNCHANGED <<kind, inner, device, mapping, path, staging, size, targets, paths, job,
         tasks, staged, published, expanded, wanted, slips, faults, wishes>>
  BY DEF Write
<1>2. HostType' /\ SizeType' /\ TargetType' /\ JobType' /\ TaskType' /\ KnownType' /\ BoundType'
  BY <1>1, HostTypeKept, SizeTypeKept, TargetTypeKept, JobTypeKept, TaskTypeKept,
     KnownTypeKept, BoundTypeKept DEF TypeOK
<1>3. VolumeType'
  BY BoundsAssumption DEF TypeOK, Write, VolumeType, Content
<1> QED
  BY <1>2, <1>3 DEF TypeOK

-----------------------------------------------------------------------------
(* The strengthening *)

LEMMA JobInvKept ==
    ASSUME JobInv, UNCHANGED <<job, staged, kind>>
    PROVE  JobInv'
BY DEF JobInv, Staging, Encrypted, Mount

LEMMA TaskInvKept ==
    ASSUME TaskInv, UNCHANGED <<tasks, published, staged, job>>
    PROVE  TaskInv'
BY DEF TaskInv

LEMMA ReleaseInvKept ==
    ASSUME ReleaseInv, UNCHANGED <<job, staging, mapping, path, device, staged>>
    PROVE  ReleaseInv'
BY DEF ReleaseInv

LEMMA TargetInvKept ==
    ASSUME TargetInv, UNCHANGED <<kind, targets, paths, tasks, published, slips>>
    PROVE  TargetInv'
BY DEF TargetInv, Mount

LEMMA OneInvKept ==
    ASSUME OneInv, UNCHANGED <<slips, targets, tasks>>
    PROVE  OneInv'
BY DEF OneInv

LEMMA FormatInvKept ==
    ASSUME FormatInv, UNCHANGED <<kind, staging, data, header, inner, targets, job, staged, slips, device>>
    PROVE  FormatInv'
BY DEF FormatInv, Staging, Mount, Encrypted, Formatted, Type

LEMMA SizeInvKept ==
    ASSUME SizeInv, UNCHANGED <<kind, expanded, size, job>>
    PROVE  SizeInv'
BY DEF SizeInv, Staging, Mount, Encrypted

LEMMA WorksInvKept ==
    ASSUME WorksInv, UNCHANGED <<slips, staged, job, device, kind, staging, mapping, published, targets, tasks>>
    PROVE  WorksInv'
BY DEF WorksInv, Staging, Mount, Encrypted


LEMMA StageKeeps ==
    ASSUME NodeInv, Stage \/ StageAgain
    PROVE  NodeInv'
<1>1. TypeOK /\ TypeOK'
  BY StageType DEF NodeInv
<1>2. UNCHANGED <<kind, header, inner, data, device, mapping, staging, size, targets, paths,
         tasks, published, expanded, wanted, wishes>>
  BY DEF Stage, StageAgain, CallStage
<1>3. /\ Starts("stage", "attach") /\ job.pc = "idle" /\ staged' = "unsure"
      /\ slips \subseteq slips' /\ slips' \subseteq slips \cup {"restaged"}
      /\ \A u \in Pod : tasks[u] = "idle" /\ (published[u] # "no" => "restaged" \in slips')
  BY <1>1
  DEF TypeOK, Stage, StageAgain, CallStage, JobType, Job, Starts
<1>4. JobInv'
  BY <1>1, <1>2, <1>3
  DEF NodeInv, JobInv, Staging, Encrypted, Mount, Starts
<1>5. TaskInv'
  BY <1>1, <1>2, <1>3
  DEF NodeInv, TaskInv, Starts, JobInv, Staging, Encrypted, Mount
<1>6. ReleaseInv'
  BY <1>1, <1>2, <1>3
  DEF NodeInv, ReleaseInv, Starts, JobInv, Staging, Encrypted, Mount
<1>7. TargetInv'
  BY <1>1, <1>2, <1>3
  DEF NodeInv, TargetInv, Mount, Starts
<1>8. OneInv'
  BY <1>1, <1>2, <1>3
  DEF NodeInv, OneInv, Starts
<1>9. FormatInv'
  BY <1>1, <1>2, <1>3
  DEF NodeInv, FormatInv, Staging, Mount, Encrypted, Formatted, Type, Starts
<1>10. SizeInv'
  BY <1>1, <1>2, <1>3
  DEF NodeInv, SizeInv, Staging, Mount, Encrypted, Starts, TypeOK, SizeType, Size,
      KnownType, JobType, Job, MappedSize
<1>11. WorksInv'
  BY <1>1, <1>2, <1>3
  DEF NodeInv, WorksInv, Staging, Mount, Encrypted, Starts, JobInv
<1> QED
  BY <1>1, <1>4, <1>5, <1>6, <1>7, <1>8, <1>9, <1>10, <1>11 DEF NodeInv

LEMMA AttachKeeps ==
    ASSUME NodeInv, Attach
    PROVE  NodeInv'
<1>1. TypeOK /\ TypeOK'
  BY AttachType DEF NodeInv
<1>2. UNCHANGED <<kind, header, inner, data, mapping, path, staging, targets, paths, tasks,
         staged, published, expanded, wanted, slips, wishes>>
  BY DEF Attach
<1>3. /\ job.op = "stage" /\ job.pc = "attach" /\ (Moves("io") \/ Ends)
      /\ (device' = device \/ (device = "absent" /\ device' = "attached"))
      /\ size'.volume = size.volume /\ size'.mapping = size.mapping /\ size'.fs = size.fs
      /\ (size'.device = size.device \/ size'.device = size.volume)
  BY <1>1 DEF TypeOK, Attach, JobType, Job, Goto, End, Moves, Ends, HostType, SizeType, Size
<1>4. TargetInv' /\ OneInv'
  BY <1>2, TargetInvKept, OneInvKept DEF NodeInv
<1>5. JobInv'
  BY <1>1, <1>2, <1>3
  DEF NodeInv, JobInv, Staging, Encrypted, Mount, Moves, Ends
<1>6. TaskInv'
  BY <1>1, <1>2, <1>3
  DEF NodeInv, TaskInv, Moves, Ends, JobInv, Staging, Encrypted, Mount
<1>7. ReleaseInv'
  BY <1>1, <1>2, <1>3
  DEF NodeInv, ReleaseInv, Moves, Ends, JobInv, Staging, Encrypted, Mount
<1>8. FormatInv'
  BY <1>1, <1>2, <1>3
  DEF NodeInv, FormatInv, Staging, Mount, Encrypted, Formatted, Type, Moves, Ends
<1>9. SizeInv'
  BY <1>1, <1>2, <1>3
  DEF NodeInv, SizeInv, Staging, Mount, Encrypted, Moves, Ends, TypeOK, SizeType, Size,
      KnownType, JobType, Job, MappedSize
<1>10. WorksInv'
  BY <1>1, <1>2, <1>3
  DEF NodeInv, WorksInv, Staging, Mount, Encrypted, Moves, Ends, JobInv
<1> QED
  BY <1>1, <1>4, <1>5, <1>6, <1>7, <1>8, <1>9, <1>10 DEF NodeInv

LEMMA WaitForIOKeeps ==
    ASSUME NodeInv, WaitForIO
    PROVE  NodeInv'
<1>1. TypeOK /\ TypeOK'
  BY WaitForIOType DEF NodeInv
<1>2. UNCHANGED <<kind, header, inner, data, device, mapping, path, staging, size, targets,
         paths, tasks, staged, published, expanded, wanted, wishes>>
  BY DEF WaitForIO
<1>3. /\ job.op = "stage" /\ job.pc = "io" /\ slips \subseteq slips'
      /\ slips' \subseteq slips \cup {"departing"}
      /\ \/ Moves("umount")
         \/ /\ device = "enabled" \/ "departing" \in slips'
            /\ \/ Moves("probe") /\ Encrypted
               \/ Moves("type") /\ ~Encrypted /\ Mount
               \/ Moves("answer") /\ ~Encrypted /\ ~Mount
  BY <1>1, GotoMoves, EndEnds
  DEF TypeOK, WaitForIO, JobType
<1>4. JobInv'
  BY <1>1, <1>2, <1>3
  DEF NodeInv, JobInv, Staging, Encrypted, Mount, Moves, Ends
<1>5. TaskInv'
  BY <1>1, <1>2, <1>3
  DEF NodeInv, TaskInv, Moves, Ends, JobInv, Staging, Encrypted, Mount
<1>6. ReleaseInv'
  BY <1>1, <1>2, <1>3
  DEF NodeInv, ReleaseInv, Moves, Ends, JobInv, Staging, Encrypted, Mount
<1>7. TargetInv'
  BY <1>1, <1>2, <1>3
  DEF NodeInv, TargetInv, Mount, Moves, Ends
<1>8. OneInv'
  BY <1>1, <1>2, <1>3
  DEF NodeInv, OneInv, Moves, Ends
<1>9. FormatInv'
  BY <1>1, <1>2, <1>3
  DEF NodeInv, FormatInv, Staging, Mount, Encrypted, Formatted, Type, Moves, Ends
<1>10. SizeInv'
  BY <1>1, <1>2, <1>3
  DEF NodeInv, SizeInv, Staging, Mount, Encrypted, Moves, Ends, TypeOK, SizeType, Size,
      KnownType, JobType, Job, MappedSize
<1>11. WorksInv'
  BY <1>1, <1>2, <1>3
  DEF NodeInv, WorksInv, Staging, Mount, Encrypted, Moves, Ends, JobInv
<1> QED
  BY <1>1, <1>4, <1>5, <1>6, <1>7, <1>8, <1>9, <1>10, <1>11 DEF NodeInv

LEMMA ProbeKeeps ==
    ASSUME NodeInv, Probe
    PROVE  NodeInv'
<1>1. TypeOK /\ TypeOK'
  BY ProbeType DEF NodeInv
<1>2. UNCHANGED <<kind, header, inner, data, device, mapping, path, staging, size, targets,
         paths, tasks, staged, published, expanded, wanted, slips, wishes>>
  BY DEF Probe
<1>3. /\ job.op = "stage" /\ job.pc = "probe"
      /\ \/ Moves("open") /\ header = "luks"
         \/ Moves("encrypt") /\ header # "luks"
         \/ Moves("umount")
  BY <1>1, GotoMoves, EndEnds
  DEF TypeOK, Probe, JobType
<1>4. TargetInv' /\ OneInv'
  BY <1>2, TargetInvKept, OneInvKept DEF NodeInv
<1>5. JobInv'
  BY <1>1, <1>2, <1>3
  DEF NodeInv, JobInv, Staging, Encrypted, Mount, Moves, Ends
<1>6. TaskInv'
  BY <1>1, <1>2, <1>3
  DEF NodeInv, TaskInv, Moves, Ends, JobInv, Staging, Encrypted, Mount
<1>7. ReleaseInv'
  BY <1>1, <1>2, <1>3
  DEF NodeInv, ReleaseInv, Moves, Ends, JobInv, Staging, Encrypted, Mount
<1>8. FormatInv'
  BY <1>1, <1>2, <1>3
  DEF NodeInv, FormatInv, Staging, Mount, Encrypted, Formatted, Type, Moves, Ends
<1>9. SizeInv'
  BY <1>1, <1>2, <1>3
  DEF NodeInv, SizeInv, Staging, Mount, Encrypted, Moves, Ends, TypeOK, SizeType, Size,
      KnownType, JobType, Job, MappedSize
<1>10. WorksInv'
  BY <1>1, <1>2, <1>3
  DEF NodeInv, WorksInv, Staging, Mount, Encrypted, Moves, Ends, JobInv
<1> QED
  BY <1>1, <1>4, <1>5, <1>6, <1>7, <1>8, <1>9, <1>10 DEF NodeInv

LEMMA EncryptKeeps ==
    ASSUME NodeInv, Encrypt
    PROVE  NodeInv'
<1>1. TypeOK /\ TypeOK'
  BY EncryptType DEF NodeInv
<1>2. UNCHANGED <<kind, device, mapping, path, staging, size, targets, paths, tasks, staged,
         published, expanded, wanted, slips, wishes>>
  BY DEF Encrypt
<1>3. /\ job.op = "stage" /\ job.pc = "encrypt"
      /\ \/ Moves("open") /\ header' = "luks" /\ data' = FALSE
         \/ Moves("umount") /\ UNCHANGED <<header, inner, data>>
  BY <1>1, GotoMoves, EndEnds
  DEF TypeOK, Encrypt, JobType
<1>4. TargetInv' /\ OneInv'
  BY <1>2, TargetInvKept, OneInvKept DEF NodeInv
<1>5. JobInv'
  BY <1>1, <1>2, <1>3
  DEF NodeInv, JobInv, Staging, Encrypted, Mount, Moves, Ends
<1>6. TaskInv'
  BY <1>1, <1>2, <1>3
  DEF NodeInv, TaskInv, Moves, Ends, JobInv, Staging, Encrypted, Mount
<1>7. ReleaseInv'
  BY <1>1, <1>2, <1>3
  DEF NodeInv, ReleaseInv, Moves, Ends, JobInv, Staging, Encrypted, Mount
<1>8. FormatInv'
  BY <1>1, <1>2, <1>3
  DEF NodeInv, FormatInv, Staging, Mount, Encrypted, Formatted, Type, Moves, Ends, JobInv
<1>9. SizeInv'
  BY <1>1, <1>2, <1>3
  DEF NodeInv, SizeInv, Staging, Mount, Encrypted, Moves, Ends, TypeOK, SizeType, Size,
      KnownType, JobType, Job, MappedSize
<1>10. WorksInv'
  BY <1>1, <1>2, <1>3
  DEF NodeInv, WorksInv, Staging, Mount, Encrypted, Moves, Ends, JobInv
<1> QED
  BY <1>1, <1>4, <1>5, <1>6, <1>7, <1>8, <1>9, <1>10 DEF NodeInv

LEMMA OpenKeeps ==
    ASSUME NodeInv, Open
    PROVE  NodeInv'
<1>1. TypeOK /\ TypeOK'
  BY OpenType DEF NodeInv
<1>2. UNCHANGED <<kind, header, inner, data, device, path, staging, targets, paths, tasks,
         staged, published, expanded, wanted, slips, wishes>>
  BY DEF Open
<1>3. /\ job.op = "stage" /\ job.pc = "open"
      /\ size'.volume = size.volume /\ size'.device = size.device /\ size'.fs = size.fs
      /\ \/ /\ mapping' = TRUE /\ size'.mapping = size.device
            /\ \/ Moves("type") /\ Mount
               \/ Moves("answer") /\ ~Mount
         \/ Moves("umount") /\ UNCHANGED <<mapping, size>>
  BY <1>1 DEF TypeOK, Open, JobType, Job, Goto, End, Moves, Ends, HostType, SizeType, Size
<1>4. TargetInv' /\ OneInv'
  BY <1>2, TargetInvKept, OneInvKept DEF NodeInv
<1>5. JobInv'
  BY <1>1, <1>2, <1>3
  DEF NodeInv, JobInv, Staging, Encrypted, Mount, Moves, Ends
<1>6. TaskInv'
  BY <1>1, <1>2, <1>3
  DEF NodeInv, TaskInv, Moves, Ends, JobInv, Staging, Encrypted, Mount
<1>7. ReleaseInv'
  BY <1>1, <1>2, <1>3
  DEF NodeInv, ReleaseInv, Moves, Ends, JobInv, Staging, Encrypted, Mount
<1>8. FormatInv'
  BY <1>1, <1>2, <1>3
  DEF NodeInv, FormatInv, Staging, Mount, Encrypted, Formatted, Type, Moves, Ends
<1>9. SizeInv'
  BY <1>1, <1>2, <1>3
  DEF NodeInv, SizeInv, Staging, Mount, Encrypted, Moves, Ends, TypeOK, SizeType, Size,
      KnownType, JobType, Job, MappedSize
<1>10. WorksInv'
  BY <1>1, <1>2, <1>3
  DEF NodeInv, WorksInv, Staging, Mount, Encrypted, Moves, Ends, JobInv
<1> QED
  BY <1>1, <1>4, <1>5, <1>6, <1>7, <1>8, <1>9, <1>10 DEF NodeInv

LEMMA ReadTypeKeeps ==
    ASSUME NodeInv, ReadType
    PROVE  NodeInv'
<1>1. TypeOK /\ TypeOK'
  BY ReadTypeType DEF NodeInv
<1>2. UNCHANGED <<kind, header, inner, data, device, mapping, path, staging, size, targets,
         paths, tasks, staged, published, expanded, wanted, wishes>>
  BY DEF ReadType
<1>3. /\ job.op = "stage" /\ job.pc = "type" /\ slips \subseteq slips'
      /\ slips' \subseteq slips \cup {"misread"}
      /\ \/ Moves("mount") /\ Type = "fs"
         \/ Moves("format") /\ (Type = "none" \/ device = "absent" \/ "misread" \in slips')
         \/ Moves("umount")
  BY <1>1, GotoMoves, EndEnds
  DEF TypeOK, ReadType, JobType
<1>4. JobInv'
  BY <1>1, <1>2, <1>3
  DEF NodeInv, JobInv, Staging, Encrypted, Mount, Moves, Ends
<1>5. TaskInv'
  BY <1>1, <1>2, <1>3
  DEF NodeInv, TaskInv, Moves, Ends, JobInv, Staging, Encrypted, Mount
<1>6. ReleaseInv'
  BY <1>1, <1>2, <1>3
  DEF NodeInv, ReleaseInv, Moves, Ends, JobInv, Staging, Encrypted, Mount
<1>7. TargetInv'
  BY <1>1, <1>2, <1>3
  DEF NodeInv, TargetInv, Mount, Moves, Ends
<1>8. OneInv'
  BY <1>1, <1>2, <1>3
  DEF NodeInv, OneInv, Moves, Ends
<1>9. FormatInv'
  BY <1>1, <1>2, <1>3
  DEF NodeInv, FormatInv, Staging, Mount, Encrypted, Formatted, Type, Moves, Ends
<1>10. SizeInv'
  BY <1>1, <1>2, <1>3
  DEF NodeInv, SizeInv, Staging, Mount, Encrypted, Moves, Ends, TypeOK, SizeType, Size,
      KnownType, JobType, Job, MappedSize
<1>11. WorksInv'
  BY <1>1, <1>2, <1>3
  DEF NodeInv, WorksInv, Staging, Mount, Encrypted, Moves, Ends, JobInv
<1> QED
  BY <1>1, <1>4, <1>5, <1>6, <1>7, <1>8, <1>9, <1>10, <1>11 DEF NodeInv

LEMMA FormatKeeps ==
    ASSUME NodeInv, Format
    PROVE  NodeInv'
<1>1. TypeOK /\ TypeOK'
  BY FormatType DEF NodeInv
<1>2. UNCHANGED <<kind, device, mapping, path, staging, targets, paths, tasks, staged,
         published, expanded, wanted, slips, wishes>>
  BY DEF Format
<1>3. /\ job.op = "stage" /\ job.pc = "format"
      /\ size'.volume = size.volume /\ size'.device = size.device
      /\ size'.mapping = size.mapping
      /\ \/ /\ Moves("mount") /\ size'.fs = MappedSize /\ data' = FALSE
            /\ IF Encrypted THEN inner' = "fs" /\ header' = header ELSE header' = "fs"
         \/ Moves("umount") /\ UNCHANGED <<header, inner, data, size>>
  BY <1>1, GotoMoves, EndEnds
  DEF TypeOK, Format, JobType, SizeType, Size
<1>4. TargetInv' /\ OneInv'
  BY <1>2, TargetInvKept, OneInvKept DEF NodeInv
<1>5. JobInv'
  BY <1>1, <1>2, <1>3
  DEF NodeInv, JobInv, Staging, Encrypted, Mount, Moves, Ends
<1>6. TaskInv'
  BY <1>1, <1>2, <1>3
  DEF NodeInv, TaskInv, Moves, Ends, JobInv, Staging, Encrypted, Mount
<1>7. ReleaseInv'
  BY <1>1, <1>2, <1>3
  DEF NodeInv, ReleaseInv, Moves, Ends, JobInv, Staging, Encrypted, Mount
<1>8. FormatInv'
  BY <1>1, <1>2, <1>3
  DEF NodeInv, FormatInv, Staging, Mount, Encrypted, Formatted, Type, Moves, Ends
<1>9. SizeInv'
  BY <1>1, <1>2, <1>3
  DEF NodeInv, SizeInv, Staging, Mount, Encrypted, Moves, Ends, TypeOK, SizeType, Size,
      KnownType, JobType, Job, MappedSize
<1>10. WorksInv'
  BY <1>1, <1>2, <1>3
  DEF NodeInv, WorksInv, Staging, Mount, Encrypted, Moves, Ends, JobInv
<1> QED
  BY <1>1, <1>4, <1>5, <1>6, <1>7, <1>8, <1>9, <1>10 DEF NodeInv

LEMMA MountVolumeKeeps ==
    ASSUME NodeInv, MountVolume
    PROVE  NodeInv'
<1>1. TypeOK /\ TypeOK'
  BY MountVolumeType DEF NodeInv
<1>2. UNCHANGED <<kind, header, inner, data, device, mapping, path, size, targets, paths,
         tasks, staged, published, expanded, wanted, slips, wishes>>
  BY DEF MountVolume
<1>3. /\ job.op = "stage" /\ job.pc = "mount"
      /\ \/ Moves("answer") /\ staging' = TRUE /\ device # "absent"
         \/ Moves("umount") /\ (staging' = staging \/ (staging' = TRUE /\ device # "absent"))
  BY <1>1 DEF TypeOK, MountVolume, JobType, Job, Goto, End, Moves, Ends, HostType
<1>4. TargetInv' /\ OneInv'
  BY <1>2, TargetInvKept, OneInvKept DEF NodeInv
<1>5. JobInv'
  BY <1>1, <1>2, <1>3
  DEF NodeInv, JobInv, Staging, Encrypted, Mount, Moves, Ends
<1>6. TaskInv'
  BY <1>1, <1>2, <1>3
  DEF NodeInv, TaskInv, Moves, Ends, JobInv, Staging, Encrypted, Mount
<1>7. ReleaseInv'
  BY <1>1, <1>2, <1>3
  DEF NodeInv, ReleaseInv, Moves, Ends, JobInv, Staging, Encrypted, Mount
<1>8. FormatInv'
  BY <1>1, <1>2, <1>3
  DEF NodeInv, FormatInv, Staging, Mount, Encrypted, Formatted, Type, Moves, Ends
<1>9. SizeInv'
  BY <1>1, <1>2, <1>3
  DEF NodeInv, SizeInv, Staging, Mount, Encrypted, Moves, Ends, TypeOK, SizeType, Size,
      KnownType, JobType, Job, MappedSize
<1>10. WorksInv'
  BY <1>1, <1>2, <1>3
  DEF NodeInv, WorksInv, Staging, Mount, Encrypted, Moves, Ends, JobInv
<1> QED
  BY <1>1, <1>4, <1>5, <1>6, <1>7, <1>8, <1>9, <1>10 DEF NodeInv

LEMMA UnstageKeeps ==
    ASSUME NodeInv, Unstage
    PROVE  NodeInv'
<1>1. TypeOK /\ TypeOK'
  BY UnstageType DEF NodeInv
<1>2. UNCHANGED <<kind, header, inner, data, device, mapping, path, staging, size, targets,
         paths, tasks, published, expanded, wanted, slips, faults, wishes>>
  BY DEF Unstage
<1>3. /\ Starts("unstage", "umount") /\ job.pc = "idle" /\ staged # "no" /\ staged' = "unsure"
      /\ \A u \in Pod : tasks[u] = "idle" /\ published[u] = "no"
  BY <1>1
  DEF TypeOK, Unstage, JobType, Job, Starts
<1>4. TargetInv' /\ OneInv'
  BY <1>2, TargetInvKept, OneInvKept DEF NodeInv
<1>5. JobInv'
  BY <1>1, <1>2, <1>3
  DEF NodeInv, JobInv, Staging, Encrypted, Mount, Starts
<1>6. TaskInv'
  BY <1>1, <1>2, <1>3
  DEF NodeInv, TaskInv, Starts, JobInv, Staging, Encrypted, Mount
<1>7. ReleaseInv'
  BY <1>1, <1>2, <1>3
  DEF NodeInv, ReleaseInv, Starts, JobInv, Staging, Encrypted, Mount
<1>8. FormatInv'
  BY <1>1, <1>2, <1>3
  DEF NodeInv, FormatInv, Staging, Mount, Encrypted, Formatted, Type, Starts
<1>9. SizeInv'
  BY <1>1, <1>2, <1>3
  DEF NodeInv, SizeInv, Staging, Mount, Encrypted, Starts, TypeOK, SizeType, Size,
      KnownType, JobType, Job, MappedSize
<1>10. WorksInv'
  BY <1>1, <1>2, <1>3
  DEF NodeInv, WorksInv, Staging, Mount, Encrypted, Starts, JobInv
<1> QED
  BY <1>1, <1>4, <1>5, <1>6, <1>7, <1>8, <1>9, <1>10 DEF NodeInv

LEMMA UmountKeeps ==
    ASSUME NodeInv, Umount
    PROVE  NodeInv'
<1>1. TypeOK /\ TypeOK'
  BY UmountType DEF NodeInv
<1>2. UNCHANGED <<kind, header, inner, data, device, mapping, path, size, targets, paths,
         tasks, staged, published, expanded, wanted, slips, wishes>>
  BY DEF Umount
<1>3. /\ job.pc = "umount"
      /\ \/ staging' = FALSE /\ Moves("clear") /\ job.op = "unstage"
         \/ staging' = FALSE /\ Moves("close") /\ (job.op = "unstage" => ~path)
         \/ Ends /\ staging' = staging
  BY <1>1, GotoMoves, EndEnds
  DEF TypeOK, Umount, JobType, HostType
<1>4. TargetInv' /\ OneInv'
  BY <1>2, TargetInvKept, OneInvKept DEF NodeInv
<1>5. JobInv'
  BY <1>1, <1>2, <1>3
  DEF NodeInv, JobInv, Staging, Encrypted, Mount, Moves, Ends
<1>6. TaskInv'
  BY <1>1, <1>2, <1>3
  DEF NodeInv, TaskInv, Moves, Ends, JobInv, Staging, Encrypted, Mount
<1>7. ReleaseInv'
  BY <1>1, <1>2, <1>3
  DEF NodeInv, ReleaseInv, Moves, Ends, JobInv, Staging, Encrypted, Mount
<1>8. FormatInv'
  BY <1>1, <1>2, <1>3
  DEF NodeInv, FormatInv, Staging, Mount, Encrypted, Formatted, Type, Moves, Ends
<1>9. SizeInv'
  BY <1>1, <1>2, <1>3
  DEF NodeInv, SizeInv, Staging, Mount, Encrypted, Moves, Ends, TypeOK, SizeType, Size,
      KnownType, JobType, Job, MappedSize
<1>10. WorksInv'
  BY <1>1, <1>2, <1>3
  DEF NodeInv, WorksInv, Staging, Mount, Encrypted, Moves, Ends, JobInv
<1> QED
  BY <1>1, <1>4, <1>5, <1>6, <1>7, <1>8, <1>9, <1>10 DEF NodeInv

LEMMA RemoveStagingKeeps ==
    ASSUME NodeInv, RemoveStaging
    PROVE  NodeInv'
<1>1. TypeOK /\ TypeOK'
  BY RemoveStagingType DEF NodeInv
<1>2. UNCHANGED <<kind, header, inner, data, device, mapping, staging, size, targets, paths,
         tasks, staged, published, expanded, wanted, slips, wishes>>
  BY DEF RemoveStaging
<1>3. /\ job.pc = "clear"
      /\ \/ path' = FALSE /\ Moves("close")
         \/ path' = path /\ Ends
  BY <1>1 DEF TypeOK, RemoveStaging, JobType, Job, Goto, End, Moves, Ends, HostType
<1>4. TargetInv' /\ OneInv'
  BY <1>2, TargetInvKept, OneInvKept DEF NodeInv
<1>5. JobInv'
  BY <1>1, <1>2, <1>3
  DEF NodeInv, JobInv, Staging, Encrypted, Mount, Moves, Ends
<1>6. TaskInv'
  BY <1>1, <1>2, <1>3
  DEF NodeInv, TaskInv, Moves, Ends, JobInv, Staging, Encrypted, Mount
<1>7. ReleaseInv'
  BY <1>1, <1>2, <1>3
  DEF NodeInv, ReleaseInv, Moves, Ends, JobInv, Staging, Encrypted, Mount
<1>8. FormatInv'
  BY <1>1, <1>2, <1>3
  DEF NodeInv, FormatInv, Staging, Mount, Encrypted, Formatted, Type, Moves, Ends
<1>9. SizeInv'
  BY <1>1, <1>2, <1>3
  DEF NodeInv, SizeInv, Staging, Mount, Encrypted, Moves, Ends, TypeOK, SizeType, Size,
      KnownType, JobType, Job, MappedSize
<1>10. WorksInv'
  BY <1>1, <1>2, <1>3
  DEF NodeInv, WorksInv, Staging, Mount, Encrypted, Moves, Ends, JobInv
<1> QED
  BY <1>1, <1>4, <1>5, <1>6, <1>7, <1>8, <1>9, <1>10 DEF NodeInv

LEMMA CloseKeeps ==
    ASSUME NodeInv, Close
    PROVE  NodeInv'
<1>1. TypeOK /\ TypeOK'
  BY CloseType DEF NodeInv
<1>2. UNCHANGED <<kind, header, inner, data, device, path, staging, size, targets, paths,
         tasks, staged, published, expanded, wanted, slips, wishes>>
  BY DEF Close
<1>3. /\ job.pc = "close"
      /\ \/ mapping' = FALSE /\ Moves("detach")
         \/ mapping' = mapping /\ Ends
  BY <1>1 DEF TypeOK, Close, JobType, Job, Goto, End, Moves, Ends, HostType
<1>4. TargetInv' /\ OneInv'
  BY <1>2, TargetInvKept, OneInvKept DEF NodeInv
<1>5. JobInv'
  BY <1>1, <1>2, <1>3
  DEF NodeInv, JobInv, Staging, Encrypted, Mount, Moves, Ends
<1>6. TaskInv'
  BY <1>1, <1>2, <1>3
  DEF NodeInv, TaskInv, Moves, Ends, JobInv, Staging, Encrypted, Mount
<1>7. ReleaseInv'
  BY <1>1, <1>2, <1>3
  DEF NodeInv, ReleaseInv, Moves, Ends, JobInv, Staging, Encrypted, Mount
<1>8. FormatInv'
  BY <1>1, <1>2, <1>3
  DEF NodeInv, FormatInv, Staging, Mount, Encrypted, Formatted, Type, Moves, Ends
<1>9. SizeInv'
  BY <1>1, <1>2, <1>3
  DEF NodeInv, SizeInv, Staging, Mount, Encrypted, Moves, Ends, TypeOK, SizeType, Size,
      KnownType, JobType, Job, MappedSize
<1>10. WorksInv'
  BY <1>1, <1>2, <1>3
  DEF NodeInv, WorksInv, Staging, Mount, Encrypted, Moves, Ends, JobInv
<1> QED
  BY <1>1, <1>4, <1>5, <1>6, <1>7, <1>8, <1>9, <1>10 DEF NodeInv

LEMMA DetachVolumeKeeps ==
    ASSUME NodeInv, DetachVolume
    PROVE  NodeInv'
<1>1. TypeOK /\ TypeOK'
  BY DetachVolumeType DEF NodeInv
<1>2. UNCHANGED <<kind, header, inner, data, mapping, path, staging, size, targets, paths,
         tasks, staged, published, expanded, wanted, slips, wishes>>
  BY DEF DetachVolume
<1>3. /\ job.pc = "detach" /\ (Moves("wait") \/ Ends)
  BY <1>1, GotoMoves, EndEnds
  DEF TypeOK, DetachVolume, JobType
<1>4. TargetInv' /\ OneInv'
  BY <1>2, TargetInvKept, OneInvKept DEF NodeInv
<1>5. JobInv'
  BY <1>1, <1>2, <1>3
  DEF NodeInv, JobInv, Staging, Encrypted, Mount, Moves, Ends
<1>6. TaskInv'
  BY <1>1, <1>2, <1>3
  DEF NodeInv, TaskInv, Moves, Ends, JobInv, Staging, Encrypted, Mount
<1>7. ReleaseInv'
  BY <1>1, <1>2, <1>3
  DEF NodeInv, ReleaseInv, Moves, Ends, JobInv, Staging, Encrypted, Mount
<1>8. FormatInv'
  BY <1>1, <1>2, <1>3
  DEF NodeInv, FormatInv, Staging, Mount, Encrypted, Formatted, Type, Moves, Ends
<1>9. SizeInv'
  BY <1>1, <1>2, <1>3
  DEF NodeInv, SizeInv, Staging, Mount, Encrypted, Moves, Ends, TypeOK, SizeType, Size,
      KnownType, JobType, Job, MappedSize
<1>10. WorksInv'
  BY <1>1, <1>2, <1>3
  DEF NodeInv, WorksInv, Staging, Mount, Encrypted, Moves, Ends, JobInv
<1> QED
  BY <1>1, <1>4, <1>5, <1>6, <1>7, <1>8, <1>9, <1>10 DEF NodeInv

LEMMA WaitForDetachKeeps ==
    ASSUME NodeInv, WaitForDetach
    PROVE  NodeInv'
<1>1. TypeOK /\ TypeOK'
  BY WaitForDetachType DEF NodeInv
<1>2. UNCHANGED <<kind, header, inner, data, device, mapping, path, staging, size, targets,
         paths, tasks, staged, published, expanded, wanted, slips, wishes>>
  BY DEF WaitForDetach
<1>3. /\ job.pc = "wait"
      /\ \/ Moves("answer") /\ job.op = "unstage" /\ device = "absent"
         \/ Ends
  BY <1>1, GotoMoves, EndEnds
  DEF TypeOK, WaitForDetach, JobType
<1>4. TargetInv' /\ OneInv'
  BY <1>2, TargetInvKept, OneInvKept DEF NodeInv
<1>5. JobInv'
  BY <1>1, <1>2, <1>3
  DEF NodeInv, JobInv, Staging, Encrypted, Mount, Moves, Ends
<1>6. TaskInv'
  BY <1>1, <1>2, <1>3
  DEF NodeInv, TaskInv, Moves, Ends, JobInv, Staging, Encrypted, Mount
<1>7. ReleaseInv'
  BY <1>1, <1>2, <1>3
  DEF NodeInv, ReleaseInv, Moves, Ends, JobInv, Staging, Encrypted, Mount
<1>8. FormatInv'
  BY <1>1, <1>2, <1>3
  DEF NodeInv, FormatInv, Staging, Mount, Encrypted, Formatted, Type, Moves, Ends
<1>9. SizeInv'
  BY <1>1, <1>2, <1>3
  DEF NodeInv, SizeInv, Staging, Mount, Encrypted, Moves, Ends, TypeOK, SizeType, Size,
      KnownType, JobType, Job, MappedSize
<1>10. WorksInv'
  BY <1>1, <1>2, <1>3
  DEF NodeInv, WorksInv, Staging, Mount, Encrypted, Moves, Ends, JobInv
<1> QED
  BY <1>1, <1>4, <1>5, <1>6, <1>7, <1>8, <1>9, <1>10 DEF NodeInv

LEMMA ExpandKeeps ==
    ASSUME NodeInv, Expand
    PROVE  NodeInv'
<1>1. TypeOK /\ TypeOK'
  BY ExpandType DEF NodeInv
<1>2. UNCHANGED <<kind, header, inner, data, device, mapping, path, staging, size, targets,
         paths, tasks, staged, published, expanded, wanted, slips, faults, wishes>>
  BY DEF Expand
<1>3. /\ Starts("expand", "extend") /\ job'.need = size.volume /\ job.pc = "idle"
      /\ staged = "yes" /\ expanded < size.volume
  BY <1>1
  DEF TypeOK, Expand, JobType, Job, Starts
<1>4. TargetInv' /\ OneInv'
  BY <1>2, TargetInvKept, OneInvKept DEF NodeInv
<1>5. JobInv'
  BY <1>1, <1>2, <1>3
  DEF NodeInv, JobInv, Staging, Encrypted, Mount, Starts
<1>6. TaskInv'
  BY <1>1, <1>2, <1>3
  DEF NodeInv, TaskInv, Starts, JobInv, Staging, Encrypted, Mount
<1>7. ReleaseInv'
  BY <1>1, <1>2, <1>3
  DEF NodeInv, ReleaseInv, Starts, JobInv, Staging, Encrypted, Mount
<1>8. FormatInv'
  BY <1>1, <1>2, <1>3
  DEF NodeInv, FormatInv, Staging, Mount, Encrypted, Formatted, Type, Starts
<1>9. SizeInv'
  <2>1. expanded \in Nat /\ size.volume \in Nat /\ expanded <= size.volume
    BY <1>1, <1>3, BoundsAssumption DEF TypeOK, KnownType, SizeType, Size
  <2> QED
    BY <1>2, <1>3, <2>1 DEF NodeInv, SizeInv, Staging, Mount, Encrypted, Starts
<1>10. WorksInv'
  BY <1>1, <1>2, <1>3
  DEF NodeInv, WorksInv, Staging, Mount, Encrypted, Starts, JobInv
<1> QED
  BY <1>1, <1>4, <1>5, <1>6, <1>7, <1>8, <1>9, <1>10 DEF NodeInv

LEMMA WaitForExtendKeeps ==
    ASSUME NodeInv, WaitForExtend
    PROVE  NodeInv'
<1>1. TypeOK /\ TypeOK'
  BY WaitForExtendType DEF NodeInv
<1>2. UNCHANGED <<kind, header, inner, data, device, mapping, path, staging, size, targets,
         paths, tasks, staged, published, expanded, wanted, slips, wishes>>
  BY DEF WaitForExtend
<1>3. /\ job.op = "expand" /\ job.pc = "extend"
      /\ \/ Moves("resize") /\ size.device = job.need
         \/ Moves("grow") /\ size.device = job.need /\ header # "luks"
         \/ Moves("answer") /\ size.device = job.need /\ ~Mount
         \/ Ends
  BY <1>1, GotoMoves, EndEnds
  DEF TypeOK, WaitForExtend, JobType
<1>4. TargetInv' /\ OneInv'
  BY <1>2, TargetInvKept, OneInvKept DEF NodeInv
<1>5. JobInv'
  BY <1>1, <1>2, <1>3
  DEF NodeInv, JobInv, Staging, Encrypted, Mount, Moves, Ends
<1>6. TaskInv'
  BY <1>1, <1>2, <1>3
  DEF NodeInv, TaskInv, Moves, Ends, JobInv, Staging, Encrypted, Mount
<1>7. ReleaseInv'
  BY <1>1, <1>2, <1>3
  DEF NodeInv, ReleaseInv, Moves, Ends, JobInv, Staging, Encrypted, Mount
<1>8. FormatInv'
  BY <1>1, <1>2, <1>3
  DEF NodeInv, FormatInv, Staging, Mount, Encrypted, Formatted, Type, Moves, Ends
<1>9. SizeInv'
  <2>1. Mount /\ Encrypted => header = "luks"
    BY <1>1, <1>3 DEF NodeInv, FormatInv, JobInv, Staging, Mount, Encrypted, TypeOK, KnownType, Known
  <2>2. /\ expanded \in Nat /\ job.need \in Nat
        /\ size.volume \in Nat /\ size.device \in Nat
    BY <1>1, BoundsAssumption DEF TypeOK, KnownType, SizeType, Size, JobType, Job
  <2>3. CASE Ends
    BY <1>2, <2>3 DEF NodeInv, SizeInv, Staging, Mount, Encrypted, Ends
  <2>4. CASE Moves("resize") /\ size.device = job.need
    BY <1>2, <1>3, <2>2, <2>4 DEF NodeInv, SizeInv, Staging, Mount, Encrypted, Moves
  <2>5. CASE Moves("grow") /\ size.device = job.need /\ header # "luks"
    BY <1>2, <1>3, <2>1, <2>2, <2>5 DEF NodeInv, SizeInv, Staging, Mount, Encrypted, Moves
  <2>6. CASE Moves("answer") /\ size.device = job.need /\ ~Mount
    BY <1>2, <1>3, <2>2, <2>6 DEF NodeInv, SizeInv, Staging, Mount, Encrypted, Moves
  <2> QED
    BY <1>3, <2>3, <2>4, <2>5, <2>6
<1>10. WorksInv'
  BY <1>1, <1>2, <1>3
  DEF NodeInv, WorksInv, Staging, Mount, Encrypted, Moves, Ends, JobInv
<1> QED
  BY <1>1, <1>4, <1>5, <1>6, <1>7, <1>8, <1>9, <1>10 DEF NodeInv

LEMMA ResizeKeeps ==
    ASSUME NodeInv, Resize
    PROVE  NodeInv'
<1>1. TypeOK /\ TypeOK'
  BY ResizeType DEF NodeInv
<1>2. UNCHANGED <<kind, header, inner, data, device, mapping, path, staging, targets, paths,
         tasks, staged, published, expanded, wanted, slips, wishes>>
  BY DEF Resize
<1>3. /\ job.op = "expand" /\ job.pc = "resize"
      /\ size'.volume = size.volume /\ size'.device = size.device /\ size'.fs = size.fs
      /\ \/ Moves("grow") /\ size'.mapping = size.device
         \/ Ends
  BY <1>1, GotoMoves, EndEnds
  DEF TypeOK, Resize, JobType, SizeType, Size
<1>4. TargetInv' /\ OneInv'
  BY <1>2, TargetInvKept, OneInvKept DEF NodeInv
<1>5. JobInv'
  BY <1>1, <1>2, <1>3
  DEF NodeInv, JobInv, Staging, Encrypted, Mount, Moves, Ends
<1>6. TaskInv'
  BY <1>1, <1>2, <1>3
  DEF NodeInv, TaskInv, Moves, Ends, JobInv, Staging, Encrypted, Mount
<1>7. ReleaseInv'
  BY <1>1, <1>2, <1>3
  DEF NodeInv, ReleaseInv, Moves, Ends, JobInv, Staging, Encrypted, Mount
<1>8. FormatInv'
  BY <1>1, <1>2, <1>3
  DEF NodeInv, FormatInv, Staging, Mount, Encrypted, Formatted, Type, Moves, Ends
<1>9. SizeInv'
  BY <1>1, <1>2, <1>3
  DEF NodeInv, SizeInv, Staging, Mount, Encrypted, Moves, Ends, TypeOK, SizeType, Size,
      KnownType, JobType, Job, MappedSize
<1>10. WorksInv'
  BY <1>1, <1>2, <1>3
  DEF NodeInv, WorksInv, Staging, Mount, Encrypted, Moves, Ends, JobInv
<1> QED
  BY <1>1, <1>4, <1>5, <1>6, <1>7, <1>8, <1>9, <1>10 DEF NodeInv

LEMMA GrowKeeps ==
    ASSUME NodeInv, Grow
    PROVE  NodeInv'
<1>1. TypeOK /\ TypeOK'
  BY GrowType DEF NodeInv
<1>2. UNCHANGED <<kind, header, inner, data, device, mapping, path, staging, targets, paths,
         tasks, staged, published, expanded, wanted, slips, wishes>>
  BY DEF Grow
<1>3. /\ job.op = "expand" /\ job.pc = "grow"
      /\ size'.volume = size.volume /\ size'.device = size.device
      /\ size'.mapping = size.mapping
      /\ \/ Moves("answer") /\ Mount /\ size'.fs = MappedSize
         \/ Moves("answer") /\ ~Mount /\ size'.fs = size.fs
         \/ Ends /\ size'.fs = size.fs
  BY <1>1, GotoMoves, EndEnds
  DEF TypeOK, Grow, JobType, SizeType, Size
<1>4. TargetInv' /\ OneInv'
  BY <1>2, TargetInvKept, OneInvKept DEF NodeInv
<1>5. JobInv'
  BY <1>1, <1>2, <1>3
  DEF NodeInv, JobInv, Staging, Encrypted, Mount, Moves, Ends
<1>6. TaskInv'
  BY <1>1, <1>2, <1>3
  DEF NodeInv, TaskInv, Moves, Ends, JobInv, Staging, Encrypted, Mount
<1>7. ReleaseInv'
  BY <1>1, <1>2, <1>3
  DEF NodeInv, ReleaseInv, Moves, Ends, JobInv, Staging, Encrypted, Mount
<1>8. FormatInv'
  BY <1>1, <1>2, <1>3
  DEF NodeInv, FormatInv, Staging, Mount, Encrypted, Formatted, Type, Moves, Ends
<1>9. SizeInv'
  BY <1>1, <1>2, <1>3
  DEF NodeInv, SizeInv, Staging, Mount, Encrypted, Moves, Ends, TypeOK, SizeType, Size,
      KnownType, JobType, Job, MappedSize
<1>10. WorksInv'
  BY <1>1, <1>2, <1>3
  DEF NodeInv, WorksInv, Staging, Mount, Encrypted, Moves, Ends, JobInv
<1> QED
  BY <1>1, <1>4, <1>5, <1>6, <1>7, <1>8, <1>9, <1>10 DEF NodeInv

LEMMA AnswerKeeps ==
    ASSUME NodeInv, Answer
    PROVE  NodeInv'
<1>1. TypeOK /\ TypeOK'
  BY AnswerType DEF NodeInv
<1>2. UNCHANGED <<kind, header, inner, data, device, mapping, path, staging, size, targets,
         paths, tasks, published, wanted, slips, faults, wishes>>
  BY DEF Answer
<1>3. /\ job.pc = "answer" /\ Ends
      /\ (IF job.op = "unstage" THEN staged' = "no" ELSE staged' = "yes")
      /\ (IF job.op = "expand" THEN expanded' = job.need ELSE expanded' = expanded)
  BY <1>1, EndEnds
  DEF TypeOK, Answer, JobType
<1>4. TargetInv' /\ OneInv'
  BY <1>2, TargetInvKept, OneInvKept DEF NodeInv
<1>5. JobInv'
  BY <1>1, <1>2, <1>3
  DEF NodeInv, JobInv, Staging, Encrypted, Mount, Ends
<1>6. TaskInv'
  BY <1>1, <1>2, <1>3
  DEF NodeInv, TaskInv, Ends, JobInv, Staging, Encrypted, Mount
<1>7. ReleaseInv'
  BY <1>1, <1>2, <1>3
  DEF NodeInv, ReleaseInv, Ends, JobInv, Staging, Encrypted, Mount
<1>8. FormatInv'
  BY <1>1, <1>2, <1>3
  DEF NodeInv, FormatInv, Staging, Mount, Encrypted, Formatted, Type, Ends, JobInv, TaskInv,
      TypeOK, KnownType, Known, JobType, Job, JobPc, Goto, End
<1>9. SizeInv'
  BY <1>1, <1>2, <1>3
  DEF NodeInv, SizeInv, Staging, Mount, Encrypted, Ends, TypeOK, SizeType, Size, KnownType,
      JobType, Job, MappedSize, JobInv, Known
<1>10. WorksInv'
  BY <1>1, <1>2, <1>3
  DEF NodeInv, WorksInv, Staging, Mount, Encrypted, Ends, JobInv, TaskInv, TypeOK,
      KnownType, Known, JobType, Job, JobPc, Goto, End
<1> QED
  BY <1>1, <1>4, <1>5, <1>6, <1>7, <1>8, <1>9, <1>10 DEF NodeInv

LEMMA EnableIOKeeps ==
    ASSUME NodeInv, EnableIO
    PROVE  NodeInv'
<1>1. TypeOK /\ TypeOK'
  BY EnableIOType DEF NodeInv
<1>2. UNCHANGED <<kind, header, inner, data, mapping, path, staging, size, targets, paths,
         job, tasks, staged, published, expanded, wanted, slips, faults, wishes>>
  BY DEF EnableIO
<1>3. /\ device = "attached" /\ device' = "enabled"
  BY <1>1
  DEF TypeOK, EnableIO
<1>4. JobInv' /\ TaskInv' /\ TargetInv' /\ OneInv' /\ SizeInv'
  BY <1>2, JobInvKept, TaskInvKept, TargetInvKept, OneInvKept, SizeInvKept DEF NodeInv
<1>5. ReleaseInv'
  BY <1>1, <1>2, <1>3
  DEF NodeInv, ReleaseInv, JobInv, Staging, Encrypted, Mount
<1>6. FormatInv'
  BY <1>1, <1>2, <1>3
  DEF NodeInv, FormatInv, Staging, Mount, Encrypted, Formatted, Type, JobInv
<1>7. WorksInv'
  BY <1>1, <1>2, <1>3
  DEF NodeInv, WorksInv, Staging, Mount, Encrypted, JobInv
<1> QED
  BY <1>1, <1>4, <1>5, <1>6, <1>7 DEF NodeInv

LEMMA DetachedKeeps ==
    ASSUME NodeInv, Detached
    PROVE  NodeInv'
<1>1. TypeOK /\ TypeOK'
  BY DetachedType DEF NodeInv
<1>2. UNCHANGED <<kind, header, inner, data, mapping, path, staging, size, targets, paths,
         job, tasks, staged, published, expanded, wanted, slips, faults, wishes>>
  BY DEF Detached
<1>3. /\ device = "leaving" /\ device' = "absent"
  BY <1>1
  DEF TypeOK, Detached
<1>4. JobInv' /\ TaskInv' /\ TargetInv' /\ OneInv' /\ SizeInv'
  BY <1>2, JobInvKept, TaskInvKept, TargetInvKept, OneInvKept, SizeInvKept DEF NodeInv
<1>5. ReleaseInv'
  BY <1>1, <1>2, <1>3
  DEF NodeInv, ReleaseInv, JobInv, Staging, Encrypted, Mount
<1>6. FormatInv'
  BY <1>1, <1>2, <1>3
  DEF NodeInv, FormatInv, Staging, Mount, Encrypted, Formatted, Type, JobInv
<1>7. WorksInv'
  BY <1>1, <1>2, <1>3
  DEF NodeInv, WorksInv, Staging, Mount, Encrypted, JobInv
<1> QED
  BY <1>1, <1>4, <1>5, <1>6, <1>7 DEF NodeInv

LEMMA ExpandVolumeKeeps ==
    ASSUME NodeInv, ExpandVolume
    PROVE  NodeInv'
<1>1. TypeOK /\ TypeOK'
  BY ExpandVolumeType DEF NodeInv
<1>2. UNCHANGED <<kind, header, inner, data, device, mapping, path, staging, targets, paths,
         job, tasks, staged, published, expanded, wanted, slips, faults, wishes>>
  BY DEF ExpandVolume
<1>3. /\ size'.volume = size.volume + 1 /\ size'.device = size.device
      /\ size'.mapping = size.mapping /\ size'.fs = size.fs
  BY <1>1
  DEF TypeOK, ExpandVolume, SizeType, Size
<1>4. JobInv' /\ TaskInv' /\ ReleaseInv' /\ TargetInv' /\ OneInv' /\ FormatInv' /\ WorksInv'
  BY <1>2, JobInvKept, TaskInvKept, ReleaseInvKept, TargetInvKept, OneInvKept,
     FormatInvKept, WorksInvKept DEF NodeInv
<1>5. SizeInv'
  BY <1>1, <1>2, <1>3
  DEF NodeInv, SizeInv, Staging, Mount, Encrypted, TypeOK, SizeType, Size, KnownType,
      JobType, Job, MappedSize
<1> QED
  BY <1>1, <1>4, <1>5 DEF NodeInv

LEMMA ExtendDeviceKeeps ==
    ASSUME NodeInv, ExtendDevice
    PROVE  NodeInv'
<1>1. TypeOK /\ TypeOK'
  BY ExtendDeviceType DEF NodeInv
<1>2. UNCHANGED <<kind, header, inner, data, device, mapping, path, staging, targets, paths,
         job, tasks, staged, published, expanded, wanted, slips, faults, wishes>>
  BY DEF ExtendDevice
<1>3. /\ size'.volume = size.volume /\ size'.device = size.volume
      /\ size'.mapping = size.mapping /\ size'.fs = size.fs
  BY <1>1
  DEF TypeOK, ExtendDevice, SizeType, Size
<1>4. JobInv' /\ TaskInv' /\ ReleaseInv' /\ TargetInv' /\ OneInv' /\ FormatInv' /\ WorksInv'
  BY <1>2, JobInvKept, TaskInvKept, ReleaseInvKept, TargetInvKept, OneInvKept,
     FormatInvKept, WorksInvKept DEF NodeInv
<1>5. SizeInv'
  BY <1>1, <1>2, <1>3
  DEF NodeInv, SizeInv, Staging, Mount, Encrypted, TypeOK, SizeType, Size, KnownType,
      JobType, Job, MappedSize
<1> QED
  BY <1>1, <1>4, <1>5 DEF NodeInv

LEMMA RestartKeeps ==
    ASSUME NodeInv, Restart
    PROVE  NodeInv'
<1>1. TypeOK /\ TypeOK'
  BY RestartType DEF NodeInv
<1>2. UNCHANGED <<kind, header, inner, data, device, mapping, path, staging, size, targets,
         paths, staged, published, expanded, wanted, slips, wishes>>
  BY DEF Restart
<1>3. /\ Ends /\ \A u \in Pod : tasks'[u] = "idle"
  BY <1>1
  DEF TypeOK, Restart, JobType, Job, TaskType, Ends, End
<1>4. JobInv'
  BY <1>1, <1>2, <1>3
  DEF NodeInv, JobInv, Staging, Encrypted, Mount, Ends
<1>5. TaskInv'
  BY <1>1, <1>2, <1>3
  DEF NodeInv, TaskInv, Ends, JobInv, Staging, Encrypted, Mount
<1>6. ReleaseInv'
  BY <1>1, <1>2, <1>3
  DEF NodeInv, ReleaseInv, Ends, JobInv, Staging, Encrypted, Mount
<1>7. TargetInv'
  BY <1>1, <1>2, <1>3
  DEF NodeInv, TargetInv, Mount, Ends
<1>8. OneInv'
  BY <1>1, <1>2, <1>3
  DEF NodeInv, OneInv, Ends
<1>9. FormatInv'
  BY <1>1, <1>2, <1>3
  DEF NodeInv, FormatInv, Staging, Mount, Encrypted, Formatted, Type, Ends
<1>10. SizeInv'
  BY <1>1, <1>2, <1>3
  DEF NodeInv, SizeInv, Staging, Mount, Encrypted, Ends, TypeOK, SizeType, Size, KnownType,
      JobType, Job, MappedSize
<1>11. WorksInv'
  BY <1>1, <1>2, <1>3
  DEF NodeInv, WorksInv, Staging, Mount, Encrypted, Ends, JobInv
<1> QED
  BY <1>1, <1>4, <1>5, <1>6, <1>7, <1>8, <1>9, <1>10, <1>11 DEF NodeInv

LEMMA PublishKeeps ==
    ASSUME NEW t \in Pod, NodeInv, Publish(t) \/ PublishAgain(t)
    PROVE  NodeInv'
<1>1. TypeOK /\ TypeOK'
  BY PublishType DEF NodeInv
<1>2. UNCHANGED <<kind, header, inner, data, device, mapping, path, staging, size, targets,
         paths, job, staged, expanded, wanted, slips, wishes>>
  BY DEF Publish, PublishAgain, CallPublish
<1>3. /\ tasks[t] = "idle" /\ job.op # "unstage" /\ staged = "yes"
      /\ TaskMoves(t, "bind") /\ PodKnown(t, "unsure")
  BY <1>1, GotoTaskMoves
  DEF TypeOK, Publish, PublishAgain, CallPublish, TaskType, KnownType, PodKnown
<1>4. JobInv' /\ ReleaseInv' /\ FormatInv' /\ SizeInv'
  BY <1>2, JobInvKept, ReleaseInvKept, FormatInvKept, SizeInvKept DEF NodeInv
<1>5. TaskInv'
  BY <1>1, <1>2, <1>3
  DEF NodeInv, TaskInv, TaskMoves, PodKnown
<1>6. TargetInv'
  BY <1>1, <1>2, <1>3
  DEF NodeInv, TargetInv, Mount, TaskMoves, PodKnown
<1>7. OneInv'
  BY <1>1, <1>2, <1>3
  DEF NodeInv, OneInv, TaskMoves, PodKnown
<1>8. WorksInv'
  BY <1>1, <1>2, <1>3
  DEF NodeInv, WorksInv, Staging, Mount, Encrypted, TaskMoves, PodKnown
<1> QED
  BY <1>1, <1>4, <1>5, <1>6, <1>7, <1>8 DEF NodeInv

LEMMA BindKeeps ==
    ASSUME NEW t \in Pod, NodeInv, Bind(t)
    PROVE  NodeInv'
<1>1. TypeOK /\ TypeOK'
  BY BindType DEF NodeInv
<1>2. UNCHANGED <<kind, header, inner, data, device, mapping, path, staging, size, job,
         staged, published, expanded, wanted, wishes>>
  BY DEF Bind
<1>3. /\ tasks[t] = "bind" /\ slips \subseteq slips' /\ slips' \subseteq slips \cup {"stacked"}
      /\ \/ /\ TaskMoves(t, "chmod") /\ paths' = paths \cup {t} /\ device # "absent"
            /\ TopAdded(t, Bound)
            /\ targets[t] # <<>> => "stacked" \in slips'
         \/ /\ TaskMoves(t, "idle") /\ UNCHANGED <<targets, slips>>
            /\ paths' = paths \cup {t} \/ (device = "absent" /\ paths' = paths)
  <2>1. Bound \in Source
    BY DEF Bound, Source
  <2> QED
    BY <1>1, <2>1, GotoTaskMoves, AddTop DEF TypeOK, Bind
<1>4. JobInv' /\ ReleaseInv' /\ SizeInv'
  BY <1>2, JobInvKept, ReleaseInvKept, SizeInvKept DEF NodeInv
<1>5. TaskInv'
  BY <1>1, <1>2, <1>3
  DEF NodeInv, TaskInv, TaskMoves
<1>6. TargetInv'
  BY <1>1, <1>2, <1>3
  DEF NodeInv, TargetInv, Mount, TaskMoves, TaskInv, TopAdded, Bound
<1>7. OneInv'
  <2>1. \A u \in Pod : targets[u] \in Seq(Source) /\ targets'[u] \in Seq(Source)
    BY <1>1 DEF TypeOK, TargetType
  <2>2. \A u \in Pod : (Len(targets[u]) = 0 <=> targets[u] = <<>>) /\ Len(targets[u]) \in Nat
    BY <2>1, EmptySeq
  <2> QED
    BY <1>1, <1>2, <1>3, <2>2 DEF NodeInv, OneInv, TaskMoves, TopAdded
<1>8. FormatInv'
  BY <1>1, <1>2, <1>3
  DEF NodeInv, FormatInv, Staging, Mount, Encrypted, Formatted, Type, TaskMoves, TaskInv,
      TopAdded, Bound
<1>9. WorksInv'
  BY <1>1, <1>2, <1>3
  DEF NodeInv, WorksInv, Staging, Mount, Encrypted, TaskMoves, TaskInv, TopAdded, Bound
<1> QED
  BY <1>1, <1>4, <1>5, <1>6, <1>7, <1>8, <1>9 DEF NodeInv

LEMMA ChmodKeeps ==
    ASSUME NEW t \in Pod, NodeInv, Chmod(t)
    PROVE  NodeInv'
<1>1. TypeOK /\ TypeOK'
  BY ChmodType DEF NodeInv
<1>2. UNCHANGED <<kind, header, inner, data, device, mapping, path, staging, size, targets,
         paths, job, staged, published, expanded, wanted, slips, wishes>>
  BY DEF Chmod
<1>3. /\ tasks[t] = "chmod" /\ (TaskMoves(t, "published") \/ TaskMoves(t, "idle"))
  BY <1>1, GotoTaskMoves
  DEF TypeOK, Chmod, TaskType
<1>4. JobInv' /\ ReleaseInv' /\ FormatInv' /\ SizeInv'
  BY <1>2, JobInvKept, ReleaseInvKept, FormatInvKept, SizeInvKept DEF NodeInv
<1>5. TaskInv'
  BY <1>1, <1>2, <1>3
  DEF NodeInv, TaskInv, TaskMoves
<1>6. TargetInv'
  BY <1>1, <1>2, <1>3
  DEF NodeInv, TargetInv, Mount, TaskMoves, TaskInv
<1>7. OneInv'
  BY <1>1, <1>2, <1>3
  DEF NodeInv, OneInv, TaskMoves, TaskInv
<1>8. WorksInv'
  BY <1>1, <1>2, <1>3
  DEF NodeInv, WorksInv, Staging, Mount, Encrypted, TaskMoves, TaskInv
<1> QED
  BY <1>1, <1>4, <1>5, <1>6, <1>7, <1>8 DEF NodeInv

LEMMA UnpublishKeeps ==
    ASSUME NEW t \in Pod, NodeInv, Unpublish(t)
    PROVE  NodeInv'
<1>1. TypeOK /\ TypeOK'
  BY UnpublishType DEF NodeInv
<1>2. UNCHANGED <<kind, header, inner, data, device, mapping, path, staging, size, targets,
         paths, job, staged, expanded, wanted, slips, faults, wishes>>
  BY DEF Unpublish
<1>3. /\ tasks[t] = "idle" /\ published[t] # "no" /\ TaskMoves(t, "umount")
      /\ PodKnown(t, "unsure")
  BY <1>1, GotoTaskMoves
  DEF TypeOK, Unpublish, TaskType, KnownType, PodKnown
<1>4. JobInv' /\ ReleaseInv' /\ FormatInv' /\ SizeInv'
  BY <1>2, JobInvKept, ReleaseInvKept, FormatInvKept, SizeInvKept DEF NodeInv
<1>5. TaskInv'
  BY <1>1, <1>2, <1>3
  DEF NodeInv, TaskInv, TaskMoves, PodKnown
<1>6. TargetInv'
  BY <1>1, <1>2, <1>3
  DEF NodeInv, TargetInv, Mount, TaskMoves, PodKnown
<1>7. OneInv'
  BY <1>1, <1>2, <1>3
  DEF NodeInv, OneInv, TaskMoves, PodKnown
<1>8. WorksInv'
  BY <1>1, <1>2, <1>3
  DEF NodeInv, WorksInv, Staging, Mount, Encrypted, TaskMoves, PodKnown
<1> QED
  BY <1>1, <1>4, <1>5, <1>6, <1>7, <1>8 DEF NodeInv

LEMMA UmountTargetKeeps ==
    ASSUME NEW t \in Pod, NodeInv, UmountTarget(t)
    PROVE  NodeInv'
<1>1. TypeOK /\ TypeOK'
  BY UmountTargetType DEF NodeInv
<1>2. UNCHANGED <<kind, header, inner, data, device, mapping, path, staging, size, paths,
         job, staged, published, expanded, wanted, slips, wishes>>
  BY DEF UmountTarget
<1>3. /\ tasks[t] = "umount"
      /\ \/ t \notin paths /\ TaskMoves(t, "removed") /\ targets' = targets
         \/ /\ t \in paths /\ TaskMoves(t, "remove")
            /\ TopTaken(t)
         \/ TaskMoves(t, "idle") /\ targets' = targets
  BY <1>1, GotoTaskMoves, TakeTop DEF TypeOK, UmountTarget
<1>4. JobInv' /\ ReleaseInv' /\ SizeInv'
  BY <1>2, JobInvKept, ReleaseInvKept, SizeInvKept DEF NodeInv
<1>5. TaskInv'
  BY <1>1, <1>2, <1>3
  DEF NodeInv, TaskInv, TaskMoves
<1>6. TargetInv'
  BY <1>1, <1>2, <1>3
  DEF NodeInv, TargetInv, Mount, TaskMoves, TaskInv, TopTaken
<1>7. OneInv'
  <2>1. \A u \in Pod : targets[u] \in Seq(Source) /\ targets'[u] \in Seq(Source)
    BY <1>1 DEF TypeOK, TargetType
  <2>2. \A u \in Pod : (Len(targets[u]) = 0 <=> targets[u] = <<>>) /\ Len(targets[u]) \in Nat
    BY <2>1, EmptySeq
  <2> QED
    BY <1>1, <1>2, <1>3, <2>2 DEF NodeInv, OneInv, TaskMoves, TopTaken
<1>8. FormatInv'
  BY <1>1, <1>2, <1>3
  DEF NodeInv, FormatInv, Staging, Mount, Encrypted, Formatted, Type, TaskMoves, TaskInv,
      TopTaken
<1>9. WorksInv'
  BY <1>1, <1>2, <1>3
  DEF NodeInv, WorksInv, Staging, Mount, Encrypted, TaskMoves, TaskInv, TopTaken
<1> QED
  BY <1>1, <1>4, <1>5, <1>6, <1>7, <1>8, <1>9 DEF NodeInv

LEMMA RemoveTargetKeeps ==
    ASSUME NEW t \in Pod, NodeInv, RemoveTarget(t)
    PROVE  NodeInv'
<1>1. TypeOK /\ TypeOK'
  BY RemoveTargetType DEF NodeInv
<1>2. UNCHANGED <<kind, header, inner, device, mapping, path, staging, size, targets, job,
         staged, published, expanded, wanted, slips, faults, wishes>>
  BY DEF RemoveTarget
<1>3. /\ tasks[t] = "remove" /\ (data' => data)
      /\ \/ targets[t] = <<>> /\ TaskMoves(t, "removed") /\ paths' = paths \ {t}
         \/ targets[t] # <<>> /\ paths' = paths /\ TaskMoves(t, "idle") /\ Mount
         \/ targets[t] # <<>> /\ paths' = paths /\ TaskMoves(t, "removed") /\ ~Mount
  BY <1>1, GotoTaskMoves
  DEF TypeOK, RemoveTarget, TaskType, VolumeType
<1>4. JobInv' /\ ReleaseInv' /\ SizeInv'
  BY <1>2, JobInvKept, ReleaseInvKept, SizeInvKept DEF NodeInv
<1>5. TaskInv'
  BY <1>1, <1>2, <1>3
  DEF NodeInv, TaskInv, TaskMoves
<1>6. TargetInv'
  BY <1>1, <1>2, <1>3
  DEF NodeInv, TargetInv, Mount, TaskMoves, TaskInv, OneInv
<1>7. OneInv'
  BY <1>1, <1>2, <1>3
  DEF NodeInv, OneInv, TaskMoves, TaskInv
<1>8. FormatInv'
  BY <1>1, <1>2, <1>3
  DEF NodeInv, FormatInv, Staging, Mount, Encrypted, Formatted, Type, TaskMoves
<1>9. WorksInv'
  BY <1>1, <1>2, <1>3
  DEF NodeInv, WorksInv, Staging, Mount, Encrypted, TaskMoves, TaskInv
<1> QED
  BY <1>1, <1>4, <1>5, <1>6, <1>7, <1>8, <1>9 DEF NodeInv

LEMMA AnswerTaskKeeps ==
    ASSUME NEW t \in Pod, NodeInv, AnswerTask(t)
    PROVE  NodeInv'
<1>1. TypeOK /\ TypeOK'
  BY AnswerTaskType DEF NodeInv
<1>2. UNCHANGED <<kind, header, inner, data, device, mapping, path, staging, size, targets,
         paths, job, staged, expanded, wanted, slips, faults, wishes>>
  BY DEF AnswerTask
<1>3. /\ TaskMoves(t, "idle")
      /\ \/ tasks[t] = "published" /\ PodKnown(t, "yes")
         \/ tasks[t] = "removed" /\ PodKnown(t, "no")
  BY <1>1, GotoTaskMoves
  DEF TypeOK, AnswerTask, TaskType, KnownType, PodKnown
<1>4. JobInv' /\ ReleaseInv' /\ FormatInv' /\ SizeInv'
  BY <1>2, JobInvKept, ReleaseInvKept, FormatInvKept, SizeInvKept DEF NodeInv
<1>5. TaskInv'
  BY <1>1, <1>2, <1>3
  DEF NodeInv, TaskInv, TaskMoves, PodKnown
<1>6. TargetInv'
  BY <1>1, <1>2, <1>3
  DEF NodeInv, TargetInv, Mount, TaskMoves, PodKnown, TaskInv
<1>7. OneInv'
  BY <1>1, <1>2, <1>3
  DEF NodeInv, OneInv, TaskMoves, PodKnown, TaskInv
<1>8. WorksInv'
  BY <1>1, <1>2, <1>3
  DEF NodeInv, WorksInv, Staging, Mount, Encrypted, TaskMoves, PodKnown, TaskInv
<1> QED
  BY <1>1, <1>4, <1>5, <1>6, <1>7, <1>8 DEF NodeInv

LEMMA WishKeeps ==
    ASSUME NEW t \in Pod, NodeInv, Wish(t)
    PROVE  NodeInv'
<1>1. TypeOK /\ TypeOK'
  BY WishType DEF NodeInv
<1>2. UNCHANGED <<kind, header, inner, data, device, mapping, path, staging, size, targets,
         paths, job, tasks, staged, published, expanded, slips, faults>>
  BY DEF Wish
<1>3. JobInv' /\ TaskInv' /\ ReleaseInv' /\ TargetInv' /\ OneInv' /\ FormatInv' /\ SizeInv' /\ WorksInv'
  BY <1>2, JobInvKept, TaskInvKept, ReleaseInvKept, TargetInvKept, OneInvKept,
     FormatInvKept, SizeInvKept, WorksInvKept DEF NodeInv
<1> QED
  BY <1>1, <1>3 DEF NodeInv

LEMMA WriteKeeps ==
    ASSUME NEW t \in Pod, NodeInv, Write(t)
    PROVE  NodeInv'
<1>1. TypeOK /\ TypeOK'
  BY WriteType DEF NodeInv
<1>2. UNCHANGED <<kind, inner, device, mapping, path, staging, size, targets, paths, job,
         tasks, staged, published, expanded, wanted, slips, faults, wishes>>
  BY DEF Write
<1>3. /\ published[t] = "yes" /\ targets[t] # <<>> /\ data' = TRUE /\ device # "absent"
      /\ Last(targets[t]) # "host"
      /\ (Last(targets[t]) = "device" \/ header' = header)
  BY <1>1
  DEF TypeOK, Write
<1>4. JobInv' /\ TaskInv' /\ ReleaseInv' /\ TargetInv' /\ OneInv' /\ SizeInv' /\ WorksInv'
  BY <1>2, JobInvKept, TaskInvKept, ReleaseInvKept, TargetInvKept, OneInvKept, SizeInvKept,
     WorksInvKept DEF NodeInv
<1>5. FormatInv'
  <2>1. Last(targets[t]) \in Source /\ \E i \in DOMAIN targets[t] : Last(targets[t]) = targets[t][i]
    BY <1>1, <1>3, LastSeq DEF TypeOK, TargetType
  <2>2. Mount => Last(targets[t]) = "volume" /\ Formatted
    BY <1>3, <2>1 DEF NodeInv, TargetInv, FormatInv, Mount
  <2>3. Mount => header' = header
    BY <1>3, <2>2
  <2> QED
    BY <1>2, <2>2, <2>3 DEF NodeInv, FormatInv, Staging, Mount, Encrypted, Formatted, Type
<1> QED
  BY <1>1, <1>4, <1>5 DEF NodeInv

-----------------------------------------------------------------------------
(* The theorems *)

LEMMA InitInv == Init => NodeInv
<1> SUFFICES ASSUME Init PROVE NodeInv
  OBVIOUS
<1>1. VolumeType /\ HostType
  BY DEF Init, VolumeType, Content, HostType, Device
<1>2. SizeType
  BY BoundsAssumption DEF Init, SizeType, Size
<1>3. JobType
  BY BoundsAssumption DEF Init, JobType, Job, JobPc
<1>4. TargetType /\ TaskType /\ KnownType /\ BoundType
  BY BoundsAssumption DEF Init, TargetType, TaskType, TaskPc, KnownType, Known, BoundType
<1>5. JobInv /\ TaskInv /\ ReleaseInv
  BY DEF Init, JobInv, TaskInv, ReleaseInv, Staging
<1>6. TargetInv /\ OneInv
  BY DEF Init, TargetInv, OneInv
<1>7. FormatInv /\ WorksInv
  BY DEF Init, FormatInv, WorksInv, Staging
<1>8. SizeInv
  BY BoundsAssumption DEF Init, SizeInv, Staging
<1> QED
  BY <1>1, <1>2, <1>3, <1>4, <1>5, <1>6, <1>7, <1>8 DEF NodeInv, TypeOK

LEMMA StutterType == TypeOK /\ UNCHANGED vars => TypeOK'
BY VolumeTypeKept, HostTypeKept, SizeTypeKept, TargetTypeKept, JobTypeKept, TaskTypeKept,
   KnownTypeKept, BoundTypeKept DEF TypeOK

LEMMA StepType == TypeOK /\ [Next]_vars => TypeOK'
BY StageType, AttachType, WaitForIOType, ProbeType, EncryptType, OpenType, ReadTypeType,
   FormatType, MountVolumeType, UnstageType, UmountType, RemoveStagingType, CloseType,
   DetachVolumeType, WaitForDetachType, ExpandType, WaitForExtendType, ResizeType,
   GrowType, AnswerType, EnableIOType, DetachedType, ExpandVolumeType, ExtendDeviceType,
   RestartType, PublishType, BindType, ChmodType, UnpublishType, UmountTargetType,
   RemoveTargetType, AnswerTaskType, WishType, WriteType, StutterType
   DEF Next, Call, Handle, Host, HandleTask

\* TypeOK is an invariant, whatever the orchestrator repeats: the handlers know no
\* other states of the volume and the host than these (node_service.py:51).
THEOREM Typed == Spec => []TypeOK
<1>1. Init => TypeOK
  BY InitInv DEF NodeInv
<1> QED
  BY <1>1, StepType, PTL DEF Spec

LEMMA StepInv == ASSUME NodeInv, [Next]_vars PROVE NodeInv'
<1>1. CASE UNCHANGED vars
  <2>1. TypeOK'
    BY <1>1, StutterType DEF NodeInv
  <2> QED
    BY <1>1, <2>1, JobInvKept, TaskInvKept, ReleaseInvKept, TargetInvKept, OneInvKept,
       FormatInvKept, SizeInvKept, WorksInvKept DEF NodeInv
<1>2. CASE Next
  BY <1>2, StageKeeps, AttachKeeps, WaitForIOKeeps, ProbeKeeps, EncryptKeeps, OpenKeeps,
     ReadTypeKeeps, FormatKeeps, MountVolumeKeeps, UnstageKeeps, UmountKeeps,
     RemoveStagingKeeps, CloseKeeps, DetachVolumeKeeps, WaitForDetachKeeps, ExpandKeeps,
     WaitForExtendKeeps, ResizeKeeps, GrowKeeps, AnswerKeeps, EnableIOKeeps,
     DetachedKeeps, ExpandVolumeKeeps, ExtendDeviceKeeps, RestartKeeps, PublishKeeps,
     BindKeeps, ChmodKeeps, UnpublishKeeps, UmountTargetKeeps, RemoveTargetKeeps,
     AnswerTaskKeeps, WishKeeps, WriteKeeps
     DEF Next, Call, Handle, Host, HandleTask
<1> QED
  BY <1>1, <1>2

\* The strengthening is inductive, whatever fails, is repeated or is killed
\* (node_service.py:51-263).
THEOREM Inductive == Spec => []NodeInv
BY InitInv, StepInv, PTL DEF Spec

\* PublishedWorks: a pod whose volume is published works on that volume, through
\* the file system or the device it asked for, unless a stage met a device that was
\* leaving or was repeated under the pods (node_service.py:174, common.py:255).
THEOREM PublishedIsWorking == Spec => []PublishedWorks
<1>1. ASSUME NodeInv, slips \cap {"departing", "restaged"} = {},
             NEW t \in Pod, published[t] = "yes"
      PROVE  /\ device = "enabled" /\ (Encrypted => mapping)
             /\ targets[t] # <<>> /\ Last(targets[t]) = IF Mount THEN "volume" ELSE "device"
  <2>1. "departing" \notin slips /\ "restaged" \notin slips
    BY <1>1
  <2>2. /\ device = "enabled" /\ (Encrypted => mapping) /\ targets[t] # <<>>
        /\ \A i \in DOMAIN targets[t] : targets[t][i] # "host"
    BY <1>1, <2>1 DEF NodeInv, WorksInv
  <2>3. \E i \in DOMAIN targets[t] : Last(targets[t]) = targets[t][i]
    BY <1>1, <2>2, LastSeq DEF NodeInv, TypeOK, TargetType
  <2> QED
    BY <1>1, <2>2, <2>3 DEF NodeInv, TargetInv
<1>2. NodeInv => PublishedWorks
  BY <1>1 DEF PublishedWorks
<1> QED
  BY <1>2, Inductive, PTL

\* Released: a volume that is unstaged leaves nothing on the host, but for a device
\* bound twice to one path (node_service.py:144, 241).
THEOREM UnstagedIsReleased == Spec => []Released
<1>1. NodeInv => Released
  BY DEF NodeInv, TaskInv, ReleaseInv, TargetInv, Released, TypeOK, KnownType, Known
<1> QED
  BY <1>1, Inductive, PTL

\* ExpandedSize: the file system is as large as was answered
\* (node_service.py:304).
THEOREM ExpandedIsLarge == Spec => []ExpandedSize
<1>1. NodeInv => ExpandedSize
  BY DEF NodeInv, SizeInv, ExpandedSize
<1> QED
  BY <1>1, Inductive, PTL

\* EncryptedIO: with no encrypted block volumes, all that pods read and write on an
\* encrypted volume goes through dm-crypt (dmcrypt.py:78-80).
THEOREM EncryptedThroughDMCrypt ==
    ASSUME \A k \in Kinds : k.encrypted => k.access = "mount"
    PROVE  Spec => []EncryptedIO
<1>1. NodeInv => EncryptedIO
  BY DEF NodeInv, TypeOK, VolumeType, TargetInv, EncryptedIO, Encrypted, Mount
<1> QED
  BY <1>1, Inductive, PTL

LEMMA StepSafe ==
    ASSUME NodeInv, [Next]_vars, data, ~data'
    PROVE  IF Mount THEN "stacked" \in slips' \/ "misread" \in slips' ELSE Encrypted
<1>1. CASE Encrypt
  <2>1. Encrypted /\ (Mount => header # "luks")
    BY <1>1 DEF NodeInv, JobInv, FormatInv, Staging, Encrypt
  <2> QED
    BY <2>1 DEF NodeInv, FormatInv, Formatted
<1>2. CASE Format
  <2>1. Mount /\ device # "absent" /\ slips' = slips /\ Staging({"format"})
    BY <1>2 DEF NodeInv, JobInv, Staging, Format
  <2>2. Type = "fs"
    BY <2>1 DEF NodeInv, FormatInv, Formatted, Type
  <2> QED
    BY <2>1, <2>2 DEF NodeInv, FormatInv
<1>3. ASSUME NEW t \in Pod, RemoveTarget(t)
      PROVE  Mount /\ "stacked" \in slips'
  <2>1. tasks[t] = "remove" /\ targets[t] # <<>> /\ Last(targets[t]) = "volume" /\ slips' = slips
    BY <1>3 DEF RemoveTarget
  <2>2. \E i \in DOMAIN targets[t] : Last(targets[t]) = targets[t][i]
    BY <2>1, LastSeq DEF NodeInv, TypeOK, TargetType
  <2> QED
    BY <2>1, <2>2 DEF NodeInv, TargetInv, OneInv
<1>4. ASSUME NEW t \in Pod, Write(t) PROVE FALSE
  BY <1>4 DEF Write
<1>5. ASSUME Next PROVE \/ Encrypt \/ Format \/ UNCHANGED data
                       \/ \E t \in Pod : RemoveTarget(t) \/ Write(t)
  BY <1>5 DEF Next, Call, Handle, Host, HandleTask, Stage, StageAgain, CallStage, Attach,
     WaitForIO, Probe, Open, ReadType, MountVolume, Unstage, Umount, RemoveStaging, Close,
     DetachVolume, WaitForDetach, Expand, WaitForExtend, Resize, Grow, Answer, EnableIO,
     Detached, ExpandVolume, ExtendDevice, Restart, Publish, PublishAgain, CallPublish, Bind,
     Chmod, Unpublish, UmountTarget, AnswerTask, Wish
<1>6. CASE UNCHANGED data
  BY <1>6
<1>7. CASE UNCHANGED vars
  BY <1>7
<1> QED
  BY <1>1, <1>2, <1>3, <1>4, <1>5, <1>6, <1>7

\* DataSafe: encrypting, formatting and removing spare what pods have written, with
\* every command failing and every call repeated, but for a publish stacked on its own
\* mount, a misread type and an encrypted volume used beside dm-crypt
\* (filesystem_manager.py:112, 133, dmcrypt.py:59, node_service.py:255).
THEOREM DataIsSafe == Spec => DataSafe
<1>1. ASSUME NodeInv, [Next]_vars
      PROVE  [data /\ ~data' =>
                 IF Mount THEN slips' \cap {"stacked", "misread"} # {} ELSE Encrypted]_vars
  BY <1>1, StepSafe
<1> QED
  BY <1>1, Inductive, PTL DEF Spec, DataSafe

=============================================================================
