-------------------------------- MODULE Node --------------------------------
(* The node service: one volume on one host.                                  *)
(*                                                                            *)
(* NodeStageVolume attaches the volume, encrypts, formats and mounts it on    *)
(* the staging path; NodePublishVolume binds it to the target path of a pod;  *)
(* the two others undo them, and NodeExpandVolume follows a larger volume.    *)
(* The service keeps no state and no lock: what it finds is the state of the  *)
(* host, and each step of a handler is a command that may fail.  The          *)
(* orchestrator calls again what has failed or what it had no answer to.      *)
EXTENDS Naturals, Sequences, FiniteSets, SequencesExt

CONSTANTS
    Pod,            \* pods of this host; each has a target path
    Kinds,          \* the volumes the storage classes allow
    Faulty,         \* the commands that may fail
    MaxFaults,      \* bound: failing commands, restarts and calls made once more
    MaxWishes,      \* bound: pods that come and go
    MaxSize         \* bound: sizes of the volume

Kind == [access : {"mount", "block"}, encrypted : BOOLEAN]
Known == {"no", "unsure", "yes"}

ASSUME KindsAssumption == Kinds \subseteq Kind
ASSUME BoundsAssumption == MaxFaults \in Nat /\ MaxWishes \in Nat /\ MaxSize \in Nat \ {0}

VARIABLES
    kind,       \* volume_capability and volume_context of every request
    device,     \* /dev/nvmesh/{vol}, as the host and the management have it
    header,     \* what the volume begins with
    inner,      \* what an encrypted volume begins with inside
    data,       \* do pods have data on the volume?
    mapping,    \* is /dev/mapper/{vol} open?
    size,       \* of the volume, of the device as the host sees it, and so on
    path,       \* does the staging path exist?
    staging,    \* is the volume mounted on it?
    targets,    \* the mounts on each target path, the one on top last
    paths,      \* the target paths that exist
    job,        \* the handler of Stage, Unstage or Expand, and where it is
    tasks,      \* the handlers of Publish and Unpublish, one per pod
    staged, published,  \* what the orchestrator knows
    expanded,   \* the size it has been told the file system has
    wanted,     \* the pods that should run
    slips,      \* history, which no step reads: what has gone past the handlers' care
    faults, wishes

volume == <<kind, header, inner, data>>
host == <<mapping, path, staging>>
pods == <<targets, paths, tasks, published>>
orders == <<wanted, wishes>>
vars == <<volume, device, size, host, pods, job, staged, expanded, orders, slips, faults>>

-----------------------------------------------------------------------------
Content == {"none", "fs", "luks", "raw"}
Device == {"absent", "attached", "enabled", "leaving"}
Source == {"volume", "device", "host"}
JobPc == {"idle", "attach", "io", "probe", "encrypt", "open", "type", "format", "mount",
          "umount", "clear", "close", "detach", "wait", "extend", "resize", "grow", "answer"}
Job == [op : {"stage", "unstage", "expand"}, pc : JobPc, need : 0..MaxSize]
TaskPc == {"idle", "bind", "chmod", "umount", "remove", "published", "removed"}
Slip == {"departing", "restaged", "stacked", "misread"}
Size == [volume : 1..MaxSize, device : 0..MaxSize, mapping : 0..MaxSize, fs : 0..MaxSize]

NoJob == [op |-> "stage", pc |-> "idle", need |-> 0]
Mount == kind.access = "mount"
Encrypted == kind.encrypted

\* mapped_device: what the file system is on, its type and its size.
Type == IF Encrypted THEN inner ELSE header
MappedSize == IF Encrypted THEN size.mapping ELSE size.device

\* A device that is bound to a path is not in use by that.
FsInUse == staging \/ \E t \in Pod : \E i \in DOMAIN targets[t] : targets[t][i] = "volume"
InUse == FsInUse \/ mapping

Init ==
    /\ kind \in Kinds
    /\ device = "absent"
    /\ header = "none" /\ inner = "none" /\ data = FALSE
    /\ mapping = FALSE /\ path = FALSE /\ staging = FALSE
    /\ size = [volume |-> 1, device |-> 0, mapping |-> 0, fs |-> 0]
    /\ targets = [t \in Pod |-> <<>>]
    /\ paths = {}
    /\ job = NoJob
    /\ tasks = [t \in Pod |-> "idle"]
    /\ staged = "no" /\ published = [t \in Pod |-> "no"] /\ expanded = 0
    /\ wanted = {} /\ slips = {}
    /\ faults = 0 /\ wishes = 0

-----------------------------------------------------------------------------
(* Handlers: each ends with an answer, or with an error after which the       *)
(* orchestrator is as unsure as before.                                       *)

At(op, l) == job.op = op /\ job.pc = l
Goto(l) == job' = [job EXCEPT !.pc = l]
End == job' = NoJob

\* A command fails, if it is one that may.
Fault(c) == /\ c \in Faulty /\ faults < MaxFaults
            /\ faults' = faults + 1
Fine == faults' = faults
Error(c, certain) == IF certain THEN Fine ELSE Fault(c)

\* Something that should not be, and that the handler goes on with.
Slips(slip, when) == slips' = IF when THEN slips \cup {slip} ELSE slips

\* What a failing NodeStageVolume undoes, in this order; the others just fail.
Fails == IF job.op = "stage" THEN Goto("umount") ELSE End

-----------------------------------------------------------------------------
(* NodeStageVolume *)

\* The orchestrator creates the staging path.
CallStage ==
    /\ job.pc = "idle" /\ \A t \in Pod : tasks[t] = "idle"
    /\ wanted # {}
    /\ job' = [op |-> "stage", pc |-> "attach", need |-> 0]
    /\ staged' = "unsure"
    /\ path' = TRUE
    /\ Slips("restaged", \E t \in Pod : published[t] # "no")
    /\ UNCHANGED <<volume, device, size, mapping, staging, pods, expanded, orders>>

Stage == staged # "yes" /\ Fine /\ CallStage

\* The orchestrator has been started again, and stages what is staged.
StageAgain == staged = "yes" /\ Fault("orchestrator") /\ CallStage

\* Outside the try block: a failure leaves what it has attached.  A device that is
\* there is not attached, whatever becomes of it.
Attach ==
    /\ At("stage", "attach")
    /\ \/ device # "absent" /\ Goto("io") /\ Fine /\ UNCHANGED <<device, size>>
       \/ /\ device = "absent" /\ Goto("io") /\ Fine
          /\ device' = "attached" /\ size' = [size EXCEPT !.device = size.volume]
       \/ /\ device = "absent" /\ Fault("attach") /\ End
          /\ \/ UNCHANGED <<device, size>>
             \/ device' = "attached" /\ size' = [size EXCEPT !.device = size.volume]
    /\ UNCHANGED <<volume, host, pods, staged, expanded, orders, slips>>

\* Mutant: a device that is there is ready.
AttachedIsReady ==
    /\ At("stage", "io")
    /\ Fine
    /\ Goto(IF Encrypted THEN "probe" ELSE IF Mount THEN "type" ELSE "answer")
    /\ UNCHANGED <<volume, device, size, host, pods, staged, expanded, orders, slips>>

\* A device that is leaving is ready as long as its status says so.
WaitForIO ==
    /\ At("stage", "io")
    /\ \/ /\ device \in {"enabled", "leaving"} /\ Fine
          /\ Goto(IF Encrypted THEN "probe" ELSE IF Mount THEN "type" ELSE "answer")
          /\ Slips("departing", device = "leaving")
       \/ device \in {"absent", "leaving"} /\ Fine /\ Fails /\ UNCHANGED slips
       \/ device = "attached" /\ Fault("io") /\ Fails /\ UNCHANGED slips
    /\ UNCHANGED <<volume, device, size, host, pods, staged, expanded, orders>>

\* is_device_encrypted
Probe ==
    /\ At("stage", "probe")
    /\ \/ device # "absent" /\ Fine /\ Goto(IF header = "luks" THEN "open" ELSE "encrypt")
       \/ Error("probe", device = "absent") /\ Fails
    /\ UNCHANGED <<volume, device, size, host, pods, staged, expanded, orders, slips>>

Encrypt ==
    /\ At("stage", "encrypt")
    /\ \/ /\ device # "absent" /\ ~InUse /\ Fine /\ Goto("open")
          /\ header' = "luks" /\ inner' = "none" /\ data' = FALSE
       \/ Error("encrypt", device = "absent" \/ InUse) /\ Fails /\ UNCHANGED volume
    /\ UNCHANGED <<kind, device, size, host, pods, staged, expanded, orders, slips>>

\* Fails on a device that is open already.
Open ==
    /\ At("stage", "open")
    /\ \/ /\ device # "absent" /\ ~mapping /\ Fine /\ Goto(IF Mount THEN "type" ELSE "answer")
          /\ mapping' = TRUE /\ size' = [size EXCEPT !.mapping = size.device]
       \/ /\ Error("open", device = "absent" \/ mapping)
          /\ Fails /\ UNCHANGED <<mapping, size>>
    /\ UNCHANGED <<volume, device, path, staging, pods, staged, expanded, orders, slips>>

\* get_fs_type takes no notice of blkid's exit code: no answer is no file system.
ReadType ==
    /\ At("stage", "type")
    /\ \E type \in {Type, "none"} :
          /\ IF type = Type \/ device = "absent"
             THEN Fine /\ UNCHANGED slips
             ELSE Fault("blkid") /\ slips' = slips \cup {"misread"}
          /\ IF type = "fs" THEN Goto("mount")
             ELSE IF type = "none" THEN Goto("format") ELSE Fails
    /\ UNCHANGED <<volume, device, size, host, pods, staged, expanded, orders>>

Format ==
    /\ At("stage", "format")
    /\ \/ /\ device # "absent" /\ ~FsInUse /\ Fine /\ Goto("mount")
          /\ IF Encrypted THEN inner' = "fs" /\ UNCHANGED header
             ELSE header' = "fs" /\ UNCHANGED inner
          /\ data' = FALSE
          /\ size' = [size EXCEPT !.fs = MappedSize]
       \/ /\ Error("format", device = "absent" \/ FsInUse)
          /\ Fails /\ UNCHANGED <<volume, size>>
    /\ UNCHANGED <<kind, device, host, pods, staged, expanded, orders, slips>>

\* Fails where the volume is mounted already.
MountVolume ==
    /\ At("stage", "mount")
    /\ \/ device # "absent" /\ ~staging /\ staging' = TRUE /\ Fine /\ Goto("answer")
       \/ /\ Error("mount", device = "absent" \/ staging)
          /\ Fails /\ UNCHANGED staging
       \/ device # "absent" /\ ~staging /\ staging' = TRUE /\ Fault("chmod") /\ Fails
    /\ UNCHANGED <<volume, device, size, mapping, path, pods, staged, expanded, orders,
                   slips>>

-----------------------------------------------------------------------------
(* NodeUnstageVolume, and what a failing NodeStageVolume undoes *)

Unstage ==
    /\ job.pc = "idle" /\ \A t \in Pod : tasks[t] = "idle" /\ published[t] = "no"
    /\ staged # "no" /\ wanted = {}
    /\ job' = [op |-> "unstage", pc |-> "umount", need |-> 0]
    /\ staged' = "unsure"
    /\ UNCHANGED <<volume, device, size, host, pods, expanded, orders, slips, faults>>

Umount ==
    /\ job.pc = "umount"
    /\ \/ /\ staging' = FALSE /\ Fine
          /\ Goto(IF job.op = "unstage" /\ path THEN "clear" ELSE "close")
       \/ staging /\ Fault("umount") /\ End /\ UNCHANGED staging
    /\ UNCHANGED <<volume, device, size, mapping, path, pods, staged, expanded, orders, slips>>

\* NodeUnstageVolume removes the staging path, too.
RemoveStaging ==
    /\ job.pc = "clear"
    /\ \/ path' = FALSE /\ Fine /\ Goto("close")
       \/ Fault("remove") /\ End /\ UNCHANGED path
    /\ UNCHANGED <<volume, device, size, mapping, staging, pods, staged, expanded, orders,
                   slips>>

\* Mutant: a failing NodeStageVolume leaves the mapping open.
CloseUnstaging ==
    /\ job.pc = "close"
    /\ mapping' = (mapping /\ job.op = "stage") /\ Fine /\ Goto("detach")
    /\ UNCHANGED <<volume, device, size, path, staging, pods, staged, expanded, orders, slips>>

\* close_dmcrypt_device, if it is open: fails while it is mounted.
Close ==
    /\ job.pc = "close"
    /\ \/ (mapping => ~FsInUse) /\ mapping' = FALSE /\ Fine /\ Goto("detach")
       \/ mapping /\ Error("close", FsInUse) /\ End /\ UNCHANGED mapping
    /\ UNCHANGED <<volume, device, size, path, staging, pods, staged, expanded, orders, slips>>

Leave == device' = IF device = "absent" THEN "absent" ELSE "leaving"

\* A device that is not attached is no error.  NodeStageVolume always forces the
\* client, NodeUnstageVolume with Config.FORCE_DETACH: the device is in use no more.
DetachVolume ==
    /\ job.pc = "detach"
    /\ \/ Leave /\ Fine /\ Goto("wait")
       \/ Fault("detach") /\ End /\ (Leave \/ UNCHANGED device)
    /\ UNCHANGED <<volume, size, host, pods, staged, expanded, orders, slips>>

\* Mutant: NodeUnstageVolume does not wait.
DoNotWait ==
    /\ job.pc = "wait"
    /\ Fine
    /\ IF job.op = "unstage" THEN Goto("answer") ELSE End
    /\ UNCHANGED <<volume, device, size, host, pods, staged, expanded, orders, slips>>

\* wait_for_volume_to_detach; a failed NodeStageVolume then raises its error.
WaitForDetach ==
    /\ job.pc = "wait"
    /\ \/ /\ device = "absent" /\ Fine
          /\ IF job.op = "unstage" THEN Goto("answer") ELSE End
       \/ device # "absent" /\ Fault("wait") /\ End
    /\ UNCHANGED <<volume, device, size, host, pods, staged, expanded, orders, slips>>

-----------------------------------------------------------------------------
(* NodeExpandVolume *)

Expand ==
    /\ job.pc = "idle" /\ staged = "yes" /\ expanded < size.volume
    /\ job' = [op |-> "expand", pc |-> "extend", need |-> size.volume]
    /\ UNCHANGED <<volume, device, size, host, pods, staged, expanded, orders, slips, faults>>

\* wait_for_nvmesh_block_device_extend: a size beyond the expected one is an error,
\* and so is no size.  blkid may fail here, too.
WaitForExtend ==
    /\ At("expand", "extend")
    /\ \/ /\ device # "absent" /\ size.device = job.need
          /\ \/ Goto(IF header = "luks" THEN "resize" ELSE "grow") /\ Fine
             \/ Fault("blkid") /\ IF Mount THEN End ELSE Goto("answer")
       \/ (device = "absent" \/ size.device > job.need) /\ End /\ Fine
       \/ size.device < job.need /\ End /\ Fault("extend")
    /\ UNCHANGED <<volume, device, size, host, pods, staged, expanded, orders, slips>>

\* Mutant: the mapping is left at its size.
ResizeNothing ==
    /\ At("expand", "resize")
    /\ Goto("grow") /\ Fine
    /\ UNCHANGED <<volume, device, size, host, pods, staged, expanded, orders, slips>>

\* Mutant: the room the header takes is counted twice.
ResizePast ==
    /\ At("expand", "resize")
    /\ Goto("grow") /\ Fine
    /\ size' = [size EXCEPT !.mapping = size.device + 1]
    /\ UNCHANGED <<volume, device, host, pods, staged, expanded, orders, slips>>

\* resize_dmcrypt_device: a mapping that has its size already, from an earlier
\* call or since it was opened, is an error, and so is the last attempt.
Resize ==
    /\ At("expand", "resize")
    /\ \/ /\ device # "absent" /\ size.mapping < size.device
          /\ size' = [size EXCEPT !.mapping = size.device]
          /\ \/ Goto("grow") /\ Fine
             \/ End /\ Fault("resize")
       \/ /\ Error("resize", device = "absent" \/ size.mapping >= size.device)
          /\ End /\ UNCHANGED size
    /\ UNCHANGED <<volume, device, host, pods, staged, expanded, orders, slips>>

\* expand_file_system, on a mounted volume only.
Grow ==
    /\ At("expand", "grow")
    /\ \/ ~Mount /\ Goto("answer") /\ Fine /\ UNCHANGED size
       \/ /\ Mount /\ device # "absent" /\ Goto("answer") /\ Fine
          /\ size' = [size EXCEPT !.fs = MappedSize]
       \/ Mount /\ Error("grow", device = "absent") /\ End /\ UNCHANGED size
    /\ UNCHANGED <<volume, device, host, pods, staged, expanded, orders, slips>>

Answer ==
    /\ job.pc = "answer"
    /\ End
    /\ staged' = IF job.op = "unstage" THEN "no" ELSE "yes"
    /\ expanded' = IF job.op = "expand" THEN job.need ELSE expanded
    /\ UNCHANGED <<volume, device, size, host, pods, orders, slips, faults>>

Handle ==
    \/ Attach \/ WaitForIO \/ Probe \/ Encrypt \/ Open \/ ReadType \/ Format \/ MountVolume
    \/ Umount \/ RemoveStaging \/ Close \/ DetachVolume \/ WaitForDetach
    \/ WaitForExtend \/ Resize \/ Grow \/ Answer

-----------------------------------------------------------------------------
(* NodePublishVolume and NodeUnpublishVolume *)

GotoTask(t, l) == tasks' = [tasks EXCEPT ![t] = l]

CallPublish(t) ==
    /\ tasks[t] = "idle" /\ job.op # "unstage" /\ staged = "yes" /\ t \in wanted
    /\ GotoTask(t, "bind")
    /\ published' = [published EXCEPT ![t] = "unsure"]
    /\ UNCHANGED <<volume, device, size, host, targets, paths, job, staged, expanded, orders,
                   slips>>

Publish(t) == published[t] # "yes" /\ Fine /\ CallPublish(t)

\* The orchestrator has been started again, and publishes what is published.
PublishAgain(t) == published[t] = "yes" /\ Fault("orchestrator") /\ CallPublish(t)

\* A block volume is bound from /dev/nvmesh, encrypted or not; the staging path
\* is bound whether the volume is mounted on it or not.
Bound == IF ~Mount THEN "device" ELSE IF staging THEN "volume" ELSE "host"

Bind(t) ==
    /\ tasks[t] = "bind"
    /\ \/ /\ device = "absent" /\ GotoTask(t, "idle") /\ Fine
          /\ UNCHANGED <<targets, paths, slips>>
       \/ /\ device # "absent" /\ GotoTask(t, "chmod") /\ Fine
          /\ paths' = paths \cup {t}
          /\ targets' = [targets EXCEPT ![t] = Append(@, Bound)]
          /\ Slips("stacked", targets[t] # <<>>)
       \/ /\ device # "absent" /\ GotoTask(t, "idle") /\ Fault("bind")
          /\ paths' = paths \cup {t}
          /\ UNCHANGED <<targets, slips>>
    /\ UNCHANGED <<volume, device, size, host, published, job, staged, expanded, orders>>

\* chmod, but for a volume that is published to be read only.
Chmod(t) ==
    /\ tasks[t] = "chmod"
    /\ \/ GotoTask(t, "published") /\ Fine
       \/ GotoTask(t, "idle") /\ Fault("chmod")
    /\ UNCHANGED <<volume, device, size, host, targets, paths, published, job, staged,
                   expanded, orders, slips>>

Unpublish(t) ==
    /\ tasks[t] = "idle" /\ published[t] # "no"
    /\ t \notin wanted \/ published[t] = "unsure"
    /\ GotoTask(t, "umount")
    /\ published' = [published EXCEPT ![t] = "unsure"]
    /\ UNCHANGED <<volume, device, size, host, targets, paths, job, staged, expanded, orders, slips,
                   faults>>

\* Mutant: the answer is given before the path is unmounted.
UmountTargetLater(t) ==
    /\ tasks[t] = "umount"
    /\ GotoTask(t, "remove") /\ Fine
    /\ UNCHANGED <<volume, device, size, host, targets, paths, published, job, staged,
                   expanded, orders, slips>>

\* One mount, if there is any.
UmountTarget(t) ==
    /\ tasks[t] = "umount"
    /\ \/ t \notin paths /\ GotoTask(t, "removed") /\ Fine /\ UNCHANGED targets
       \/ /\ t \in paths /\ GotoTask(t, "remove") /\ Fine
          /\ targets' = [targets EXCEPT ![t] = IF @ = <<>> THEN @ ELSE Front(@)]
       \/ targets[t] # <<>> /\ GotoTask(t, "idle") /\ Fault("umount") /\ UNCHANGED targets
    /\ UNCHANGED <<volume, device, size, host, paths, published, job, staged, expanded,
                   orders, slips>>

\* The directory is removed with all that it holds, which is what the volume holds
\* if it is still mounted there; then the mount point itself cannot be.  A file
\* with a device still bound to it is neither file nor directory, and is left.
RemoveTarget(t) ==
    /\ tasks[t] = "remove"
    /\ IF targets[t] = <<>>
       THEN GotoTask(t, "removed") /\ paths' = paths \ {t} /\ UNCHANGED data
       ELSE /\ GotoTask(t, IF Mount THEN "idle" ELSE "removed") /\ UNCHANGED paths
            /\ data' = (data /\ Last(targets[t]) # "volume")
    /\ UNCHANGED <<kind, header, inner, device, size, host, targets, published, job, staged,
                   expanded, orders, slips, faults>>

AnswerTask(t) ==
    /\ tasks[t] \in {"published", "removed"}
    /\ published' = [published EXCEPT
          ![t] = IF tasks[t] = "published" THEN "yes" ELSE "no"]
    /\ GotoTask(t, "idle")
    /\ UNCHANGED <<volume, device, size, host, targets, paths, job, staged, expanded, orders, slips,
                   faults>>

HandleTask(t) == Bind(t) \/ Chmod(t) \/ UmountTarget(t) \/ RemoveTarget(t) \/ AnswerTask(t)

-----------------------------------------------------------------------------
(* The pods, the NVMesh client, the management and the host *)

Wish(t) ==
    /\ wishes < MaxWishes /\ wishes' = wishes + 1
    /\ wanted' = IF t \in wanted THEN wanted \ {t} ELSE wanted \cup {t}
    /\ UNCHANGED <<volume, device, size, host, pods, job, staged, expanded, slips, faults>>

\* What a pod writes to the plain device of an encrypted volume is its header.
Write(t) ==
    /\ published[t] = "yes" /\ targets[t] # <<>> /\ Last(targets[t]) # "host"
    /\ device # "absent"
    /\ ~data /\ data' = TRUE
    /\ header' = IF Last(targets[t]) = "device" THEN "raw" ELSE header
    /\ UNCHANGED <<kind, inner, device, size, host, pods, job, staged, expanded, orders, slips,
                   faults>>

EnableIO ==
    /\ device = "attached" /\ device' = "enabled"
    /\ UNCHANGED <<volume, size, host, pods, job, staged, expanded, orders, slips, faults>>

Detached ==
    /\ device = "leaving" /\ device' = "absent"
    /\ UNCHANGED <<volume, size, host, pods, job, staged, expanded, orders, slips, faults>>

\* ControllerExpandVolume; the host sees the new size later.
ExpandVolume ==
    /\ size.volume < MaxSize
    /\ size' = [size EXCEPT !.volume = @ + 1]
    /\ UNCHANGED <<volume, device, host, pods, job, staged, expanded, orders, slips, faults>>

ExtendDevice ==
    /\ device = "enabled" /\ size.device < size.volume
    /\ size' = [size EXCEPT !.device = size.volume]
    /\ UNCHANGED <<volume, device, host, pods, job, staged, expanded, orders, slips, faults>>

\* The process of the driver starts again; the host stays as it is.
Restart ==
    /\ job # NoJob \/ \E t \in Pod : tasks[t] # "idle"
    /\ Fault("process")
    /\ job' = NoJob /\ tasks' = [t \in Pod |-> "idle"]
    /\ UNCHANGED <<volume, device, size, host, targets, paths, published, staged, expanded,
                   orders, slips>>

-----------------------------------------------------------------------------
Call ==
    \/ Stage \/ StageAgain \/ Unstage
    \/ \E t \in Pod : Publish(t) \/ PublishAgain(t) \/ Unpublish(t)
Host == EnableIO \/ Detached \/ ExtendDevice

Next ==
    \/ Call \/ Expand \/ Handle \/ \E t \in Pod : HandleTask(t)
    \/ Host \/ ExpandVolume
    \/ \E t \in Pod : Wish(t) \/ Write(t)
    \/ Restart

Spec == Init /\ [][Next]_vars

\* The orchestrator calls again, the handlers run on, and the NVMesh client comes
\* to enable and to detach what it was told to.  An expansion that fails is called
\* again later and later, so that NodeUnstageVolume has its turn.  No pod need
\* come or go, and no volume need grow.
Fairness ==
    /\ WF_vars(Stage) /\ SF_vars(Unstage) /\ WF_vars(Handle) /\ WF_vars(Host)
    /\ \A t \in Pod : WF_vars(Publish(t) \/ Unpublish(t)) /\ WF_vars(HandleTask(t))

FairSpec == Spec /\ Fairness

-----------------------------------------------------------------------------
(* Properties *)

VolumeType ==
    kind \in Kinds /\ header \in Content /\ inner \in Content /\ data \in BOOLEAN
HostType ==
    device \in Device /\ mapping \in BOOLEAN /\ path \in BOOLEAN /\ staging \in BOOLEAN
SizeType == size \in Size
TargetType == targets \in [Pod -> Seq(Source)] /\ paths \subseteq Pod
JobType == job \in Job
TaskType == tasks \in [Pod -> TaskPc]
KnownType == staged \in Known /\ published \in [Pod -> Known] /\ expanded \in 0..MaxSize
BoundType ==
    /\ slips \subseteq Slip /\ wanted \subseteq Pod
    /\ faults \in 0..MaxFaults /\ wishes \in 0..MaxWishes

\* Sizes stay within the volume's largest, mounts and handlers within their kinds.
TypeOK ==
    /\ VolumeType /\ HostType /\ SizeType /\ TargetType
    /\ JobType /\ TaskType /\ KnownType /\ BoundType

\* What pods have written is lost in no other way than these: a publish repeated
\* over its own mount and then undone (node_service.py:255), a failing blkid
\* (filesystem_manager.py:112), an encrypted volume that pods write to beside
\* dm-crypt (node_service.py:212).  Encrypting and formatting, whatever else
\* fails, is killed or is called again, spare what is there.
DataSafe ==
    [][data /\ ~data' =>
          IF Mount THEN slips' \cap {"stacked", "misread"} # {} ELSE Encrypted]_vars

\* A pod whose volume was published works on the volume, through the file system
\* or the device it asked for, whatever fails, is killed or is called again, but for
\* two calls: a stage that found the device leaving (common.py:255), and one for a
\* volume that pods were using (node_service.py:117).
PublishedWorks ==
    slips \cap {"departing", "restaged"} = {} =>
        \A t \in Pod : published[t] = "yes" =>
            /\ device = "enabled" /\ (Encrypted => mapping)
            /\ targets[t] # <<>> /\ Last(targets[t]) = IF Mount THEN "volume" ELSE "device"

\* A volume that is unstaged leaves nothing on the host, also when earlier calls
\* failed, were cut short or repeated (node_service.py:144), but for a device that
\* was bound twice to one path (node_service.py:241).
Released ==
    staged = "no" =>
        /\ device = "absent" /\ ~mapping /\ ~staging /\ ~path
        /\ Mount \/ "stacked" \notin slips => \A t \in Pod : targets[t] = <<>> /\ t \notin paths

\* The file system is as large as NodeExpandVolume has said (node_service.py:304).
ExpandedSize == expanded <= IF Mount THEN size.fs ELSE size.device

\* What pods read and write on an encrypted volume goes through dm-crypt
\* (dmcrypt.py:78).
EncryptedIO == Encrypted => \A t \in Pod : \A i \in DOMAIN targets[t] : targets[t][i] # "device"

\* Once the pods stay and nothing fails any more, each pod that should run gets its
\* volume, and with no pod left the volume is released (node_service.py:116), unless
\* a stage was repeated under the pods, which close cannot undo and open refuses for
\* ever (dmcrypt.py:72), or found the device leaving and answered.
Converges ==
    <>[](slips \cap {"departing", "restaged"} = {} =>
            /\ \A t \in Pod : published[t] = IF t \in wanted THEN "yes" ELSE "no"
            /\ wanted = {} => staged = "no")

=============================================================================
