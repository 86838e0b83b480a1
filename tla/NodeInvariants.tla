--------------------------- MODULE NodeInvariants ---------------------------
(* Why the properties of the node service hold: the strengthening that every  *)
(* step preserves.  All but two parts of it hold whatever has slipped past    *)
(* the handlers.                                                              *)
EXTENDS Node

\* The file system is there.
Formatted == IF Encrypted THEN header = "luks" /\ inner = "fs" ELSE header = "fs"

Staging(ls) == job.op = "stage" /\ job.pc \in ls

\* Each handler keeps to its steps, and what the orchestrator knows of them is so.
JobInv ==
    /\ job.op = "stage" => job.pc \notin {"clear", "extend", "resize", "grow"}
    /\ job.op = "unstage" => job.pc \in {"umount", "clear", "close", "detach", "wait", "answer"}
    /\ job.op = "expand" => job.pc \in {"extend", "resize", "grow", "answer"}
    /\ staged = "no" => job.pc = "idle"
    /\ staged = "yes" => job.pc = "idle" \/ job.op = "expand"
    /\ staged = "unsure" => job.op # "expand"
    /\ Staging({"probe", "encrypt", "open"}) => Encrypted
    /\ Staging({"type", "format", "mount"}) => Mount

TaskInv ==
    \A t \in Pod :
        /\ tasks[t] # "idle" => published[t] = "unsure"
        /\ published[t] # "no" => staged # "no" /\ job.op # "unstage"

\* NodeUnstageVolume and the clean-up of NodeStageVolume.
ReleaseInv ==
    /\ job.pc \in {"clear", "close", "detach", "wait"} => ~staging
    /\ job.pc \in {"detach", "wait"} => ~mapping
    /\ job.op = "unstage" /\ job.pc \notin {"umount", "clear"} => ~staging /\ ~path
    /\ job.op = "unstage" /\ job.pc = "answer" => device = "absent" /\ ~mapping
    /\ staged = "no" => device = "absent" /\ ~mapping /\ ~staging /\ ~path

\* The target paths: of the right kind, and gone when they are said to be gone.
TargetInv ==
    \A t \in Pod :
        /\ \A i \in DOMAIN targets[t] :
              IF Mount THEN targets[t][i] \in {"volume", "host"} ELSE targets[t][i] = "device"
        /\ targets[t] # <<>> => t \in paths
        /\ (Mount \/ "stacked" \notin slips) /\ (tasks[t] = "removed" \/ published[t] = "no") =>
              targets[t] = <<>> /\ t \notin paths

\* While no publish was repeated over its own mount, there is at most one.
OneInv ==
    "stacked" \notin slips =>
        \A t \in Pod : Len(targets[t]) <= 1 /\ (tasks[t] = "remove" => targets[t] = <<>>)

\* NodeStageVolume encrypts and formats what is empty: what is mounted or holds
\* data has its file system, and a header once written stays.
FormatInv ==
    Mount =>
        /\ staging \/ data => Formatted
        /\ \A t \in Pod : \A i \in DOMAIN targets[t] : targets[t][i] = "volume" => Formatted
        /\ Staging({"encrypt"}) => header # "luks"
        /\ Encrypted /\ (Staging({"open", "type", "format", "mount", "answer"})
                         \/ staged = "yes") => header = "luks"
        /\ Staging({"format"}) /\ "misread" \notin slips => Type = "none" \/ device = "absent"
        /\ Staging({"mount"}) => Formatted \/ device = "absent"

\* NodeExpandVolume: each layer is as large as the request once it was its turn.
SizeInv ==
    /\ expanded <= size.device /\ size.device <= size.volume
    /\ Mount => expanded <= size.fs
    /\ Mount /\ Encrypted /\ Staging({"type", "format"}) => expanded <= size.mapping
    /\ job.op = "expand" =>
        /\ expanded <= job.need /\ job.need <= size.volume
        /\ job.pc # "extend" => job.need <= size.device
        /\ job.pc = "grow" /\ Mount /\ Encrypted => job.need <= size.mapping
        /\ job.pc = "answer" /\ Mount => job.need <= size.fs

\* NodeStageVolume has built what the pods work on, unless it met a device that was
\* leaving or was called while they did.
WorksInv ==
    "departing" \notin slips /\ "restaged" \notin slips =>
        /\ staged = "yes" \/ Staging({"probe", "encrypt", "open", "type", "format", "mount",
                                      "answer"}) => device = "enabled"
        /\ staged = "yes" \/ Staging({"answer"}) => (Mount => staging)
        /\ Encrypted /\ (staged = "yes" \/ Staging({"type", "format", "mount", "answer"})) => mapping
        /\ \A t \in Pod :
              /\ published[t] # "no" => staged = "yes"
              /\ \A i \in DOMAIN targets[t] : targets[t][i] # "host"
              /\ tasks[t] \in {"chmod", "published"} \/ published[t] = "yes" => targets[t] # <<>>

NodeInv ==
    /\ TypeOK /\ JobInv /\ TaskInv /\ ReleaseInv /\ TargetInv /\ OneInv
    /\ FormatInv /\ SizeInv /\ WorksInv

=============================================================================
