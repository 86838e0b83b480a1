------------------------------- MODULE MCNode -------------------------------
(* Small instances of the node service for TLC. *)
EXTENDS Node

CONSTANTS p1, p2

K(a, e) == [access |-> a, encrypted |-> e]

Safe == {K("mount", TRUE), K("mount", FALSE), K("block", FALSE)}
EncryptedBlock == {K("block", TRUE)}

\* Everything may fail, and the driver and the orchestrator may start again.
All == {"attach", "io", "probe", "encrypt", "open", "blkid", "format", "mount", "chmod",
        "umount", "remove", "close", "detach", "wait", "extend", "resize", "grow", "bind",
        "process", "orchestrator"}
=============================================================================
