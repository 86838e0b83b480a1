---------------------------- MODULE MCController ----------------------------
(* Small instances of the controller service for TLC. *)
EXTENDS ControllerInvariants, TLC

Symmetry == Permutations(Workers) \cup Permutations(Entries)
            \cup Permutations(Zones) \cup Permutations(Names)

\* The volume in an entry nothing refers to any more is unobservable.
View == <<cache, entryLock, [e \in Entries |-> IF Live(e) THEN csiVolume[e] ELSE None],
          disabled, thread, stored, late, handedOut>>
=============================================================================
