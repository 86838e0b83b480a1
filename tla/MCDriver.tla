------------------------------ MODULE MCDriver ------------------------------
(* A small instance of the controller's process for TLC. *)
EXTENDS Driver

CONSTANTS main, h1, h2

C(op, a, b, c) == [comparator |-> op, semver |-> <<a, b, c>>]

\* Two rows of the matrix of deployment.yaml: a range of drivers, and the range of
\* managements that suits them.
Rows ==
    {[csi |-> {C(">=", 1, 3, 0)}, nvmesh |-> {C(">=", 2, 6, 0), C("<", 2, 8, 0)}],
     [csi |-> {C(">=", 1, 2, 0), C("<", 1, 3, 0)},
      nvmesh |-> {C(">=", 2, 5, 0), C("<", 2, 6, 0)}]}
Driver13 == <<1, 3, 0>>
Managements == {<<2, 5, 4>>, <<2, 6, 0>>}

=============================================================================
