------------------------------- MODULE SemVer -------------------------------
(* Versions, and the ranges of versions of the compatibility matrix.          *)
EXTENDS Integers, Sequences

\* <<major, minor, patch>>
Version == Nat \X Nat \X Nat
Comparator == {"<", "<=", "=", ">=", ">"}
SemVerConstraint == [comparator : Comparator, semver : Version]

compare(a, b) ==
    IF a[1] # b[1] THEN a[1] - b[1] ELSE IF a[2] # b[2] THEN a[2] - b[2] ELSE a[3] - b[3]

\* Mutant: a bound does not belong to the range.
StrictlyValid(c, v) ==
    LET d == compare(v, c.semver) IN
    \/ c.comparator = "=" /\ d = 0
    \/ c.comparator \in {"<", "<="} /\ d < 0
    \/ c.comparator \in {">=", ">"} /\ d > 0

\* A constraint without a comparator means equality.
is_valid(c, v) ==
    LET d == compare(v, c.semver) IN
    \/ c.comparator = "<" /\ d < 0
    \/ c.comparator = "<=" /\ d <= 0
    \/ c.comparator = "=" /\ d = 0
    \/ c.comparator = ">=" /\ d >= 0
    \/ c.comparator = ">" /\ d > 0

\* Mutant: one constraint that holds is enough.
AnyIsValid(range, v) == \E c \in range : is_valid(c, v)

\* SemVerConstraintList.is_valid
InRange(range, v) == \A c \in range : is_valid(c, v)

-----------------------------------------------------------------------------
(* What they should be: the first part that differs decides the order. *)

Before(a, b) == \E i \in 1..3 : a[i] < b[i] /\ \A j \in 1..(i - 1) : a[j] = b[j]

Meets(c, v) ==
    CASE c.comparator = "<" -> Before(v, c.semver)
      [] c.comparator = "<=" -> ~Before(c.semver, v)
      [] c.comparator = "=" -> v = c.semver
      [] c.comparator = ">=" -> ~Before(v, c.semver)
      [] c.comparator = ">" -> Before(c.semver, v)

=============================================================================
