------------------------------ MODULE MCSessions ------------------------------
(* Sessions on small sets, for TLC.  The members of each set are              *)
(* interchangeable: no run orders them or gives one a role of its own, and    *)
(* InitVerified is {} or all of User.                                         *)
EXTENDS Sessions, TLC

CONSTANTS r1, r2, u1, u2, s1, s2, p1, p2, p3, p4

Symmetry == Permutations(Request) \cup Permutations(User)
              \cup Permutations(Sid) \cup Permutations(Pair)
=============================================================================
