------------------------------- MODULE MCUsers -------------------------------
(* Users on small sets, for TLC.                                              *)
EXTENDS Users, TLC

CONSTANTS r1, r2, u1, u2, e1, e2, w1, w2

AllBodies == [email : Email, password : Password, status : Status,
              deleted : BOOLEAN \cup {Null}]
\* Without those another handler stands for: register makes inactive users, and
\* the soft deletion deleted ones.
SomeBodies == [email : Email, password : Password,
               status : {"active", "blocked"}, deleted : {FALSE, Null}]

\* Requests, ids, e-mails and passwords are interchangeable.
Symmetry == Permutations(Request) \cup Permutations(UserId)
              \cup Permutations(Email) \cup Permutations(Password)
=============================================================================
