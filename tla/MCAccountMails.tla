---------------------------- MODULE MCAccountMails ----------------------------
(* AccountMails on small sets, for TLC.                                       *)
EXTENDS AccountMails

CONSTANTS e1, e2, m1, m2

\* POST /user with an active user, under an e-mail other than the one a user may
\* have registered with: it can replace that user.
OneBody == [email : {e2}, password : Password, status : {"active"}, deleted : {Null}]
=============================================================================
