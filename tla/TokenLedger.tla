----------------------------- MODULE TokenLedger -----------------------------
(* What the auth module promises about the tokens it hands out, with nothing *)
(* of Redis, of request handlers or of users in it.                          *)
(*                                                                           *)
(* One signTokens call yields one pair of tokens, an access and a refresh    *)
(* token that carry the same session id.  A pair is signed (pending), put in *)
(* force for its session (current), and at some time is in force no more     *)
(* (retired).  The promise has two parts, and both are in the shape of       *)
(* Install and Retire:                                                       *)
(*   - a session never has two current pairs;                                *)
(*   - a retired pair stays retired, whatever retired it: a newer pair, a    *)
(*     logout, an expiry, or a handler that failed before the pair was       *)
(*     stored.                                                               *)
(* Sessions.tla implements this specification.                               *)

CONSTANTS Pair,     \* the token pairs
          Sid,      \* the session ids
          Null      \* the session of a pair that is not signed yet

VARIABLES state,    \* [Pair -> PairState]
          bound     \* [Pair -> Sid \cup {Null}], the session a pair is for

vars == <<state, bound>>

PairState == {"unissued", "pending", "current", "retired"}

TypeOK == /\ state \in [Pair -> PairState]
          /\ bound \in [Pair -> Sid \cup {Null}]

Init == /\ state = [p \in Pair |-> "unissued"]
        /\ bound = [p \in Pair |-> Null]

\* A handler signs a new pair for session s.
Issue(p, s) ==
    /\ state[p] = "unissued"
    /\ state' = [state EXCEPT ![p] = "pending"]
    /\ bound' = [bound EXCEPT ![p] = s]

\* A signed pair comes into force; the one it replaces is retired at once.
Install(p) ==
    /\ state[p] = "pending"
    /\ state' = [q \in Pair |->
                   IF q = p THEN "current"
                   ELSE IF state[q] = "current" /\ bound[q] = bound[p]
                        THEN "retired"
                        ELSE state[q]]
    /\ UNCHANGED bound

\* A pair is revoked, expires, or is lost with the handler that signed it.
Retire(p) ==
    /\ state[p] \in {"pending", "current"}
    /\ state' = [state EXCEPT ![p] = "retired"]
    /\ UNCHANGED bound

Next == \E p \in Pair : \/ \E s \in Sid : Issue(p, s)
                        \/ Install(p)
                        \/ Retire(p)

Spec == Init /\ [][Next]_vars
=============================================================================
