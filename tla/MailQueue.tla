------------------------------ MODULE MailQueue ------------------------------
(* Mails with confirmation and reset links on their way from a handler to the *)
(* mail server: sendEmail of auth.service, the RabbitMQ producer and consumer *)
(* of src/modules/message-queue, and EmailService.                            *)
(*                                                                            *)
(* The consumers use the library's default for a handler that rejects: the    *)
(* message is put back and delivered again.  Only the confirmation queue has  *)
(* a time to live, counted from publishing and looked at while a message      *)
(* waits in the queue.  A publish waits for the broker's confirmation.        *)
EXTENDS Integers

CONSTANTS Mail,      \* mails handed to sendEmail (bound)
          Ttl,       \* minutes a confirmation may wait in its queue
          MaxTime    \* minutes that pass in this instance (bound)

ASSUME MailAssumption == Ttl \in Nat \ {0} /\ MaxTime \in Nat

VARIABLES now,       \* the time in minutes
          mail,      \* where each mail is
          accepted,  \* mails whose publish the handler saw succeed
          arrived    \* mails the mail server took, once or more

vars == <<now, mail, accepted, arrived>>

Kind == {"confirm", "reset"}
State == {"none", "refused", "queued", "sending", "sent", "acked", "expired"}
Place == [state : State, kind : Kind, at : 0..MaxTime]

Init ==
    /\ now = 0
    /\ mail \in [Mail -> {[state |-> "none", kind |-> k, at |-> 0] : k \in Kind}]
    /\ accepted = {}
    /\ arrived = {}

Move(m, s) == mail' = [mail EXCEPT ![m].state = s]

\* A message the broker has just taken.
Published(m) == [mail[m] EXCEPT !.state = "queued", !.at = now]

\* Messages wait in a queue with a time to live until it is over.
AnyQueue(m) == now - mail[m].at >= Ttl                                   \* mutant
Overdue(m) == mail[m].kind = "confirm" /\ now - mail[m].at >= Ttl

-----------------------------------------------------------------------------
(* The producer *)

\* publish(): the broker takes the message and says so, or the connection is
\* lost before the broker has it, or before the confirmation is back.
Publish(m) ==
    /\ mail[m].state = "none"
    /\ now + Ttl <= MaxTime                  \* bound: time outlasts every mail
    /\ \/ /\ mail' = [mail EXCEPT ![m] = Published(m)]
          /\ accepted' = accepted \cup {m}
       \/ /\ mail' = [mail EXCEPT ![m] = Published(m)]
          /\ UNCHANGED accepted
       \/ /\ Move(m, "refused")
          /\ UNCHANGED accepted
    /\ UNCHANGED <<now, arrived>>

-----------------------------------------------------------------------------
(* The broker and the consumer *)

\* handleConfirmationEmail or handleResetPasswordEmail is called.
Deliver(m) ==
    /\ mail[m].state = "queued"
    /\ ~Overdue(m)
    /\ Move(m, "sending")
    /\ UNCHANGED <<now, accepted, arrived>>

\* sendMail() resolves.
SendSucceeds(m) ==
    /\ mail[m].state = "sending"
    /\ Move(m, "sent")
    /\ arrived' = arrived \cup {m}
    /\ UNCHANGED <<now, accepted>>

\* Where a message is when its handler rejected.
Dropped(m) == [mail[m] EXCEPT !.state = "acked"]                         \* mutant
Deadline(m) == [mail[m] EXCEPT !.state = "queued", !.at = now + Ttl]     \* mutant
Requeued(m) == [mail[m] EXCEPT !.state = "queued"]

\* sendMail() rejects, and with it the handler.
SendFails(m) ==
    /\ mail[m].state = "sending"
    /\ mail' = [mail EXCEPT ![m] = Requeued(m)]
    /\ UNCHANGED <<now, accepted, arrived>>

\* The message is acknowledged after its handler resolved.
Acknowledge(m) ==
    /\ mail[m].state = "sent"
    /\ Move(m, "acked")
    /\ UNCHANGED <<now, accepted, arrived>>

Expire(m) ==
    /\ mail[m].state = "queued"
    /\ Overdue(m)
    /\ Move(m, "expired")
    /\ UNCHANGED <<now, accepted, arrived>>

\* The process restarts: what was not acknowledged is back in its queue.
Restart ==
    /\ \E m \in Mail : mail[m].state \in {"sending", "sent"}
    /\ mail' = [m \in Mail |->
                  IF mail[m].state \in {"sending", "sent"} THEN Requeued(m) ELSE mail[m]]
    /\ UNCHANGED <<now, accepted, arrived>>

Tick ==
    /\ now < MaxTime
    /\ now' = now + 1
    /\ UNCHANGED <<mail, accepted, arrived>>

-----------------------------------------------------------------------------

Consume(m) == Deliver(m) \/ SendSucceeds(m) \/ SendFails(m) \/ Acknowledge(m)

Next ==
    \/ \E m \in Mail : Publish(m) \/ Consume(m) \/ Expire(m)
    \/ Restart
    \/ Tick

Spec == Init /\ [][Next]_vars

\* The broker delivers and drops, a handler settles, time passes.
FairSpec ==
    /\ Spec
    /\ \A m \in Mail : WF_vars(Consume(m)) /\ WF_vars(Expire(m))
    /\ WF_vars(Tick)

-----------------------------------------------------------------------------
(* Properties *)

TypeOK ==
    /\ now \in 0..MaxTime
    /\ mail \in [Mail -> Place]
    /\ accepted \subseteq Mail
    /\ arrived \subseteq Mail

\* A mail the handler reported as sent reached the mail server, or is still on
\* its way there, or is a confirmation that could not be sent in five minutes:
\* neither a rejecting handler nor a restart loses one.
NothingLost ==
    \A m \in accepted :
        \/ m \in arrived
        \/ mail[m].state \in {"queued", "sending"}
        \/ mail[m].kind = "confirm" /\ now - mail[m].at >= Ttl

\* A confirmation is not tried for ever: whatever the mail server does, after
\* its five minutes it is gone from the queue.
ConfirmationSettles ==
    \A m \in Mail : mail[m].state = "queued" /\ mail[m].kind = "confirm"
                       ~> mail[m].state \in {"acked", "expired"}

\* The mail server does not refuse a mail for ever.
Served(m) == SF_vars(SendSucceeds(m))

\* A reset mail the handler reported as sent gets to the mail server, unless
\* that refuses it for ever.
ResetArrives ==
    \A m \in Mail : Served(m) =>
        (m \in accepted /\ mail[m].kind = "reset" ~> m \in arrived)

\* register "sends confirmation email": the same of confirmations.
ConfirmationArrives ==
    \A m \in Mail : Served(m) =>
        (m \in accepted /\ mail[m].kind = "confirm" ~> m \in arrived)
=============================================================================
