-------------------------- MODULE NotificationQueue --------------------------
(***************************************************************************)
(* The path of a task.assigned event: emitTaskAssigned hands it to a       *)
(* durable RabbitMQ queue, the notification worker takes it out, looks the *)
(* assignee up, sends the mail and acknowledges; a failure puts a copy     *)
(* with a higher retry count into the queue before the acknowledgement.    *)
(* The worker sets no prefetch, so its handlers overlap.                   *)
(*                                                                         *)
(* Acknowledgements and copies are frames on the way to the broker: they   *)
(* arrive in order, or are lost with the connection.  The broker and the   *)
(* mail server are modelled from how this code uses them.  Every message   *)
(* here is well formed, as both publishers write JSON envelopes.           *)
(***************************************************************************)
EXTENDS Naturals

CONSTANTS
    Events,      \* events to publish
    Slots,       \* bound: messages the broker holds at a time
    None,        \* null
    MaxRetries,  \* MAX_RETRIES
    MaxOutages,  \* bound: crashes and lost connections
    Faults       \* what may fail: see the actions that mention it

ASSUME NullAssumption == None \notin Events
ASSUME RetriesAssumption == MaxRetries \in Nat \ {0} /\ MaxOutages \in Nat

VARIABLES
    pub,      \* event -> not yet emitted, published, or lost on the way
    msg,      \* slot -> a message of the broker and its handler
    worker,   \* consuming, cut off from the broker, or not running
    mailed,   \* event -> mails the mail server accepted
    unanswered,  \* events it accepted a mail of and said so to nobody
    closed,   \* events logged as dropped or as failed permanently
    outages   \* crashes and lost connections so far

vars == <<pub, msg, worker, mailed, unanswered, closed, outages>>
mails == <<mailed, unanswered>>

-----------------------------------------------------------------------------
(* at: where the message is; pc: how far its handler is.  A handler goes   *)
(* on after the connection is lost and the broker has the message back.    *)
Message == [ev : Events \cup {None}, retry : 0 .. MaxRetries - 1,
            at : {"free", "ready", "unacked"},
            pc : {"idle", "lookup", "mail", "requeue", "ack"}]

Free == [ev |-> None, retry |-> 0, at |-> "free", pc |-> "idle"]

Ready(e, n) == [ev |-> e, retry |-> n, at |-> "ready", pc |-> "idle"]

(* Mutant: consumed with noAck, a message is gone once delivered.          *)
Forgotten(m) == IF m.at = "ready" THEN m ELSE Free

(* A consumer that goes away without acknowledging: back into the queue.   *)
Returned(m) == IF m.at = "free" THEN Free ELSE Ready(m.ev, m.retry)

(* Slots only name the messages: which free one is taken does not matter.  *)
FreeSlot == CHOOSE i \in Slots : msg[i].at = "free"

GoTo(i, pc) == msg' = [msg EXCEPT ![i].pc = pc]

(* Mutant: one attempt too many.                                           *)
GivesUpLate(m) == m.retry >= MaxRetries

GivesUp(m) == m.retry + 1 >= MaxRetries

-----------------------------------------------------------------------------
(* emitTaskAssigned: publishToQueue waits for no confirm; every error is   *)
(* logged and swallowed.                                                   *)
Publish(e) ==
    /\ pub[e] = "new"
    /\ \E i \in Slots :
         /\ msg[i].at = "free" /\ i = FreeSlot
         /\ msg' = [msg EXCEPT ![i] = Ready(e, 0)]
    /\ pub' = [pub EXCEPT ![e] = "published"]
    /\ UNCHANGED <<worker, mails, closed, outages>>

PublishLost(e) ==
    /\ "publish" \in Faults
    /\ pub[e] = "new"
    /\ pub' = [pub EXCEPT ![e] = "lost"]
    /\ UNCHANGED <<msg, worker, mails, closed, outages>>

Deliver(i) ==
    /\ worker = "up"
    /\ msg[i].at = "ready"
    /\ msg' = [msg EXCEPT ![i].at = "unacked", ![i].pc = "lookup"]
    /\ UNCHANGED <<pub, worker, mails, closed, outages>>

(* The worker process ends; the supervisor will start another one.         *)
Die ==
    /\ worker' = "down"
    /\ msg' = [i \in Slots |-> Returned(msg[i])]

(* What a handler does with its message at the end of its last await: on a *)
(* closed channel ack, sendToQueue and then nack throw, the rejection is   *)
(* unhandled, and the process ends.                                        *)
Conclude(i, pc) ==
    IF worker = "up" THEN GoTo(i, pc) /\ UNCHANGED worker ELSE Die

LookupFound(i) ==
    /\ msg[i].pc = "lookup"
    /\ GoTo(i, "mail")
    /\ UNCHANGED <<pub, worker, mails, closed, outages>>

LookupMissing(i) ==
    /\ "user" \in Faults
    /\ msg[i].pc = "lookup"
    /\ closed' = closed \cup {msg[i].ev}
    /\ Conclude(i, "ack")
    /\ UNCHANGED <<pub, mails, outages>>

(* On a closed channel the acknowledgement throws inside the try: a last   *)
(* attempt is then logged as failed although its mail is on the way.       *)
MailSent(i) ==
    /\ msg[i].pc = "mail"
    /\ mailed' = [mailed EXCEPT ![msg[i].ev] = @ + 1]
    /\ closed' = IF worker # "up" /\ GivesUp(msg[i])
                   THEN closed \cup {msg[i].ev} ELSE closed
    /\ Conclude(i, "ack")
    /\ UNCHANGED <<pub, unanswered, outages>>

(* Mutant: only the last attempt is caught.                                *)
FailQuietly(i) ==
    /\ closed' = IF GivesUp(msg[i]) THEN closed \cup {msg[i].ev} ELSE closed
    /\ Conclude(i, "ack")

(* The catch: the last attempt is only logged, an earlier one copied.      *)
Fail(i) ==
    /\ closed' = IF GivesUp(msg[i]) THEN closed \cup {msg[i].ev} ELSE closed
    /\ Conclude(i, IF GivesUp(msg[i]) THEN "ack" ELSE "requeue")

LookupFails(i) ==
    /\ "database" \in Faults
    /\ msg[i].pc = "lookup"
    /\ Fail(i)
    /\ UNCHANGED <<pub, mails, outages>>

(* The mail server refuses, or accepts and its answer is lost.             *)
MailFails(i) ==
    /\ msg[i].pc = "mail"
    /\ \/ "smtp" \in Faults /\ UNCHANGED mails
       \/ /\ "answer" \in Faults
          /\ mailed' = [mailed EXCEPT ![msg[i].ev] = @ + 1]
          /\ unanswered' = unanswered \cup {msg[i].ev}
    /\ Fail(i)
    /\ UNCHANGED <<pub, outages>>

(* Mutant: the attempt is not counted.                                     *)
SameCopy(m) == Ready(m.ev, m.retry)

Copy(m) == Ready(m.ev, m.retry + 1)

(* The broker takes the copy, then the acknowledgement.                    *)
Requeue(i) ==
    /\ msg[i].pc = "requeue"
    /\ \E j \in Slots :
         /\ msg[j].at = "free" /\ j = FreeSlot
         /\ msg' = [msg EXCEPT ![i].pc = "ack",
                               ![j] = Copy(msg[i])]
    /\ UNCHANGED <<pub, worker, mails, closed, outages>>

(* Mutant: nack with requeue.                                              *)
Nack(i) ==
    /\ msg[i].pc = "ack"
    /\ msg' = [msg EXCEPT ![i] = Returned(msg[i])]
    /\ UNCHANGED <<pub, worker, mails, closed, outages>>

Ack(i) ==
    /\ msg[i].pc = "ack"
    /\ msg' = [msg EXCEPT ![i] = Free]
    /\ UNCHANGED <<pub, worker, mails, closed, outages>>

-----------------------------------------------------------------------------
(* The worker is killed, or shut down without waiting for its handlers.    *)
Crash ==
    /\ "crash" \in Faults
    /\ worker # "down"
    /\ outages < MaxOutages
    /\ outages' = outages + 1
    /\ Die
    /\ UNCHANGED <<pub, mails, closed>>

(* The connection closes, by the broker or by the worker's own shutdown.   *)
(* Frames on the way are lost; handlers still waiting go on.  The cached   *)
(* channelPromise is never renewed.                                        *)
Disconnect ==
    /\ "disconnect" \in Faults
    /\ worker = "up"
    /\ outages < MaxOutages
    /\ outages' = outages + 1
    /\ worker' = "cut"
    /\ msg' = [i \in Slots |->
                 IF msg[i].pc \in {"lookup", "mail"}
                   THEN [msg[i] EXCEPT !.at = "ready"]
                   ELSE Returned(msg[i])]
    /\ UNCHANGED <<pub, mails, closed>>

(* With nothing left to wait for the process may end; nothing makes it.    *)
Exit ==
    /\ worker = "cut"
    /\ \A i \in Slots : msg[i].pc = "idle"
    /\ Die
    /\ UNCHANGED <<pub, mails, closed, outages>>

Start ==
    /\ worker = "down"
    /\ worker' = "up"
    /\ UNCHANGED <<pub, msg, mails, closed, outages>>

-----------------------------------------------------------------------------
Init ==
    /\ pub = [e \in Events |-> "new"]
    /\ msg = [i \in Slots |-> Free]
    /\ worker = "up"
    /\ mailed = [e \in Events |-> 0]
    /\ unanswered = {}
    /\ closed = {}
    /\ outages = 0

Handle(i) ==
    \/ LookupFound(i) \/ LookupMissing(i) \/ LookupFails(i)
    \/ MailSent(i) \/ MailFails(i)

Broker(i) == Deliver(i) \/ Requeue(i) \/ Ack(i)

Next ==
    \/ \E e \in Events : Publish(e) \/ PublishLost(e)
    \/ \E i \in Slots : Handle(i) \/ Broker(i)
    \/ Crash \/ Disconnect \/ Exit \/ Start

Spec == Init /\ [][Next]_vars

(* The broker delivers what is ready and takes what it is sent, an awaited *)
(* call is answered, and the supervisor restarts the worker (docker-       *)
(* compose.yml: restart unless-stopped).                                   *)
FairSpec == /\ Spec
            /\ \A i \in Slots : WF_vars(Handle(i)) /\ WF_vars(Broker(i))
            /\ WF_vars(Start)

-----------------------------------------------------------------------------
(* Types of events and messages; the retry count stays below MAX_RETRIES.  *)
TypeOK ==
    /\ pub \in [Events -> {"new", "published", "lost"}]
    /\ msg \in [Slots -> Message]
    /\ worker \in {"up", "cut", "down"}
    /\ mailed \in [Events -> Nat]
    /\ closed \subseteq Events /\ unanswered \subseteq Events
    /\ outages \in Nat

(* Mailed, or given up with a line in the log.                             *)
Concluded(e) == mailed[e] > 0 \/ e \in closed

(* Through crashes, lost connections, retries and overlapping handlers a   *)
(* published event is concluded, or the broker has a message of it that no *)
(* acknowledgement is on its way for ("then ack the original").            *)
NothingLost ==
    \A e \in Events : pub[e] = "published" /\ ~Concluded(e) =>
      \E i \in Slots : msg[i].ev = e /\ msg[i].pc # "ack"

(* Until the worker or its connection goes away, a notification is mailed  *)
(* once at most if its mails were all answered, as an attempt that failed  *)
(* sent none, and MAX_RETRIES times at most if the mail server took some   *)
(* and its answer was lost.                                                *)
MailsLimited ==
    \A e \in Events : outages = 0 =>
      mailed[e] <= IF e \in unanswered THEN MaxRetries ELSE 1

(* "never requeue forever": retries and redeliveries come to an end and    *)
(* every published event leaves the broker, unless the worker lost its     *)
(* connection, which it never renews, and nothing ended its process.       *)
EventuallyAcked ==
    \A e \in Events :
      pub[e] = "published" ~> worker = "cut" \/ \A i \in Slots : msg[i].ev # e

(* The events that some message of the broker is about.                    *)
Waiting == {e \in Events : \E i \in Slots : msg[i].ev = e}

Told == {e \in Events : mailed[e] > 0}

Service == INSTANCE NotificationService
             WITH waiting <- Waiting, told <- Told, dropped <- closed

(* The broker, the worker and all their failures implement the service: an *)
(* event is remembered until it is concluded, and only then.               *)
ServiceSpec == Service!Spec
=============================================================================
