------------------------- MODULE NotificationService -------------------------
(***************************************************************************)
(* What the queue and the notification worker promise the code that        *)
(* publishes: an event that was accepted is remembered until its addressee *)
(* was mailed or it was given up with a line in the log, and nobody is     *)
(* mailed about an event that was not accepted.  NotificationQueue         *)
(* implements it; TaskNotification is built on it.                         *)
(***************************************************************************)
CONSTANT Events

VARIABLES
    waiting,  \* events the service remembers
    told,     \* events somebody was mailed about
    dropped   \* events given up with a line in the log

service == <<waiting, told, dropped>>

Accept(e) ==
    /\ waiting' = waiting \cup {e}
    /\ UNCHANGED <<told, dropped>>

(* A mail is accepted, the event is given up, or both: a handler cut off   *)
(* from the broker logs a failure after its mail went out.                 *)
Conclude(e) ==
    /\ e \in waiting
    /\ told' \in {told, told \cup {e}}
    /\ dropped' \in {dropped, dropped \cup {e}}
    /\ UNCHANGED waiting

(* Mutant: an event leaves the queue when it is delivered.                 *)
ForgetDelivered(e) ==
    /\ e \in waiting
    /\ waiting' = waiting \ {e}
    /\ UNCHANGED <<told, dropped>>

(* "then ack the original"                                                 *)
Forget(e) ==
    /\ e \in waiting
    /\ e \in told \cup dropped
    /\ waiting' = waiting \ {e}
    /\ UNCHANGED <<told, dropped>>

Init == waiting = {} /\ told = {} /\ dropped = {}

Serve(e) == Conclude(e) \/ Forget(e)

Next == \E e \in Events : Accept(e) \/ Serve(e)

Spec == Init /\ [][Next]_service
=============================================================================
