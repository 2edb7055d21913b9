----------------------- MODULE NotificationQueueProofs -----------------------
(***************************************************************************)
(* Proofs about NotificationQueue, for any events, slots and bounds:       *)
(* types, NothingLost and MailsLimited, whatever fails.                    *)
(***************************************************************************)
EXTENDS NotificationQueue, TLAPS

Sites == {"up", "cut", "down"}

(* A slot is empty, or holds a message of an event; only a message with an *)
(* attempt left is requeued.                                               *)
SlotOK(m) == /\ m.at = "free" => m = Free
             /\ m.at # "free" => m.ev \in Events
             /\ m.pc = "requeue" => m.retry + 1 < MaxRetries

DoneBy(sent, ended, e) == sent[e] > 0 \/ e \in ended

IInv == TypeOK /\ NothingLost /\ \A i \in Slots : SlotOK(msg[i])

-----------------------------------------------------------------------------
LEMMA FreeOK == Free \in Message /\ SlotOK(Free)
BY RetriesAssumption DEF Free, Message, SlotOK

LEMMA ReadyOK ==
    ASSUME NEW e \in Events, NEW n \in 0 .. MaxRetries - 1
    PROVE  Ready(e, n) \in Message /\ SlotOK(Ready(e, n))
BY DEF Ready, Message, SlotOK

LEMMA ReturnedOK ==
    ASSUME NEW m \in Message, SlotOK(m)
    PROVE  /\ Returned(m) \in Message /\ SlotOK(Returned(m))
           /\ Returned(m).pc = "idle"
           /\ m.at # "free" => Returned(m).ev = m.ev
BY FreeOK, ReadyOK DEF Returned, Message, SlotOK, Free, Ready

LEMMA GoToOK ==
    ASSUME NEW m \in Message, SlotOK(m), m.pc # "idle",
           NEW pc \in {"lookup", "mail", "ack"}
    PROVE  /\ [m EXCEPT !.pc = pc] \in Message /\ SlotOK([m EXCEPT !.pc = pc])
           /\ m.ev \in Events /\ m.at # "free"
BY DEF Message, SlotOK, Free

(* What a step must show when the other variables only gain.               *)
LEMMA Preserved ==
    ASSUME IInv, msg' \in [Slots -> Message], \A i \in Slots : SlotOK(msg'[i]),
           pub' = pub, worker' \in Sites, mailed' \in [Events -> Nat],
           closed \subseteq closed', closed' \subseteq Events,
           unanswered' \subseteq Events, outages' \in Nat,
           \A e \in Events : mailed'[e] >= mailed[e],
           \A i \in Slots : msg[i].at # "free" /\ msg[i].pc # "ack" =>
             \/ DoneBy(mailed', closed', msg[i].ev)
             \/ \E j \in Slots : msg'[j].ev = msg[i].ev /\ msg'[j].pc # "ack"
    PROVE  IInv'
<1>1. TypeOK'
  BY DEF IInv, TypeOK, Sites
<1>2. NothingLost'
  <2> SUFFICES ASSUME NEW e \in Events, pub[e] = "published", ~Concluded(e)'
               PROVE  \E i \in Slots : msg'[i].ev = e /\ msg'[i].pc # "ack"
    BY DEF NothingLost
  <2>1. ~Concluded(e)
    BY DEF Concluded, IInv, TypeOK
  <2>2. PICK i \in Slots : msg[i].ev = e /\ msg[i].pc # "ack"
    BY <2>1 DEF IInv, NothingLost
  <2>3. msg[i].at # "free"
    BY <2>2, NullAssumption DEF IInv, SlotOK, Free
  <2> QED BY <2>2, <2>3 DEF Concluded, DoneBy
<1> QED BY <1>1, <1>2 DEF IInv

(* A slot changes and keeps its event.                                     *)
LEMMA SlotStep ==
    ASSUME IInv, NEW i \in Slots, NEW m \in Message, SlotOK(m),
           msg' = [msg EXCEPT ![i] = m], m.ev = msg[i].ev,
           pub' = pub, worker' \in Sites, mailed' \in [Events -> Nat],
           closed \subseteq closed', closed' \subseteq Events,
           unanswered' \subseteq Events, outages' \in Nat,
           \A e \in Events : mailed'[e] >= mailed[e],
           m.pc = "ack" => DoneBy(mailed', closed', m.ev)
    PROVE  IInv'
<1>1. msg' \in [Slots -> Message] /\ msg'[i] = m
  BY DEF IInv, TypeOK
<1>2. \A j \in Slots \ {i} : msg'[j] = msg[j]
  BY DEF IInv, TypeOK
<1>3. \A j \in Slots : SlotOK(msg'[j])
  BY <1>1, <1>2 DEF IInv
<1>4. \A j \in Slots : msg[j].at # "free" /\ msg[j].pc # "ack" =>
        \/ DoneBy(mailed', closed', msg[j].ev)
        \/ \E k \in Slots : msg'[k].ev = msg[j].ev /\ msg'[k].pc # "ack"
  BY <1>1, <1>2
<1> QED BY <1>1, <1>3, <1>4, Preserved

LEMMA DieStep ==
    ASSUME IInv, Die, pub' = pub, mailed' \in [Events -> Nat],
           closed \subseteq closed', closed' \subseteq Events,
           unanswered' \subseteq Events, outages' \in Nat,
           \A e \in Events : mailed'[e] >= mailed[e]
    PROVE  IInv'
<1>1. \A i \in Slots : /\ msg'[i] \in Message /\ SlotOK(msg'[i]) /\ msg'[i].pc = "idle"
                       /\ msg[i].at # "free" => msg'[i].ev = msg[i].ev
  BY ReturnedOK DEF Die, IInv, TypeOK
<1>2. msg' \in [Slots -> Message] /\ worker' \in Sites
  BY <1>1 DEF Die, Sites
<1> QED BY <1>1, <1>2, Preserved

-----------------------------------------------------------------------------
LEMMA PublishStep ==
    ASSUME IInv, NEW e \in Events, Publish(e) \/ PublishLost(e)
    PROVE  IInv'
<1>1. CASE Publish(e)
  <2>1. PICK i \in Slots : msg[i].at = "free" /\ msg' = [msg EXCEPT ![i] = Ready(e, 0)]
    BY <1>1 DEF Publish
  <2>2. Ready(e, 0) \in Message /\ SlotOK(Ready(e, 0))
    BY ReadyOK, RetriesAssumption
  <2>3. TypeOK' /\ \A j \in Slots : SlotOK(msg'[j])
    BY <1>1, <2>1, <2>2 DEF Publish, mails, IInv, TypeOK
  <2>4. NothingLost'
    <3> SUFFICES ASSUME NEW f \in Events, pub'[f] = "published", ~Concluded(f)'
                 PROVE  \E j \in Slots : msg'[j].ev = f /\ msg'[j].pc # "ack"
      BY DEF NothingLost
    <3>1. CASE f = e
      BY <2>1, <3>1 DEF IInv, TypeOK, Ready
    <3>2. CASE f # e
      <4>1. pub[f] = "published" /\ ~Concluded(f)
        BY <1>1, <3>2 DEF Publish, mails, IInv, TypeOK, Concluded
      <4>2. PICK j \in Slots : msg[j].ev = f /\ msg[j].pc # "ack"
        BY <4>1 DEF IInv, NothingLost
      <4>3. j # i
        BY <2>1, <4>2, NullAssumption DEF IInv, SlotOK, Free
      <4> QED BY <2>1, <4>2, <4>3 DEF IInv, TypeOK
    <3> QED BY <3>1, <3>2
  <2> QED BY <2>3, <2>4 DEF IInv
<1>2. CASE PublishLost(e)
  <2>1. TypeOK' /\ \A j \in Slots : SlotOK(msg'[j])
    BY <1>2 DEF PublishLost, mails, IInv, TypeOK
  <2>2. NothingLost'
    BY <1>2 DEF PublishLost, mails, IInv, TypeOK, NothingLost, Concluded
  <2> QED BY <2>1, <2>2 DEF IInv
<1> QED BY <1>1, <1>2

LEMMA HandleStep ==
    ASSUME IInv, NEW i \in Slots, Handle(i)
    PROVE  IInv'
<1> DEFINE m == msg[i]
<1>1. m \in Message /\ SlotOK(m) /\ m.pc # "idle"
  BY DEF IInv, TypeOK, Handle, LookupFound, LookupMissing, LookupFails, MailSent, MailFails
<1>2. m.ev \in Events /\ m.at # "free"
  BY <1>1, GoToOK
<1>3. /\ pub' = pub /\ outages' = outages
      /\ mailed' = mailed \/ mailed' = [mailed EXCEPT ![m.ev] = @ + 1]
      /\ closed' = closed \/ closed' = closed \cup {m.ev}
      /\ unanswered' = unanswered \/ unanswered' = unanswered \cup {m.ev}
  BY DEF Handle, LookupFound, LookupMissing, LookupFails, MailSent, MailFails, Fail, mails
<1>4. /\ mailed' \in [Events -> Nat] /\ \A e \in Events : mailed'[e] >= mailed[e]
      /\ closed \subseteq closed' /\ closed' \subseteq Events
      /\ unanswered' \subseteq Events /\ outages' \in Nat
  BY <1>2, <1>3 DEF IInv, TypeOK
<1>5. ASSUME NEW pc, Conclude(i, pc), pc \in {"ack", "requeue"},
             pc = "ack" => DoneBy(mailed', closed', m.ev), pc = "requeue" => ~GivesUp(m)
      PROVE  IInv'
  <2>1. CASE Die
    BY <1>3, <1>4, <2>1, DieStep
  <2>2. CASE GoTo(i, pc) /\ UNCHANGED worker
    <3> DEFINE n == [m EXCEPT !.pc = pc]
    <3>1. n \in Message /\ n.ev = m.ev /\ n.pc = pc /\ n.at = m.at /\ n.retry = m.retry
      BY <1>1, <1>5 DEF Message
    <3>2. m.retry \in Nat
      BY <1>1, RetriesAssumption DEF Message
    <3>3. SlotOK(n)
      BY <1>1, <1>2, <1>5, <3>1, <3>2, RetriesAssumption DEF SlotOK, GivesUp
    <3>4. msg' = [msg EXCEPT ![i] = n]
      BY <2>2 DEF GoTo, IInv, TypeOK
    <3>5. worker' \in Sites
      BY <2>2 DEF IInv, TypeOK, Sites
    <3> QED BY <1>3, <1>4, <1>5, <3>1, <3>3, <3>4, <3>5, SlotStep
  <2> QED BY <1>5, <2>1, <2>2 DEF Conclude
<1>6. CASE LookupFound(i)
  <2> DEFINE n == [m EXCEPT !.pc = "mail"]
  <2>1. n \in Message /\ SlotOK(n) /\ n.ev = m.ev /\ n.pc = "mail"
    BY <1>1, GoToOK DEF Message
  <2>2. msg' = [msg EXCEPT ![i] = n] /\ worker' \in Sites
    BY <1>6 DEF LookupFound, GoTo, IInv, TypeOK, Sites
  <2> QED BY <1>3, <1>4, <2>1, <2>2, SlotStep
<1>7. CASE LookupMissing(i)
  <2>1. DoneBy(mailed', closed', m.ev)
    BY <1>2, <1>7 DEF LookupMissing, DoneBy
  <2> QED BY <1>5, <1>7, <2>1 DEF LookupMissing
<1>8. CASE MailSent(i)
  <2>1. DoneBy(mailed', closed', m.ev)
    BY <1>2, <1>8 DEF MailSent, DoneBy, IInv, TypeOK
  <2> QED BY <1>5, <1>8, <2>1 DEF MailSent
<1>9. CASE LookupFails(i) \/ MailFails(i)
  <2>1. Fail(i)
    BY <1>9 DEF LookupFails, MailFails
  <2>2. GivesUp(m) => DoneBy(mailed', closed', m.ev)
    BY <2>1 DEF Fail, DoneBy
  <2>3. CASE GivesUp(m)
    BY <1>5, <2>1, <2>2, <2>3 DEF Fail
  <2>4. CASE ~GivesUp(m)
    BY <1>5, <2>1, <2>4 DEF Fail
  <2> QED BY <2>3, <2>4
<1> QED BY <1>6, <1>7, <1>8, <1>9 DEF Handle

LEMMA BrokerStep ==
    ASSUME IInv, NEW i \in Slots, Broker(i)
    PROVE  IInv'
<1> DEFINE m == msg[i]
<1>1. m \in Message /\ SlotOK(m)
  BY DEF IInv, TypeOK
<1>2. /\ pub' = pub /\ outages' = outages /\ mailed' = mailed /\ closed' = closed
      /\ worker' = worker /\ unanswered' = unanswered
  BY DEF Broker, Deliver, Requeue, Ack, mails
<1>3. /\ mailed' \in [Events -> Nat] /\ \A e \in Events : mailed'[e] >= mailed[e]
      /\ closed \subseteq closed' /\ closed' \subseteq Events
      /\ unanswered' \subseteq Events /\ outages' \in Nat
      /\ worker' \in Sites
  BY <1>2 DEF IInv, TypeOK, Sites
<1>4. CASE Deliver(i)
  <2> DEFINE n == [m EXCEPT !.at = "unacked", !.pc = "lookup"]
  <2>1. n \in Message /\ SlotOK(n) /\ n.ev = m.ev /\ n.pc = "lookup"
    BY <1>1, <1>4 DEF Deliver, Message, SlotOK
  <2>2. msg' = [msg EXCEPT ![i] = n]
    BY <1>4 DEF Deliver, IInv, TypeOK
  <2> QED BY <1>2, <1>3, <2>1, <2>2, SlotStep
<1>5. CASE Requeue(i)
  <2>1. PICK j \in Slots :
          /\ msg[j].at = "free"
          /\ msg' = [msg EXCEPT ![i].pc = "ack", ![j] = Ready(m.ev, m.retry + 1)]
    BY <1>5 DEF Requeue, Copy
  <2>2. m.pc = "requeue" /\ m.at # "free" /\ m.ev \in Events /\ j # i
    BY <1>1, <1>5, <2>1 DEF Requeue, SlotOK, Free
  <2>3. m.retry + 1 \in 0 .. MaxRetries - 1
    BY <1>1, <2>2, RetriesAssumption DEF SlotOK, Message
  <2> DEFINE c == Ready(m.ev, m.retry + 1)
             n == [m EXCEPT !.pc = "ack"]
  <2>4. c \in Message /\ SlotOK(c)
    BY <2>2, <2>3, ReadyOK
  <2>5. n \in Message /\ SlotOK(n)
    BY <1>1, <2>2, GoToOK
  <2>6. /\ msg'[i] = n /\ msg'[j] = c
        /\ \A k \in Slots \ {i, j} : msg'[k] = msg[k]
        /\ msg' \in [Slots -> Message]
    <3> HIDE DEF c
    <3>1. msg' = [msg EXCEPT ![i] = n, ![j] = c]
      BY <2>1 DEF c, IInv, TypeOK
    <3> QED BY <2>2, <2>4, <2>5, <3>1 DEF IInv, TypeOK
  <2>7. c.ev = m.ev /\ c.pc = "idle"
    BY DEF Ready
  <2>8. \A k \in Slots : SlotOK(msg'[k])
    BY <2>4, <2>5, <2>6 DEF IInv
  <2>9. \A k \in Slots : msg[k].at # "free" /\ msg[k].pc # "ack" =>
          \E l \in Slots : msg'[l].ev = msg[k].ev /\ msg'[l].pc # "ack"
    BY <2>1, <2>6, <2>7
  <2> QED BY <1>2, <1>3, <2>6, <2>8, <2>9, Preserved
<1>6. CASE Ack(i)
  <2>1. m.pc = "ack" /\ msg' = [msg EXCEPT ![i] = Free]
    BY <1>6 DEF Ack
  <2>2. msg' \in [Slots -> Message] /\ \A k \in Slots : SlotOK(msg'[k])
    BY <2>1, FreeOK DEF IInv, TypeOK
  <2>3. \A k \in Slots : msg[k].pc # "ack" => msg'[k] = msg[k]
    BY <2>1 DEF IInv, TypeOK
  <2> QED BY <1>2, <1>3, <2>2, <2>3, Preserved
<1> QED BY <1>4, <1>5, <1>6 DEF Broker

LEMMA OutageStep ==
    ASSUME IInv, Crash \/ Disconnect \/ Exit \/ Start
    PROVE  IInv'
<1>1. /\ pub' = pub /\ mailed' = mailed /\ closed' = closed
      /\ outages' = outages \/ outages' = outages + 1
      /\ unanswered' = unanswered
  BY DEF Crash, Disconnect, Exit, Start, mails
<1>2. /\ mailed' \in [Events -> Nat] /\ \A e \in Events : mailed'[e] >= mailed[e]
      /\ closed \subseteq closed' /\ closed' \subseteq Events
      /\ unanswered' \subseteq Events /\ outages' \in Nat
  BY <1>1 DEF IInv, TypeOK
<1>3. CASE Crash \/ Exit
  BY <1>1, <1>2, <1>3, DieStep DEF Crash, Exit
<1>4. CASE Start
  <2>1. msg' = msg /\ worker' \in Sites
    BY <1>4 DEF Start, Sites
  <2>2. msg' \in [Slots -> Message] /\ \A i \in Slots : SlotOK(msg'[i])
    BY <2>1 DEF IInv, TypeOK
  <2> QED BY <1>1, <1>2, <2>1, <2>2, Preserved
<1>5. CASE Disconnect
  <2>1. ASSUME NEW i \in Slots
        PROVE  /\ msg'[i] \in Message /\ SlotOK(msg'[i]) /\ msg'[i].pc # "ack"
               /\ msg[i].at # "free" => msg'[i].ev = msg[i].ev
    <3>1. msg[i] \in Message /\ SlotOK(msg[i])
      BY DEF IInv, TypeOK
    <3>2. CASE msg[i].pc \in {"lookup", "mail"}
      <4>1. msg'[i] = [msg[i] EXCEPT !.at = "ready"]
        BY <1>5, <3>2 DEF Disconnect
      <4>2. msg[i].at # "free"
        BY <3>1, <3>2 DEF SlotOK, Free
      <4> QED BY <3>1, <3>2, <4>1, <4>2 DEF Message, SlotOK
    <3>3. CASE msg[i].pc \notin {"lookup", "mail"}
      <4>1. msg'[i] = Returned(msg[i])
        BY <1>5, <3>3 DEF Disconnect
      <4> QED BY <3>1, <4>1, ReturnedOK
    <3> QED BY <3>2, <3>3
  <2>2. msg' \in [Slots -> Message] /\ worker' \in Sites
    BY <1>5, <2>1 DEF Disconnect, Sites
  <2> QED BY <1>1, <1>2, <2>1, <2>2, Preserved
<1> QED BY <1>3, <1>4, <1>5

-----------------------------------------------------------------------------
LEMMA StepInductive == IInv /\ [Next]_vars => IInv'
<1> SUFFICES ASSUME IInv, [Next]_vars PROVE IInv'
  OBVIOUS
<1>1. CASE UNCHANGED vars
  BY <1>1 DEF vars, IInv, TypeOK, NothingLost, Concluded
<1>2. CASE Next
  BY <1>2, PublishStep, HandleStep, BrokerStep, OutageStep DEF Next
<1> QED BY <1>1, <1>2

LEMMA InitIInv == Init => IInv
BY FreeOK DEF Init, IInv, TypeOK, NothingLost

LEMMA Inductive == Spec => []IInv
BY InitIInv, StepInductive, PTL DEF Spec

(* Every message stays below MAX_RETRIES, whatever is redelivered.         *)
THEOREM TypeCorrect == Spec => []TypeOK
<1>1. IInv => TypeOK
  BY DEF IInv
<1> QED BY <1>1, Inductive, PTL

(* Whatever fails, a published event is concluded or still in the queue.   *)
THEOREM NotificationsSurvive == Spec => []NothingLost
<1>1. IInv => NothingLost
  BY DEF IInv
<1> QED BY <1>1, Inductive, PTL

-----------------------------------------------------------------------------
(***************************************************************************)
(* Before the first outage, and unless an answer of the mail server about  *)
(* the event was lost, one message at most of an event is not about to be  *)
(* acknowledged, and none once the mail is sent.                           *)
(***************************************************************************)
Pending(m, e) == m.ev = e /\ m.pc # "ack"

Once(e) ==
    /\ pub[e] # "published" =>
         mailed[e] = 0 /\ \A i \in Slots : msg[i].ev # e
    /\ \A i, j \in Slots : Pending(msg[i], e) /\ Pending(msg[j], e) => i = j
    /\ mailed[e] <= 1
    /\ mailed[e] = 1 => \A i \in Slots : ~Pending(msg[i], e)

OnceInv ==
    /\ worker = "up"
    /\ \A i \in Slots : msg[i].at = "ready" => msg[i].pc = "idle"
    /\ \A e \in Events \ unanswered : Once(e)

(* A message that goes on without becoming another one                     *)
LEMMA OnceKept ==
    ASSUME OnceInv, NEW e \in Events \ unanswered, pub' = pub, mailed'[e] = mailed[e],
           \A i \in Slots : Pending(msg'[i], e) => Pending(msg[i], e),
           \A i \in Slots : msg'[i].ev \in {msg[i].ev, None}
    PROVE  Once(e)'
<1>1. Once(e)
  BY DEF OnceInv
<1>2. \A i \in Slots : msg[i].ev # e => msg'[i].ev # e
  BY NullAssumption
<1> QED BY <1>1, <1>2 DEF Once

LEMMA OnceStep ==
    ASSUME IInv, OnceInv, [Next]_vars, outages = 0, outages' = 0
    PROVE  OnceInv'
<1>1. /\ msg \in [Slots -> Message] /\ mailed \in [Events -> Nat] /\ worker = "up"
      /\ pub \in [Events -> {"new", "published", "lost"}]
      /\ \A i \in Slots : SlotOK(msg[i])
  BY DEF IInv, TypeOK, OnceInv
<1> DEFINE Plain == Events \ unanswered
<1>2. CASE UNCHANGED vars
  BY <1>2 DEF vars, OnceInv, Once, Pending
<1> DEFINE Settled == \A i \in Slots : msg[i].at = "ready" => msg[i].pc = "idle"
<1>0. Settled'
  <2>1. Settled
    BY DEF OnceInv
  <2>2. CASE UNCHANGED vars
    BY <2>1, <2>2 DEF vars
  <2>3. ASSUME NEW e \in Events, Publish(e) \/ PublishLost(e) PROVE Settled'
    BY <1>1, <2>1, <2>3 DEF Publish, PublishLost, Ready
  <2>4. ASSUME NEW i \in Slots, Handle(i) PROVE Settled'
    <3>1. \E pc : GoTo(i, pc)
      BY <1>1, <2>4 DEF Handle, LookupFound, LookupMissing, LookupFails, MailSent,
         MailFails, Fail, Conclude
    <3>2. msg[i].pc # "idle"
      BY <2>4 DEF Handle, LookupFound, LookupMissing, LookupFails, MailSent, MailFails
    <3>3. msg[i].at # "ready"
      BY <2>1, <3>2
    <3> QED BY <1>1, <2>1, <3>1, <3>3 DEF GoTo, Message
  <2>5. ASSUME NEW i \in Slots, Deliver(i) PROVE Settled'
    BY <1>1, <2>1, <2>5 DEF Deliver, Message
  <2>6. ASSUME NEW i \in Slots, Ack(i) PROVE Settled'
    BY <1>1, <2>1, <2>6 DEF Ack, Free
  <2>7. ASSUME NEW i \in Slots, Requeue(i) PROVE Settled'
    <3>1. PICK j \in Slots :
            /\ msg[j].at = "free"
            /\ msg' = [msg EXCEPT ![i].pc = "ack",
                                  ![j] = Ready(msg[i].ev, msg[i].retry + 1)]
      BY <2>7 DEF Requeue, Copy
    <3>2. msg[i].pc = "requeue" /\ msg[i].at # "ready" /\ j # i
      BY <1>1, <2>1, <2>7, <3>1 DEF Requeue, SlotOK, Free
    <3>3. /\ msg'[i].at = msg[i].at /\ msg'[j].pc = "idle"
          /\ \A k \in Slots \ {i, j} : msg'[k] = msg[k]
      BY <1>1, <3>1, <3>2 DEF Ready, Message
    <3> QED BY <2>1, <3>2, <3>3
  <2>8. ~(Crash \/ Disconnect \/ Exit \/ Start)
    BY <1>1 DEF Crash, Disconnect, Exit, Start
  <2> HIDE DEF Settled
  <2> QED BY <2>2, <2>3, <2>4, <2>5, <2>6, <2>7, <2>8 DEF Next, Broker
<1> HIDE DEF Settled
<1>3. ASSUME NEW i \in Slots, NEW m, msg' = [msg EXCEPT ![i] = m],
             m.ev \in {msg[i].ev, None}, m.pc = "ack" \/ msg[i].pc # "ack" \/ m.ev = None,
             NEW e \in Plain, pub' = pub, mailed'[e] = mailed[e]
      PROVE  Once(e)'
  <2>1. \A j \in Slots : msg'[j] = IF j = i THEN m ELSE msg[j]
    BY <1>1, <1>3
  <2>2. \A j \in Slots : Pending(msg'[j], e) => Pending(msg[j], e)
    BY <1>3, <2>1, NullAssumption DEF Pending
  <2> QED BY <1>3, <2>1, <2>2, OnceKept
<1>4. ASSUME NEW i \in Slots, NEW pc \in {"mail", "ack", "requeue"}, GoTo(i, pc),
             msg[i].pc # "ack", NEW e \in Plain, pub' = pub, mailed'[e] = mailed[e]
      PROVE  Once(e)'
  <2> DEFINE m == [msg[i] EXCEPT !.pc = pc]
  <2>1. m.ev = msg[i].ev
    BY <1>1 DEF Message
  <2>2. msg' = [msg EXCEPT ![i] = m]
    BY <1>1, <1>4 DEF GoTo
  <2> QED BY <1>3, <1>4, <2>1, <2>2
<1>5. ASSUME NEW f \in Events, Publish(f) \/ PublishLost(f)
      PROVE  OnceInv'
  <2>1. worker' = worker /\ mailed' = mailed /\ unanswered' = unanswered
    BY <1>5 DEF Publish, PublishLost, mails
  <2>2. CASE PublishLost(f)
    BY <1>1, <2>1, <2>2 DEF PublishLost, OnceInv, Once, Pending
  <2>3. CASE Publish(f)
    <3>1. PICK i \in Slots : msg[i].at = "free" /\ msg' = [msg EXCEPT ![i] = Ready(f, 0)]
      BY <2>3 DEF Publish
    <3>2. /\ msg'[i].ev = f /\ \A j \in Slots \ {i} : msg'[j] = msg[j]
          /\ msg[i].ev = None
      BY <1>1, <3>1 DEF Ready, SlotOK, Free
    <3>3. pub[f] = "new" /\ pub' = [pub EXCEPT ![f] = "published"]
      BY <2>3 DEF Publish
    <3>4. ASSUME NEW e \in Plain PROVE Once(e)'
      <4>1. CASE e = f
        <5>1. mailed[f] = 0 /\ \A j \in Slots : msg[j].ev # f
          BY <3>3, <4>1 DEF OnceInv, Once
        <5> QED BY <1>1, <2>1, <3>2, <3>3, <4>1, <5>1 DEF Once, Pending
      <4>2. CASE e # f
        <5>1. pub'[e] = pub[e] /\ Once(e)
          BY <1>1, <3>3, <4>2 DEF OnceInv
        <5>2. \A j \in Slots : /\ Pending(msg'[j], e) => Pending(msg[j], e)
                               /\ msg'[j].ev = e => msg[j].ev = e
          BY <3>2, <4>2 DEF Pending
        <5> QED BY <2>1, <5>1, <5>2 DEF Once
      <4> QED BY <4>1, <4>2
    <3> QED BY <1>0, <1>1, <2>1, <3>4 DEF OnceInv, Settled
  <2> QED BY <1>5, <2>2, <2>3
<1>6. ASSUME NEW i \in Slots, Handle(i) \/ Broker(i)
      PROVE  worker' = "up" /\ pub' = pub
  BY <1>1, <1>6 DEF Handle, Broker, LookupFound, LookupMissing, LookupFails, MailSent,
     MailFails, Fail, Conclude, Deliver, Requeue, Ack
<1>7. ASSUME NEW i \in Slots,
             LookupFound(i) \/ LookupMissing(i) \/ LookupFails(i) \/ MailFails(i)
      PROVE  OnceInv'
  <2>1. worker' = "up" /\ pub' = pub
    BY <1>6, <1>7 DEF Handle
  <2>2. /\ msg[i].pc # "ack" /\ unanswered \subseteq unanswered'
        /\ \A e \in Events \ unanswered' : mailed'[e] = mailed[e]
    BY <1>1, <1>7 DEF LookupFound, LookupMissing, LookupFails, MailFails, mails
  <2>3. PICK pc \in {"mail", "ack", "requeue"} : GoTo(i, pc)
    BY <1>1, <1>7 DEF LookupFound, LookupMissing, LookupFails, MailFails, Fail, Conclude
  <2> QED BY <1>0, <1>4, <2>1, <2>2, <2>3 DEF OnceInv, Settled
<1>8. ASSUME NEW i \in Slots, MailSent(i)
      PROVE  OnceInv'
  <2>1. worker' = "up" /\ pub' = pub
    BY <1>6, <1>8 DEF Handle
  <2>0. unanswered' = unanswered
    BY <1>8 DEF MailSent
  <2>2. GoTo(i, "ack") /\ msg[i].pc = "mail"
    BY <1>1, <1>8 DEF MailSent, Conclude
  <2>3. msg[i].ev \in Events
    BY <1>1, <2>2 DEF SlotOK, Free
  <2>4. mailed' = [mailed EXCEPT ![msg[i].ev] = @ + 1]
    BY <1>8 DEF MailSent
  <2>5. ASSUME NEW e \in Plain PROVE Once(e)'
    <3>1. CASE e # msg[i].ev
      <4>1. mailed'[e] = mailed[e]
        BY <1>1, <2>4, <3>1
      <4> QED BY <1>4, <2>1, <2>2, <4>1
    <3>2. CASE e = msg[i].ev
      <4>1. Pending(msg[i], e) /\ Once(e)
        BY <2>2, <3>2 DEF Pending, OnceInv
      <4>2. mailed[e] = 0
        BY <1>1, <4>1 DEF Once
      <4>3. mailed'[e] = 1
        BY <1>1, <2>3, <2>4, <3>2, <4>2
      <4>4. \A j \in Slots : ~Pending(msg'[j], e)
        <5>1. msg'[i].pc = "ack" /\ \A j \in Slots \ {i} : msg'[j] = msg[j]
          BY <1>1, <2>2 DEF GoTo, Message
        <5> QED BY <4>1, <5>1 DEF Once, Pending
      <4>5. pub'[e] = "published"
        BY <2>1, <3>2, <4>1 DEF Once
      <4> QED BY <4>3, <4>4, <4>5 DEF Once
    <3> QED BY <3>1, <3>2
  <2> QED BY <1>0, <2>0, <2>1, <2>5 DEF OnceInv, Settled
<1>9. ASSUME NEW i \in Slots, Deliver(i) \/ Ack(i)
      PROVE  OnceInv'
  <2>1. worker' = "up" /\ pub' = pub
    BY <1>6, <1>9 DEF Broker
  <2>2. mailed' = mailed /\ unanswered' = unanswered
    BY <1>9 DEF Deliver, Ack, mails
  <2>3. CASE Deliver(i)
    <3> DEFINE m == [msg[i] EXCEPT !.at = "unacked", !.pc = "lookup"]
    <3>1. msg' = [msg EXCEPT ![i] = m] /\ m.ev = msg[i].ev
      BY <1>1, <2>3 DEF Deliver, Message
    <3>2. msg[i].pc # "ack"
      BY <2>3 DEF Deliver, OnceInv
    <3> QED BY <1>0, <1>3, <2>1, <2>2, <3>1, <3>2 DEF OnceInv, Settled
  <2>4. CASE Ack(i)
    <3>1. msg' = [msg EXCEPT ![i] = Free] /\ Free.ev = None
      BY <2>4 DEF Ack, Free
    <3> QED BY <1>0, <1>3, <2>1, <2>2, <3>1 DEF OnceInv, Settled
  <2> QED BY <1>9, <2>3, <2>4
<1>10. ASSUME NEW i \in Slots, Requeue(i)
       PROVE  OnceInv'
  <2>1. /\ worker' = "up" /\ pub' = pub /\ mailed' = mailed
        /\ unanswered' = unanswered
    BY <1>6, <1>10 DEF Broker, Requeue, mails
  <2>2. PICK j \in Slots :
          /\ msg[j].at = "free"
          /\ msg' = [msg EXCEPT ![i].pc = "ack",
                                ![j] = Ready(msg[i].ev, msg[i].retry + 1)]
    BY <1>10 DEF Requeue, Copy
  <2>3. msg[i].pc = "requeue" /\ msg[i].at # "free" /\ j # i
    BY <1>1, <1>10, <2>2 DEF Requeue, SlotOK, Free
  <2>4. /\ msg'[i].pc = "ack" /\ msg'[i].ev = msg[i].ev /\ msg'[j].ev = msg[i].ev
        /\ \A k \in Slots \ {i, j} : msg'[k] = msg[k]
        /\ msg[j].ev = None
    BY <1>1, <2>2, <2>3 DEF Ready, Message, SlotOK, Free
  <2>5. ASSUME NEW e \in Plain PROVE Once(e)'
    <3>1. Once(e)
      BY DEF OnceInv
    <3>2. CASE e # msg[i].ev
      <4>1. \A k \in Slots : /\ Pending(msg'[k], e) => Pending(msg[k], e)
                             /\ msg'[k].ev = e => msg[k].ev = e
        BY <2>4, <3>2 DEF Pending
      <4> QED BY <2>1, <3>1, <4>1 DEF Once
    <3>3. CASE e = msg[i].ev
      <4>1. Pending(msg[i], e)
        BY <2>3, <3>3 DEF Pending
      <4>2. pub[e] = "published" /\ mailed[e] <= 1 /\ mailed[e] # 1
        BY <3>1, <3>3, <4>1 DEF Once
      <4>3. \A k \in Slots : Pending(msg'[k], e) => k = j
        BY <2>3, <2>4, <3>1, <4>1 DEF Once, Pending
      <4> QED BY <2>1, <4>2, <4>3 DEF Once
    <3> QED BY <3>2, <3>3
  <2> QED BY <1>0, <2>1, <2>5 DEF OnceInv, Settled
<1>11. ~(Crash \/ Disconnect \/ Exit \/ Start)
  BY <1>1 DEF Crash, Disconnect, Exit, Start
<1> QED BY <1>2, <1>5, <1>7, <1>8, <1>9, <1>10, <1>11 DEF Next, Handle, Broker

-----------------------------------------------------------------------------
(***************************************************************************)
(* Lost answers: still one pending message of an event before the first    *)
(* outage, which has counted every attempt that may have sent a mail.      *)
(***************************************************************************)
Attempts(m) == IF m.pc = "requeue" THEN m.retry + 1 ELSE m.retry

Counted(e) ==
    /\ pub[e] # "published" =>
         mailed[e] = 0 /\ \A i \in Slots : msg[i].ev # e
    /\ \A i, j \in Slots : Pending(msg[i], e) /\ Pending(msg[j], e) => i = j
    /\ mailed[e] <= MaxRetries
    /\ \A i \in Slots : Pending(msg[i], e) => mailed[e] <= Attempts(msg[i])

(* The step is not about the event, or ends one of its messages.           *)
LEMMA CountedKept ==
    ASSUME NEW e \in Events, Counted(e), pub'[e] = pub[e], mailed'[e] = mailed[e],
           \A i \in Slots : Pending(msg'[i], e) =>
             Pending(msg[i], e) /\ Attempts(msg'[i]) >= Attempts(msg[i]),
           \A i \in Slots : msg'[i].ev = e => msg[i].ev = e,
           mailed[e] \in Nat,
           \A i \in Slots : Attempts(msg[i]) \in Nat /\ Attempts(msg'[i]) \in Nat
    PROVE  Counted(e)'
<1>1. \A i \in Slots : Pending(msg'[i], e) => mailed'[e] <= Attempts(msg'[i])
  <2> SUFFICES ASSUME NEW i \in Slots, Pending(msg'[i], e)
               PROVE  mailed'[e] <= Attempts(msg'[i])
    OBVIOUS
  <2>1. Pending(msg[i], e) /\ Attempts(msg'[i]) >= Attempts(msg[i])
    OBVIOUS
  <2>2. mailed[e] <= Attempts(msg[i])
    BY <2>1 DEF Counted
  <2> HIDE DEF Attempts
  <2> QED BY <2>1, <2>2
<1>2. /\ pub'[e] # "published" =>
           mailed'[e] = 0 /\ \A i \in Slots : msg'[i].ev # e
      /\ \A i, j \in Slots : Pending(msg'[i], e) /\ Pending(msg'[j], e) => i = j
      /\ mailed'[e] <= MaxRetries
  BY DEF Counted
<1> QED BY <1>1, <1>2 DEF Counted

LEMMA CountedStep ==
    ASSUME IInv, IInv', OnceInv, [Next]_vars, outages = 0, outages' = 0,
           NEW e \in Events, Counted(e)
    PROVE  Counted(e)'
<1>1. /\ msg \in [Slots -> Message] /\ mailed \in [Events -> Nat] /\ worker = "up"
      /\ pub \in [Events -> {"new", "published", "lost"}]
      /\ \A i \in Slots : SlotOK(msg[i])
  BY DEF IInv, TypeOK, OnceInv
<1>2. \A i \in Slots : Attempts(msg[i]) \in Nat /\ Attempts(msg'[i]) \in Nat
  BY RetriesAssumption DEF IInv, TypeOK, Message, Attempts
<1>3. CASE UNCHANGED vars
  BY <1>3 DEF vars, Counted, Pending, Attempts
<1>4. ASSUME NEW f \in Events, Publish(f) \/ PublishLost(f) PROVE Counted(e)'
  <2>1. mailed' = mailed
    BY <1>4 DEF Publish, PublishLost, mails
  <2>2. CASE PublishLost(f)
    BY <1>1, <2>1, <2>2 DEF PublishLost, Counted, Pending, Attempts
  <2>3. CASE Publish(f)
    <3>1. PICK i \in Slots : msg[i].at = "free" /\ msg' = [msg EXCEPT ![i] = Ready(f, 0)]
      BY <2>3 DEF Publish
    <3>2. /\ msg'[i] = Ready(f, 0) /\ \A j \in Slots \ {i} : msg'[j] = msg[j]
          /\ pub[f] = "new" /\ pub' = [pub EXCEPT ![f] = "published"]
      BY <1>1, <2>3, <3>1 DEF Publish
    <3>3. CASE e = f
      <4>1. mailed[e] = 0 /\ \A j \in Slots : msg[j].ev # e
        BY <3>2, <3>3 DEF Counted
      <4>2. pub'[e] = "published" /\ \A j \in Slots : Pending(msg'[j], e) => j = i
        BY <1>1, <3>2, <3>3, <4>1 DEF Pending
      <4> QED BY <1>2, <2>1, <4>1, <4>2, RetriesAssumption DEF Counted
    <3>4. CASE e # f
      <4>1. pub'[e] = pub[e]
        BY <1>1, <3>2, <3>4
      <4>2. \A j \in Slots : msg'[j].ev = e => msg'[j] = msg[j]
        BY <3>2, <3>4 DEF Ready
      <4> QED BY <1>1, <1>2, <2>1, <4>1, <4>2, CountedKept DEF Pending
    <3> QED BY <3>3, <3>4
  <2> QED BY <1>4, <2>2, <2>3
<1>5. ASSUME NEW i \in Slots, Handle(i) PROVE Counted(e)'
  <2>1. PICK pc \in {"mail", "requeue", "ack"} :
          /\ msg' = [msg EXCEPT ![i].pc = pc] /\ pub' = pub
          /\ msg[i].pc \in {"lookup", "mail"}
          /\ pc = "requeue" => ~GivesUp(msg[i])
          /\ \/ mailed' = mailed
             \/ pc # "mail" /\ mailed' = [mailed EXCEPT ![msg[i].ev] = @ + 1]
    BY <1>1, <1>5 DEF Handle, LookupFound, LookupMissing, LookupFails, MailSent,
       MailFails, Fail, Conclude, GoTo, mails
  <2>2. /\ msg'[i].pc = pc /\ msg'[i].ev = msg[i].ev /\ msg'[i].retry = msg[i].retry
        /\ \A j \in Slots \ {i} : msg'[j] = msg[j]
    BY <1>1, <2>1 DEF Message
  <2>3. msg[i].retry \in 0 .. MaxRetries - 1 /\ msg[i].ev \in Events
    BY <1>1, <2>1 DEF Message, SlotOK, Free
  <2>4. CASE e # msg[i].ev
    <3>1. mailed'[e] = mailed[e]
      BY <1>1, <2>1, <2>4
    <3>2. \A j \in Slots : msg'[j].ev = e => msg'[j] = msg[j]
      BY <2>2, <2>4
    <3> QED BY <1>1, <1>2, <2>1, <3>1, <3>2, CountedKept DEF Pending
  <2>5. CASE e = msg[i].ev
    <3>1. Pending(msg[i], e) /\ \A j \in Slots : Pending(msg[j], e) => j = i
      BY <2>1, <2>5 DEF Pending, Counted
    <3>2. mailed[e] <= msg[i].retry /\ mailed[e] \in Nat
      BY <1>1, <2>1, <3>1 DEF Counted, Attempts
    <3>3. pub'[e] = "published"
      BY <2>1, <2>5 DEF Counted
    <3>4. /\ mailed'[e] \in Nat /\ mailed'[e] <= msg[i].retry + 1
          /\ pc = "mail" => mailed'[e] <= msg[i].retry
      BY <1>1, <2>1, <2>3, <2>5, <3>2
    <3>5. \A j \in Slots : Pending(msg'[j], e) => j = i /\ pc # "ack"
      BY <2>2, <3>1 DEF Pending
    <3>6. pc # "ack" => mailed'[e] <= Attempts(msg'[i])
      BY <2>1, <2>2, <3>4 DEF Attempts
    <3>7. mailed'[e] <= MaxRetries
      BY <2>3, <3>4, RetriesAssumption
    <3> QED BY <3>3, <3>5, <3>6, <3>7 DEF Counted
  <2> QED BY <2>4, <2>5
<1>6. ASSUME NEW i \in Slots, Deliver(i) \/ Ack(i) PROVE Counted(e)'
  <2>1. pub' = pub /\ mailed' = mailed
    BY <1>6 DEF Deliver, Ack, mails
  <2>2. CASE Deliver(i)
    <3>1. msg[i].pc = "idle"
      BY <2>2 DEF Deliver, OnceInv
    <3>2. /\ msg'[i].ev = msg[i].ev /\ Attempts(msg'[i]) = Attempts(msg[i])
          /\ \A j \in Slots \ {i} : msg'[j] = msg[j]
      BY <1>1, <2>2, <3>1 DEF Deliver, Message, Attempts
    <3>3. \A j \in Slots : msg'[j].ev = e =>
            msg[j].ev = e /\ Attempts(msg'[j]) = Attempts(msg[j])
      BY <3>2
    <3>4. \A j \in Slots : Pending(msg'[j], e) => Pending(msg[j], e)
      BY <3>1, <3>2 DEF Pending
    <3>5. \A j \in Slots : Pending(msg'[j], e) =>
            Pending(msg[j], e) /\ Attempts(msg'[j]) >= Attempts(msg[j])
      BY <1>2, <3>3, <3>4 DEF Pending
    <3> QED BY <1>1, <1>2, <2>1, <3>3, <3>5, CountedKept
  <2>3. CASE Ack(i)
    <3>1. msg'[i] = Free /\ \A j \in Slots \ {i} : msg'[j] = msg[j]
      BY <1>1, <2>3 DEF Ack
    <3>2. \A j \in Slots : msg'[j].ev = e => msg'[j] = msg[j]
      BY <3>1, NullAssumption DEF Free
    <3> QED BY <1>1, <1>2, <2>1, <3>2, CountedKept DEF Pending
  <2> QED BY <1>6, <2>2, <2>3
<1>7. ASSUME NEW i \in Slots, Requeue(i) PROVE Counted(e)'
  <2>1. pub' = pub /\ mailed' = mailed
    BY <1>7 DEF Requeue, mails
  <2>2. PICK j \in Slots :
          /\ msg[j].at = "free"
          /\ msg' = [msg EXCEPT ![i].pc = "ack",
                                ![j] = Ready(msg[i].ev, msg[i].retry + 1)]
    BY <1>7 DEF Requeue, Copy
  <2>3. msg[i].pc = "requeue" /\ j # i
    BY <1>1, <1>7, <2>2 DEF Requeue, SlotOK, Free
  <2>4. /\ msg'[i].pc = "ack" /\ msg'[i].ev = msg[i].ev
        /\ msg'[j].ev = msg[i].ev /\ msg'[j].pc = "idle"
        /\ msg'[j].retry = msg[i].retry + 1
        /\ \A k \in Slots \ {i, j} : msg'[k] = msg[k]
    BY <1>1, <2>2, <2>3 DEF Ready, Message
  <2>5. CASE e # msg[i].ev
    <3>1. \A k \in Slots : msg'[k].ev = e => msg'[k] = msg[k]
      BY <2>4, <2>5
    <3> QED BY <1>1, <1>2, <2>1, <3>1, CountedKept DEF Pending
  <2>6. CASE e = msg[i].ev
    <3>1. Pending(msg[i], e) /\ pub'[e] = "published" /\ mailed'[e] <= MaxRetries
      BY <2>1, <2>3, <2>6 DEF Pending, Counted
    <3>2. mailed'[e] <= msg[i].retry + 1
      BY <2>1, <2>3, <3>1 DEF Counted, Attempts
    <3>3. \A k \in Slots : Pending(msg'[k], e) => k = j
      BY <2>3, <2>4, <3>1 DEF Counted, Pending
    <3>4. mailed'[e] <= Attempts(msg'[j])
      BY <2>4, <3>2 DEF Attempts
    <3> QED BY <3>1, <3>3, <3>4 DEF Counted
  <2> QED BY <2>5, <2>6
<1>8. ~(Crash \/ Disconnect \/ Exit \/ Start)
  BY <1>1 DEF Crash, Disconnect, Exit, Start
<1> QED BY <1>3, <1>4, <1>5, <1>6, <1>7, <1>8 DEF Next, Broker

(* Before the worker or its connection first goes away a notification is   *)
(* mailed once, or MAX_RETRIES times at most when answers of the mail      *)
(* server are lost: however many attempts fail and handlers overlap.       *)
THEOREM MailsStayLimited == Spec => []MailsLimited
<1> DEFINE Early == outages = 0 => OnceInv /\ \A e \in Events : Counted(e)
<1>1. Init => Early
  BY NullAssumption, RetriesAssumption
  DEF Init, OnceInv, Once, Counted, Pending, Free
<1>2. IInv /\ Early /\ [Next]_vars => Early'
  <2> SUFFICES ASSUME IInv, Early, [Next]_vars, outages' = 0
               PROVE  (OnceInv /\ \A e \in Events : Counted(e))'
    OBVIOUS
  <2>1. outages \in Nat /\ (outages' = outages \/ outages' = outages + 1)
    BY DEF IInv, TypeOK, Next, vars, Publish, PublishLost, Handle, LookupFound,
       LookupMissing, LookupFails, MailSent, MailFails, Broker, Deliver, Requeue,
       Ack, Crash, Disconnect, Exit, Start
  <2>2. outages = 0
    BY <2>1
  <2>3. OnceInv' /\ IInv'
    BY <2>2, OnceStep, StepInductive
  <2>4. \A e \in Events : Counted(e)'
    BY <2>2, <2>3, CountedStep
  <2> QED BY <2>3, <2>4
<1>3. Early => MailsLimited
  BY DEF OnceInv, Once, Counted, MailsLimited
<1> QED BY <1>1, <1>2, <1>3, Inductive, PTL DEF Spec

-----------------------------------------------------------------------------
(* The refinement of NotificationService                                   *)

(* What is in the broker was published.                                    *)
Published ==
    \A i \in Slots : msg[i].at # "free" => pub[msg[i].ev] = "published"

LEMMA PublishedKept ==
    ASSUME IInv, Published, pub' = pub, msg' \in [Slots -> Message],
           \A i \in Slots : msg'[i].at # "free" =>
             \E j \in Slots : msg[j].at # "free" /\ msg[j].ev = msg'[i].ev
    PROVE  Published'
BY DEF Published

LEMMA EventsKept ==
    ASSUME \A i \in Slots : msg'[i].ev = msg[i].ev
    PROVE  Waiting' = Waiting
BY DEF Waiting

LEMMA ReturnedKeeps ==
    ASSUME IInv, NEW i \in Slots
    PROVE  /\ Returned(msg[i]).ev = msg[i].ev
           /\ Returned(msg[i]).at # "free" => msg[i].at # "free"
BY DEF IInv, TypeOK, SlotOK, Returned, Ready, Free

LEMMA DieKeeps ==
    ASSUME IInv, Die
    PROVE  \A i \in Slots : /\ msg'[i].ev = msg[i].ev
                            /\ msg'[i].at # "free" => msg[i].at # "free"
BY ReturnedKeeps DEF Die

LEMMA ConcludeKeeps ==
    ASSUME IInv, NEW i \in Slots, NEW pc, msg[i].pc # "idle", Conclude(i, pc)
    PROVE  \A j \in Slots : /\ msg'[j].ev = msg[j].ev
                            /\ msg'[j].at # "free" => msg[j].at # "free"
<1>1. CASE worker = "up"
  BY <1>1 DEF Conclude, GoTo, IInv, TypeOK, Message
<1>2. CASE worker # "up"
  BY <1>2, DieKeeps DEF Conclude
<1> QED BY <1>1, <1>2

(* Every step but Publish, Requeue and Ack leaves the slots their events.  *)
LEMMA StepKeeps ==
    ASSUME IInv, NEW i \in Slots,
           Handle(i) \/ Deliver(i) \/ Crash \/ Disconnect \/ Exit \/ Start
    PROVE  /\ \A j \in Slots : /\ msg'[j].ev = msg[j].ev
                               /\ msg'[j].at # "free" => msg[j].at # "free"
           /\ pub' = pub
<1>1. CASE Handle(i)
  BY <1>1, ConcludeKeeps DEF Handle, LookupFound, LookupMissing, LookupFails,
     MailSent, MailFails, Fail, GoTo, mails, IInv, TypeOK, Message
<1>2. CASE Deliver(i)
  <2>1. msg[i].at # "free"
    BY <1>2 DEF Deliver
  <2> QED BY <1>2, <2>1 DEF Deliver, IInv, TypeOK, Message
<1>3. CASE Disconnect
  <2>1. ASSUME NEW j \in Slots
        PROVE  msg'[j].ev = msg[j].ev /\ (msg'[j].at # "free" => msg[j].at # "free")
    <3>1. CASE msg[j].pc \in {"lookup", "mail"}
      <4>1. msg[j].at # "free" /\ msg[j] \in Message
        BY <3>1 DEF IInv, TypeOK, SlotOK, Free
      <4>2. msg'[j] = [msg[j] EXCEPT !.at = "ready"]
        BY <1>3, <3>1 DEF Disconnect
      <4> QED BY <4>1, <4>2 DEF Message
    <3>2. CASE msg[j].pc \notin {"lookup", "mail"}
      BY <1>3, <3>2, ReturnedKeeps DEF Disconnect
    <3> QED BY <3>1, <3>2
  <2> QED BY <1>3, <2>1 DEF Disconnect
<1>4. CASE Crash \/ Exit \/ Start
  BY <1>4, DieKeeps DEF Crash, Exit, Start, mails
<1> QED BY <1>1, <1>2, <1>3, <1>4

LEMMA PublishedInductive == IInv /\ Published /\ [Next]_vars => Published'
<1> SUFFICES ASSUME IInv, Published, [Next]_vars PROVE Published'
  OBVIOUS
<1>1. IInv'
  BY StepInductive
<1>2. ASSUME NEW e \in Events, Publish(e) \/ PublishLost(e) PROVE Published'
  BY <1>2 DEF Publish, PublishLost, Published, IInv, TypeOK, SlotOK, Ready
<1>3. ASSUME NEW i \in Slots, Requeue(i) PROVE Published'
  <2>1. PICK j \in Slots :
          msg[j].at = "free" /\ msg' = [msg EXCEPT ![i].pc = "ack", ![j] = Copy(msg[i])]
    BY <1>3 DEF Requeue
  <2>2. i # j /\ msg[i].at # "free"
    BY <1>3, <2>1 DEF Requeue, IInv, SlotOK, Free
  <2>3. \A k \in Slots : msg'[k].at # "free" =>
          \E l \in Slots : msg[l].at # "free" /\ msg[l].ev = msg'[k].ev
    BY <2>1, <2>2 DEF IInv, TypeOK, Copy, Ready, Message
  <2> QED BY <1>1, <1>3, <2>3, PublishedKept DEF Requeue, IInv, TypeOK
<1>4. ASSUME NEW i \in Slots, Ack(i) PROVE Published'
  <2>1. \A k \in Slots : msg'[k].at # "free" => msg'[k] = msg[k]
    BY <1>4 DEF Ack, IInv, TypeOK, Free
  <2> QED BY <1>1, <1>4, <2>1, PublishedKept DEF Ack, IInv, TypeOK
<1>5. ASSUME NEW i \in Slots, Handle(i) \/ Deliver(i) PROVE Published'
  BY <1>1, <1>5, StepKeeps, PublishedKept DEF IInv, TypeOK
<1>6. CASE Crash \/ Disconnect \/ Exit \/ Start
  BY <1>1, <1>6, StepKeeps DEF Published
<1>7. CASE UNCHANGED vars
  BY <1>7 DEF vars, Published
<1> QED BY <1>2, <1>3, <1>4, <1>5, <1>6, <1>7 DEF Next, Broker

LEMMA PublishedInvariant == Spec => []Published
<1>1. Init => Published
  BY DEF Init, Published, Free
<1> QED BY <1>1, PublishedInductive, Inductive, PTL DEF Spec

-----------------------------------------------------------------------------
(* The handlers, as steps of the service                                   *)
LEMMA HandleServes ==
    ASSUME IInv, NEW i \in Slots, Handle(i)
    PROVE  Service!Next \/ UNCHANGED Service!service
<1> DEFINE e == msg[i].ev
<1>1. e \in Events /\ e \in Waiting
  BY DEF Handle, LookupFound, LookupMissing, LookupFails, MailSent, MailFails,
         IInv, TypeOK, SlotOK, Free, Waiting
<1>2. Waiting' = Waiting
  BY StepKeeps, EventsKept
<1>3. Told' \in {Told, Told \cup {e}}
  BY <1>1 DEF Handle, LookupFound, LookupMissing, LookupFails, MailSent,
              MailFails, Fail, mails, IInv, TypeOK, Told
<1>4. closed' \in {closed, closed \cup {e}}
  BY <1>1 DEF Handle, LookupFound, LookupMissing, LookupFails, MailSent,
              MailFails, Fail
<1>5. Service!Conclude(e)
  BY <1>1, <1>2, <1>3, <1>4 DEF Service!Conclude
<1> QED BY <1>1, <1>5 DEF Service!Next, Service!Serve

(* An acknowledgement forgets an event only if it is concluded.            *)
LEMMA AckServes ==
    ASSUME IInv, Published, NEW i \in Slots, Ack(i)
    PROVE  Service!Next \/ UNCHANGED Service!service
<1> DEFINE e == msg[i].ev
<1>1. e \in Events /\ e \in Waiting /\ pub[e] = "published"
  BY DEF Ack, IInv, TypeOK, SlotOK, Free, Waiting, Published
<1>2. msg' = [msg EXCEPT ![i] = Free] /\ Told' = Told /\ closed' = closed
  BY DEF Ack, mails, Told
<1>3. Waiting' \in {Waiting, Waiting \ {e}}
  BY <1>1, <1>2, NullAssumption DEF Waiting, Free, IInv, TypeOK
<1>4. e \in Waiting' \/ e \in Told \cup closed
  BY <1>1, <1>2 DEF Waiting, Told, IInv, TypeOK, NothingLost, Concluded, Ack
<1>5. CASE Waiting' = Waiting
  BY <1>2, <1>5 DEF Service!service
<1>6. CASE Waiting' = Waiting \ {e}
  <2>1. Service!Forget(e)
    BY <1>1, <1>2, <1>4, <1>6 DEF Service!Forget
  <2> QED BY <1>1, <2>1 DEF Service!Next, Service!Serve
<1> QED BY <1>3, <1>5, <1>6

LEMMA PublishServes ==
    ASSUME IInv, NEW e \in Events, Publish(e)
    PROVE  Service!Next
<1>1. PICK i \in Slots : msg[i].at = "free" /\ msg' = [msg EXCEPT ![i] = Ready(e, 0)]
  BY DEF Publish
<1>2. msg[i].ev = None
  BY <1>1 DEF IInv, SlotOK, Free
<1>3. Waiting' = Waiting \cup {e}
  BY <1>1, <1>2, NullAssumption DEF Waiting, Ready, IInv, TypeOK
<1>4. Told' = Told /\ closed' = closed
  BY DEF Publish, mails, Told
<1> QED BY <1>3, <1>4 DEF Service!Next, Service!Accept

LEMMA RequeueServes ==
    ASSUME IInv, NEW i \in Slots, Requeue(i)
    PROVE  UNCHANGED Service!service
<1>1. PICK j \in Slots :
        msg[j].at = "free" /\ msg' = [msg EXCEPT ![i].pc = "ack", ![j] = Copy(msg[i])]
  BY DEF Requeue
<1>2. i # j /\ msg[j].ev = None
  BY <1>1 DEF Requeue, IInv, SlotOK, Free
<1>3. msg'[j].ev = msg[i].ev /\ \A k \in Slots \ {j} : msg'[k].ev = msg[k].ev
  BY <1>1, <1>2 DEF IInv, TypeOK, Copy, Ready, Message
<1>4. Waiting' = Waiting
  BY <1>2, <1>3, NullAssumption DEF Waiting
<1> QED BY <1>4 DEF Requeue, mails, Told, Service!service

LEMMA ServiceStep ==
    ASSUME IInv, Published, [Next]_vars
    PROVE  [Service!Next]_(Service!service)
<1>1. ASSUME NEW e \in Events, PublishLost(e) PROVE UNCHANGED Service!service
  BY <1>1 DEF PublishLost, mails, Waiting, Told, Service!service
<1>2. ASSUME NEW i \in Slots, Deliver(i) PROVE UNCHANGED Service!service
  BY <1>2, StepKeeps, EventsKept DEF Deliver, mails, Told, Service!service
<1>3. CASE Crash \/ Disconnect \/ Exit \/ Start
  <2>1. \A i \in Slots : msg'[i].ev = msg[i].ev
    BY <1>3, StepKeeps
  <2> QED BY <1>3, <2>1, EventsKept
          DEF Crash, Disconnect, Exit, Start, mails, Told, Service!service
<1>4. CASE UNCHANGED vars
  BY <1>4 DEF vars, mails, Waiting, Told, Service!service
<1> QED BY <1>1, <1>2, <1>3, <1>4, PublishServes, RequeueServes, AckServes,
           HandleServes DEF Next, Broker

(* For any events, slots and bounds, and with every fault, the queue and   *)
(* the worker implement NotificationService.                               *)
THEOREM ServiceImplemented == Spec => ServiceSpec
<1>1. Init => Service!Init
  BY NullAssumption DEF Init, Service!Init, Waiting, Told, Free
<1>2. IInv /\ Published /\ [Next]_vars => [Service!Next]_(Service!service)
  BY ServiceStep
<1> QED BY <1>1, <1>2, Inductive, PublishedInvariant, PTL
        DEF Spec, ServiceSpec, Service!Spec
=============================================================================
