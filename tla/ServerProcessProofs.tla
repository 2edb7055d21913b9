------------------------- MODULE ServerProcessProofs -------------------------
(***************************************************************************)
(* The properties of ServerProcess for any number of requests and          *)
(* connections.  The argument: as long as a connection has never had       *)
(* another one beside it, it is the one the module variables speak of.     *)
(***************************************************************************)
EXTENDS ServerProcess, TLAPS

(* A connection that is new is known to nobody, one that is dialled or set *)
(* up is in the state its request believes, and one that broke is closed.  *)
SetupState ==
    /\ \A r \in Reqs : req[r].conn # None => conn[req[r].conn].state # "new"
    /\ \A r \in Reqs : req[r].pc = "connect" =>
         conn[req[r].conn].state = "dialing"
    /\ \A r \in Reqs : req[r].pc \in {"channel", "assert"} =>
         conn[req[r].conn].state \in {"open", "closing", "closed"}
    /\ \A c \in deaf : conn[c].state = "closed" /\ c \in hurt

(* Without a mark in overlapped a connection is alone.                     *)
Alone ==
    \A c, d \in Conns :
      c \in Rivals /\ d \in Rivals /\ c # d => c \in overlapped

(* Then an open one is the present one, its channel the present channel,   *)
(* and it has its listeners as soon as it is set up.                       *)
PresentIsKnown ==
    /\ \A c \in Conns : IsOpen(c) /\ c \notin overlapped => connection = c
    /\ \A c \in Conns : /\ conn[c].state \in {"open", "closing"}
                        /\ c \notin overlapped
                        /\ ~conn[c].heard
                        => InSetup(c)
    /\ \A r \in Reqs : /\ req[r].pc = "assert"
                       /\ IsOpen(req[r].conn)
                       /\ req[r].conn \notin overlapped
                       => channel = req[r].conn

(* No connection is closed by this process before the release, which       *)
(* waits for every client.                                                 *)
ReleaseIsLate ==
    /\ server \in {"listening", "draining"} =>
         \A c \in Conns : /\ conn[c].state # "closing"
                          /\ conn[c].state = "closed" => c \in hurt
    /\ \A r \in Reqs : InFlight(r) /\ req[r].client =>
         server \notin {"releasing", "exited"}

Resolved(r) == r \in arrived \/ req[r].conn \in overlapped \cup hurt

Due(r) == req[r].pc = "done" /\ req[r].event /\ req[r].client

(* An event is with the broker or on its way there, and a release that     *)
(* follows waits for the connection it is on.                              *)
OnItsWay ==
    /\ \A r \in Reqs : req[r].event => req[r].conn # None
    /\ \A r \in Reqs : SettingUp(r) => req[r].event
    /\ \A r \in Reqs : req[r].pc \in {"new", "work"} => ~req[r].event
    /\ \A r \in Reqs : Due(r) /\ ~Resolved(r) =>
         /\ sent[r] = req[r].conn
         /\ conn[req[r].conn].state \in {"open", "closing"}
    /\ server = "releasing" /\ ~repeated =>
         \A r \in Reqs : Due(r) /\ ~Resolved(r) =>
           awaits = {req[r].conn} /\ conn[req[r].conn].state = "closing"

IInv ==
    /\ TypeOK /\ SetupState /\ Alone /\ PresentIsKnown /\ ReleaseIsLate
    /\ OnItsWay /\ CachedChannelLives /\ OrderlyExitDelivers

USE NullAssumption DEF Connection, Request, SettingUp, IsOpen, Alive, GoTo,
                       shutdown, queue, events, vars

LEMMA AcceptKeeps == ASSUME IInv, NEW r \in Reqs, Accept(r) PROVE IInv'
<1>. USE DEF IInv
<1>1. TypeOK'
  <2>1. req' \in [Reqs -> Request]
    <3>1. req[r] \in Request
      BY DEF TypeOK
    <3>2. [req[r] EXCEPT !.pc = "work", !.client = TRUE] \in Request
      BY <3>1
    <3>. QED BY <3>2 DEF TypeOK, Accept
  <2>2. (\A p, q \in Reqs :
           SettingUp(p) /\ SettingUp(q) /\ req[p].conn = req[q].conn => p = q)'
    BY DEF TypeOK, Accept
  <2>. QED BY <2>1, <2>2 DEF TypeOK, Accept
<1>2. SetupState'
  BY DEF SetupState, Accept
<1>3. Alone'
  BY DEF Accept, Alone, Rivals
<1>4. PresentIsKnown'
  BY DEF Accept, PresentIsKnown, InSetup
<1>5. ReleaseIsLate'
  BY DEF Accept, ReleaseIsLate, InFlight
<1>6. OnItsWay'
  BY DEF Accept, OnItsWay, Due, Resolved
<1>7. CachedChannelLives'
  BY DEF Accept, CachedChannelLives
<1>8. OrderlyExitDelivers'
  BY DEF Accept, OrderlyExitDelivers
<1>. QED BY <1>1, <1>2, <1>3, <1>4, <1>5, <1>6, <1>7, <1>8 DEF IInv

LEMMA NothingToPublishKeeps ==
  ASSUME IInv, NEW r \in Reqs, NothingToPublish(r)
  PROVE  IInv'
<1>. USE DEF IInv
<1>1. TypeOK'
  BY DEF TypeOK, NothingToPublish
<1>2. SetupState'
  BY DEF SetupState, NothingToPublish
<1>3. Alone'
  BY DEF NothingToPublish, Alone, Rivals
<1>4. PresentIsKnown'
  BY DEF NothingToPublish, PresentIsKnown, InSetup
<1>5. ReleaseIsLate'
  BY DEF NothingToPublish, ReleaseIsLate, InFlight
<1>6. OnItsWay'
  <2>1. (\A q \in Reqs : req[q].event => req[q].conn # None)'
    BY DEF NothingToPublish, OnItsWay, Due, Resolved
  <2>2. /\ (\A q \in Reqs : SettingUp(q) => req[q].event)'
        /\ (\A q \in Reqs : req[q].pc \in {"new", "work"} => ~req[q].event)'
    BY DEF NothingToPublish, OnItsWay, Due, Resolved
  <2>3. (\A q \in Reqs : Due(q) /\ ~Resolved(q) =>
           /\ sent[q] = req[q].conn
           /\ conn[req[q].conn].state \in {"open", "closing"})'
    <3>1. ~req[r].event
      BY DEF OnItsWay, NothingToPublish
    <3>. QED BY <3>1 DEF NothingToPublish, OnItsWay, Due, Resolved
  <2>4. (server = "releasing" /\ ~repeated =>
           \A q \in Reqs : Due(q) /\ ~Resolved(q) =>
             awaits = {req[q].conn} /\ conn[req[q].conn].state = "closing")'
    BY DEF NothingToPublish, OnItsWay, Due, Resolved
  <2>. QED BY <2>1, <2>2, <2>3, <2>4 DEF OnItsWay
<1>7. CachedChannelLives'
  BY DEF NothingToPublish, CachedChannelLives
<1>8. OrderlyExitDelivers'
  BY DEF NothingToPublish, OrderlyExitDelivers
<1>. QED BY <1>1, <1>2, <1>3, <1>4, <1>5, <1>6, <1>7, <1>8 DEF IInv

LEMMA CommitAndSendKeeps ==
  ASSUME IInv, NEW r \in Reqs, CommitAndSend(r)
  PROVE  IInv'
<1>. USE DEF IInv
<1>1. TypeOK'
  <2>1. req' \in [Reqs -> Request]
    <3>1. req[r] \in Request /\ channel \in Conns \cup {None}
      BY DEF TypeOK
    <3>2. [req[r] EXCEPT !.pc = "done", !.event = TRUE,
                      !.conn = channel] \in Request
      BY <3>1
    <3>. QED BY <3>2 DEF TypeOK, CommitAndSend
  <2>2. (\A p, q \in Reqs :
           SettingUp(p) /\ SettingUp(q) /\ req[p].conn = req[q].conn => p = q)'
    BY DEF TypeOK, CommitAndSend, Send
  <2>. QED BY <2>1, <2>2 DEF TypeOK, CommitAndSend, Send
<1>2. SetupState'
  <2>1. channel \in Conns /\ conn[channel].state # "new"
    BY DEF CommitAndSend, CachedChannelLives, SetupState, TypeOK
  <2>. QED BY <2>1 DEF CommitAndSend, Send, SetupState, TypeOK
<1>3. Alone'
  BY DEF CommitAndSend, Send, Alone, Rivals
<1>4. PresentIsKnown'
  <2>1. (\A d \in Conns : IsOpen(d) /\ d \notin overlapped => connection = d)'
    BY DEF CommitAndSend, Send, PresentIsKnown, InSetup
  <2>2. (\A d \in Conns : /\ conn[d].state \in {"open", "closing"}
                         /\ d \notin overlapped
                         /\ ~conn[d].heard
                         => InSetup(d))'
    BY DEF CommitAndSend, Send, PresentIsKnown, InSetup
  <2>3. (\A q \in Reqs : /\ req[q].pc = "assert"
                        /\ IsOpen(req[q].conn)
                        /\ req[q].conn \notin overlapped
                        => channel = req[q].conn)'
    BY DEF CommitAndSend, Send, PresentIsKnown, InSetup
  <2>. QED BY <2>1, <2>2, <2>3 DEF PresentIsKnown
<1>5. ReleaseIsLate'
  BY DEF CommitAndSend, Send, ReleaseIsLate, InFlight
<1>6. OnItsWay'
  <2>1. (\A q \in Reqs : req[q].event => req[q].conn # None)'
    BY DEF CommitAndSend, Send, OnItsWay, Due, Resolved
  <2>2. /\ (\A q \in Reqs : SettingUp(q) => req[q].event)'
        /\ (\A q \in Reqs : req[q].pc \in {"new", "work"} => ~req[q].event)'
    BY DEF CommitAndSend, Send, OnItsWay, Due, Resolved
  <2>3. (\A q \in Reqs : Due(q) /\ ~Resolved(q) =>
           /\ sent[q] = req[q].conn
           /\ conn[req[q].conn].state \in {"open", "closing"})'
    <3>1. channel \in Conns /\ (IsOpen(channel) \/ channel \in hurt)
      BY DEF CommitAndSend, CachedChannelLives, SetupState, TypeOK
    <3>. QED BY <3>1 DEF CommitAndSend, Send, OnItsWay, Due, Resolved, TypeOK
  <2>4. (server = "releasing" /\ ~repeated =>
           \A q \in Reqs : Due(q) /\ ~Resolved(q) =>
             awaits = {req[q].conn} /\ conn[req[q].conn].state = "closing")'
    BY DEF TypeOK, CommitAndSend, Send, OnItsWay, Due, Resolved,
           ReleaseIsLate, InFlight, PresentIsKnown, Alone, Rivals
  <2>. QED BY <2>1, <2>2, <2>3, <2>4 DEF OnItsWay
<1>7. CachedChannelLives'
  BY DEF CommitAndSend, Send, CachedChannelLives
<1>8. OrderlyExitDelivers'
  BY DEF CommitAndSend, Send, OrderlyExitDelivers
<1>. QED BY <1>1, <1>2, <1>3, <1>4, <1>5, <1>6, <1>7, <1>8 DEF IInv

LEMMA CommitAndDialKeeps ==
  ASSUME IInv, NEW r \in Reqs, CommitAndDial(r)
  PROVE  IInv'
<1>. USE DEF IInv
<1>1. TypeOK'
  <2>1. conn' \in [Conns -> Connection]
    BY DEF TypeOK, CommitAndDial
  <2>2. req' \in [Reqs -> Request]
    <3>1. PICK c \in Conns :
              req' = [req EXCEPT ![r] = [@ EXCEPT !.pc = "connect",
                                                  !.event = TRUE, !.conn = c]]
      BY DEF CommitAndDial
    <3>2. [req[r] EXCEPT !.pc = "connect", !.event = TRUE,
                      !.conn = c] \in Request
      <4>1. req[r] \in Request
        BY DEF TypeOK
      <4>. QED BY <4>1
    <3>. QED BY <3>1, <3>2 DEF TypeOK
  <2>3. (\A q \in Reqs : SettingUp(q) => req[q].conn # None)'
    BY DEF TypeOK, CommitAndDial
  <2>4. (\A p, q \in Reqs :
           SettingUp(p) /\ SettingUp(q) /\ req[p].conn = req[q].conn => p = q)'
    BY DEF TypeOK, SetupState, CommitAndDial, Rivals
  <2>. QED BY <2>1, <2>2, <2>3, <2>4 DEF TypeOK, CommitAndDial, Rivals
<1>2. SetupState'
  BY DEF TypeOK, SetupState, CommitAndDial
<1>3. Alone'
  BY DEF CommitAndDial, Rivals, Alone
<1>4. PresentIsKnown'
  BY DEF CommitAndDial, PresentIsKnown, InSetup
<1>5. ReleaseIsLate'
  BY DEF CommitAndDial, ReleaseIsLate, InFlight
<1>6. OnItsWay'
  BY DEF CommitAndDial, OnItsWay, Due, Resolved
<1>7. CachedChannelLives'
  BY DEF CommitAndDial, CachedChannelLives
<1>8. OrderlyExitDelivers'
  BY DEF CommitAndDial, OrderlyExitDelivers
<1>. QED BY <1>1, <1>2, <1>3, <1>4, <1>5, <1>6, <1>7, <1>8 DEF IInv

LEMMA RefusedKeeps == ASSUME IInv, NEW r \in Reqs, Refused(r) PROVE IInv'
<1>. USE DEF IInv
<1>1. TypeOK'
  BY DEF TypeOK, Refused
<1>2. SetupState'
  BY DEF TypeOK, SetupState, Refused
<1>3. Alone'
  BY DEF Refused, Alone, Rivals
<1>4. PresentIsKnown'
  BY DEF TypeOK, Refused, PresentIsKnown, InSetup
<1>5. ReleaseIsLate'
  BY DEF Refused, ReleaseIsLate, InFlight
<1>6. OnItsWay'
  BY DEF Refused, OnItsWay, Due, Resolved
<1>7. CachedChannelLives'
  BY DEF TypeOK, SetupState, Refused, CachedChannelLives
<1>8. OrderlyExitDelivers'
  BY DEF Refused, OrderlyExitDelivers
<1>. QED BY <1>1, <1>2, <1>3, <1>4, <1>5, <1>6, <1>7, <1>8 DEF IInv

LEMMA DialledKeeps == ASSUME IInv, NEW r \in Reqs, Dialled(r) PROVE IInv'
<1>. USE DEF IInv
<1>1. TypeOK'
  <2>1. /\ req[r].conn \in Conns /\ req[r] \in Request
        /\ conn[req[r].conn] \in Connection
    BY DEF TypeOK, Dialled
  <2>2. [conn[req[r].conn] EXCEPT !.state = "open"] \in Connection
    BY <2>1
  <2>3. conn' \in [Conns -> Connection] /\ connection' \in Conns
    BY <2>1, <2>2 DEF TypeOK, Dialled
  <2>4. req' \in [Reqs -> Request]
    <3>1. [req[r] EXCEPT !.pc = "channel"] \in Request
      BY <2>1
    <3>. QED BY <3>1 DEF TypeOK, Dialled
  <2>5. (\A q \in Reqs : SettingUp(q) => req[q].conn # None)'
    BY <2>1 DEF TypeOK, Dialled
  <2>6. (\A p, q \in Reqs :
           SettingUp(p) /\ SettingUp(q) /\ req[p].conn = req[q].conn => p = q)'
    BY DEF TypeOK, Dialled
  <2>. QED BY <2>3, <2>4, <2>5, <2>6 DEF TypeOK, Dialled
<1>2. SetupState'
  BY SMTT(30) DEF TypeOK, SetupState, Dialled
<1>3. Alone'
  BY DEF TypeOK, SetupState, Dialled, Alone, Rivals
<1>4. PresentIsKnown'
  BY DEF TypeOK, SetupState, Dialled, PresentIsKnown, Alone, Rivals, InSetup
<1>5. ReleaseIsLate'
  BY DEF Dialled, ReleaseIsLate, InFlight
<1>6. OnItsWay'
  BY DEF TypeOK, SetupState, Dialled, OnItsWay, Due, Resolved, ReleaseIsLate,
         InFlight, PresentIsKnown, Alone, Rivals
<1>7. CachedChannelLives'
  BY DEF Dialled, CachedChannelLives
<1>8. OrderlyExitDelivers'
  BY DEF Dialled, OrderlyExitDelivers
<1>. QED BY <1>1, <1>2, <1>3, <1>4, <1>5, <1>6, <1>7, <1>8 DEF IInv

LEMMA ChannelOpenedKeeps ==
  ASSUME IInv, NEW r \in Reqs, ChannelOpened(r)
  PROVE  IInv'
<1>. USE DEF IInv
<1>1. TypeOK'
  BY DEF TypeOK, ChannelOpened
<1>2. SetupState'
  BY DEF SetupState, ChannelOpened
<1>3. Alone'
  BY DEF ChannelOpened, Alone, Rivals
<1>4. PresentIsKnown'
  BY DEF TypeOK, ChannelOpened, PresentIsKnown, Alone, Rivals, InSetup
<1>5. ReleaseIsLate'
  BY DEF ChannelOpened, ReleaseIsLate, InFlight
<1>6. OnItsWay'
  BY DEF ChannelOpened, OnItsWay, Due, Resolved
<1>7. CachedChannelLives'
  BY DEF ChannelOpened, CachedChannelLives
<1>8. OrderlyExitDelivers'
  BY DEF ChannelOpened, OrderlyExitDelivers
<1>. QED BY <1>1, <1>2, <1>3, <1>4, <1>5, <1>6, <1>7, <1>8 DEF IInv

LEMMA SetupFailsKeeps ==
  ASSUME IInv, NEW r \in Reqs, SetupFails(r)
  PROVE  IInv'
<1>. USE DEF IInv
<1>1. TypeOK'
  BY DEF TypeOK, SetupFails
<1>2. SetupState'
  BY DEF SetupState, SetupFails
<1>3. Alone'
  BY DEF SetupFails, Alone, Rivals
<1>4. PresentIsKnown'
  BY DEF SetupFails, PresentIsKnown, InSetup
<1>5. ReleaseIsLate'
  BY DEF SetupFails, ReleaseIsLate, InFlight
<1>6. OnItsWay'
  BY DEF TypeOK, SetupFails, OnItsWay, Due, Resolved, ReleaseIsLate,
         InFlight, PresentIsKnown, Alone, Rivals
<1>7. CachedChannelLives'
  BY DEF SetupFails, CachedChannelLives
<1>8. OrderlyExitDelivers'
  BY DEF SetupFails, OrderlyExitDelivers
<1>. QED BY <1>1, <1>2, <1>3, <1>4, <1>5, <1>6, <1>7, <1>8 DEF IInv

LEMMA AssertAnsweredKeeps ==
  ASSUME IInv, NEW r \in Reqs, AssertAnswered(r)
  PROVE  IInv'
<1>. USE DEF IInv
<1>1. TypeOK'
  <2>1. conn' \in [Conns -> Connection]
    <3>1. CASE connection = None
      BY <3>1 DEF AssertAnswered, TypeOK
    <3>2. CASE connection # None
      <4>1. connection \in Conns /\ conn[connection] \in Connection
        BY <3>2 DEF TypeOK
      <4>2. [conn[connection] EXCEPT !.heard = TRUE] \in Connection
        BY <4>1
      <4>. QED BY <3>2, <4>1, <4>2 DEF AssertAnswered, HeardNow, TypeOK
    <3>. QED BY <3>1, <3>2
  <2>2. req' \in [Reqs -> Request]
    BY DEF TypeOK, AssertAnswered, Send, HeardNow
  <2>3. sent' \in [Reqs -> Conns \cup {None}] /\ arrived' \subseteq Reqs
    BY DEF TypeOK, AssertAnswered, Send, HeardNow
  <2>4. (\A q \in Reqs : SettingUp(q) => req[q].conn # None)'
    BY DEF TypeOK, AssertAnswered, Send, HeardNow
  <2>5. (\A p, q \in Reqs :
           SettingUp(p) /\ SettingUp(q) /\ req[p].conn = req[q].conn => p = q)'
    BY DEF TypeOK, AssertAnswered, Send, HeardNow
  <2>. QED BY <2>1, <2>2, <2>3, <2>4, <2>5 DEF TypeOK, AssertAnswered
<1>2. SetupState'
  <2>1. (\A q \in Reqs :
           req[q].conn # None => conn[req[q].conn].state # "new")'
    BY DEF SetupState, AssertAnswered, Send, HeardNow
  <2>2. (\A q \in Reqs :
           req[q].pc = "connect" => conn[req[q].conn].state = "dialing")'
    BY DEF SetupState, AssertAnswered, Send, HeardNow
  <2>3. (\A q \in Reqs : req[q].pc \in {"channel", "assert"} =>
           conn[req[q].conn].state \in {"open", "closing", "closed"})'
    BY DEF SetupState, AssertAnswered, Send, HeardNow
  <2>4. (\A d \in deaf : conn[d].state = "closed" /\ d \in hurt)'
    BY DEF SetupState, AssertAnswered, Send, HeardNow
  <2>. QED BY <2>1, <2>2, <2>3, <2>4 DEF SetupState
<1>3. Alone'
  BY DEF AssertAnswered, Send, HeardNow, Alone, Rivals
<1>4. PresentIsKnown'
  <2>1. (\A d \in Conns : IsOpen(d) /\ d \notin overlapped => connection = d)'
    BY DEF AssertAnswered, Send, HeardNow, PresentIsKnown, InSetup
  <2>2. (\A d \in Conns : /\ conn[d].state \in {"open", "closing"}
                         /\ d \notin overlapped
                         /\ ~conn[d].heard
                         => InSetup(d))'
    BY DEF TypeOK, AssertAnswered, Send, HeardNow, PresentIsKnown, InSetup
  <2>3. (\A q \in Reqs : /\ req[q].pc = "assert"
                        /\ IsOpen(req[q].conn)
                        /\ req[q].conn \notin overlapped
                        => channel = req[q].conn)'
    BY DEF AssertAnswered, Send, HeardNow, PresentIsKnown, InSetup
  <2>. QED BY <2>1, <2>2, <2>3 DEF PresentIsKnown
<1>5. ReleaseIsLate'
  BY DEF AssertAnswered, Send, HeardNow, ReleaseIsLate, InFlight
<1>6. OnItsWay'
  BY DEF TypeOK, AssertAnswered, Send, HeardNow, OnItsWay, Due, Resolved,
         ReleaseIsLate, InFlight, PresentIsKnown, Alone, Rivals
<1>7. CachedChannelLives'
  BY DEF AssertAnswered, Send, HeardNow, CachedChannelLives
<1>8. OrderlyExitDelivers'
  BY DEF AssertAnswered, Send, HeardNow, OrderlyExitDelivers
<1>. QED BY <1>1, <1>2, <1>3, <1>4, <1>5, <1>6, <1>7, <1>8 DEF IInv

LEMMA ClientLeavesKeeps ==
  ASSUME IInv, NEW r \in Reqs, ClientLeaves(r)
  PROVE  IInv'
<1>. USE DEF IInv
<1>1. TypeOK'
  <2>1. req' \in [Reqs -> Request]
    <3>1. req[r] \in Request
      BY DEF TypeOK
    <3>2. [req[r] EXCEPT !.client = FALSE] \in Request
      BY <3>1
    <3>. QED BY <3>2 DEF TypeOK, ClientLeaves
  <2>2. (\A p, q \in Reqs :
           SettingUp(p) /\ SettingUp(q) /\ req[p].conn = req[q].conn => p = q)'
    BY DEF TypeOK, ClientLeaves
  <2>. QED BY <2>1, <2>2 DEF TypeOK, ClientLeaves
<1>2. SetupState'
  BY DEF SetupState, ClientLeaves
<1>3. Alone'
  BY DEF ClientLeaves, Alone, Rivals
<1>4. PresentIsKnown'
  BY DEF ClientLeaves, PresentIsKnown, InSetup
<1>5. ReleaseIsLate'
  BY DEF ClientLeaves, ReleaseIsLate, InFlight
<1>6. OnItsWay'
  BY DEF ClientLeaves, OnItsWay, Due, Resolved
<1>7. CachedChannelLives'
  BY DEF ClientLeaves, CachedChannelLives
<1>8. OrderlyExitDelivers'
  BY DEF ClientLeaves, OrderlyExitDelivers
<1>. QED BY <1>1, <1>2, <1>3, <1>4, <1>5, <1>6, <1>7, <1>8 DEF IInv

LEMMA ArriveKeeps == ASSUME IInv, NEW r \in Reqs, Arrive(r) PROVE IInv'
<1>. USE DEF IInv
<1>1. TypeOK'
  BY DEF TypeOK, Arrive
<1>2. SetupState'
  <2>1. (\A q \in Reqs :
           req[q].conn # None => conn[req[q].conn].state # "new")'
    BY DEF SetupState, Arrive
  <2>2. (\A q \in Reqs :
           req[q].pc = "connect" => conn[req[q].conn].state = "dialing")'
    BY DEF SetupState, Arrive
  <2>3. (\A q \in Reqs : req[q].pc \in {"channel", "assert"} =>
           conn[req[q].conn].state \in {"open", "closing", "closed"})'
    BY DEF SetupState, Arrive
  <2>4. (\A d \in deaf : conn[d].state = "closed" /\ d \in hurt)'
    BY DEF SetupState, Arrive
  <2>. QED BY <2>1, <2>2, <2>3, <2>4 DEF SetupState
<1>3. Alone'
  BY DEF Arrive, Alone, Rivals
<1>4. PresentIsKnown'
  BY DEF Arrive, PresentIsKnown, InSetup
<1>5. ReleaseIsLate'
  BY DEF Arrive, ReleaseIsLate, InFlight
<1>6. OnItsWay'
  BY DEF Arrive, OnItsWay, Due, Resolved
<1>7. CachedChannelLives'
  BY DEF Arrive, CachedChannelLives
<1>8. OrderlyExitDelivers'
  BY DEF Arrive, OrderlyExitDelivers
<1>. QED BY <1>1, <1>2, <1>3, <1>4, <1>5, <1>6, <1>7, <1>8 DEF IInv

LEMMA BrokerClosesKeeps ==
  ASSUME IInv, NEW c \in Conns, BrokerCloses(c)
  PROVE  IInv'
<1>. USE DEF IInv
<1>1. TypeOK'
  BY DEF TypeOK, BrokerCloses, Breaks, OnClose
<1>2. SetupState'
  BY DEF TypeOK, SetupState, BrokerCloses, Breaks, OnClose
<1>3. Alone'
  BY DEF BrokerCloses, Breaks, OnClose, Alone, Rivals
<1>4. PresentIsKnown'
  BY DEF TypeOK, BrokerCloses, Breaks, OnClose, PresentIsKnown, Alone,
         Rivals, InSetup
<1>5. ReleaseIsLate'
  BY DEF BrokerCloses, Breaks, OnClose, ReleaseIsLate, InFlight
<1>6. OnItsWay'
  BY DEF BrokerCloses, Breaks, OnClose, OnItsWay, Due, Resolved
<1>7. CachedChannelLives'
  BY DEF BrokerCloses, Breaks, OnClose, CachedChannelLives
<1>8. OrderlyExitDelivers'
  BY DEF BrokerCloses, Breaks, OnClose, OrderlyExitDelivers
<1>. QED BY <1>1, <1>2, <1>3, <1>4, <1>5, <1>6, <1>7, <1>8 DEF IInv

LEMMA SocketFailsKeeps ==
  ASSUME IInv, NEW c \in Conns, SocketFails(c)
  PROVE  IInv'
<1>. USE DEF IInv
<1>1. TypeOK'
  BY DEF TypeOK, SocketFails, Breaks, OnClose
<1>2. SetupState'
  BY DEF TypeOK, SetupState, SocketFails, Breaks, OnClose
<1>3. Alone'
  BY DEF SocketFails, Breaks, OnClose, Alone, Rivals
<1>4. PresentIsKnown'
  BY DEF TypeOK, SocketFails, Breaks, OnClose, PresentIsKnown, Alone, Rivals,
         InSetup
<1>5. ReleaseIsLate'
  BY DEF SocketFails, Breaks, OnClose, ReleaseIsLate, InFlight
<1>6. OnItsWay'
  BY DEF SocketFails, Breaks, OnClose, OnItsWay, Due, Resolved
<1>7. CachedChannelLives'
  BY DEF SocketFails, Breaks, OnClose, CachedChannelLives
<1>8. OrderlyExitDelivers'
  BY DEF SocketFails, Breaks, OnClose, OrderlyExitDelivers
<1>. QED BY <1>1, <1>2, <1>3, <1>4, <1>5, <1>6, <1>7, <1>8 DEF IInv

LEMMA CloseAnsweredKeeps ==
  ASSUME IInv, NEW c \in Conns, CloseAnswered(c)
  PROVE  IInv'
<1>. USE DEF IInv
<1>1. TypeOK'
  BY DEF TypeOK, CloseAnswered
<1>2. SetupState'
  BY DEF SetupState, CloseAnswered
<1>3. Alone'
  BY DEF CloseAnswered, Alone, Rivals
<1>4. PresentIsKnown'
  BY DEF TypeOK, CloseAnswered, PresentIsKnown, Alone, Rivals, InSetup
<1>5. ReleaseIsLate'
  <2>1. (server \in {"listening", "draining"} =>
           \A d \in Conns : /\ conn[d].state # "closing"
                            /\ conn[d].state = "closed" => d \in hurt)'
    <3>1. server \notin {"listening", "draining"}
      BY DEF CloseAnswered, ReleaseIsLate
    <3>. QED BY <3>1 DEF CloseAnswered
  <2>2. (\A q \in Reqs : InFlight(q) /\ req[q].client =>
           server \notin {"releasing", "exited"})'
    BY DEF CloseAnswered, ReleaseIsLate, InFlight
  <2>. QED BY <2>1, <2>2 DEF ReleaseIsLate
<1>6. OnItsWay'
  BY DEF CloseAnswered, OnItsWay, Due, Resolved
<1>7. CachedChannelLives'
  BY DEF CloseAnswered, CachedChannelLives
<1>8. OrderlyExitDelivers'
  BY DEF CloseAnswered, OrderlyExitDelivers
<1>. QED BY <1>1, <1>2, <1>3, <1>4, <1>5, <1>6, <1>7, <1>8 DEF IInv

LEMMA SignalKeeps == ASSUME IInv, Signal PROVE IInv'
<1>. USE DEF IInv
<1>1. TypeOK'
  BY DEF TypeOK, Signal
<1>2. SetupState'
  <2>1. (\A q \in Reqs :
           req[q].conn # None => conn[req[q].conn].state # "new")'
    BY DEF SetupState, Signal
  <2>2. (\A q \in Reqs :
           req[q].pc = "connect" => conn[req[q].conn].state = "dialing")'
    BY DEF SetupState, Signal
  <2>3. (\A q \in Reqs : req[q].pc \in {"channel", "assert"} =>
           conn[req[q].conn].state \in {"open", "closing", "closed"})'
    BY DEF SetupState, Signal
  <2>4. (\A d \in deaf : conn[d].state = "closed" /\ d \in hurt)'
    BY DEF SetupState, Signal
  <2>. QED BY <2>1, <2>2, <2>3, <2>4 DEF SetupState
<1>3. Alone'
  BY DEF Signal, Alone, Rivals
<1>4. PresentIsKnown'
  <2>1. (\A d \in Conns : IsOpen(d) /\ d \notin overlapped => connection = d)'
    BY DEF Signal, PresentIsKnown, InSetup
  <2>2. (\A d \in Conns : /\ conn[d].state \in {"open", "closing"}
                         /\ d \notin overlapped
                         /\ ~conn[d].heard
                         => InSetup(d))'
    BY DEF Signal, PresentIsKnown, InSetup
  <2>3. (\A q \in Reqs : /\ req[q].pc = "assert"
                        /\ IsOpen(req[q].conn)
                        /\ req[q].conn \notin overlapped
                        => channel = req[q].conn)'
    BY DEF Signal, PresentIsKnown, InSetup
  <2>. QED BY <2>1, <2>2, <2>3 DEF PresentIsKnown
<1>5. ReleaseIsLate'
  BY DEF Signal, ReleaseIsLate, InFlight
<1>6. OnItsWay'
  BY DEF Signal, OnItsWay, Due, Resolved
<1>7. CachedChannelLives'
  BY DEF Signal, CachedChannelLives
<1>8. OrderlyExitDelivers'
  BY DEF Signal, OrderlyExitDelivers
<1>. QED BY <1>1, <1>2, <1>3, <1>4, <1>5, <1>6, <1>7, <1>8 DEF IInv

LEMMA SignalAgainKeeps == ASSUME IInv, SignalAgain PROVE IInv'
<1>. USE DEF IInv
<1>1. TypeOK'
  BY DEF TypeOK, SignalAgain, Disconnect, ToClose
<1>0. \A c \in Conns :
        \/ conn'[c].state = conn[c].state
        \/ conn[c].state = "open" /\ conn'[c].state = "closing"
  BY DEF TypeOK, SignalAgain, Disconnect, ToClose
<1>2. SetupState'
  <2>1. UNCHANGED <<req, hurt, deaf>>
    BY DEF SignalAgain
  <2>. QED BY <1>0, <2>1 DEF TypeOK, SetupState
<1>3. Alone'
  <2>1. UNCHANGED overlapped
    BY DEF SignalAgain
  <2>. QED BY <1>0, <2>1 DEF Alone, Rivals
<1>4. PresentIsKnown'
  BY DEF TypeOK, SignalAgain, Disconnect, ToClose, PresentIsKnown, InSetup
<1>5. ReleaseIsLate'
  BY DEF SignalAgain, Disconnect, ToClose, ReleaseIsLate, InFlight
<1>6. OnItsWay'
  BY DEF TypeOK, SignalAgain, Disconnect, ToClose, OnItsWay, Due, Resolved
<1>7. CachedChannelLives'
  BY DEF SignalAgain, Disconnect, ToClose, CachedChannelLives
<1>8. OrderlyExitDelivers'
  BY DEF SignalAgain, Disconnect, ToClose, OrderlyExitDelivers
<1>. QED BY <1>1, <1>2, <1>3, <1>4, <1>5, <1>6, <1>7, <1>8 DEF IInv

LEMMA ReleaseKeeps == ASSUME IInv, Release PROVE IInv'
<1>. USE DEF IInv
<1>1. TypeOK'
  BY DEF TypeOK, Release, Disconnect, ToClose, Drained
<1>2. SetupState'
  BY DEF SetupState, Release, Disconnect, ToClose, Drained
<1>3. Alone'
  BY DEF Release, Disconnect, ToClose, Drained, Alone, Rivals
<1>4. PresentIsKnown'
  BY DEF TypeOK, Release, Disconnect, ToClose, Drained, PresentIsKnown,
         InSetup
<1>5. ReleaseIsLate'
  BY DEF Release, Disconnect, ToClose, Drained, ReleaseIsLate, InFlight
<1>6. OnItsWay'
  <2>1. (\A q \in Reqs : req[q].event => req[q].conn # None)'
    BY DEF Release, Disconnect, ToClose, Drained, OnItsWay, Due, Resolved
  <2>2. /\ (\A q \in Reqs : SettingUp(q) => req[q].event)'
        /\ (\A q \in Reqs : req[q].pc \in {"new", "work"} => ~req[q].event)'
    BY DEF Release, Disconnect, ToClose, Drained, OnItsWay, Due, Resolved
  <2>3. (\A q \in Reqs : Due(q) /\ ~Resolved(q) =>
           /\ sent[q] = req[q].conn
           /\ conn[req[q].conn].state \in {"open", "closing"})'
    BY DEF Release, Disconnect, ToClose, Drained, OnItsWay, Due, Resolved
  <2>4. (server = "releasing" /\ ~repeated =>
           \A q \in Reqs : Due(q) /\ ~Resolved(q) =>
             awaits = {req[q].conn} /\ conn[req[q].conn].state = "closing")'
    <3>1. SUFFICES ASSUME ~repeated, NEW q \in Reqs, Due(q), ~Resolved(q)
                   PROVE  /\ awaits' = {req[q].conn}
                          /\ conn'[req[q].conn].state = "closing"
      BY DEF Release, Due, Resolved
    <3>2. req[q].conn \in Conns /\ req[q].conn \notin overlapped
      BY <3>1 DEF OnItsWay, Due, Resolved, TypeOK
    <3>3. conn[req[q].conn].state = "open"
      BY <3>1, <3>2 DEF OnItsWay, ReleaseIsLate, Release
    <3>4. ToClose = req[q].conn
      BY <3>2, <3>3 DEF PresentIsKnown, ToClose
    <3>5. awaits = {}
      BY DEF Release, TypeOK
    <3>6. req[q].conn # None
      BY <3>2
    <3>. QED BY <3>1, <3>2, <3>4, <3>5, <3>6 DEF Release, Disconnect, TypeOK
  <2>. QED BY <2>1, <2>2, <2>3, <2>4 DEF OnItsWay
<1>7. CachedChannelLives'
  BY DEF Release, Disconnect, ToClose, Drained, CachedChannelLives
<1>8. OrderlyExitDelivers'
  BY DEF Release, Disconnect, ToClose, Drained, OrderlyExitDelivers
<1>. QED BY <1>1, <1>2, <1>3, <1>4, <1>5, <1>6, <1>7, <1>8 DEF IInv

LEMMA ExitKeeps == ASSUME IInv, Exit PROVE IInv'
<1>. USE DEF IInv
<1>1. TypeOK'
  BY DEF TypeOK, Exit
<1>2. SetupState'
  BY DEF SetupState, Exit
<1>3. Alone'
  BY DEF Exit, Alone, Rivals
<1>4. PresentIsKnown'
  BY DEF Exit, PresentIsKnown, InSetup
<1>5. ReleaseIsLate'
  BY DEF Exit, ReleaseIsLate, InFlight
<1>6. OnItsWay'
  BY DEF Exit, OnItsWay, Due, Resolved
<1>7. CachedChannelLives'
  BY DEF Exit, CachedChannelLives
<1>8. OrderlyExitDelivers'
  <2>1. SUFFICES ASSUME ~repeated, NEW q \in Reqs, req[q].event, req[q].client
                 PROVE  Resolved(q)
    BY DEF Exit, OrderlyExitDelivers, Resolved
  <2>2. Due(q)
    BY <2>1 DEF ReleaseIsLate, InFlight, Due, Exit, OnItsWay, TypeOK
  <2>3. ASSUME ~Resolved(q) PROVE FALSE
    <3>1. /\ awaits = {req[q].conn} /\ req[q].conn # None
          /\ conn[req[q].conn].state = "closing"
      BY <2>1, <2>2, <2>3 DEF OnItsWay, Exit
    <3>. QED BY <3>1 DEF Exit
  <2>. QED BY <2>3
<1>. QED BY <1>1, <1>2, <1>3, <1>4, <1>5, <1>6, <1>7, <1>8 DEF IInv

LEMMA ForceExitKeeps == ASSUME IInv, ForceExit PROVE IInv'
<1>. USE DEF IInv
<1>1. TypeOK'
  BY DEF TypeOK, ForceExit
<1>2. SetupState'
  BY DEF SetupState, ForceExit
<1>3. Alone'
  BY DEF ForceExit, Alone, Rivals
<1>4. PresentIsKnown'
  BY DEF ForceExit, PresentIsKnown, InSetup
<1>5. ReleaseIsLate'
  BY DEF ForceExit, ReleaseIsLate, InFlight
<1>6. OnItsWay'
  BY DEF ForceExit, OnItsWay, Due, Resolved
<1>7. CachedChannelLives'
  BY DEF ForceExit, CachedChannelLives
<1>8. OrderlyExitDelivers'
  BY DEF ForceExit, OrderlyExitDelivers
<1>. QED BY <1>1, <1>2, <1>3, <1>4, <1>5, <1>6, <1>7, <1>8 DEF IInv

-----------------------------------------------------------------------------
LEMMA Initially == Init => IInv
<1>. SUFFICES ASSUME Init PROVE IInv
  OBVIOUS
<1>1. TypeOK /\ SetupState /\ Alone
  BY DEF Init, TypeOK, SetupState, Alone, Rivals
<1>2. PresentIsKnown /\ ReleaseIsLate
  BY DEF Init, PresentIsKnown, InSetup, ReleaseIsLate, InFlight
<1>3. OnItsWay /\ CachedChannelLives /\ OrderlyExitDelivers
  BY DEF Init, OnItsWay, Due, Resolved, CachedChannelLives, OrderlyExitDelivers
<1>. QED BY <1>1, <1>2, <1>3 DEF IInv

LEMMA Inductive == IInv /\ [Next]_vars => IInv'
<1>. SUFFICES ASSUME IInv, [Next]_vars PROVE IInv'
  OBVIOUS
<1>1. ASSUME NEW r \in Reqs, Serve(r) PROVE IInv'
  BY <1>1, AcceptKeeps, NothingToPublishKeeps, CommitAndSendKeeps,
     CommitAndDialKeeps, RefusedKeeps, DialledKeeps, ChannelOpenedKeeps,
     SetupFailsKeeps, AssertAnsweredKeeps, ClientLeavesKeeps, ArriveKeeps
     DEF Serve
<1>2. ASSUME NEW c \in Conns, Wire(c) PROVE IInv'
  BY <1>2, BrokerClosesKeeps, SocketFailsKeeps, CloseAnsweredKeeps DEF Wire
<1>3. CASE Shutdown
  BY <1>3, SignalKeeps, SignalAgainKeeps, ReleaseKeeps, ExitKeeps,
     ForceExitKeeps
     DEF Shutdown
<1>4. CASE UNCHANGED vars
  BY <1>4 DEF IInv, TypeOK, SetupState, Alone, Rivals, PresentIsKnown, InSetup,
              ReleaseIsLate, InFlight, OnItsWay, Due, Resolved,
              CachedChannelLives, OrderlyExitDelivers
<1>. QED BY <1>1, <1>2, <1>3, <1>4 DEF Next

LEMMA Invariance == Spec => []IInv
BY Initially, Inductive, PTL DEF Spec

(* Whatever requests, connections, broker and signals do, the process and  *)
(* the state of rabbitmq.ts keep their types.                              *)
THEOREM TypeCorrect == Spec => []TypeOK
BY Invariance, PTL DEF IInv

(* However many requests there are, an orderly exit leaves no event behind *)
(* whose client waited, but on a connection that failed or overlapped.     *)
THEOREM OrderlyExit == Spec => []OrderlyExitDelivers
BY Invariance, PTL DEF IInv

(* The channel kept in rabbitmq.ts is open, or its connection was lost     *)
(* before its listeners were attached.                                     *)
THEOREM ChannelLives == Spec => []CachedChannelLives
BY Invariance, PTL DEF IInv

(* disconnectQueue can close every open connection that has always been    *)
(* alone.                                                                  *)
THEOREM NoOtherLeaks == Spec => []LeaksOnlyByOverlap
<1>1. IInv => LeaksOnlyByOverlap
  BY DEF IInv, PresentIsKnown, LeaksOnlyByOverlap
<1>. QED BY Invariance, <1>1, PTL

(* A socket error ends the process only during connectQueue or on a        *)
(* connection that was not alone.                                          *)
THEOREM NoOtherCrash == Spec => CrashesOnlyWhileConnecting
<1> DEFINE Known == \E c \in Conns : /\ conn'[c].state # conn[c].state
                                     /\ InSetup(c) \/ c \in overlapped
<1>1. ASSUME IInv, Next, server # "crashed", server' = "crashed" PROVE Known
  <2>1. PICK c \in Conns : SocketFails(c)
    BY <1>1 DEF Next, Serve, Wire, Shutdown, Accept, NothingToPublish,
                CommitAndSend, CommitAndDial, Refused, Dialled, ChannelOpened,
                SetupFails, AssertAnswered, ClientLeaves, Arrive, BrokerCloses,
                CloseAnswered, Signal, SignalAgain, Release, Exit, ForceExit
  <2>2. ~conn[c].heard /\ conn[c].state \in {"open", "closing"}
    BY <1>1, <2>1 DEF SocketFails, Breaks
  <2>3. InSetup(c) \/ c \in overlapped
    BY <1>1, <2>2 DEF IInv, PresentIsKnown
  <2>4. conn'[c].state = "closed"
    BY <1>1, <2>1 DEF SocketFails, Breaks, IInv, TypeOK
  <2>. QED BY <2>2, <2>3, <2>4
<1>2. IInv /\ [Next]_vars =>
        [server # "crashed" /\ server' = "crashed" => Known]_vars
  BY <1>1
<1>. QED BY Invariance, <1>2, PTL DEF Spec, CrashesOnlyWhileConnecting

-----------------------------------------------------------------------------
(* While no connection has been refused or has broken, whoever waits for   *)
(* an answer finds a connection and a channel, and is answered only after  *)
(* its event was written.                                                  *)
Sending ==
    hurt = {} =>
      \A r \in Reqs : req[r].client =>
        /\ req[r].pc \in {"channel", "assert"} => connection # None
        /\ req[r].pc = "assert" => channel # None
        /\ req[r].pc = "done" /\ req[r].event => sent[r] # None

LEMMA ServeSends == IInv /\ Sending /\ (\E r \in Reqs : Serve(r)) => Sending'
<1>. SUFFICES ASSUME IInv, Sending, NEW r \in Reqs, Serve(r), hurt' = {},
                     NEW q \in Reqs, req'[q].client
              PROVE  /\ req'[q].pc \in {"channel", "assert"} => connection' # None
                     /\ req'[q].pc = "assert" => channel' # None
                     /\ req'[q].pc = "done" /\ req'[q].event => sent'[q] # None
  BY DEF Sending
<1>. USE DEF IInv, Sending
<1>0. req \in [Reqs -> Request] /\ sent \in [Reqs -> Conns \cup {None}]
  BY DEF TypeOK
<1>1. CASE Accept(r)
  BY <1>0, <1>1 DEF Accept
<1>10. CASE ClientLeaves(r)
  BY <1>0, <1>10 DEF ClientLeaves
<1>11. CASE Arrive(r)
  BY <1>11 DEF Arrive
<1>2. CASE NothingToPublish(r)
  BY <1>0, <1>2 DEF NothingToPublish, OnItsWay
<1>3. CASE CommitAndSend(r)
  <2>1. hurt = {} /\ deaf = {}
    BY <1>3 DEF CommitAndSend, SetupState
  <2>2. channel # None /\ IsOpen(channel) /\ channel \in Conns
    BY <1>3, <2>1 DEF CommitAndSend, CachedChannelLives, TypeOK
  <2>. QED BY <1>0, <1>3, <2>1, <2>2 DEF CommitAndSend, Send
<1>4. CASE CommitAndDial(r)
  BY <1>0, <1>4 DEF CommitAndDial
<1>5. CASE Refused(r)
  BY <1>5 DEF Refused
<1>6. CASE Dialled(r)
  <2>1. req[r].conn \in Conns
    BY <1>0, <1>6 DEF Dialled, TypeOK
  <2>. QED BY <1>0, <1>6, <2>1 DEF Dialled
<1>7. CASE ChannelOpened(r)
  <2>1. req[r].conn \in Conns
    BY <1>0, <1>7 DEF ChannelOpened, TypeOK
  <2>. QED BY <1>0, <1>7, <2>1 DEF ChannelOpened
<1>8. CASE SetupFails(r)
  <2>1. req[r].conn \in Conns /\ InFlight(r)
    BY <1>8 DEF SetupFails, TypeOK, InFlight
  <2>2. ~req[r].client
    BY <1>8, <2>1 DEF SetupFails, ReleaseIsLate
  <2>. QED BY <1>0, <1>8, <2>2 DEF SetupFails
<1>9. CASE AssertAnswered(r)
  <2>1. hurt = {} /\ deaf = {}
    BY <1>9 DEF AssertAnswered, SetupState
  <2>2. ASSUME q = r PROVE sent'[q] # None
    <3>1. connection # None /\ channel # None
      BY <1>0, <1>9, <2>1, <2>2 DEF AssertAnswered
    <3>2. IsOpen(channel) /\ channel \in Conns
      BY <1>9, <2>1, <3>1 DEF AssertAnswered, CachedChannelLives, TypeOK
    <3>. QED BY <1>0, <1>9, <2>2, <3>1, <3>2 DEF AssertAnswered, Send
  <2>3. q # r => req'[q] = req[q] /\ sent'[q] = sent[q]
    BY <1>0, <1>9 DEF AssertAnswered, Send
  <2>4. q = r => req'[q].pc = "done"
    BY <1>0, <1>9 DEF AssertAnswered
  <2>. QED BY <1>9, <2>1, <2>2, <2>3, <2>4 DEF AssertAnswered
<1>. QED BY <1>1, <1>2, <1>3, <1>4, <1>5, <1>6, <1>7, <1>8, <1>9,
             <1>10, <1>11
         DEF Serve

LEMMA OthersSend == IInv /\ Sending /\ (Shutdown \/ \E c \in Conns : Wire(c)) => Sending'
<1>. SUFFICES ASSUME IInv, Sending, Shutdown \/ \E c \in Conns : Wire(c)
              PROVE  Sending'
  OBVIOUS
<1>1. CASE Signal \/ Exit \/ ForceExit
  BY <1>1 DEF Sending, Signal, Exit, ForceExit
<1>2. CASE SignalAgain \/ Release
  <2>1. \A r \in Reqs : InFlight(r) /\ req[r].client => channel' = channel
    BY <1>2 DEF IInv, ReleaseIsLate, SignalAgain, Release, Drained
  <2>2. UNCHANGED <<connection, hurt, req, sent>>
    BY <1>2 DEF SignalAgain, Release
  <2>. QED BY <2>1, <2>2 DEF Sending, InFlight
<1>3. ASSUME NEW c \in Conns, BrokerCloses(c) \/ SocketFails(c) PROVE Sending'
  <2>1. hurt' # {}
    BY <1>3 DEF BrokerCloses, SocketFails, Breaks
  <2>. QED BY <2>1 DEF Sending
<1>4. ASSUME NEW c \in Conns, CloseAnswered(c) PROVE Sending'
  <2>1. \A r \in Reqs : InFlight(r) => ~req[r].client
    BY <1>4 DEF IInv, ReleaseIsLate, CloseAnswered, Alive
  <2>. QED BY <1>4, <2>1 DEF Sending, CloseAnswered, InFlight
<1>. QED BY <1>1, <1>2, <1>3, <1>4 DEF Shutdown, Wire

LEMMA AlwaysSending == Spec => []Sending
<1>1. Init => Sending
  BY DEF Init, Sending
<1>2. IInv /\ Sending /\ [Next]_vars => Sending'
  <2>1. Sending /\ UNCHANGED vars => Sending'
    BY DEF Sending
  <2>. QED BY <2>1, ServeSends, OthersSend DEF Next
<1>. QED BY <1>1, <1>2, Invariance, PTL DEF Spec

(* server.close waits for every client that stays, so a deploy loses the   *)
(* event of one only if a connection was refused or broke: whatever dials  *)
(* overlapped, whoever gave up and however often the process was told to   *)
(* stop, all the others were written to a connection.                      *)
SentWhileConnected ==
    server = "exited" /\ hurt = {} =>
      \A r \in Reqs : req[r].event /\ req[r].client => sent[r] # None

THEOREM WaitingClientsAreSent == Spec => []SentWhileConnected
<1>1. IInv /\ Sending => SentWhileConnected
  BY DEF IInv, Sending, SentWhileConnected, ReleaseIsLate, OnItsWay, InFlight
<1>. QED BY <1>1, Invariance, AlwaysSending, PTL

Undisturbed ==
    /\ hurt = {}
    /\ \A r \in Reqs : req[r].pc # "new" => req[r].client

(* "a notification is never lost to a deploy" where no client gives up and *)
(* no connection fails, even if the process is told twice to stop: the run *)
(* server_deploy shows what one client that gives up makes of it.          *)
THEOREM NothingLostUndisturbed ==
  ASSUME Faults \subseteq {"twice"}
  PROVE  Spec => []NotificationNeverLost
<1>1. Init => Undisturbed
  BY DEF Init, Undisturbed
<1>2. IInv /\ Undisturbed /\ [Next]_vars => Undisturbed'
  <2>. SUFFICES ASSUME IInv, Undisturbed, [Next]_vars PROVE Undisturbed'
    OBVIOUS
  <2>0. req \in [Reqs -> Request]
    BY DEF IInv, TypeOK
  <2>1. ASSUME NEW r \in Reqs, Serve(r) PROVE Undisturbed'
    <3> DEFINE Stay(q) == \/ req'[q] = req[q]
                          \/ req'[q].client /\ req[q].pc = "new"
                          \/ req'[q].client = req[q].client /\ req[q].pc # "new"
    <3>1. hurt' = hurt /\ \A q \in Reqs : Stay(q)
      <4>1. CASE Accept(r)
        BY <2>0, <4>1 DEF Accept
      <4>2. CASE NothingToPublish(r)
        BY <2>0, <4>2 DEF NothingToPublish
      <4>3. CASE CommitAndSend(r)
        BY <2>0, <4>3 DEF CommitAndSend
      <4>4. CASE CommitAndDial(r)
        BY <2>0, <4>4 DEF CommitAndDial
      <4>5. CASE Dialled(r)
        BY <2>0, <4>5 DEF Dialled
      <4>6. CASE ChannelOpened(r)
        BY <2>0, <4>6 DEF ChannelOpened
      <4>7. CASE SetupFails(r)
        BY <2>0, <4>7 DEF SetupFails
      <4>8. CASE AssertAnswered(r)
        BY <2>0, <4>8 DEF AssertAnswered
      <4>9. CASE Arrive(r)
        BY <4>9 DEF Arrive
      <4>10. ~Refused(r) /\ ~ClientLeaves(r)
        BY DEF Refused, ClientLeaves
      <4>. QED BY <2>1, <4>1, <4>2, <4>3, <4>4, <4>5, <4>6, <4>7, <4>8, <4>9,
                  <4>10
               DEF Serve
    <3>. QED BY <3>1 DEF Undisturbed
  <2>2. ASSUME NEW c \in Conns, Wire(c) PROVE Undisturbed'
    BY <2>2 DEF Wire, BrokerCloses, SocketFails, CloseAnswered, Undisturbed
  <2>3. CASE Shutdown
    BY <2>3 DEF Shutdown, Signal, SignalAgain, Release, Exit, ForceExit, Undisturbed
  <2>4. CASE UNCHANGED vars
    BY <2>4 DEF Undisturbed
  <2>. QED BY <2>1, <2>2, <2>3, <2>4 DEF Next
<1>3. /\ IInv /\ Undisturbed /\ SentWhileConnected => NotificationNeverLost
  BY DEF IInv, OnItsWay, Undisturbed, SentWhileConnected, NotificationNeverLost
<1>. QED BY <1>1, <1>2, <1>3, Invariance, WaitingClientsAreSent, PTL DEF Spec
=============================================================================
