---------------------------- MODULE ServerProcess ----------------------------
(***************************************************************************)
(* One server process: the requests that commit an assignment and publish  *)
(* it, the lazy connection of rabbitmq.ts they share, and the shutdown of  *)
(* server.ts.  connection and channel are the two module variables of      *)
(* rabbitmq.ts; a connection has at most one channel in use and stands for *)
(* it, so channel = c is the channel that was created on c.                *)
(*                                                                         *)
(* The HTTP server, amqplib and the broker are modelled from how this code *)
(* uses them: frames of a connection arrive in order or are lost with it,  *)
(* a call on a connection that is gone rejects, an 'error' event without a *)
(* listener is thrown, and a server that is closing calls back when no     *)
(* client is connected any more.                                           *)
(***************************************************************************)
EXTENDS FiniteSets

CONSTANTS
    Reqs,    \* requests the process ever serves
    Conns,   \* bound: connections it ever dials
    None,    \* null
    Faults   \* what may happen: see the actions that mention it

ASSUME NullAssumption == None \notin Conns

VARIABLES
    server,      \* the life of the process and of its shutdown
    repeated,    \* a second signal has come
    awaits,      \* closings the shutdown callbacks wait for, None: for none
    connection,  \* rabbitmq.ts
    channel,     \* rabbitmq.ts
    conn,        \* connection -> its state and whether it has its listeners
    req,         \* request -> how far its handler is
    sent,        \* request -> the connection its event was written to
    arrived,     \* requests whose event the broker has
    overlapped,  \* history: connections there was another one beside
    hurt,        \* history: connections that were refused or broke
    deaf         \* history: those that broke before they had listeners

shutdown == <<server, repeated, awaits>>
queue == <<connection, channel, conn, overlapped, hurt, deaf>>
events == <<sent, arrived>>
vars == <<shutdown, queue, req, events>>

-----------------------------------------------------------------------------
Connection == [state : {"new", "dialing", "open", "closing", "closed"},
               heard : BOOLEAN]

(* work: validation, queries and the write of the task; the others name    *)
(* the answer that connectQueue waits for.  event: an assignment is stored *)
(* that somebody must hear of.  client: it still waits for the answer.     *)
Request == [pc : {"new", "work", "connect", "channel", "assert", "done"},
            conn : Conns \cup {None}, event : BOOLEAN, client : BOOLEAN]

Alive == server \in {"listening", "draining", "releasing"}

IsOpen(c) == conn[c].state = "open"

SettingUp(r) == req[r].pc \in {"connect", "channel", "assert"}

InSetup(c) == \E r \in Reqs : SettingUp(r) /\ req[r].conn = c

(* The connections that a dial started now finds beside its own.           *)
Rivals == {c \in Conns : conn[c].state \in {"dialing", "open", "closing"}}

InFlight(r) == req[r].pc \notin {"new", "done"}

GoTo(r, pc) == req' = [req EXCEPT ![r].pc = pc]

(* sendToQueue throws without a channel and on one that is closed; the     *)
(* error is logged and the request answered all the same.                  *)
Send(r, c) ==
    /\ sent' = IF c # None /\ IsOpen(c) THEN [sent EXCEPT ![r] = c] ELSE sent
    /\ UNCHANGED arrived

-----------------------------------------------------------------------------
(* Requests and connectQueue                                               *)

(* A request on a new connection; those that a keep-alive connection sends *)
(* during the drain are left out.                                          *)
Accept(r) ==
    /\ server = "listening"
    /\ req[r].pc = "new"
    /\ req' = [req EXCEPT ![r] = [@ EXCEPT !.pc = "work", !.client = TRUE]]
    /\ UNCHANGED <<shutdown, queue, events>>

(* A request that stores no new assignee, or fails.                        *)
NothingToPublish(r) ==
    /\ Alive
    /\ req[r].pc = "work"
    /\ GoTo(r, "done")
    /\ UNCHANGED <<shutdown, queue, events>>

(* The write is answered and emitTaskAssigned finds a channel.             *)
CommitAndSend(r) ==
    /\ Alive
    /\ req[r].pc = "work"
    /\ channel # None
    /\ req' = [req EXCEPT ![r] = [@ EXCEPT !.pc = "done", !.event = TRUE,
                                           !.conn = channel]]
    /\ Send(r, channel)
    /\ UNCHANGED <<shutdown, queue>>

(* It finds none and dials.                                                *)
CommitAndDial(r) ==
    /\ Alive
    /\ req[r].pc = "work"
    /\ channel = None
    /\ \E c \in Conns :
         /\ conn[c].state = "new"
         /\ conn' = [conn EXCEPT ![c].state = "dialing"]
         /\ req' = [req EXCEPT ![r] = [@ EXCEPT !.pc = "connect", !.event = TRUE,
                                                !.conn = c]]
         /\ overlapped' = IF Rivals = {} THEN overlapped
                                         ELSE overlapped \cup Rivals \cup {c}
    /\ UNCHANGED <<shutdown, connection, channel, hurt, deaf, events>>

Refused(r) ==
    LET c == req[r].conn IN
    /\ Alive
    /\ "refuse" \in Faults
    /\ req[r].pc = "connect"
    /\ conn' = [conn EXCEPT ![c].state = "closed"]
    /\ hurt' = hurt \cup {c}
    /\ GoTo(r, "done")
    /\ UNCHANGED <<shutdown, connection, channel, overlapped, deaf, events>>

(* Mutant: connection is a local variable of connectQueue.                 *)
DialledLocally(r) ==
    /\ Alive
    /\ req[r].pc = "connect"
    /\ conn' = [conn EXCEPT ![req[r].conn].state = "open"]
    /\ GoTo(r, "channel")
    /\ UNCHANGED <<shutdown, connection, channel, overlapped, hurt, deaf, events>>

Dialled(r) ==
    LET c == req[r].conn IN
    /\ Alive
    /\ req[r].pc = "connect"
    /\ connection' = c
    /\ conn' = [conn EXCEPT ![c].state = "open"]
    /\ GoTo(r, "channel")
    /\ UNCHANGED <<shutdown, channel, overlapped, hurt, deaf, events>>

ChannelOpened(r) ==
    LET c == req[r].conn IN
    /\ Alive
    /\ req[r].pc = "channel"
    /\ IsOpen(c)
    /\ channel' = c
    /\ GoTo(r, "assert")
    /\ UNCHANGED <<shutdown, connection, conn, overlapped, hurt, deaf, events>>

(* createChannel or assertQueue rejects; what was assigned stays assigned. *)
SetupFails(r) ==
    /\ Alive
    /\ req[r].pc \in {"channel", "assert"}
    /\ conn[req[r].conn].state = "closed"
    /\ GoTo(r, "done")
    /\ UNCHANGED <<shutdown, queue, events>>

(* Mutant: the listeners are not attached.                                 *)
UnheardNow(c) == conn

(* connection.on('error'), connection.on('close')                          *)
HeardNow(c) == [conn EXCEPT ![c].heard = TRUE]

(* The listeners go to whatever connection is now, the event to whatever   *)
(* channel is now; without a connection .on throws.                        *)
AssertAnswered(r) ==
    /\ Alive
    /\ req[r].pc = "assert"
    /\ IsOpen(req[r].conn)
    /\ conn' = IF connection = None THEN conn ELSE HeardNow(connection)
    /\ Send(r, IF connection = None THEN None ELSE channel)
    /\ GoTo(r, "done")
    /\ UNCHANGED <<shutdown, connection, channel, overlapped, hurt, deaf>>

(* A client that goes away ends its connection, not its handler.           *)
ClientLeaves(r) ==
    /\ Alive
    /\ "abort" \in Faults
    /\ InFlight(r) /\ req[r].client
    /\ req' = [req EXCEPT ![r].client = FALSE]
    /\ UNCHANGED <<shutdown, queue, events>>

-----------------------------------------------------------------------------
(* The broker and the sockets                                              *)

Arrive(r) ==
    /\ sent[r] # None
    /\ conn[sent[r]].state \in {"open", "closing"}
    /\ arrived' = arrived \cup {r}
    /\ UNCHANGED <<shutdown, queue, req, sent>>

(* Mutant: the listener resets only connection.                            *)
ForgetConnection(c) ==
    /\ connection' = IF conn[c].heard THEN None ELSE connection
    /\ UNCHANGED channel

(* The 'close' listener, if there is one.                                  *)
OnClose(c) ==
    /\ channel' = IF conn[c].heard THEN None ELSE channel
    /\ connection' = IF conn[c].heard THEN None ELSE connection

Breaks(c) ==
    /\ conn[c].state \in {"open", "closing"}
    /\ conn' = [conn EXCEPT ![c].state = "closed"]
    /\ hurt' = hurt \cup {c}
    /\ deaf' = IF conn[c].heard THEN deaf ELSE deaf \cup {c}
    /\ OnClose(c)
    /\ UNCHANGED <<repeated, awaits, overlapped, req, events>>

(* The broker closes the connection, as when it is restarted.              *)
BrokerCloses(c) ==
    /\ Alive
    /\ "close" \in Faults
    /\ Breaks(c)
    /\ UNCHANGED server

(* "Without a handler an 'error' event crashes the whole Node process"     *)
SocketFails(c) ==
    /\ Alive
    /\ "error" \in Faults
    /\ Breaks(c)
    /\ server' = IF conn[c].heard THEN server ELSE "crashed"

-----------------------------------------------------------------------------
(* Shutdown                                                                *)

Signal ==
    /\ server = "listening"
    /\ server' = "draining"
    /\ UNCHANGED <<repeated, awaits, queue, req, events>>

(* What closing the present connection lets a callback wait for: without   *)
(* one, or with one that is closing or closed, there is nothing.           *)
ToClose == IF connection # None /\ IsOpen(connection) THEN connection ELSE None

(* disconnectQueue up to its await; others is what else a callback awaits. *)
Disconnect(others) ==
    /\ awaits' = awaits \cup {ToClose} \cup others
    /\ channel' = IF connection = None THEN channel ELSE None
    /\ conn' = IF ToClose = None THEN conn
                                 ELSE [conn EXCEPT ![ToClose].state = "closing"]

(* Mutant: the callback runs at once.                                      *)
NobodyAsks == TRUE

Drained == \A r \in Reqs : ~(InFlight(r) /\ req[r].client)

(* server.close calls back: no client is connected.  A second signal has   *)
(* left a second callback, which finds the connection closing.             *)
Release ==
    /\ server = "draining"
    /\ Drained
    /\ server' = "releasing"
    /\ Disconnect(IF repeated THEN {None} ELSE {})
    /\ UNCHANGED <<repeated, connection, overlapped, hurt, deaf, req, events>>

(* Mutant: the second signal does not wait for the drain.                  *)
SignalAgainAtOnce ==
    /\ "twice" \in Faults
    /\ ~repeated
    /\ repeated' = TRUE
    /\ server \in {"draining", "releasing"}
    /\ Disconnect({})
    /\ UNCHANGED <<server, connection, overlapped, hurt, deaf, req, events>>

(* SIGINT after SIGTERM: shutdown has no guard.                            *)
SignalAgain ==
    /\ "twice" \in Faults
    /\ ~repeated
    /\ repeated' = TRUE
    /\ \/ server = "draining" /\ UNCHANGED <<channel, conn, awaits>>
       \/ server = "releasing" /\ Disconnect({})
    /\ UNCHANGED <<server, connection, overlapped, hurt, deaf, req, events>>

(* The broker answers the close after every frame sent before it; then     *)
(* the listener runs and disconnectQueue resets connection.                *)
CloseAnswered(c) ==
    /\ Alive
    /\ conn[c].state = "closing"
    /\ \A r \in Reqs : sent[r] = c => r \in arrived
    /\ conn' = [conn EXCEPT ![c].state = "closed"]
    /\ connection' = None
    /\ channel' = IF conn[c].heard THEN None ELSE channel
    /\ UNCHANGED <<shutdown, overlapped, hurt, deaf, req, events>>

(* process.exit(0), once a callback has nothing to wait for.               *)
Exit ==
    /\ server = "releasing"
    /\ awaits \cap ({None} \cup {c \in Conns : conn[c].state = "closed"}) # {}
    /\ server' = "exited"
    /\ UNCHANGED <<repeated, awaits, queue, req, events>>

(* process.exit(1) after ten seconds                                       *)
ForceExit ==
    /\ server \in {"draining", "releasing"}
    /\ server' = "killed"
    /\ UNCHANGED <<repeated, awaits, queue, req, events>>

-----------------------------------------------------------------------------
Init ==
    /\ server = "listening"
    /\ repeated = FALSE
    /\ awaits = {}
    /\ connection = None
    /\ channel = None
    /\ conn = [c \in Conns |-> [state |-> "new", heard |-> FALSE]]
    /\ req = [r \in Reqs |-> [pc |-> "new", conn |-> None,
                              event |-> FALSE, client |-> FALSE]]
    /\ sent = [r \in Reqs |-> None]
    /\ arrived = {}
    /\ overlapped = {}
    /\ hurt = {}
    /\ deaf = {}

Serve(r) ==
    \/ Accept(r) \/ NothingToPublish(r) \/ CommitAndSend(r) \/ CommitAndDial(r)
    \/ Refused(r) \/ Dialled(r) \/ ChannelOpened(r) \/ SetupFails(r)
    \/ AssertAnswered(r) \/ ClientLeaves(r) \/ Arrive(r)

Wire(c) == BrokerCloses(c) \/ SocketFails(c) \/ CloseAnswered(c)

Shutdown == Signal \/ SignalAgain \/ Release \/ Exit \/ ForceExit

Next ==
    \/ \E r \in Reqs : Serve(r)
    \/ \E c \in Conns : Wire(c)
    \/ Shutdown

Spec == Init /\ [][Next]_vars

-----------------------------------------------------------------------------
(* Types of the process, its requests and its connections; a connection    *)
(* in setup is one request's, and nothing is closed before the release.    *)
TypeOK ==
    /\ server \in {"listening", "draining", "releasing", "exited", "killed", "crashed"}
    /\ repeated \in BOOLEAN
    /\ awaits \subseteq Conns \cup {None}
    /\ connection \in Conns \cup {None}
    /\ channel \in Conns \cup {None}
    /\ conn \in [Conns -> Connection]
    /\ req \in [Reqs -> Request]
    /\ sent \in [Reqs -> Conns \cup {None}]
    /\ arrived \subseteq Reqs
    /\ overlapped \subseteq Conns /\ hurt \subseteq Conns /\ deaf \subseteq Conns
    /\ \A r \in Reqs : SettingUp(r) => req[r].conn # None
    /\ \A r, q \in Reqs :
         SettingUp(r) /\ SettingUp(q) /\ req[r].conn = req[q].conn => r = q
    /\ server \in {"listening", "draining"} => awaits = {}

(* "Order matters: stop accepting requests first, then drain, then close   *)
(* clients": when the process has ended by itself after one signal, the    *)
(* broker has every event whose client waited for the answer, unless its   *)
(* connection was refused, broke, or had another one beside it.            *)
OrderlyExitDelivers ==
    server = "exited" /\ ~repeated =>
      \A r \in Reqs : req[r].event /\ req[r].client =>
        r \in arrived \/ req[r].conn \in overlapped \cup hurt

(* A channel kept for the requests to come is one they can send on: only a *)
(* connection lost before its listeners were attached leaves a dead one.   *)
CachedChannelLives ==
    Alive /\ channel # None => IsOpen(channel) \/ channel \in deaf

(* A socket error ends the process only while connectQueue is under way on *)
(* that connection, or when its listeners went to another one.             *)
CrashesOnlyWhileConnecting ==
    [][server # "crashed" /\ server' = "crashed" =>
         \E c \in Conns : /\ conn'[c].state # conn[c].state
                          /\ InSetup(c) \/ c \in overlapped]_vars

(* disconnectQueue knows the one connection there is: another can be open  *)
(* only if two requests dialled at once, or during the disconnect.         *)
LeaksOnlyByOverlap ==
    \A c \in Conns : Alive /\ IsOpen(c) => connection = c \/ c \in overlapped

(* "a notification is never lost to a deploy": the events of a process     *)
(* that ended by itself were sent.                                         *)
NotificationNeverLost ==
    server = "exited" => \A r \in Reqs : req[r].event => sent[r] # None
=============================================================================
