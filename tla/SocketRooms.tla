--------------------------- MODULE SocketRooms ---------------------------
(***************************************************************************)
(* WebSockets: authentication, the rooms of the API's instances, and the   *)
(* events the Redis channel brings to every one of them.                   *)
(***************************************************************************)
EXTENDS Sessions

CONSTANTS Sockets  \* the connections

VARIABLES
  socket,   \* each connection: what its handler is about to do, whether it is open
  room,     \* userRooms of all instances: <<instance, user, socket>>
  bridge,   \* the instances whose subscription to the channel works
  channel,  \* the events on their way to an instance: <<instance, user>>
  got       \* history: the users whose events a socket was sent

roomVars == <<socket, room, bridge, channel, got>>

\* early: the connection closed before its handler listened for that.
Socket == [pc: {"none"}] \cup [pc: {"lookup", "admit", "served", "refused"}, at: Instances,
                               token: Token, open: BOOLEAN, early: BOOLEAN]

RoomTypeOK ==
  /\ socket \in [Sockets -> Socket]
  /\ room \subseteq Instances \X Users \X Sockets
  /\ bridge \subseteq Instances
  /\ channel \subseteq Instances \X Users
  /\ got \in [Sockets -> SUBSET Users]

RoomInit ==
  /\ socket = [s \in Sockets |-> [pc |-> "none"]]
  /\ room = {}
  /\ bridge = Instances
  /\ channel = {}
  /\ got = [s \in Sockets |-> {}]

SetSocket(s, state) == socket' = [socket EXCEPT ![s] = state]
NoCalls == UNCHANGED <<sessionVars, apiVars>>

-----------------------------------------------------------------------------
(* registerWebsocketHandlers.                                              *)

\* A client connects with a token whose signature holds.
Connect(s, t) ==
  /\ "socket" \in workload.ops
  /\ socket[s].pc = "none"
  /\ \E i \in Instances :
       /\ verifySessionToken(i, t)
       /\ SetSocket(s, [pc |-> "lookup", at |-> i, token |-> t, open |-> TRUE, early |-> FALSE])
  /\ UNCHANGED <<room, bridge, channel, got>> /\ NoCalls

\* The session row is read.
LookUp(s) ==
  /\ socket[s].pc = "lookup"
  /\ SetSocket(s, IF socket[s].token \in session THEN [socket[s] EXCEPT !.pc = "admit"]
              ELSE [socket[s] EXCEPT !.pc = "refused", !.open = FALSE])
  /\ UNCHANGED <<room, bridge, channel, got>> /\ NoCalls

Place(s) == <<socket[s].at, socket[s].token.sub, s>>

\* The socket joins its user's room, whether or not it is still open; or wsServer throws,
\* for want of app.server.clients, which nothing in src sets but the tests' mock, and the
\* connection is left as it is, in no room.
Admit(s) ==
  /\ socket[s].pc = "admit"
  /\ \/ /\ SetSocket(s, [socket[s] EXCEPT !.pc = "served"])
        /\ room' = room \cup {Place(s)}
     \/ /\ SetSocket(s, [socket[s] EXCEPT !.pc = "refused"])
        /\ UNCHANGED room
  /\ UNCHANGED <<bridge, channel, got>> /\ NoCalls

\* The bug of listening for errors alone.
StaysInRoom(s) == UNCHANGED room

\* removeFromRoom, in the close listener of an admitted socket.
removeFromRoom(s) == room' = IF socket[s].pc = "served" THEN room \ {Place(s)} ELSE room

Close(s) ==
  /\ socket[s].pc # "none" /\ socket[s].open
  /\ SetSocket(s, [socket[s] EXCEPT !.open = FALSE, !.early = socket[s].pc # "served"])
  /\ removeFromRoom(s)
  /\ UNCHANGED <<bridge, channel, got>> /\ NoCalls

-----------------------------------------------------------------------------
(* publishUserEvent and the bridge.                                        *)

\* A worker publishes an event; Redis passes it to the subscribers of the moment.
Publish(u) ==
  /\ "socket" \in workload.ops
  /\ user[u] # "unborn"
  /\ channel' = channel \cup (bridge \X {u})
  /\ UNCHANGED <<socket, room, bridge, got>> /\ NoCalls

\* publishFrameToUser.
Receive(i, u) ==
  /\ <<i, u>> \in channel
  /\ channel' = channel \ {<<i, u>>}
  /\ got' = [s \in Sockets |-> got[s] \cup (IF <<i, u, s>> \in room /\ socket[s].open THEN {u} ELSE {})]
  /\ UNCHANGED <<socket, room, bridge>> /\ NoCalls

\* The subscriber's connection is lost; it does not reconnect (retryStrategy).
BridgeDrops(i) ==
  /\ "socket" \in workload.ops
  /\ i \in bridge
  /\ bridge' = bridge \ {i}
  /\ channel' = {e \in channel : e[1] # i}
  /\ UNCHANGED <<socket, room, got>> /\ NoCalls

\* An instance is started anew: its sockets and rooms are gone, and it subscribes,
\* if Redis lets it.
RestartRooms(i) ==
  /\ socket' = [s \in Sockets |-> IF socket[s].pc # "none" /\ socket[s].at = i
                                  THEN [socket[s] EXCEPT !.pc = "refused", !.open = FALSE]
                                  ELSE socket[s]]
  /\ room' = {m \in room : m[1] # i}
  /\ bridge' \in {bridge \cup {i}, bridge \ {i}}
  /\ channel' = {e \in channel : e[1] # i}
  /\ UNCHANGED got

RoomNext ==
  \/ \E s \in Sockets : \/ \E t \in session \cup ended : Connect(s, t)
                        \/ LookUp(s) \/ Admit(s) \/ Close(s)
  \/ \E u \in Users : Publish(u) \/ \E i \in Instances : Receive(i, u)
  \/ \E i \in Instances : BridgeDrops(i)

-----------------------------------------------------------------------------
(* Properties.                                                             *)

\* A room holds only sockets that showed a session of its user's at its instance, and
\* no closed one but those that closed while they were being admitted; events are
\* sent to no other socket.
RoomsAreOwn ==
  /\ \A m \in room : LET s == m[3] IN
       /\ socket[s].pc = "served" /\ m = Place(s)
       /\ socket[s].token \in session \cup ended
       /\ socket[s].open \/ socket[s].early
  /\ \A s \in Sockets : got[s] # {} => got[s] = {socket[s].token.sub}
=============================================================================
