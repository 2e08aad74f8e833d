---------------------------- MODULE LiveUpdates -----------------------------
(***************************************************************************)
(* Live updates from the gateway to a page: the WebSocketManager           *)
(* (src/backend/api-gateway-v2/src/websocket/server.ts) with its three     *)
(* tables, its limits and its heartbeat, the hook useWebSocket             *)
(* (src/apps/web/src/hooks/useWebSocket.ts) with its reconnection, and the *)
(* sockets between them.  A socket is known to the server by the number    *)
(* of its connection; the page keeps one in wsRef and may leave others     *)
(* behind.  Messages of one socket arrive in order, or not at all.         *)
(***************************************************************************)
EXTENDS Integers, Sequences, FiniteSets, SequencesExt

CONSTANTS
    Channels,           \* the channels token:<address>
    Hosts,              \* the IP addresses connections come from
    MaxPerIp,           \* MAX_CONNECTIONS_PER_IP
    MaxSubscriptions,   \* MAX_SUBSCRIPTIONS_PER_CLIENT
    ReconnectAttempts,  \* MAX_RECONNECT_ATTEMPTS
    SocketBound,        \* bound of the model on the sockets made
    CallBound           \* bound of the model on calls of the hook's functions

\* Connections are numbered from one.
ASSUME LiveAssumption == SocketBound \in Nat

VARIABLES
    sockets,            \* every socket: [ip, page, server, wire, follows]
    clients,            \* connections the server knows: [subscriptions, heard]
    tokenSubscribers,   \* channel -> connections
    connectionsByIp,
    hook                \* the page: [mounted, ref, attempts, timer, subscribed, calls]; timer: the
                        \* socket whose close planned a reconnection, -1 for the effect on mount

liveVars == <<sockets, clients, tokenSubscribers, connectionsByIp, hook>>

Connections == 1 .. SocketBound
NoClient == [subscriptions |-> {}, heard |-> FALSE, known |-> FALSE]
Known(i) == clients[i].known
\* page: the page's readyState; server: the other end's; follows: the tokens that
\* the closure which made the socket subscribes to when it opens.
NoSocket == [ip |-> "none", page |-> "none", server |-> "none", wire |-> <<>>, follows |-> {}]
NextSocket == Cardinality({i \in Connections : sockets[i] # NoSocket}) + 1
IsOpen(i) == i # 0 /\ sockets[i].page = "open"

LiveInit ==
    /\ sockets = [i \in Connections |-> NoSocket]
    /\ clients = [i \in Connections |-> NoClient]
    /\ tokenSubscribers = [c \in Channels |-> {}]
    /\ connectionsByIp = [h \in Hosts |-> 0]
    /\ hook = [mounted |-> TRUE, ref |-> 0, attempts |-> 0, timer |-> -1,
               subscribed |-> {}, calls |-> 0]

-----------------------------------------------------------------------------
\* The server.

\* setupHandlers: a connection over the limit of its address is closed at once.
Connected(i) ==
    /\ sockets[i].page = "connecting" /\ sockets[i].server = "none"
    /\ LET ip == sockets[i].ip
       IN  IF connectionsByIp[ip] >= MaxPerIp
           THEN /\ sockets' = [sockets EXCEPT ![i].server = "closed"]
                /\ UNCHANGED <<clients, connectionsByIp>>
           ELSE /\ sockets' = [sockets EXCEPT ![i].server = "open"]
                /\ clients' = [clients EXCEPT ![i] = [subscriptions |-> {}, heard |-> TRUE, known |-> TRUE]]
                /\ connectionsByIp' = [connectionsByIp EXCEPT ![ip] = @ + 1]
    /\ UNCHANGED <<tokenSubscribers, hook>>

Subscribe(i, c) ==
    IF Cardinality(clients[i].subscriptions) >= MaxSubscriptions
    THEN UNCHANGED <<clients, tokenSubscribers>>
    ELSE /\ clients' = [clients EXCEPT ![i].subscriptions = @ \cup {c}]
         /\ tokenSubscribers' = [tokenSubscribers EXCEPT ![c] = @ \cup {i}]

Unsubscribe(i, c) ==
    /\ clients' = [clients EXCEPT ![i].subscriptions = @ \ {c}]
    /\ tokenSubscribers' = [tokenSubscribers EXCEPT ![c] = @ \ {i}]

\* Mutant: a late message of a client that is gone subscribes it.
HandleMessage_AnyClient(i) ==
    /\ sockets[i].server \in {"open", "closing"} /\ sockets[i].wire # <<>>
    /\ sockets' = [sockets EXCEPT ![i].wire = Tail(@)]
    /\ LET m == Head(sockets[i].wire)
       IN  IF m.type = "subscribe" THEN Subscribe(i, m.channel) ELSE Unsubscribe(i, m.channel)
    /\ UNCHANGED <<connectionsByIp, hook>>

\* handleMessage: messages may still arrive while a connection closes; one of a
\* client that is gone is dropped.
HandleMessage(i) ==
    /\ sockets[i].server \in {"open", "closing"} /\ sockets[i].wire # <<>>
    /\ sockets' = [sockets EXCEPT ![i].wire = Tail(@)]
    /\ LET m == Head(sockets[i].wire)
       IN  IF ~Known(i) THEN UNCHANGED <<clients, tokenSubscribers>>
           ELSE IF m.type = "subscribe" THEN Subscribe(i, m.channel) ELSE Unsubscribe(i, m.channel)
    /\ UNCHANGED <<connectionsByIp, hook>>

\* handleDisconnect: called by the close event and by the heartbeat.
HandleDisconnect(i) ==
    IF ~Known(i) THEN UNCHANGED <<clients, tokenSubscribers, connectionsByIp>>
    ELSE /\ tokenSubscribers' = [c \in Channels |->
                IF c \in clients[i].subscriptions THEN tokenSubscribers[c] \ {i}
                ELSE tokenSubscribers[c]]
         /\ connectionsByIp' = [connectionsByIp EXCEPT ![sockets[i].ip] = IF @ <= 1 THEN 0 ELSE @ - 1]
         /\ clients' = [clients EXCEPT ![i] = NoClient]

\* The close event of the connection.
ServerCloses(i) ==
    /\ sockets[i].server = "closing"
    /\ sockets' = [sockets EXCEPT ![i].server = "closed", ![i].wire = <<>>]
    /\ HandleDisconnect(i)
    /\ UNCHANGED hook

Pong(i) ==
    /\ IsOpen(i) /\ sockets[i].server = "open" /\ Known(i) /\ ~clients[i].heard
    /\ clients' = [clients EXCEPT ![i].heard = TRUE]
    /\ UNCHANGED <<sockets, tokenSubscribers, connectionsByIp, hook>>

\* startHeartbeat, every 30 seconds, for one client: terminated when no pong came
\* since the last one, else pinged.  terminate raises the close event later.
Heartbeat(i) ==
    /\ Known(i)
    /\ IF clients[i].heard
       THEN /\ clients' = [clients EXCEPT ![i].heard = FALSE]
            /\ UNCHANGED <<sockets, tokenSubscribers, connectionsByIp>>
       ELSE /\ sockets' = [sockets EXCEPT ![i].server = "closing"]
            /\ HandleDisconnect(i)
    /\ UNCHANGED hook

-----------------------------------------------------------------------------
\* The hook.  connect() makes a socket whose handlers belong to one rendering.
Connect(follows) ==
    IF IsOpen(hook.ref) THEN UNCHANGED sockets
    ELSE /\ NextSocket <= SocketBound
         /\ \E h \in Hosts : sockets' = [sockets EXCEPT ![NextSocket] =
                [NoSocket EXCEPT !.ip = h, !.page = "connecting", !.follows = follows]]
RefAfterConnect == IF IsOpen(hook.ref) THEN hook.ref ELSE NextSocket

\* The effect on mount connects with the closure of the first rendering, and the
\* timer of a socket with the closure that made the socket.
AutoConnect ==
    /\ hook.mounted /\ hook.timer = -1
    /\ Connect({})
    /\ hook' = [hook EXCEPT !.timer = 0, !.ref = RefAfterConnect]
    /\ UNCHANGED <<clients, tokenSubscribers, connectionsByIp>>
Reconnect ==
    /\ hook.timer > 0
    /\ Connect(sockets[hook.timer].follows)
    /\ hook' = [hook EXCEPT !.timer = 0, !.attempts = @ + 1, !.ref = RefAfterConnect]
    /\ UNCHANGED <<clients, tokenSubscribers, connectionsByIp>>

Call == hook.mounted /\ hook.calls < CallBound
ConnectCall ==
    /\ Call /\ Connect(hook.subscribed)
    /\ hook' = [hook EXCEPT !.calls = @ + 1, !.ref = RefAfterConnect]
    /\ UNCHANGED <<clients, tokenSubscribers, connectionsByIp>>

\* close() of the page: the server's end follows.
Close(s) == [s EXCEPT !.page = IF @ \in {"connecting", "open"} THEN "closing" ELSE @,
                      !.server = IF @ = "open" THEN "closing" ELSE @]
Disconnect ==
    /\ Call /\ hook.ref # 0
    /\ sockets' = [sockets EXCEPT ![hook.ref] = Close(@)]
    /\ hook' = [hook EXCEPT !.calls = @ + 1, !.timer = 0, !.ref = 0]
    /\ UNCHANGED <<clients, tokenSubscribers, connectionsByIp>>
Unmount ==
    /\ hook.mounted
    /\ sockets' = IF hook.ref = 0 THEN sockets ELSE [sockets EXCEPT ![hook.ref] = Close(@)]
    /\ hook' = [hook EXCEPT !.mounted = FALSE, !.timer = 0, !.ref = 0]
    /\ UNCHANGED <<clients, tokenSubscribers, connectionsByIp>>

Message(type, c) == [type |-> type, channel |-> c]
SendIfOpen(m) == sockets' = IF ~IsOpen(hook.ref) THEN sockets
                            ELSE [sockets EXCEPT ![hook.ref].wire = Append(@, m)]
SubscribeToToken(c) ==
    /\ Call /\ SendIfOpen(Message("subscribe", c))
    /\ hook' = [hook EXCEPT !.calls = @ + 1, !.subscribed = @ \cup {c}]
    /\ UNCHANGED <<clients, tokenSubscribers, connectionsByIp>>
UnsubscribeFromToken(c) ==
    /\ Call /\ SendIfOpen(Message("unsubscribe", c))
    /\ hook' = [hook EXCEPT !.calls = @ + 1, !.subscribed = @ \ {c}]
    /\ UNCHANGED <<clients, tokenSubscribers, connectionsByIp>>

\* onopen: the attempts are forgiven and the closure's tokens subscribed on wsRef.
OnOpen(i) ==
    /\ sockets[i].page = "connecting" /\ sockets[i].server # "none"
    /\ LET opened == [sockets EXCEPT ![i].page = "open"]
           says == [k \in 1 .. Cardinality(sockets[i].follows) |->
                       Message("subscribe", SetToSeq(sockets[i].follows)[k])]
       IN  sockets' = IF hook.ref # 0 /\ opened[hook.ref].page = "open"
                      THEN [opened EXCEPT ![hook.ref].wire = @ \o says] ELSE opened
    /\ hook' = [hook EXCEPT !.attempts = 0]
    /\ UNCHANGED <<clients, tokenSubscribers, connectionsByIp>>

\* onclose, of whatever socket and for whatever reason: a reconnection is planned.
OnClose(i) ==
    /\ \/ sockets[i].page = "closing"
       \/ sockets[i].page \in {"connecting", "open"} /\ sockets[i].server \in {"closing", "closed"}
    /\ sockets' = [sockets EXCEPT ![i].page = "closed"]
    /\ hook' = [hook EXCEPT !.timer = IF hook.attempts < ReconnectAttempts THEN i ELSE 0]
    /\ UNCHANGED <<clients, tokenSubscribers, connectionsByIp>>

\* The network: a connection is refused, or dies where one end does not notice.
ConnectionFails(i) ==
    /\ sockets[i].page = "connecting" /\ sockets[i].server = "none"
    /\ sockets' = [sockets EXCEPT ![i].page = "closing", ![i].server = "closed"]
    /\ UNCHANGED <<clients, tokenSubscribers, connectionsByIp, hook>>
LinkDies(i) ==
    /\ sockets[i].page = "open" /\ sockets[i].server = "open"
    /\ sockets' = [sockets EXCEPT ![i].page = "closing", ![i].wire = <<>>]
    /\ UNCHANGED <<clients, tokenSubscribers, connectionsByIp, hook>>

LiveNext ==
    \/ AutoConnect \/ Reconnect \/ ConnectCall \/ Disconnect \/ Unmount
    \/ \E c \in Channels : SubscribeToToken(c) \/ UnsubscribeFromToken(c)
    \/ \E i \in Connections : \/ Connected(i) \/ HandleMessage(i) \/ ServerCloses(i)
                              \/ Pong(i) \/ Heartbeat(i) \/ OnOpen(i) \/ OnClose(i)
                              \/ ConnectionFails(i) \/ LinkDies(i)

\* While the server runs its timers fire and close events are delivered.
LiveFairness ==
    \A i \in Connections :
        /\ WF_liveVars(Heartbeat(i))
        /\ WF_liveVars(ServerCloses(i))
LiveSpec == LiveInit /\ [][LiveNext]_liveVars /\ LiveFairness

-----------------------------------------------------------------------------
\* Types of the variables.
LiveTypeOK ==
    /\ \A i \in Connections : sockets[i].page \in {"none", "connecting", "open", "closing", "closed"}
    /\ \A i \in Connections : clients[i].subscriptions \subseteq Channels
    /\ \A c \in Channels : tokenSubscribers[c] \subseteq Connections
    /\ \A h \in Hosts : connectionsByIp[h] \in 0 .. SocketBound
    /\ hook.ref \in 0 .. SocketBound /\ hook.attempts \in 0 .. ReconnectAttempts

\* The three tables of the manager describe the same connections, whichever of the
\* heartbeat and the close event comes first and however late messages arrive: a
\* broadcast reaches exactly the clients that subscribed, and an address is charged
\* exactly for the connections it has (subscribe, handleDisconnect, startHeartbeat).
TablesAgree ==
    /\ \A c \in Channels, i \in Connections :
           i \in tokenSubscribers[c] <=> Known(i) /\ c \in clients[i].subscriptions
    /\ \A h \in Hosts :
           connectionsByIp[h] = Cardinality({i \in Connections : Known(i) /\ sockets[i].ip = h})

\* While the page's socket is open and its messages have arrived, the server has it
\* subscribed to the tokens the page follows (connect and subscribeToToken).
OpenSocketFollows ==
    LET i == hook.ref
    IN  IsOpen(i) /\ Known(i) /\ sockets[i].server = "open" /\ sockets[i].wire = <<>>
            /\ Cardinality(hook.subscribed) <= MaxSubscriptions
        => hook.subscribed \subseteq clients[i].subscriptions

=============================================================================
