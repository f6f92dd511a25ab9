----------------------------- MODULE MavlinkLinks -----------------------------
(***************************************************************************)
(* The links of the MAVLink server (protocol/mavlink_server.c): TCP client *)
(* slots, the last UDP peer, the UART and the SupportProxy.  A message is  *)
(* processed with the route it came by, and three things remember a route  *)
(* beyond that: last_udp, the route to the flight controller, to which the *)
(* messages of the proxy are forwarded, and the camera parameter lists,    *)
(* sent one value a period.  A route names a slot; connections come and go *)
(* in it.                                                                  *)
(***************************************************************************)
EXTENDS Integers

CONSTANTS
    Clients,        \* CA_MAVLINK_CLIENTS
    Addresses,      \* UDP addresses of peers
    Values,         \* camera parameters in a list
    MaxConns,       \* bound: TCP connections
    MaxMessages     \* bound: messages received

ASSUME MavlinkLinksAssumption ==
    {Clients, Values} \subseteq Nat \ {0} /\ {MaxConns, MaxMessages} \subseteq Nat /\ Addresses \subseteq Nat \ {0}

VARIABLES
    client,     \* [1 .. Clients -> connection, or 0]
    last_udp,   \* address, or 0
    uart,       \* uart_fd >= 0
    system,     \* system_id, 0 until known
    autopilot,  \* whom the identity was learnt from
    fc_route,   \* flight_controller_route, or NoRoute
    lists,      \* [1 .. Clients -> [active, who, route, next, asked]]: ext_lists,
                \* asked the link the request came by (ghost)
    next_parameter, \* of the broadcast list; Values when it is not active
    heard,      \* ghost: the links on which our autopilot's heartbeat came
    conns, received, running

serverVars == <<client, last_udp, uart, system, autopilot, fc_route, lists, next_parameter, heard, conns, received, running>>

\* Who speaks: the autopilot, another component of its vehicle, a ground
\* station, and the autopilot of another vehicle.
Speakers == {"autopilot", "payload", "gcs", "stranger"}
SystemOf == [autopilot |-> 1, payload |-> 1, gcs |-> 255, stranger |-> 2]
IsAutopilot(p) == p \in {"autopilot", "stranger"}

Slots == 1 .. Clients
Route(kind, id) == [kind |-> kind, id |-> id]
NoRoute == Route("none", 0)
\* What is at the other end of a route now.
LinkOf(route) == IF route.kind = "tcp" THEN <<"tcp", client[route.id]>> ELSE <<route.kind, route.id>>
NoList == [active |-> FALSE, who |-> "gcs", route |-> NoRoute, next |-> 0, asked |-> <<"none", 0>>]

\* ca_mavlink_server_open: a listener or a UART that cannot be opened is done
\* without.  The system id is configured, or learnt.
ServerInit ==
    /\ client = [s \in Slots |-> 0] /\ last_udp = 0 /\ uart \in BOOLEAN
    /\ system \in {0, 1} /\ autopilot = "none"
    /\ fc_route = NoRoute /\ lists = [i \in Slots |-> NoList] /\ next_parameter = Values
    /\ heard = {} /\ conns = 0 /\ received = 0 /\ running = TRUE

-----------------------------------------------------------------------------
\* Connections.

Free == {s \in Slots : client[s] = 0}
\* accept_clients: the first free slot; a connection too many is closed.
accept_clients ==
    /\ running /\ conns < MaxConns /\ conns' = conns + 1
    /\ client' = IF Free = {} THEN client ELSE [client EXCEPT ![CHOOSE s \in Free : \A t \in Free : s <= t] = conns + 1]
    /\ UNCHANGED <<last_udp, uart, system, autopilot, fc_route, lists, next_parameter, heard, received, running>>

\* What close_client and disable_uart forget.  In mutant_Forgotten the route
\* of the flight controller outlives its connection.
Via(route, s) == route.kind = "tcp" /\ route.id = s
mutant_Forgotten(s) == fc_route' = fc_route /\ lists' = [i \in Slots |-> IF Via(lists[i].route, s) THEN [lists[i] EXCEPT !.active = FALSE] ELSE lists[i]]
Forgotten(s) ==
    /\ fc_route' = IF Via(fc_route, s) THEN NoRoute ELSE fc_route
    /\ lists' = [i \in Slots |-> IF Via(lists[i].route, s) THEN [lists[i] EXCEPT !.active = FALSE] ELSE lists[i]]
close_client(s) ==
    /\ running /\ client[s] # 0
    /\ client' = [client EXCEPT ![s] = 0] /\ Forgotten(s)
    /\ UNCHANGED <<last_udp, uart, system, autopilot, next_parameter, heard, conns, received, running>>
disable_uart ==
    /\ running /\ uart
    /\ uart' = FALSE
    /\ fc_route' = IF fc_route.kind = "uart" THEN NoRoute ELSE fc_route
    /\ UNCHANGED <<client, last_udp, system, autopilot, lists, next_parameter, heard, conns, received, running>>

-----------------------------------------------------------------------------
\* Messages.

\* process_message of a heartbeat: the first autopilot heard gives its
\* identity, never a ground station.
Learns(p) == IsAutopilot(p) /\ autopilot = "none"
SystemAfter(p) == IF Learns(p) /\ system = 0 THEN SystemOf[p] ELSE system
\* feed, after the message was processed.
feed(p, route) ==
    IF SystemOf[p] = SystemAfter(p) /\ IsAutopilot(p)
    THEN fc_route' = route /\ heard' = heard \cup {LinkOf(route)}
    ELSE UNCHANGED <<fc_route, heard>>
Heartbeat(p, route) ==
    /\ autopilot' = IF Learns(p) THEN p ELSE autopilot
    /\ system' = SystemAfter(p)
    /\ UNCHANGED <<lists, next_parameter>>

\* handle_ext_parameter, PARAM_EXT_REQUEST_LIST: an active list of the same
\* asker is begun again by its new route, or else a free one is used.
SlotFor(p) ==
    LET same == {i \in Slots : lists[i].active /\ lists[i].who = p}
        free == {i \in Slots : ~lists[i].active}
    IN  IF same # {} THEN same
        ELSE IF free = {} THEN {} ELSE {CHOOSE i \in free : \A j \in free : i <= j}
handle_ext_parameter(p, route) ==
    /\ lists' = [i \in Slots |-> IF i \in SlotFor(p)
                    THEN [active |-> TRUE, who |-> p, route |-> route, next |-> 0, asked |-> LinkOf(route)] ELSE lists[i]]
    /\ UNCHANGED <<autopilot, system, next_parameter>>
\* handle_parameter, PARAM_REQUEST_LIST: everyone gets the list, from the start.
handle_parameter_list == next_parameter' = 0 /\ UNCHANGED <<autopilot, system, lists>>

\* A message for another component changes nothing here, nor does any while
\* the identity is unknown (target_matches, process_message).
Kinds == {"heartbeat", "ext list", "list", "other"}
process_message(kind, p, route) ==
    CASE kind = "heartbeat" -> Heartbeat(p, route)
      [] kind = "ext list" /\ system # 0 -> handle_ext_parameter(p, route)
      [] kind = "list" /\ system # 0 -> handle_parameter_list
      [] OTHER -> UNCHANGED <<autopilot, system, lists, next_parameter>>

\* read_client, read_udp and read_uart, up to one whole message; each message
\* then goes to the proxy as well.
Receive(route) ==
    /\ running /\ received < MaxMessages /\ received' = received + 1
    /\ \E kind \in Kinds, p \in Speakers :
        /\ process_message(kind, p, route)
        /\ IF kind = "heartbeat" THEN feed(p, route) ELSE UNCHANGED <<fc_route, heard>>
    /\ last_udp' = IF route.kind = "udp" THEN route.id ELSE last_udp
    /\ UNCHANGED <<client, uart, conns, running>>
read_client(s) == client[s] # 0 /\ Receive(Route("tcp", s))
read_udp(a) == Receive(Route("udp", a))
read_uart == uart /\ Receive(Route("uart", 0))

\* ca_mavlink_server_periodic: a message from the proxy is forwarded by
\* fc_route and processed; it is not fed, so no route is learnt from it.
FromProxy ==
    /\ running /\ received < MaxMessages /\ received' = received + 1
    /\ \E kind \in Kinds, p \in Speakers : process_message(kind, p, Route("proxy", 0))
    /\ UNCHANGED <<client, last_udp, uart, fc_route, heard, conns, running>>
\* ... and one value of each list is sent.
periodic ==
    /\ running /\ (next_parameter < Values \/ \E i \in Slots : lists[i].active)
    /\ next_parameter' = IF next_parameter < Values THEN next_parameter + 1 ELSE next_parameter
    /\ lists' = [i \in Slots |-> IF lists[i].active
                    THEN [lists[i] EXCEPT !.next = @ + 1, !.active = @ /\ lists[i].next + 1 < Values] ELSE lists[i]]
    /\ UNCHANGED <<client, last_udp, uart, system, autopilot, fc_route, heard, conns, received, running>>
ca_mavlink_server_close ==
    /\ running /\ running' = FALSE
    /\ client' = [s \in Slots |-> 0] /\ uart' = FALSE
    /\ fc_route' = NoRoute /\ lists' = [i \in Slots |-> NoList]
    /\ UNCHANGED <<last_udp, system, autopilot, next_parameter, heard, conns, received>>

ServerNext ==
    \/ accept_clients \/ disable_uart \/ read_uart \/ FromProxy \/ periodic \/ ca_mavlink_server_close
    \/ \E s \in Slots : close_client(s) \/ read_client(s)
    \/ \E a \in Addresses : read_udp(a)
ServerSpec == ServerInit /\ [][ServerNext]_serverVars

-----------------------------------------------------------------------------
\* A remembered route still leads where it was learnt, although slots are used
\* again: commands of the proxy reach the link on which our autopilot was
\* heard, and the values of a list the link they were asked by (close_client).
RoutesCurrent ==
    /\ fc_route # NoRoute => LinkOf(fc_route) \in heard
    /\ \A i \in Slots : lists[i].active => LinkOf(lists[i].route) = lists[i].asked

=============================================================================
