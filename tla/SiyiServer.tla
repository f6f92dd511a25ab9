----------------------------- MODULE SiyiServer -----------------------------
(***************************************************************************)
(* The SIYI protocol server (camera_app/src/protocol/siyi_server.c): UDP,  *)
(* TCP and UART peers send requests; the camera answers some of them at    *)
(* once, others when the gimbal MCU has answered, and the server finds the *)
(* peer each answer belongs to.                                            *)
(*                                                                         *)
(* The server is single-threaded.  A request is dispatched, may emit       *)
(* answers while it is active, and is finished before anything else        *)
(* happens.  Packets are abstracted to their opcode and length, input      *)
(* buffers to the number of packets in them, output buffers to offset and  *)
(* length.                                                                 *)
(***************************************************************************)
EXTENDS Integers, FiniteSets

CONSTANTS
    Slots,          \* TCP client slots
    Addresses,      \* UDP peers
    Opcodes,        \* SIYI opcodes
    Lengths,        \* lengths of emitted packets
    OutputBuffer,   \* CA_SIYI_OUTPUT_BUFFER
    MaxPending,     \* CA_SIYI_PENDING
    InputPackets,   \* packets a stream input buffer can hold
    MaxGeneration,  \* bound: connections per slot
    MaxRequests     \* bound: requests waiting for an answer over time

ASSUME SiyiServerAssumption ==
    /\ Lengths \subseteq Nat
    /\ OutputBuffer \in Nat
    /\ MaxPending \in Nat \ {0}
    /\ InputPackets \in Nat \ {0}
    /\ MaxGeneration \in Nat \ {0}
    /\ MaxRequests \in Nat

VARIABLES
    client,         \* server->clients
    uart,           \* uart_fd, uart_input_length, uart_output_*
    pending,        \* the used entries of server->pending
    pending_order,  \* server->pending_order
    overdue,        \* entries up to this order have passed their deadline
    last,           \* server->last, server->have_last
    last_udp,       \* server->last_udp, server->have_last_udp
    active,         \* the request being handled: route, opcode, emitted
    alive,          \* FALSE after a memmove beyond the input buffer
    asked,          \* history: which connection has requested which opcode
    answered        \* history: order of the last pending request answered

connVars == <<client, uart>>
vars == <<client, uart, pending, pending_order, overdue, last, last_udp,
          active, alive, asked, answered>>

Route == [kind : {"udp"}, id : Addresses, gen : {0}]
           \cup [kind : {"tcp"}, id : Slots, gen : 0 .. MaxGeneration]
           \cup [kind : {"uart"}, id : {0}, gen : {0}]
NoRoute == [kind |-> "none", id |-> 0, gen |-> 0]
UartRoute == [kind |-> "uart", id |-> 0, gen |-> 0]
UdpRoute(address) == [kind |-> "udp", id |-> address, gen |-> 0]
TcpRoute(slot) == [kind |-> "tcp", id |-> slot, gen |-> client[slot].gen]

Connection == [open : BOOLEAN, gen : 0 .. MaxGeneration,
               input : 0 .. InputPackets, offset : Nat, length : Nat]
PendingRoute == [opcode : Opcodes, route : Route, order : 1 .. MaxRequests]
Idle == [route |-> NoRoute, opcode |-> 0, emitted |-> FALSE]

TypeOK ==
    /\ client \in [Slots -> Connection]
    /\ uart \in Connection
    /\ pending \subseteq PendingRoute
    /\ pending_order \in 0 .. MaxRequests
    /\ overdue \in 0 .. MaxRequests
    /\ last \in [Opcodes -> Route \cup {NoRoute}]
    /\ last_udp \in Route \cup {NoRoute}
    /\ active \in [route : Route, opcode : Opcodes, emitted : BOOLEAN] \cup {Idle}
    /\ alive \in BOOLEAN
    /\ asked \subseteq Route \X Opcodes
    /\ answered \in [Opcodes -> 0 .. MaxRequests]

-----------------------------------------------------------------------------
Closed(gen) == [open |-> FALSE, gen |-> gen, input |-> 0, offset |-> 0, length |-> 0]

\* ca_siyi_server_open: the UART may be absent.
Init ==
    /\ client = [s \in Slots |-> Closed(0)]
    /\ \E present \in BOOLEAN : uart = [Closed(0) EXCEPT !.open = present]
    /\ pending = {}
    /\ pending_order = 0
    /\ overdue = 0
    /\ last = [o \in Opcodes |-> NoRoute]
    /\ last_udp = NoRoute
    /\ active = Idle
    /\ alive = TRUE
    /\ asked = {}
    /\ answered = [o \in Opcodes |-> 0]

\* close_client and disable_uart.
Close(c) == Closed(c.gen)

\* output_offset and output_length are set.
Output(c, offset, length) == [c EXCEPT !.offset = offset, !.length = length]

\* flush_client, flush_uart: what a connection may be after writing.
Written(c) ==
    {IF n = c.length THEN Output(c, 0, 0) ELSE Output(c, c.offset + n, c.length - n) :
        n \in 0 .. c.length}

\* queue_client, queue_uart: there is room for the packet.
Fits(c, n) == n <= OutputBuffer - c.length

\* Mutant of Queue: what is queued is never moved to the front.
QueueBehind(c, n) == Output(c, c.offset, c.length + n)

\* queue_client, queue_uart: the packet is appended, after moving what is
\* queued to the front if it would not fit behind it.
Queue(c, n) ==
    Output(c, IF c.offset # 0 /\ c.offset + c.length + n > OutputBuffer THEN 0 ELSE c.offset,
           c.length + n)

\* What a TCP client may be after queue_client and the caller's close_client
\* when that fails.
ClientAfter(c, n) ==
    IF Fits(c, n) THEN Written(Queue(c, n)) \cup {Close(c)} ELSE {Close(c)}

\* The same for queue_uart, which keeps the UART when only its buffer is full.
UartAfter(c, n) ==
    IF Fits(c, n) THEN Written(Queue(c, n)) \cup {Close(c)} ELSE {c}

\* Mutant of RouteValid: any client in the slot will do.
RouteValidSlot(route) ==
    \/ route.kind = "udp"
    \/ route.kind = "uart" /\ uart.open
    \/ route.kind = "tcp" /\ client[route.id].open

\* route_valid.
RouteValid(route) ==
    \/ route.kind = "udp"
    \/ route.kind = "uart" /\ uart.open
    \/ route.kind = "tcp" /\ client[route.id].open /\ client[route.id].gen = route.gen

\* send_route and, for TCP, the close_client that follows a failure.  A
\* datagram that cannot be sent is only logged.
Send(route, n) ==
    CASE route.kind = "tcp" ->
           /\ client' \in {[client EXCEPT ![route.id] = c] :
                             c \in IF RouteValid(route)
                                   THEN ClientAfter(client[route.id], n)
                                   ELSE {Close(client[route.id])}}
           /\ UNCHANGED uart
      [] route.kind = "uart" ->
           /\ uart' \in IF RouteValid(route) THEN UartAfter(uart, n) ELSE {uart}
           /\ UNCHANGED client
      [] OTHER -> UNCHANGED connVars

-----------------------------------------------------------------------------
\* dispatch_packet up to the request callback.
Dispatch(route, opcode) ==
    /\ last' = [last EXCEPT ![opcode] = route]
    /\ last_udp' = IF route.kind = "udp" THEN route ELSE last_udp
    /\ active' = [route |-> route, opcode |-> opcode, emitted |-> FALSE]
    /\ asked' = asked \cup {<<route, opcode>>}
    /\ UNCHANGED <<client, uart, pending, pending_order, overdue, alive,
                   answered>>

\* Between two packets of a stream, and between two events: process_stream
\* empties the input it has been given before the event loop goes on.
Ready == alive /\ active = Idle
Loop == Ready /\ uart.input = 0 /\ \A s \in Slots : client[s].input = 0

\* handle_udp: a datagram's packets are dispatched one by one.
HandleUdp(address, opcode) ==
    /\ Loop
    /\ pending_order < MaxRequests
    /\ Dispatch(UdpRoute(address), opcode)

\* process_stream: the packet at the front of the input is dispatched ...
StreamPacket(route, input, opcode) ==
    /\ Ready
    /\ pending_order < MaxRequests
    /\ input > 0
    /\ Dispatch(route, opcode)

\* ... and a malformed one, or the TCP keepalive, is skipped.
StreamSkip(slot) ==
    /\ Ready
    /\ client[slot].input > 0
    /\ client' = [client EXCEPT ![slot].input = @ - 1]
    /\ UNCHANGED <<uart, pending, pending_order, overdue, last, last_udp, active,
                   alive, asked, answered>>

UartSkip ==
    /\ Ready
    /\ uart.input > 0
    /\ uart' = [uart EXCEPT !.input = @ - 1]
    /\ UNCHANGED <<client, pending, pending_order, overdue, last, last_udp, active,
                   alive, asked, answered>>

\* ca_siyi_server_emit during a request: the answer goes to its sender.
EmitActive(n) ==
    /\ alive
    /\ active # Idle
    /\ active' = [active EXCEPT !.emitted = TRUE]
    /\ Send(active.route, n)
    /\ UNCHANGED <<pending, pending_order, overdue, last, last_udp, alive, asked,
                   answered>>

\* purge_pending.
Current(entries) == {q \in entries : q.order > overdue}

\* add_pending: the oldest entry makes room when all are in use.
AddPending(entries, q) ==
    LET kept == Current(entries) IN
    IF Cardinality(kept) < MaxPending
    THEN kept \cup {q}
    ELSE {e \in kept : \E older \in kept : older.order < e.order} \cup {q}

\* dispatch_packet after the request callback: a request that was not answered
\* is remembered.
Remember ==
    IF active.emitted
    THEN UNCHANGED <<pending, pending_order>>
    ELSE /\ pending' = AddPending(pending, [opcode |-> active.opcode,
                                            route |-> active.route,
                                            order |-> pending_order + 1])
         /\ pending_order' = pending_order + 1

\* process_stream after dispatch_packet: the packet is moved out of the input.
\* If answering it has closed the connection, input_length is already 0, the
\* subtraction wraps and memmove runs off the buffer.
Consume(c) == IF c.input = 0 THEN c ELSE [c EXCEPT !.input = @ - 1]

Finish ==
    /\ alive
    /\ active # Idle
    /\ Remember
    /\ CASE active.route.kind = "tcp" ->
              /\ client' = [client EXCEPT ![active.route.id] = Consume(@)]
              /\ alive' = (client[active.route.id].input > 0)
              /\ UNCHANGED uart
         [] active.route.kind = "uart" ->
              /\ uart' = Consume(uart)
              /\ alive' = (uart.input > 0)
              /\ UNCHANGED client
         [] OTHER -> UNCHANGED <<client, uart, alive>>
    /\ active' = Idle
    /\ UNCHANGED <<overdue, last, last_udp, asked, answered>>

-----------------------------------------------------------------------------
\* take_pending: the oldest current entry for the opcode whose peer is there.
Candidates(opcode) ==
    {q \in Current(pending) : q.opcode = opcode /\ RouteValid(q.route)}

\* Mutant of Oldest: the comparison of orders is swapped.
Newest(entries) == {q \in entries : \A e \in entries : q.order >= e.order}

Oldest(entries) == {q \in entries : \A e \in entries : q.order <= e.order}

\* ca_siyi_server_emit outside a request: an answer of the MCU goes to the
\* oldest peer waiting for it ...
EmitPending(opcode, n) ==
    /\ Loop
    /\ \E q \in Oldest(Candidates(opcode)) :
       /\ pending' = Current(pending) \ {q}
       /\ answered' = [answered EXCEPT ![opcode] = q.order]
       /\ Send(q.route, n)
    /\ UNCHANGED <<pending_order, overdue, last, last_udp, active, alive, asked>>

\* ... else to the one that last asked for it ...
EmitLast(opcode, n) ==
    /\ Loop
    /\ Candidates(opcode) = {}
    /\ pending' = Current(pending)
    /\ last[opcode] # NoRoute
    /\ RouteValid(last[opcode])
    /\ Send(last[opcode], n)
    /\ UNCHANGED <<pending_order, overdue, last, last_udp, active, alive, asked, answered>>

\* ... else, like anything unintelligible, to everyone: broadcast_unmatched.
Broadcast(n) ==
    /\ client' \in {f \in [Slots -> UNION {ClientAfter(client[s], n) : s \in Slots}] :
                      \A s \in Slots : IF client[s].open THEN f[s] \in ClientAfter(client[s], n)
                                                         ELSE f[s] = client[s]}
    /\ uart' \in IF uart.open THEN UartAfter(uart, n) ELSE {uart}

EmitUnmatched(opcode, n) ==
    /\ Loop
    /\ Candidates(opcode) = {}
    /\ last[opcode] # NoRoute => ~RouteValid(last[opcode])
    /\ pending' = Current(pending)
    /\ Broadcast(n)
    /\ UNCHANGED <<pending_order, overdue, last, last_udp, active, alive, asked,
                   answered>>

-----------------------------------------------------------------------------
\* accept_clients: the lowest free slot, with a new generation.
AcceptClient(slot) ==
    /\ Loop
    /\ ~client[slot].open
    /\ \A s \in Slots : s < slot => client[s].open
    /\ client[slot].gen < MaxGeneration
    /\ client' = [client EXCEPT ![slot] = [Closed(@.gen + 1) EXCEPT !.open = TRUE]]
    /\ UNCHANGED <<uart, pending, pending_order, overdue, last, last_udp, active,
                   alive, asked, answered>>

\* read_client, read_uart: packets arrive once the input has been used up.
ReadClient(slot) ==
    /\ Loop
    /\ client[slot].open
    /\ \E n \in 1 .. InputPackets : client' = [client EXCEPT ![slot].input = n]
    /\ UNCHANGED <<uart, pending, pending_order, overdue, last, last_udp, active,
                   alive, asked, answered>>

ReadUart ==
    /\ Loop
    /\ uart.open
    /\ \E n \in 1 .. InputPackets : uart' = [uart EXCEPT !.input = n]
    /\ UNCHANGED <<client, pending, pending_order, overdue, last, last_udp, active,
                   alive, asked, answered>>

\* ca_siyi_server_handle: output is flushed when the peer can take it; a
\* connection that fails or hangs up is closed.
ClientEvent(slot) ==
    /\ Loop
    /\ client[slot].open
    /\ client' \in {[client EXCEPT ![slot] = c] :
                      c \in Written(client[slot]) \cup {Close(client[slot])}}
    /\ UNCHANGED <<uart, pending, pending_order, overdue, last, last_udp, active,
                   alive, asked, answered>>

UartEvent ==
    /\ Loop
    /\ uart.open
    /\ uart' \in Written(uart) \cup {Close(uart)}
    /\ UNCHANGED <<client, pending, pending_order, overdue, last, last_udp, active,
                   alive, asked, answered>>

\* Two seconds pass for some of the remembered requests.
DeadlinePasses(order) ==
    /\ Loop
    /\ overdue < order
    /\ order <= pending_order
    /\ overdue' = order
    /\ UNCHANGED <<client, uart, pending, pending_order, last, last_udp, active,
                   alive, asked, answered>>

Request(opcode) ==
    \/ \E a \in Addresses : HandleUdp(a, opcode)
    \/ \E s \in Slots : StreamPacket(TcpRoute(s), client[s].input, opcode)
    \/ StreamPacket(UartRoute, uart.input, opcode)

Emit(n) ==
    \/ EmitActive(n)
    \/ \E o \in Opcodes : EmitPending(o, n) \/ EmitLast(o, n) \/ EmitUnmatched(o, n)

Events ==
    \/ \E s \in Slots : AcceptClient(s) \/ ReadClient(s) \/ ClientEvent(s) \/ StreamSkip(s)
    \/ ReadUart \/ UartEvent \/ UartSkip
    \/ \E order \in 1 .. MaxRequests : DeadlinePasses(order)

Next ==
    \/ \E o \in Opcodes : Request(o)
    \/ \E n \in Lengths : Emit(n)
    \/ Finish
    \/ Events

Spec == Init /\ [][Next]_vars

-----------------------------------------------------------------------------
(* Properties *)

\* Who really gets what is sent to a route: for TCP whoever has the slot.
Recipient(route) == IF route.kind = "tcp" THEN TcpRoute(route.id) ELSE route

\* An answer that arrives after its request was handled would go to a
\* connection that has itself requested that opcode: never to a later client
\* of the same slot, though remembered routes outlive connections.
RepliesToAsker ==
    \A o \in Opcodes :
        /\ \A q \in Candidates(o) : <<Recipient(q.route), o>> \in asked
        /\ last[o] # NoRoute /\ RouteValid(last[o]) => <<Recipient(last[o]), o>> \in asked

\* Remembered requests for an opcode are answered in the order they were made,
\* across evictions, deadlines and peers that have gone: a request that was
\* passed over is never answered later.
AnswersInOrder ==
    [][\A o \in Opcodes : answered'[o] # answered[o] => answered'[o] > answered[o]]_vars

\* Queued output, moved to the front only when it must be, stays inside its
\* buffer.
OutputFits ==
    /\ uart.offset + uart.length <= OutputBuffer
    /\ \A s \in Slots : client[s].offset + client[s].length <= OutputBuffer

\* README: "A UART I/O failure disables only the UART transport until that
\* restart; camera operation and network transports continue running."
ServerSurvives == alive
=============================================================================
