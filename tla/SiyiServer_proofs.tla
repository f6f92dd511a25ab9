------------------------- MODULE SiyiServer_proofs -------------------------
(***************************************************************************)
(* Proofs about the SIYI protocol server, for any number of client slots,  *)
(* UDP peers, opcodes, packet lengths and any buffer and table size: the   *)
(* output buffers are never overrun, an answer never goes to a connection  *)
(* that did not ask for it, and waiting requests are answered in order.    *)
(***************************************************************************)
EXTENDS SiyiServer, TLAPS

\* What the proofs need of a connection: its type, and output inside the
\* buffer.
Sound(c) == c \in Connection /\ c.offset + c.length <= OutputBuffer

Connections ==
    /\ Sound(uart)
    /\ DOMAIN client = Slots
    /\ client = [s \in Slots |-> client[s]]
    /\ \A s \in Slots : Sound(client[s])

LEMMA ClosedSound == ASSUME NEW g \in 0 .. MaxGeneration PROVE Sound(Closed(g))
  BY SiyiServerAssumption DEF Sound, Connection, Closed

LEMMA CloseSound == ASSUME NEW c, Sound(c) PROVE Sound(Close(c))
  BY ClosedSound DEF Sound, Connection, Close

LEMMA OutputFields ==
    ASSUME NEW c \in Connection, NEW a \in Nat, NEW b \in Nat
    PROVE  /\ Output(c, a, b) \in Connection
           /\ Output(c, a, b).offset = a
           /\ Output(c, a, b).length = b
PROOF
  <1> DEFINE d == [c EXCEPT !.offset = a]
  <1>1. d \in Connection /\ d.offset = a
    BY DEF Connection
  <1>2. [d EXCEPT !.length = b] \in Connection
    BY <1>1 DEF Connection
  <1>3. [d EXCEPT !.length = b].length = b /\ [d EXCEPT !.length = b].offset = a
    BY <1>1 DEF Connection
  <1>4. Output(c, a, b) = [d EXCEPT !.length = b]
    BY DEF Output
  <1> QED
    BY <1>2, <1>3, <1>4, Zenon

LEMMA OutputSound ==
    ASSUME NEW c \in Connection, NEW a \in Nat, NEW b \in Nat, a + b <= OutputBuffer
    PROVE  Sound(Output(c, a, b))
  BY OutputFields DEF Sound

\* Flushing only shrinks what is queued.
LEMMA WrittenSound ==
    ASSUME NEW c, Sound(c), NEW d \in Written(c)
    PROVE  Sound(d)
PROOF
  <1> USE SiyiServerAssumption
  <1>0. c \in Connection /\ c.offset \in Nat /\ c.length \in Nat
        /\ c.offset + c.length <= OutputBuffer
    BY DEF Sound, Connection
  <1>1. PICK n \in 0 .. c.length :
          d = IF n = c.length THEN Output(c, 0, 0)
                              ELSE Output(c, c.offset + n, c.length - n)
    BY DEF Written
  <1> DEFINE a == IF n = c.length THEN 0 ELSE c.offset + n
             b == IF n = c.length THEN 0 ELSE c.length - n
  <1>2. a \in Nat /\ b \in Nat /\ a + b <= OutputBuffer
    BY <1>0
  <1>3. d = Output(c, a, b)
    BY <1>1
  <1> HIDE DEF a, b
  <1>4. c \in Connection
    BY <1>0
  <1> QED
    BY <1>2, <1>3, <1>4, OutputSound, Zenon

\* The compaction is what keeps an appended packet inside the buffer.
LEMMA QueueSound ==
    ASSUME NEW c, Sound(c), NEW n \in Nat, Fits(c, n)
    PROVE  Sound(Queue(c, n))
PROOF
  <1> USE SiyiServerAssumption
  <1> DEFINE a == IF c.offset # 0 /\ c.offset + c.length + n > OutputBuffer
                  THEN 0 ELSE c.offset
             b == c.length + n
  <1>0. c \in Connection /\ c.offset \in Nat /\ c.length \in Nat
        /\ c.offset + c.length <= OutputBuffer
    BY DEF Sound, Connection
  <1>1. a \in Nat /\ b \in Nat /\ a + b <= OutputBuffer
    BY <1>0 DEF Fits
  <1>2. Queue(c, n) = Output(c, a, b)
    BY DEF Queue
  <1> HIDE DEF a, b
  <1>3. c \in Connection
    BY <1>0
  <1> QED
    BY <1>1, <1>2, <1>3, OutputSound, Zenon

LEMMA ClientAfterSound ==
    ASSUME NEW c, Sound(c), NEW n \in Nat, NEW d \in ClientAfter(c, n)
    PROVE  Sound(d)
  BY QueueSound, WrittenSound, CloseSound DEF ClientAfter

LEMMA UartAfterSound ==
    ASSUME NEW c, Sound(c), NEW n \in Nat, NEW d \in UartAfter(c, n)
    PROVE  Sound(d)
  BY QueueSound, WrittenSound, CloseSound DEF UartAfter

\* Replacing one client by a sound one.
LEMMA ReplaceClient ==
    ASSUME Connections, UNCHANGED uart, NEW s \in Slots, NEW d, Sound(d),
           client' = [client EXCEPT ![s] = d]
    PROVE  Connections'
  BY DEF Connections, Sound

LEMMA ReplaceUart ==
    ASSUME Connections, UNCHANGED client, Sound(uart')
    PROVE  Connections'
  BY DEF Connections, Sound

\* The routes that are remembered, and the connection that asked.
Remembered ==
    /\ \A q \in pending : q.route \in Route /\ <<q.route, q.opcode>> \in asked
    /\ \A o \in Opcodes : last[o] # NoRoute =>
          last[o] \in Route /\ <<last[o], o>> \in asked
    /\ DOMAIN last = Opcodes
    /\ active # Idle =>
          /\ active.route \in Route
          /\ <<active.route, active.opcode>> \in asked

LEMMA SendConnections ==
    ASSUME Connections, NEW route \in Route, NEW n \in Nat, Send(route, n)
    PROVE  Connections'
PROOF
  <1>1. CASE route.kind = "tcp"
    <2>1. route.id \in Slots /\ UNCHANGED uart
      BY <1>1 DEF Route, Send
    <2>2. PICK d : /\ client' = [client EXCEPT ![route.id] = d]
                   /\ d \in ClientAfter(client[route.id], n) \cup {Close(client[route.id])}
      BY <1>1 DEF Send
    <2>3. Sound(client[route.id])
      BY <2>1 DEF Connections
    <2>4. Sound(d)
      BY <2>2, <2>3, ClientAfterSound, CloseSound
    <2> QED
      BY <2>1, <2>2, <2>4, ReplaceClient
  <1>2. CASE route.kind = "uart"
    <2>1. uart' \in UartAfter(uart, n) \cup {uart} /\ UNCHANGED client
      BY <1>2 DEF Send
    <2>2. Sound(uart)
      BY DEF Connections
    <2> QED
      BY <2>1, <2>2, UartAfterSound, ReplaceUart
  <1>3. CASE route.kind \notin {"tcp", "uart"}
    <2>1. UNCHANGED connVars
      BY <1>3 DEF Send
    <2> QED
      BY <2>1 DEF connVars, Connections, Sound
  <1> QED
    BY <1>1, <1>2, <1>3

\* Taking one packet out of, or putting some into, the input does not touch
\* the output.
LEMMA InputSound ==
    ASSUME NEW c, Sound(c), NEW i \in 0 .. InputPackets
    PROVE  Sound([c EXCEPT !.input = i])
  BY DEF Sound, Connection

LEMMA ConsumeSound == ASSUME NEW c, Sound(c) PROVE Sound(Consume(c))
PROOF
  <1>1. c.input # 0 => c.input - 1 \in 0 .. InputPackets
    BY SiyiServerAssumption DEF Sound, Connection
  <1> QED
    BY <1>1, InputSound DEF Consume

LEMMA FinishConnections == ASSUME Connections, Remembered, Finish PROVE Connections'
PROOF
  <1>1. active.route \in Route
    BY DEF Finish, Remembered
  <1>2. CASE active.route.kind = "tcp"
    <2>1. /\ active.route.id \in Slots /\ UNCHANGED uart
          /\ client' = [client EXCEPT ![active.route.id] = Consume(client[active.route.id])]
      BY <1>1, <1>2 DEF Finish, Route
    <2>2. Sound(Consume(client[active.route.id]))
      BY <2>1, ConsumeSound DEF Connections
    <2> QED
      BY <2>1, <2>2, ReplaceClient
  <1>3. CASE active.route.kind = "uart"
    <2>1. uart' = Consume(uart) /\ UNCHANGED client
      BY <1>3 DEF Finish
    <2> QED
      BY <2>1, ConsumeSound, ReplaceUart DEF Connections
  <1>4. CASE active.route.kind \notin {"tcp", "uart"}
    <2>1. UNCHANGED <<client, uart>>
      BY <1>4 DEF Finish
    <2> QED
      BY <2>1 DEF Connections, Sound
  <1> QED
    BY <1>2, <1>3, <1>4

LEMMA BroadcastConnections ==
    ASSUME Connections, NEW n \in Nat, Broadcast(n)
    PROVE  Connections'
PROOF
  <1>1. Sound(uart) /\ \A s \in Slots : Sound(client[s])
    BY DEF Connections
  <1>2. Sound(uart')
    BY <1>1, UartAfterSound DEF Broadcast
  <1>3. PICK f \in [Slots -> UNION {ClientAfter(client[s], n) : s \in Slots}] :
          /\ client' = f
          /\ \A s \in Slots : IF client[s].open THEN f[s] \in ClientAfter(client[s], n)
                                                 ELSE f[s] = client[s]
    BY DEF Broadcast
  <1>4. \A s \in Slots : Sound(client'[s])
    BY <1>1, <1>3, ClientAfterSound
  <1>5. DOMAIN client' = Slots /\ client' = [s \in Slots |-> client'[s]]
    BY <1>3
  <1> QED
    BY <1>2, <1>4, <1>5 DEF Connections

LEMMA EmitConnections ==
    ASSUME Connections, Remembered, NEW n \in Lengths, Emit(n)
    PROVE  Connections'
PROOF
  <1>0. n \in Nat
    BY SiyiServerAssumption
  <1>1. CASE EmitActive(n)
    BY <1>0, <1>1, SendConnections DEF EmitActive, Remembered
  <1>2. ASSUME NEW o \in Opcodes, EmitPending(o, n) PROVE Connections'
    <2>1. PICK q \in Oldest(Candidates(o)) : Send(q.route, n)
      BY <1>2 DEF EmitPending
    <2>2. q.route \in Route
      BY DEF Oldest, Candidates, Current, Remembered
    <2> QED
      BY <1>0, <2>1, <2>2, SendConnections
  <1>3. ASSUME NEW o \in Opcodes, EmitLast(o, n) PROVE Connections'
    BY <1>0, <1>3, SendConnections DEF EmitLast, Remembered
  <1>4. ASSUME NEW o \in Opcodes, EmitUnmatched(o, n) PROVE Connections'
    BY <1>0, <1>4, BroadcastConnections DEF EmitUnmatched
  <1> QED
    BY <1>1, <1>2, <1>3, <1>4 DEF Emit

LEMMA EventConnections == ASSUME Connections, Events PROVE Connections'
PROOF
  <1>0. Sound(uart) /\ \A s \in Slots : Sound(client[s])
    BY DEF Connections
  <1>1. ASSUME NEW s \in Slots, AcceptClient(s) PROVE Connections'
    <2> DEFINE d == [Closed(client[s].gen + 1) EXCEPT !.open = TRUE]
    <2>1. client[s].gen + 1 \in 0 .. MaxGeneration
      BY <1>0, <1>1, SiyiServerAssumption DEF Sound, Connection, AcceptClient
    <2>2. Sound(Closed(client[s].gen + 1))
      BY <2>1, ClosedSound
    <2>3. Sound(d)
      BY <2>2 DEF Sound, Connection
    <2> HIDE DEF d
    <2>4. client' = [client EXCEPT ![s] = d] /\ UNCHANGED uart
      BY <1>1 DEF AcceptClient, d
    <2> QED
      BY <2>3, <2>4, ReplaceClient
  <1>2. ASSUME NEW s \in Slots, ReadClient(s) PROVE Connections'
    <2>1. PICK n \in 1 .. InputPackets : client' = [client EXCEPT ![s].input = n]
      BY <1>2 DEF ReadClient
    <2> DEFINE d == [client[s] EXCEPT !.input = n]
    <2>2. n \in 0 .. InputPackets
      BY SiyiServerAssumption
    <2>3. Sound(d)
      BY <1>0, <2>2, InputSound
    <2>4. client' = [client EXCEPT ![s] = d] /\ UNCHANGED uart
      BY <1>2, <2>1 DEF ReadClient
    <2> HIDE DEF d
    <2> QED
      BY <2>3, <2>4, ReplaceClient
  <1>3. ASSUME NEW s \in Slots, ClientEvent(s) PROVE Connections'
    <2>1. PICK d \in Written(client[s]) \cup {Close(client[s])} :
            client' = [client EXCEPT ![s] = d]
      BY <1>3 DEF ClientEvent
    <2>2. Sound(d)
      BY <1>0, WrittenSound, CloseSound
    <2> QED
      BY <1>3, <2>1, <2>2, ReplaceClient DEF ClientEvent
  <1>4. ASSUME NEW s \in Slots, StreamSkip(s) PROVE Connections'
    <2> DEFINE d == [client[s] EXCEPT !.input = client[s].input - 1]
    <2>1. client[s].input - 1 \in 0 .. InputPackets
      BY <1>0, <1>4, SiyiServerAssumption DEF Sound, Connection, StreamSkip
    <2>2. Sound(d)
      BY <1>0, <2>1, InputSound
    <2>3. client' = [client EXCEPT ![s] = d] /\ UNCHANGED uart
      BY <1>4 DEF StreamSkip
    <2> HIDE DEF d
    <2> QED
      BY <2>2, <2>3, ReplaceClient
  <1>5. CASE ReadUart
    <2>1. PICK n \in 1 .. InputPackets : uart' = [uart EXCEPT !.input = n]
      BY <1>5 DEF ReadUart
    <2>2. n \in 0 .. InputPackets
      BY SiyiServerAssumption
    <2>3. Sound(uart')
      BY <1>0, <2>1, <2>2, InputSound
    <2> QED
      BY <1>5, <2>3, ReplaceUart DEF ReadUart
  <1>6. CASE UartEvent
    <2>1. Sound(uart')
      BY <1>0, <1>6, WrittenSound, CloseSound DEF UartEvent
    <2> QED
      BY <1>6, <2>1, ReplaceUart DEF UartEvent
  <1>7. CASE UartSkip
    <2>1. uart' = [uart EXCEPT !.input = uart.input - 1] /\ UNCHANGED client
      BY <1>7 DEF UartSkip
    <2>2. uart.input - 1 \in 0 .. InputPackets
      BY <1>0, <1>7, SiyiServerAssumption DEF Sound, Connection, UartSkip
    <2>3. Sound(uart')
      BY <1>0, <2>1, <2>2, InputSound
    <2> QED
      BY <2>1, <2>3, ReplaceUart
  <1>8. ASSUME NEW order \in 1 .. MaxRequests, DeadlinePasses(order) PROVE Connections'
    BY <1>8 DEF DeadlinePasses, Connections, Sound
  <1> QED
    BY <1>1, <1>2, <1>3, <1>4, <1>5, <1>6, <1>7, <1>8 DEF Events

LEMMA KeepConnections == ASSUME Connections, UNCHANGED <<client, uart>> PROVE Connections'
  BY DEF Connections, Sound

-----------------------------------------------------------------------------
\* A request comes from a peer.
LEMMA RequestRoute ==
    ASSUME Connections
    PROVE  /\ \A a \in Addresses : UdpRoute(a) \in Route
           /\ \A s \in Slots : TcpRoute(s) \in Route
           /\ UartRoute \in Route
PROOF
  <1>1. ASSUME NEW s \in Slots PROVE TcpRoute(s) \in Route
    <2>1. client[s].gen \in 0 .. MaxGeneration
      BY DEF Connections, Sound, Connection
    <2> QED
      BY <2>1 DEF TcpRoute, Route
  <1> QED
    BY <1>1 DEF UdpRoute, UartRoute, Route

\* The dispatched request is the one that is remembered.
LEMMA RequestRemembered ==
    ASSUME Connections, Remembered, NEW o \in Opcodes, Request(o)
    PROVE  Remembered' /\ UNCHANGED <<client, uart>>
PROOF
  <1>1. ASSUME NEW route \in Route, Dispatch(route, o)
        PROVE  Remembered' /\ UNCHANGED <<client, uart>>
    <2>1. /\ last' = [last EXCEPT ![o] = route] /\ pending' = pending
          /\ active' = [route |-> route, opcode |-> o, emitted |-> FALSE]
          /\ asked' = asked \cup {<<route, o>>}
          /\ UNCHANGED <<client, uart>>
      BY <1>1 DEF Dispatch
    <2>2. active'.route = route /\ active'.opcode = o
      BY <2>1
    <2>3. \A p \in Opcodes : last'[p] = IF p = o THEN route ELSE last[p]
      BY <2>1 DEF Remembered
    <2>4. DOMAIN last' = Opcodes
      BY <2>1 DEF Remembered
    <2> QED
      BY <2>1, <2>2, <2>3, <2>4 DEF Remembered
  <1> QED
    BY <1>1, RequestRoute DEF Request, HandleUdp, StreamPacket

\* A finished request may enter the table, under the opcode it asked for.
LEMMA FinishRemembered == ASSUME Remembered, Finish PROVE Remembered'
PROOF
  <1>1. UNCHANGED <<last, asked>> /\ active' = Idle
    BY DEF Finish
  <1>2. active.route \in Route /\ <<active.route, active.opcode>> \in asked
    BY DEF Finish, Remembered
  <1> DEFINE e == [opcode |-> active.opcode, route |-> active.route,
                   order |-> pending_order + 1]
  <1>3. e.route = active.route /\ e.opcode = active.opcode
    OBVIOUS
  <1>4. \A q \in pending' : q \in pending \/ q = e
    BY DEF Finish, Remember, AddPending, Current
  <1> HIDE DEF e
  <1>5. \A q \in pending' : q.route \in Route /\ <<q.route, q.opcode>> \in asked
    BY <1>2, <1>3, <1>4 DEF Remembered
  <1> QED
    BY <1>1, <1>5 DEF Remembered

\* No other step adds a route.
LEMMA KeepRemembered ==
    ASSUME Remembered, UNCHANGED <<last, asked>>, pending' \subseteq pending,
           active' = active
    PROVE  Remembered'
  BY DEF Remembered

LEMMA EmitRemembered ==
    ASSUME Remembered, NEW n \in Lengths, Emit(n)
    PROVE  Remembered'
PROOF
  <1>1. CASE EmitActive(n)
    <2>1. /\ active' = [active EXCEPT !.emitted = TRUE]
          /\ active # Idle /\ UNCHANGED <<pending, last, asked>>
      BY <1>1 DEF EmitActive
    <2>2. active'.route = active.route /\ active'.opcode = active.opcode
      BY <2>1
    <2> QED
      BY <2>1, <2>2 DEF Remembered
  <1>2. ASSUME NEW o \in Opcodes,
               EmitPending(o, n) \/ EmitLast(o, n) \/ EmitUnmatched(o, n)
        PROVE  Remembered'
    BY <1>2, KeepRemembered DEF EmitPending, EmitLast, EmitUnmatched, Current
  <1> QED
    BY <1>1, <1>2 DEF Emit

LEMMA EventRemembered == ASSUME Remembered, Events PROVE Remembered'
PROOF
  <1>1. UNCHANGED <<pending, last, asked, active>>
    BY DEF Events, AcceptClient, ReadClient, ClientEvent, StreamSkip, ReadUart,
           UartEvent, UartSkip, DeadlinePasses
  <1> QED
    BY <1>1, KeepRemembered

-----------------------------------------------------------------------------
IInv == Connections /\ Remembered

LEMMA InitIInv == Init => IInv
PROOF
  <1> SUFFICES ASSUME Init PROVE IInv
    OBVIOUS
  <1>1. Sound(Closed(0))
    BY ClosedSound, SiyiServerAssumption
  <1>2. \A b \in BOOLEAN : Sound([Closed(0) EXCEPT !.open = b])
    BY <1>1 DEF Sound, Connection
  <1>3. Connections
    BY <1>1, <1>2 DEF Init, Connections
  <1>4. Remembered
    BY DEF Init, Remembered
  <1> QED
    BY <1>3, <1>4 DEF IInv

LEMMA NextIInv == IInv /\ [Next]_vars => IInv'
PROOF
  <1> SUFFICES ASSUME Connections, Remembered, [Next]_vars PROVE Connections' /\ Remembered'
    BY DEF IInv
  <1>1. ASSUME NEW o \in Opcodes, Request(o) PROVE Connections' /\ Remembered'
    BY <1>1, RequestRemembered, KeepConnections
  <1>2. ASSUME NEW n \in Lengths, Emit(n) PROVE Connections' /\ Remembered'
    BY <1>2, EmitConnections, EmitRemembered
  <1>3. CASE Finish
    BY <1>3, FinishConnections, FinishRemembered
  <1>4. CASE Events
    BY <1>4, EventConnections, EventRemembered
  <1>5. CASE UNCHANGED vars
    BY <1>5, KeepConnections, KeepRemembered DEF vars
  <1> QED
    BY <1>1, <1>2, <1>3, <1>4, <1>5 DEF Next

\* queue_client, queue_uart and the flushes keep every output buffer within
\* its bounds, whatever the packet lengths and partial writes.
THEOREM BuffersFit == Spec => []OutputFits
PROOF
  <1>1. IInv => OutputFits
    BY DEF IInv, Connections, Sound, OutputFits
  <1> QED
    BY <1>1, InitIInv, NextIInv, PTL DEF Spec

\* take_pending and the last-route fallback of ca_siyi_server_emit only choose
\* a live connection that has itself requested the opcode.
THEOREM AnswersAsker == Spec => []RepliesToAsker
PROOF
  <1>1. ASSUME Connections, NEW route \in Route, RouteValid(route)
        PROVE  Recipient(route) = route
    BY <1>1 DEF Recipient, RouteValid, TcpRoute, Route
  <1>2. IInv => RepliesToAsker
    BY <1>1 DEF IInv, Remembered, RepliesToAsker, Candidates, Current
  <1> QED
    BY <1>2, InitIInv, NextIInv, PTL DEF Spec
-----------------------------------------------------------------------------
\* The types of what the server remembers.  A request is only dispatched while
\* there is an order left for it, and nothing else is numbered before it ends.
Tables ==
    /\ pending \subseteq PendingRoute
    /\ pending_order \in 0 .. MaxRequests
    /\ overdue \in 0 .. MaxRequests
    /\ last \in [Opcodes -> Route \cup {NoRoute}]
    /\ last_udp \in Route \cup {NoRoute}
    /\ active \in [route : Route, opcode : Opcodes, emitted : BOOLEAN] \cup {Idle}
    /\ alive \in BOOLEAN
    /\ asked \subseteq Route \X Opcodes
    /\ answered \in [Opcodes -> 0 .. MaxRequests]
    /\ active # Idle => pending_order < MaxRequests

LEMMA RequestTables ==
    ASSUME Connections, Tables, NEW o \in Opcodes, Request(o)
    PROVE  Tables'
PROOF
  <1>1. ASSUME NEW route \in Route, Dispatch(route, o), pending_order < MaxRequests
        PROVE  Tables'
    <2>1. /\ last' = [last EXCEPT ![o] = route]
          /\ last_udp' \in {route, last_udp}
          /\ active' = [route |-> route, opcode |-> o, emitted |-> FALSE]
          /\ asked' = asked \cup {<<route, o>>}
          /\ UNCHANGED <<pending, pending_order, overdue, answered>>
      BY <1>1 DEF Dispatch
    <2>2. UNCHANGED alive
      BY <1>1 DEF Dispatch
    <2>3. active' \in [route : Route, opcode : Opcodes, emitted : BOOLEAN]
      BY <2>1
    <2>4. last' \in [Opcodes -> Route \cup {NoRoute}]
      BY <2>1 DEF Tables
    <2>5. asked' \subseteq Route \X Opcodes
      BY <2>1 DEF Tables
    <2>6. alive' \in BOOLEAN
      BY <2>2, Zenon DEF Tables
    <2> QED
      BY <1>1, <2>1, <2>3, <2>4, <2>5, <2>6 DEF Tables
  <1> QED
    BY <1>1, RequestRoute DEF Request, HandleUdp, StreamPacket

LEMMA FinishTables == ASSUME Tables, Finish PROVE Tables'
PROOF
  <1> USE SiyiServerAssumption
  <1>1. UNCHANGED <<overdue, last, last_udp, asked, answered>> /\ active' = Idle
    BY DEF Finish
  <1>2. /\ active.route \in Route /\ active.opcode \in Opcodes
        /\ pending_order < MaxRequests
    BY DEF Finish, Tables
  <1> DEFINE e == [opcode |-> active.opcode, route |-> active.route,
                   order |-> pending_order + 1]
  <1>3. pending_order + 1 \in 1 .. MaxRequests
    BY <1>2 DEF Tables
  <1>4. e \in PendingRoute
    BY <1>2, <1>3 DEF PendingRoute
  <1>5. \A q \in pending' : q \in pending \/ q = e
    BY DEF Finish, Remember, AddPending, Current
  <1> HIDE DEF e
  <1>6. pending' \subseteq PendingRoute
    BY <1>4, <1>5 DEF Tables
  <1>7. pending_order' \in {pending_order, pending_order + 1}
    BY DEF Finish, Remember
  <1>8. alive' \in BOOLEAN
    <2>1. CASE active.route.kind = "tcp"
      BY <2>1 DEF Finish
    <2>2. CASE active.route.kind = "uart"
      BY <2>2 DEF Finish
    <2>3. CASE active.route.kind \notin {"tcp", "uart"}
      <3>1. alive' = alive
        BY <2>3 DEF Finish
      <3> QED
        BY <3>1, Zenon DEF Tables
    <2> QED
      BY <2>1, <2>2, <2>3
  <1> QED
    BY <1>1, <1>3, <1>6, <1>7, <1>8 DEF Tables

LEMMA EmitTables ==
    ASSUME Tables, NEW n \in Lengths, Emit(n)
    PROVE  Tables'
PROOF
  <1>1. UNCHANGED <<pending_order, overdue, last, last_udp, asked>>
    BY DEF Emit, EmitActive, EmitPending, EmitLast, EmitUnmatched
  <1>2. alive' = alive
    BY DEF Emit, EmitActive, EmitPending, EmitLast, EmitUnmatched
  <1>3. alive' \in BOOLEAN
    BY <1>2, Zenon DEF Tables
  <1>4. pending' \subseteq pending
    BY DEF Emit, EmitActive, EmitPending, EmitLast, EmitUnmatched, Current
  <1>5. CASE EmitActive(n)
    <2>1. active' = [active EXCEPT !.emitted = TRUE] /\ active # Idle /\ UNCHANGED answered
      BY <1>5 DEF EmitActive
    <2>2. active' \in [route : Route, opcode : Opcodes, emitted : BOOLEAN]
      BY <2>1 DEF Tables
    <2> QED
      BY <1>1, <1>3, <1>4, <2>1, <2>2 DEF Tables
  <1>6. ASSUME NEW o \in Opcodes, EmitPending(o, n) PROVE Tables'
    <2>1. PICK q \in Oldest(Candidates(o)) : answered' = [answered EXCEPT ![o] = q.order]
      BY <1>6 DEF EmitPending
    <2>2. q \in PendingRoute
      BY DEF Oldest, Candidates, Current, Tables
    <2>3. q.order \in 0 .. MaxRequests
      BY <2>2, SiyiServerAssumption DEF PendingRoute
    <2>4. answered' \in [Opcodes -> 0 .. MaxRequests]
      BY <2>1, <2>3 DEF Tables
    <2>5. active' = active
      BY <1>6 DEF EmitPending
    <2> QED
      BY <1>1, <1>3, <1>4, <2>4, <2>5 DEF Tables
  <1>7. ASSUME NEW o \in Opcodes, EmitLast(o, n) \/ EmitUnmatched(o, n) PROVE Tables'
    <2>1. UNCHANGED <<active, answered>>
      BY <1>7 DEF EmitLast, EmitUnmatched
    <2> QED
      BY <1>1, <1>3, <1>4, <2>1 DEF Tables
  <1> QED
    BY <1>5, <1>6, <1>7 DEF Emit

LEMMA EventTables == ASSUME Tables, Events PROVE Tables'
PROOF
  <1>1. UNCHANGED <<pending, pending_order, last, last_udp, active, asked, answered>>
    BY DEF Events, AcceptClient, ReadClient, ClientEvent, StreamSkip, ReadUart,
           UartEvent, UartSkip, DeadlinePasses
  <1>2. alive' = alive
    BY DEF Events, AcceptClient, ReadClient, ClientEvent, StreamSkip, ReadUart,
           UartEvent, UartSkip, DeadlinePasses
  <1>3. alive' \in BOOLEAN
    BY <1>2, Zenon DEF Tables
  <1>4. overdue' = overdue \/ overdue' \in 1 .. MaxRequests
    BY DEF Events, AcceptClient, ReadClient, ClientEvent, StreamSkip, ReadUart,
           UartEvent, UartSkip, DeadlinePasses
  <1>5. overdue' \in 0 .. MaxRequests
    BY <1>4, SiyiServerAssumption DEF Tables
  <1> QED
    BY <1>1, <1>3, <1>5 DEF Tables

LEMMA TablesStep == IInv /\ Tables /\ [Next]_vars => Tables'
PROOF
  <1> SUFFICES ASSUME Connections, Remembered, Tables, [Next]_vars PROVE Tables'
    BY DEF IInv
  <1>1. CASE UNCHANGED vars
    <2>1. UNCHANGED <<pending, pending_order, overdue, last, last_udp, active, asked, answered>>
      BY <1>1 DEF vars
    <2>2. alive' = alive
      BY <1>1 DEF vars
    <2>3. alive' \in BOOLEAN
      BY <2>2, Zenon DEF Tables
    <2> QED
      BY <2>1, <2>3 DEF Tables
  <1> QED
    BY <1>1, RequestTables, EmitTables, FinishTables, EventTables DEF Next

\* Every table, route and counter of the server keeps its type: dispatch_packet
\* and ca_siyi_server_emit only remember routes of peers there have been.
THEOREM TypeCorrect == Spec => []TypeOK
PROOF
  <1>1. Init => Tables
    BY SiyiServerAssumption DEF Init, Tables
  <1>2. IInv /\ Tables /\ [Next]_vars => Tables'
    BY TablesStep
  <1>3. IInv /\ Tables => TypeOK
    <2> SUFFICES ASSUME Connections, Tables PROVE TypeOK
      BY DEF IInv
    <2>1. client \in [Slots -> Connection] /\ uart \in Connection
      BY DEF Connections, Sound
    <2> QED
      BY <2>1, Zenon DEF Tables, TypeOK
  <1> QED
    BY <1>1, <1>2, <1>3, InitIInv, NextIInv, PTL DEF Spec

-----------------------------------------------------------------------------
(* Answers in order *)

\* What a step may make of a connection: it stays, closes, or is followed by a
\* later one in the same slot.  It is never the earlier one that opens again.
Ages(c, d) == c.gen <= d.gen /\ (d.gen = c.gen /\ d.open => c.open)
Forward ==
    /\ uart'.open => uart.open
    /\ \A s \in Slots : Ages(client[s], client'[s])

\* The same connection, or the same one closed.
Stays(c, d) == d.gen = c.gen /\ (d.open => c.open)

LEMMA StaysAges == ASSUME NEW c \in Connection, NEW d, Stays(c, d) PROVE Ages(c, d)
<1>1. c.gen <= c.gen
  BY SMT DEF Connection
<1> QED BY <1>1 DEF Stays, Ages

LEMMA OutputStays == \A c \in Connection, a, b \in Nat : Stays(c, Output(c, a, b))
<1> SUFFICES ASSUME NEW c \in Connection, NEW a \in Nat, NEW b \in Nat PROVE Stays(c, Output(c, a, b))
  OBVIOUS
<1> DEFINE d == [c EXCEPT !.offset = a]
<1>1. d \in Connection /\ d.gen = c.gen /\ d.open = c.open
  BY DEF Connection
<1>2. [d EXCEPT !.length = b].gen = d.gen /\ [d EXCEPT !.length = b].open = d.open
  BY <1>1 DEF Connection
<1>3. Output(c, a, b) = [d EXCEPT !.length = b]
  BY DEF Output
<1> HIDE DEF d
<1> QED BY <1>1, <1>2, <1>3 DEF Stays

LEMMA CloseStays == \A c : Stays(c, Close(c))
BY DEF Stays, Close, Closed

LEMMA WrittenStays == ASSUME NEW c, Sound(c), NEW d \in Written(c) PROVE Stays(c, d)
<1>1. c \in Connection /\ c.offset \in Nat /\ c.length \in Nat
  BY DEF Sound, Connection
<1>2. PICK n \in 0 .. c.length :
        d = IF n = c.length THEN Output(c, 0, 0) ELSE Output(c, c.offset + n, c.length - n)
  BY DEF Written
<1>3. 0 \in Nat /\ c.offset + n \in Nat /\ c.length - n \in Nat
  BY <1>1, SMT
<1> QED BY <1>1, <1>2, <1>3, OutputStays

LEMMA QueueStays == ASSUME NEW c, Sound(c), NEW n \in Nat PROVE Stays(c, Queue(c, n))
<1>1. c \in Connection /\ c.offset \in Nat /\ c.length \in Nat
  BY DEF Sound, Connection
<1>2. 0 \in Nat /\ c.length + n \in Nat
  BY <1>1, SMT
<1>3. Queue(c, n) \in {Output(c, 0, c.length + n), Output(c, c.offset, c.length + n)}
  BY DEF Queue
<1> QED BY <1>1, <1>2, <1>3, OutputStays

LEMMA AfterStays ==
    ASSUME NEW c, Sound(c), NEW n \in Nat, NEW d \in ClientAfter(c, n) \cup UartAfter(c, n)
    PROVE  Stays(c, d)
<1>1. CASE Fits(c, n) /\ d \in Written(Queue(c, n))
  <2>1. Sound(Queue(c, n))
    BY <1>1, QueueSound
  <2>2. Stays(Queue(c, n), d) /\ Stays(c, Queue(c, n))
    BY <1>1, <2>1, WrittenStays, QueueStays
  <2> QED BY <2>2 DEF Stays
<1>2. CASE d = Close(c)
  BY <1>2, CloseStays
<1>3. CASE d = c
  BY <1>3 DEF Stays
<1> QED BY <1>1, <1>2, <1>3 DEF ClientAfter, UartAfter

\* One client changes, and the UART may.
LEMMA ClientForward ==
    ASSUME Connections, NEW s \in Slots, NEW d, client' = [client EXCEPT ![s] = d], Ages(client[s], d),
           uart'.open => uart.open
    PROVE  Forward
<1>1. \A r \in Slots : client[r] \in Connection
  BY DEF Connections, Sound
<1>2. \A r \in Slots : client'[r] = IF r = s THEN d ELSE client[r]
  BY DEF Connections
<1>3. \A r \in Slots : Ages(client[r], client[r])
  BY <1>1, StaysAges DEF Stays
<1> QED BY <1>2, <1>3 DEF Forward

LEMMA UartForward == ASSUME Connections, UNCHANGED client, uart'.open => uart.open PROVE Forward
<1>1. \A r \in Slots : client[r] \in Connection
  BY DEF Connections, Sound
<1> QED BY <1>1, StaysAges DEF Forward, Stays

LEMMA SendForward ==
    ASSUME Connections, NEW route \in Route, NEW n \in Nat, Send(route, n)
    PROVE  Forward
<1>1. CASE route.kind = "tcp"
  <2>1. route.id \in Slots /\ UNCHANGED uart
    BY <1>1 DEF Route, Send
  <2>2. PICK d : /\ client' = [client EXCEPT ![route.id] = d]
                 /\ d \in ClientAfter(client[route.id], n) \cup {Close(client[route.id])}
    BY <1>1 DEF Send
  <2>3. Sound(client[route.id]) /\ client[route.id] \in Connection
    BY <2>1 DEF Connections, Sound
  <2>4. Ages(client[route.id], d)
    BY <2>2, <2>3, AfterStays, CloseStays, StaysAges
  <2> QED BY <2>1, <2>2, <2>4, ClientForward
<1>2. CASE route.kind = "uart"
  <2>1. uart' \in UartAfter(uart, n) \cup {uart} /\ UNCHANGED client
    BY <1>2 DEF Send
  <2>2. Sound(uart)
    BY DEF Connections
  <2>3. uart'.open => uart.open
    BY <2>1, <2>2, AfterStays DEF Stays
  <2> QED BY <2>1, <2>3, UartForward
<1>3. CASE route.kind \notin {"tcp", "uart"}
  <2>1. UNCHANGED <<client, uart>>
    BY <1>3 DEF Send, connVars
  <2> QED BY <2>1, UartForward
<1> QED BY <1>1, <1>2, <1>3

LEMMA BroadcastForward ==
    ASSUME Connections, NEW n \in Nat, Broadcast(n)
    PROVE  Forward
<1>1. ASSUME NEW s \in Slots PROVE Ages(client[s], client'[s])
  <2>1. client'[s] \in ClientAfter(client[s], n) \cup {client[s]}
    BY DEF Broadcast
  <2>2. Sound(client[s]) /\ client[s] \in Connection
    BY DEF Connections, Sound
  <2>3. Stays(client[s], client'[s])
    BY <2>1, <2>2, AfterStays DEF Stays
  <2> QED BY <2>2, <2>3, StaysAges
<1>2. uart'.open => uart.open
  <2>1. uart' \in UartAfter(uart, n) \cup {uart} /\ Sound(uart)
    BY DEF Broadcast, Connections
  <2> QED BY <2>1, AfterStays DEF Stays
<1> QED BY <1>1, <1>2 DEF Forward

\* The packets counted in the input are not what a connection is known by.
LEMMA InputStays == \A c \in Connection, i \in 0 .. InputPackets : Stays(c, [c EXCEPT !.input = i])
BY DEF Connection, Stays

LEMMA ConsumeStays == \A c \in Connection : Stays(c, Consume(c))
<1> SUFFICES ASSUME NEW c \in Connection PROVE Stays(c, Consume(c))
  OBVIOUS
<1>1. c.input = 0 \/ c.input - 1 \in 0 .. InputPackets
  BY SiyiServerAssumption, SMT DEF Connection
<1> QED BY <1>1, InputStays DEF Consume, Stays

LEMMA FinishForward == ASSUME Connections, Remembered, Finish PROVE Forward
<1>1. active.route \in Route
  BY DEF Finish, Remembered
<1>2. CASE active.route.kind = "tcp"
  <2>1. active.route.id \in Slots
    BY <1>1, <1>2 DEF Route
  <2>2. client' = [client EXCEPT ![active.route.id] = Consume(client[active.route.id])] /\ UNCHANGED uart
    BY <1>2 DEF Finish
  <2>3. client[active.route.id] \in Connection
    BY <2>1 DEF Connections, Sound
  <2> QED BY <2>1, <2>2, <2>3, ConsumeStays, StaysAges, ClientForward
<1>3. CASE active.route.kind = "uart"
  <2>1. uart' = Consume(uart) /\ UNCHANGED client
    BY <1>3 DEF Finish
  <2>2. uart \in Connection
    BY DEF Connections, Sound
  <2>3. uart'.open => uart.open
    BY <2>1, <2>2, ConsumeStays DEF Stays
  <2> QED BY <2>1, <2>3, UartForward
<1>4. CASE active.route.kind \notin {"tcp", "uart"}
  BY <1>4, UartForward DEF Finish
<1> QED BY <1>2, <1>3, <1>4

LEMMA EmitForward == ASSUME Connections, Remembered, NEW n \in Lengths, Emit(n) PROVE Forward
<1>1. n \in Nat
  BY SiyiServerAssumption
<1>2. CASE EmitActive(n)
  BY <1>1, <1>2, SendForward DEF EmitActive, Remembered
<1>3. ASSUME NEW o \in Opcodes, EmitPending(o, n) PROVE Forward
  <2>1. PICK q \in Oldest(Candidates(o)) : Send(q.route, n)
    BY <1>3 DEF EmitPending
  <2>2. q.route \in Route
    BY DEF Oldest, Candidates, Current, Remembered
  <2> QED BY <1>1, <2>1, <2>2, SendForward
<1>4. ASSUME NEW o \in Opcodes, EmitLast(o, n) PROVE Forward
  BY <1>1, <1>4, SendForward DEF EmitLast, Remembered
<1>5. ASSUME NEW o \in Opcodes, EmitUnmatched(o, n) PROVE Forward
  BY <1>1, <1>5, BroadcastForward DEF EmitUnmatched
<1> QED BY <1>2, <1>3, <1>4, <1>5 DEF Emit

\* A slot is used again by a connection with a new generation only.
LEMMA EventForward == ASSUME Connections, Events PROVE Forward
<1>1. \A s \in Slots : client[s] \in Connection /\ Sound(client[s])
  BY DEF Connections, Sound
<1>2. uart \in Connection /\ Sound(uart)
  BY DEF Connections, Sound
<1>3. ASSUME NEW s \in Slots, AcceptClient(s) PROVE Forward
  <2> DEFINE d == [Closed(client[s].gen + 1) EXCEPT !.open = TRUE]
  <2>1. client' = [client EXCEPT ![s] = d] /\ UNCHANGED uart
    BY <1>3 DEF AcceptClient
  <2>2. d.gen = client[s].gen + 1
    BY DEF Closed
  <2> HIDE DEF d
  <2>3. client[s].gen \in 0 .. MaxGeneration
    BY <1>1 DEF Connection
  <2>4. Ages(client[s], d)
    BY <2>2, <2>3, SMT DEF Ages
  <2> QED BY <2>1, <2>4, ClientForward
<1>4. ASSUME NEW s \in Slots, ReadClient(s) PROVE Forward
  <2>1. PICK n \in 1 .. InputPackets : client' = [client EXCEPT ![s] = [client[s] EXCEPT !.input = n]]
    BY <1>1, <1>4 DEF ReadClient
  <2>2. UNCHANGED uart /\ n \in 0 .. InputPackets
    BY <1>4, SMT DEF ReadClient
  <2> QED BY <1>1, <2>1, <2>2, InputStays, StaysAges, ClientForward
<1>5. ASSUME NEW s \in Slots, ClientEvent(s) PROVE Forward
  <2>1. PICK d \in Written(client[s]) \cup {Close(client[s])} : client' = [client EXCEPT ![s] = d]
    BY <1>5 DEF ClientEvent
  <2>2. Stays(client[s], d)
    BY <1>1, WrittenStays, CloseStays
  <2> QED BY <1>1, <1>5, <2>1, <2>2, StaysAges, ClientForward DEF ClientEvent
<1>6. ASSUME NEW s \in Slots, StreamSkip(s) PROVE Forward
  <2> DEFINE i == client[s].input - 1
  <2>1. client' = [client EXCEPT ![s] = [client[s] EXCEPT !.input = i]] /\ UNCHANGED uart
    BY <1>6 DEF StreamSkip
  <2>2. i \in 0 .. InputPackets
    BY <1>1, <1>6, SiyiServerAssumption, SMT DEF StreamSkip, Connection
  <2> HIDE DEF i
  <2> QED BY <1>1, <2>1, <2>2, InputStays, StaysAges, ClientForward
<1>7. CASE ReadUart
  <2>1. UNCHANGED client /\ uart.open
    BY <1>7 DEF ReadUart
  <2> QED BY <2>1, UartForward
<1>8. CASE UartEvent
  <2>1. UNCHANGED client /\ uart.open
    BY <1>8 DEF UartEvent
  <2> QED BY <2>1, UartForward
<1>9. CASE UartSkip
  <2>1. UNCHANGED client /\ uart' = [uart EXCEPT !.input = uart.input - 1]
    BY <1>9 DEF UartSkip
  <2>2. uart'.open = uart.open
    BY <1>2, <2>1 DEF Connection
  <2> QED BY <2>1, <2>2, UartForward
<1>10. ASSUME NEW order \in 1 .. MaxRequests, DeadlinePasses(order) PROVE Forward
  BY <1>10, UartForward DEF DeadlinePasses
<1> QED BY <1>3, <1>4, <1>5, <1>6, <1>7, <1>8, <1>9, <1>10 DEF Events

LEMMA NextForward == ASSUME Connections, Remembered, [Next]_vars PROVE Forward
<1>1. ASSUME NEW o \in Opcodes, Request(o) PROVE Forward
  BY <1>1, RequestRemembered, UartForward
<1>2. CASE UNCHANGED vars
  BY <1>2, UartForward DEF vars
<1> QED BY <1>1, <1>2, EmitForward, FinishForward, EventForward DEF Next

\* A connection that a route once led to is not a later one than the slot's.
Known(route) == route \in Route /\ (route.kind = "tcp" => route.gen <= client[route.id].gen)

\* So a route whose peer has gone never leads anywhere again.
LEMMA GoneForGood ==
    ASSUME Connections, Connections', Forward, NEW route, Known(route)
    PROVE  Known(route)' /\ (RouteValid(route)' => RouteValid(route))
<1>1. CASE route.kind = "tcp"
  <2>1. route.id \in Slots /\ route.gen \in 0 .. MaxGeneration /\ route.gen <= client[route.id].gen
    BY <1>1 DEF Known, Route
  <2>2. client[route.id].gen \in 0 .. MaxGeneration /\ client'[route.id].gen \in 0 .. MaxGeneration
    BY <2>1 DEF Connections, Sound, Connection
  <2>3. Ages(client[route.id], client'[route.id])
    BY <2>1 DEF Forward
  <2>4. route.gen <= client'[route.id].gen
    BY <2>1, <2>2, <2>3, SMT DEF Ages
  <2>5. client'[route.id].gen = route.gen => client[route.id].gen = route.gen
    BY <2>1, <2>2, <2>3, SMT DEF Ages
  <2> QED BY <1>1, <2>3, <2>4, <2>5 DEF Known, RouteValid, Ages
<1>2. CASE route.kind # "tcp"
  BY <1>2 DEF Known, RouteValid, Forward
<1> QED BY <1>1, <1>2

\* Who waits: orders are given once, in the order of the requests, and whoever
\* can still be answered comes after the one last answered for the opcode.
WaitingRoutes ==
    /\ \A q \in pending : Known(q.route)
    /\ active # Idle => Known(active.route)
WaitingOrders ==
    /\ \A q \in pending : q.order <= pending_order
    /\ \A p, q \in pending : p.order = q.order => p = q
    /\ \A o \in Opcodes : answered[o] <= pending_order
WaitingTurns == \A q \in pending : RouteValid(q.route) => q.order > answered[q.opcode]
Waiting == WaitingRoutes /\ WaitingOrders /\ WaitingTurns

\* A step that adds no request and answers none.
LEMMA WaitingKept ==
    ASSUME Connections, Connections', Forward, Waiting, pending' \subseteq pending,
           UNCHANGED <<pending_order, answered>>, active' # Idle => active # Idle /\ active'.route = active.route
    PROVE  Waiting'
<1>1. WaitingRoutes'
  <2>1. \A q \in pending : Known(q.route)'
    BY GoneForGood DEF Waiting, WaitingRoutes
  <2>2. active # Idle => Known(active.route)
    BY DEF Waiting, WaitingRoutes
  <2>3. ASSUME active' # Idle PROVE Known(active.route)'
    <3>1. Known(active.route) /\ active'.route = active.route
      BY <2>2, <2>3
    <3>2. PICK r : r = active.route
      OBVIOUS
    <3>3. Known(r)'
      BY <3>1, <3>2, GoneForGood
    <3> QED BY <3>1, <3>2, <3>3 DEF Known
  <2> QED BY <2>1, <2>3 DEF WaitingRoutes, Known
<1>2. WaitingOrders'
  BY DEF Waiting, WaitingOrders
<1>3. WaitingTurns'
  BY GoneForGood DEF Waiting, WaitingTurns, WaitingRoutes
<1> QED BY <1>1, <1>2, <1>3 DEF Waiting

LEMMA RequestWaits ==
    ASSUME Connections, Waiting, NEW o \in Opcodes, Request(o)
    PROVE  Waiting'
<1>1. ASSUME NEW route, Known(route), Dispatch(route, o) PROVE Waiting'
  <2>1. UNCHANGED <<client, uart, pending, pending_order, answered>>
    BY <1>1 DEF Dispatch
  <2>2. active'.route = route
    BY <1>1 DEF Dispatch
  <2>3. WaitingRoutes'
    BY <1>1, <2>1, <2>2 DEF Waiting, WaitingRoutes, Known
  <2>4. WaitingOrders' /\ WaitingTurns'
    BY <2>1 DEF Waiting, WaitingOrders, WaitingTurns, RouteValid
  <2> QED BY <2>3, <2>4 DEF Waiting
<1>2. \A a \in Addresses : Known(UdpRoute(a))
  BY RequestRoute DEF Known, UdpRoute
<1>3. Known(UartRoute)
  BY RequestRoute DEF Known, UartRoute
<1>4. ASSUME NEW s \in Slots PROVE Known(TcpRoute(s))
  <2>1. client[s].gen <= client[s].gen
    BY SMT DEF Connections, Sound, Connection
  <2> QED BY <2>1, RequestRoute DEF Known, TcpRoute
<1> QED BY <1>1, <1>2, <1>3, <1>4 DEF Request, HandleUdp, StreamPacket

\* A request that enters the table comes after all that have been answered.
LEMMA FinishWaits ==
    ASSUME Connections, Connections', Forward, Tables, Waiting, Finish
    PROVE  Waiting'
<1> DEFINE e == [opcode |-> active.opcode, route |-> active.route, order |-> pending_order + 1]
<1>1. active # Idle /\ active' = Idle /\ UNCHANGED answered
  BY DEF Finish
<1>2. e.route = active.route /\ e.order = pending_order + 1 /\ e.opcode = active.opcode /\ e.opcode \in Opcodes
  BY <1>1 DEF Tables
<1>3. \/ pending' = pending /\ pending_order' = pending_order
      \/ pending_order' = pending_order + 1 /\ \A q \in pending' : q \in pending \/ q = e
  BY DEF Finish, Remember, AddPending, Current
<1>4. Known(e.route)
  BY <1>1, <1>2 DEF Waiting, WaitingRoutes
<1> HIDE DEF e
<1>5. pending_order \in Nat /\ answered \in [Opcodes -> Nat] /\ \A q \in pending : q.order \in Nat /\ q.opcode \in Opcodes
  BY SiyiServerAssumption DEF Tables, PendingRoute
<1>6. CASE pending' = pending /\ pending_order' = pending_order
  BY <1>1, <1>6, WaitingKept
<1>7. CASE pending_order' = pending_order + 1 /\ \A q \in pending' : q \in pending \/ q = e
  <2>1. WaitingRoutes'
    <3>1. \A q \in pending : Known(q.route)'
      BY GoneForGood DEF Waiting, WaitingRoutes
    <3>2. PICK r : r = e.route
      OBVIOUS
    <3>3. Known(r)'
      BY <1>4, <3>2, GoneForGood
    <3>4. e.route \in Route /\ (e.route.kind = "tcp" => e.route.gen <= client'[e.route.id].gen)
      BY <3>2, <3>3 DEF Known
    <3> QED BY <1>1, <1>7, <3>1, <3>4 DEF WaitingRoutes, Known
  <2>2. WaitingOrders'
    <3>1. \A q \in pending : q.order <= pending_order' /\ q.order # e.order
      <4>1. \A q \in pending : q.order <= pending_order /\ q.order \in Nat
        BY <1>5 DEF Waiting, WaitingOrders
      <4>2. \A x \in Nat : x <= pending_order => x <= pending_order + 1 /\ x # pending_order + 1
        BY <1>5, SMT
      <4> QED BY <1>2, <1>7, <4>1, <4>2
    <3>2. e.order <= pending_order'
      BY <1>2, <1>5, <1>7, SMT
    <3>3. \A o \in Opcodes : answered'[o] <= pending_order'
      <4>1. \A o \in Opcodes : answered[o] <= pending_order /\ answered[o] \in Nat
        BY <1>5 DEF Waiting, WaitingOrders
      <4>2. \A x \in Nat : x <= pending_order => x <= pending_order + 1
        BY <1>5, SMT
      <4> QED BY <1>1, <1>7, <4>1, <4>2
    <3> QED BY <1>7, <3>1, <3>2, <3>3 DEF Waiting, WaitingOrders
  <2>3. WaitingTurns'
    <3>1. \A q \in pending : RouteValid(q.route)' => q.order > answered[q.opcode]
      BY GoneForGood DEF Waiting, WaitingTurns, WaitingRoutes
    <3>2. e.order > answered[e.opcode]
      <4>1. answered[e.opcode] <= pending_order /\ answered[e.opcode] \in Nat
        BY <1>2, <1>5 DEF Waiting, WaitingOrders
      <4> QED BY <1>2, <1>5, <4>1, SMT
    <3> QED BY <1>1, <1>7, <3>1, <3>2 DEF WaitingTurns
  <2> QED BY <2>1, <2>2, <2>3 DEF Waiting
<1> QED BY <1>3, <1>6, <1>7

\* Whoever is answered was waiting, and the others wait behind.
LEMMA PendingAnswered ==
    ASSUME Connections, Connections', Forward, Tables, Waiting, NEW n, NEW o \in Opcodes, EmitPending(o, n)
    PROVE  /\ Waiting'
           /\ answered'[o] > answered[o] /\ \A p \in Opcodes : p # o => answered'[p] = answered[p]
<1>1. PICK q \in Oldest(Candidates(o)) :
        pending' = Current(pending) \ {q} /\ answered' = [answered EXCEPT ![o] = q.order]
  BY DEF EmitPending
<1>2. UNCHANGED <<pending_order, active>>
  BY DEF EmitPending
<1>3. /\ q \in pending /\ q.opcode = o /\ RouteValid(q.route)
      /\ \A p \in Current(pending) : p.opcode = o /\ RouteValid(p.route) => q.order <= p.order
  BY DEF Oldest, Candidates, Current
<1>4. pending' \subseteq pending /\ q \notin pending' /\ pending' \subseteq Current(pending)
  BY <1>1 DEF Current
<1>5. answered \in [Opcodes -> Nat] /\ pending_order \in Nat /\ \A p \in pending : p.order \in Nat /\ p.opcode \in Opcodes
  BY SiyiServerAssumption DEF Tables, PendingRoute
<1>6. answered'[o] = q.order /\ \A p \in Opcodes : p # o => answered'[p] = answered[p]
  BY <1>1, <1>5
<1>7. q.order > answered[o]
  BY <1>3 DEF Waiting, WaitingTurns
<1>8. WaitingRoutes'
  <2>1. \A p \in pending : Known(p.route)'
    BY GoneForGood DEF Waiting, WaitingRoutes
  <2>2. active = Idle
    BY DEF EmitPending, Loop, Ready
  <2> QED BY <1>2, <1>4, <2>1, <2>2 DEF WaitingRoutes
<1>9. WaitingOrders'
  <2>1. q.order <= pending_order
    BY <1>3 DEF Waiting, WaitingOrders
  <2> QED BY <1>2, <1>4, <1>6, <2>1 DEF Waiting, WaitingOrders
<1>10. WaitingTurns'
  <2> SUFFICES ASSUME NEW p \in pending', RouteValid(p.route)' PROVE p.order > answered'[p.opcode]
    BY DEF WaitingTurns
  <2>1. p \in pending /\ p # q /\ RouteValid(p.route) /\ p \in Current(pending) /\ p.opcode \in Opcodes
    BY <1>4, <1>5, GoneForGood DEF Waiting, WaitingRoutes
  <2>2. CASE p.opcode = o
    <3>1. q.order <= p.order /\ q.order # p.order
      BY <1>3, <2>1, <2>2 DEF Waiting, WaitingOrders
    <3>2. q.order \in Nat /\ p.order \in Nat
      BY <1>3, <1>5, <2>1
    <3>3. p.order > q.order
      BY <3>1, <3>2, SMT
    <3> QED BY <1>6, <2>2, <3>3
  <2>3. CASE p.opcode # o
    BY <1>6, <2>1, <2>3 DEF Waiting, WaitingTurns
  <2> QED BY <2>2, <2>3
<1> QED BY <1>6, <1>7, <1>8, <1>9, <1>10 DEF Waiting

LEMMA EmitWaits ==
    ASSUME Connections, Connections', Forward, Tables, Waiting, NEW n \in Lengths, Emit(n)
    PROVE  Waiting'
<1>1. CASE EmitActive(n)
  <2>1. active' = [active EXCEPT !.emitted = TRUE] /\ active # Idle /\ UNCHANGED <<pending, pending_order, answered>>
    BY <1>1 DEF EmitActive
  <2>2. active'.route = active.route
    BY <2>1 DEF Tables
  <2> QED BY <2>1, <2>2, WaitingKept
<1>2. ASSUME NEW o \in Opcodes, EmitLast(o, n) \/ EmitUnmatched(o, n) PROVE Waiting'
  <2>1. pending' \subseteq pending /\ UNCHANGED <<pending_order, answered, active>>
    BY <1>2 DEF EmitLast, EmitUnmatched, Current
  <2> QED BY <2>1, WaitingKept
<1> QED BY <1>1, <1>2, PendingAnswered DEF Emit

LEMMA EventWaits ==
    ASSUME Connections, Connections', Forward, Waiting, Events
    PROVE  Waiting'
<1>1. UNCHANGED <<pending, pending_order, answered, active>>
  BY DEF Events, AcceptClient, ReadClient, ClientEvent, StreamSkip, ReadUart,
         UartEvent, UartSkip, DeadlinePasses
<1> QED BY <1>1, WaitingKept

InTurn == \A o \in Opcodes : answered'[o] # answered[o] => answered'[o] > answered[o]

WaitInv == IInv /\ Tables /\ Waiting

LEMMA WaitStep == WaitInv /\ [Next]_vars => WaitInv' /\ InTurn
<1> SUFFICES ASSUME WaitInv, [Next]_vars PROVE WaitInv' /\ InTurn
  OBVIOUS
<1>1. Connections /\ Remembered /\ Tables /\ Waiting
  BY DEF WaitInv, IInv
<1>2. IInv' /\ Tables' /\ Connections'
  <2>1. IInv'
    BY NextIInv DEF WaitInv
  <2>2. Tables'
    BY TablesStep DEF WaitInv
  <2> QED BY <2>1, <2>2 DEF IInv
<1>3. Forward
  BY <1>1, NextForward
<1>3a. UNCHANGED answered => InTurn
  BY DEF InTurn
<1>4. ASSUME NEW o \in Opcodes, Request(o) PROVE Waiting' /\ InTurn
  <2>1. UNCHANGED answered
    BY <1>4 DEF Request, HandleUdp, StreamPacket, Dispatch
  <2> QED BY <1>1, <1>3a, <1>4, <2>1, RequestWaits
<1>5. ASSUME NEW n \in Lengths, Emit(n) PROVE Waiting' /\ InTurn
  <2>1. Waiting'
    BY <1>1, <1>2, <1>3, <1>5, EmitWaits
  <2>2. InTurn
    <3>1. CASE UNCHANGED answered
      BY <3>1 DEF InTurn
    <3>2. ASSUME NEW o \in Opcodes, EmitPending(o, n) PROVE InTurn
      BY <1>1, <1>2, <1>3, <3>2, PendingAnswered DEF InTurn
    <3> QED BY <1>5, <3>1, <3>2 DEF Emit, EmitActive, EmitLast, EmitUnmatched
  <2> QED BY <2>1, <2>2
<1>6. CASE Finish
  <2>1. UNCHANGED answered
    BY <1>6 DEF Finish
  <2>2. Waiting'
    BY <1>1, <1>2, <1>3, <1>6, FinishWaits
  <2> QED BY <1>2, <1>3a, <2>1, <2>2 DEF WaitInv
<1>7. CASE Events
  <2>1. UNCHANGED answered
    BY <1>7 DEF Events, AcceptClient, ReadClient, ClientEvent, StreamSkip, ReadUart,
           UartEvent, UartSkip, DeadlinePasses
  <2>2. Waiting'
    BY <1>1, <1>2, <1>3, <1>7, EventWaits
  <2> QED BY <1>2, <1>3a, <2>1, <2>2 DEF WaitInv
<1>8. CASE UNCHANGED vars
  <2>1. UNCHANGED <<pending, pending_order, answered, active>>
    BY <1>8 DEF vars
  <2>2. Waiting'
    BY <1>1, <1>2, <1>3, <2>1, WaitingKept
  <2> QED BY <1>2, <1>3a, <2>1, <2>2 DEF WaitInv
<1> QED BY <1>2, <1>4, <1>5, <1>6, <1>7, <1>8 DEF Next, WaitInv

\* take_pending answers the requests for an opcode in the order they came: one
\* that was passed over, because its peer had gone, is never answered later, for
\* route_valid does not accept a generation of the slot again.
THEOREM AnswersStayInOrder == Spec => AnswersInOrder
<1>1. Init => WaitInv
  <2>1. Init => Tables
    BY SiyiServerAssumption DEF Init, Tables
  <2>2. Init => Waiting
    <3> SUFFICES ASSUME Init PROVE Waiting
      OBVIOUS
    <3>1. pending = {} /\ active = Idle /\ pending_order = 0 /\ answered = [o \in Opcodes |-> 0]
      BY DEF Init
    <3> QED BY <3>1, SMT DEF Waiting, WaitingRoutes, WaitingOrders, WaitingTurns
  <2> QED BY <2>1, <2>2, InitIInv DEF WaitInv
<1>2. WaitInv /\ [Next]_vars => [\A o \in Opcodes : answered'[o] # answered[o] => answered'[o] > answered[o]]_vars
  BY WaitStep DEF InTurn
<1>3. WaitInv /\ [Next]_vars => WaitInv'
  BY WaitStep
<1> QED BY <1>1, <1>2, <1>3, PTL DEF Spec, AnswersInOrder
=============================================================================
