-------------------------- MODULE Services_proofs --------------------------
(***************************************************************************)
(* Proofs about the services that share no state: the links and routes of  *)
(* the MAVLink server, the bytes on its UART, its camera commands, the     *)
(* file transfer, the relay to the SupportProxy, the restart of the        *)
(* application from the web, and the sessions, credentials and files of    *)
(* the web server.  Each part gives the inductive invariant of one         *)
(* component, for every value of its constants.                            *)
(***************************************************************************)
EXTENDS MavlinkLinks, MavlinkUart, MavlinkCamera, CameraFtp, SupportMavlink, WebRestart,
        WebAccess, WellFoundedInduction, SequenceTheorems, FiniteSetTheorems, TLAPS

\* A non-empty set of numbers has a least element, so a search for the first
\* free slot finds one.
LEMMA LeastNumber ==
    ASSUME NEW S, S \subseteq Nat, S # {}
    PROVE  \E n \in S : \A m \in S : n <= m
PROOF
  <1>1. PICK x \in S : \A y \in S : ~(<<y, x>> \in OpToRel(<, Nat))
    BY WFMin, NatLessThanWellFounded, Zenon
  <1>2. \A y \in S : ~(y < x)
    BY <1>1 DEF OpToRel
  <1>3. x \in Nat /\ \A y \in S : y \in Nat
    OBVIOUS
  <1> QED
    BY <1>2, <1>3

LEMMA FirstIsOne ==
    ASSUME NEW S, S \subseteq Nat, S # {}
    PROVE  (CHOOSE n \in S : \A m \in S : n <= m) \in S
  BY LeastNumber

-----------------------------------------------------------------------------
\* Links and routes (MavlinkLinks).

LinkKinds == {"none", "tcp", "udp", "uart", "proxy"}
Routes == {r \in [kind : LinkKinds, id : Nat] : r.kind = "tcp" => r.id \in Slots}
Lists == [active : BOOLEAN, who : Speakers, route : Routes, next : Nat, asked : LinkKinds \X Nat]

ServerTypeOK ==
    /\ client \in [Slots -> Nat]
    /\ fc_route \in Routes
    /\ lists \in [Slots -> Lists]
    /\ conns \in Nat

\* A remembered route leads through a slot that is in use.
SlotInUse(route) == route.kind = "tcp" => client[route.id] # 0
RoutesOpen ==
    /\ SlotInUse(fc_route)
    /\ \A i \in Slots : lists[i].active => SlotInUse(lists[i].route)

ServerInv == ServerTypeOK /\ RoutesOpen /\ RoutesCurrent

LEMMA ServerInitInv == ServerInit => ServerInv
PROOF
  <1> SUFFICES ASSUME ServerInit PROVE ServerInv
    OBVIOUS
  <1> USE MavlinkLinksAssumption
  <1>1. NoRoute \in Routes
    BY DEF NoRoute, Route, Routes, LinkKinds
  <1>2. <<"none", 0>> \in LinkKinds \X Nat
    BY DEF LinkKinds
  <1>3. NoList \in Lists
    BY <1>1, <1>2 DEF NoList, Lists, Speakers
  <1>4. ~NoList.active
    BY DEF NoList
  <1>5. ServerTypeOK
    BY <1>1, <1>3 DEF ServerInit, ServerTypeOK
  <1> QED
    BY <1>4, <1>5 DEF ServerInit, ServerInv, RoutesOpen, RoutesCurrent, SlotInUse, NoRoute, Route

LEMMA AcceptKeeps == ServerInv /\ accept_clients => ServerInv'
PROOF
  <1> SUFFICES ASSUME ServerInv, accept_clients PROVE ServerInv'
    OBVIOUS
  <1> USE MavlinkLinksAssumption
  <1>1. Free \subseteq Nat
    BY DEF Free, Slots
  <1>2. CASE Free = {}
    BY <1>2 DEF accept_clients, ServerInv, ServerTypeOK, RoutesOpen, RoutesCurrent, SlotInUse, LinkOf
  <1>3. CASE Free # {}
    <2>1. PICK s \in Free : client' = [client EXCEPT ![s] = conns + 1]
      BY <1>1, <1>3, FirstIsOne DEF accept_clients
    <2>2. s \in Slots /\ client[s] = 0 /\ UNCHANGED <<fc_route, lists, heard>> /\ conns' = conns + 1
      BY DEF Free, accept_clients
    <2>3. ServerTypeOK'
      BY <2>1, <2>2 DEF ServerInv, ServerTypeOK
    <2>4. ASSUME NEW r \in Routes, SlotInUse(r) PROVE SlotInUse(r)' /\ LinkOf(r)' = LinkOf(r)
      BY <2>1, <2>2, <2>4 DEF ServerInv, ServerTypeOK, SlotInUse, LinkOf, Routes
    <2>5. fc_route \in Routes /\ \A i \in Slots : lists[i].route \in Routes
      BY DEF ServerInv, ServerTypeOK, Lists
    <2> QED
      BY <2>2, <2>3, <2>4, <2>5 DEF ServerInv, RoutesOpen, RoutesCurrent, SlotInUse, LinkOf
  <1> QED
    BY <1>2, <1>3

LEMMA CloseKeeps == ASSUME NEW s \in Slots PROVE ServerInv /\ close_client(s) => ServerInv'
PROOF
  <1> SUFFICES ASSUME ServerInv, close_client(s) PROVE ServerInv'
    OBVIOUS
  <1> USE MavlinkLinksAssumption
  <1>1. NoRoute \in Routes
    BY DEF NoRoute, Route, Routes, LinkKinds
  <1>2. /\ client' = [client EXCEPT ![s] = 0] /\ UNCHANGED <<heard, conns>>
        /\ fc_route' = IF Via(fc_route, s) THEN NoRoute ELSE fc_route
    BY DEF close_client, Forgotten
  <1>3. \A i \in Slots : lists'[i] = IF Via(lists[i].route, s) THEN [lists[i] EXCEPT !.active = FALSE] ELSE lists[i]
    BY DEF close_client, Forgotten
  <1>4. ServerTypeOK'
    <2>1. \A i \in Slots : lists[i] \in Lists /\ [lists[i] EXCEPT !.active = FALSE] \in Lists
      BY DEF ServerInv, ServerTypeOK, Lists
    <2>2. lists' \in [Slots -> Lists]
      BY <2>1 DEF close_client, Forgotten
    <2> QED
      BY <1>1, <1>2, <2>2 DEF ServerInv, ServerTypeOK
  <1>5. ASSUME NEW r \in Routes, SlotInUse(r), ~Via(r, s) PROVE SlotInUse(r)' /\ LinkOf(r)' = LinkOf(r)
    BY <1>2, <1>5 DEF ServerInv, ServerTypeOK, SlotInUse, LinkOf, Routes, Via
  <1>6. fc_route \in Routes /\ \A i \in Slots : lists[i] \in Lists /\ lists[i].route \in Routes
    BY DEF ServerInv, ServerTypeOK, Lists
  <1>7. SlotInUse(NoRoute)'
    BY DEF SlotInUse, NoRoute, Route
  <1>8. SlotInUse(fc_route)' /\ (fc_route' # NoRoute => LinkOf(fc_route)' \in heard')
    BY <1>2, <1>5, <1>6, <1>7 DEF ServerInv, RoutesOpen, RoutesCurrent, SlotInUse, LinkOf
  <1>9. ASSUME NEW i \in Slots, lists'[i].active
        PROVE  SlotInUse(lists[i].route)' /\ LinkOf(lists[i].route)' = lists'[i].asked
    <2>1. ~Via(lists[i].route, s) /\ lists'[i] = lists[i]
      BY <1>3, <1>6, <1>9 DEF Lists
    <2> QED
      BY <1>5, <1>6, <1>9, <2>1 DEF ServerInv, RoutesOpen, RoutesCurrent, SlotInUse, LinkOf
  <1> QED
    BY <1>4, <1>8, <1>9 DEF ServerInv, RoutesOpen, RoutesCurrent

\* Whatever is processed, a list either stays or now goes by the route its
\* request came by.
LEMMA ProcessEffect ==
    ASSUME NEW kind, NEW p \in Speakers, NEW route \in Routes, process_message(kind, p, route)
    PROVE  \/ lists' = lists
           \/ \E S \in SUBSET Slots : lists' = [i \in Slots |-> IF i \in S
                THEN [active |-> TRUE, who |-> p, route |-> route, next |-> 0, asked |-> LinkOf(route)] ELSE lists[i]]
PROOF
  <1>1. CASE kind = "heartbeat"
    BY <1>1 DEF process_message, Heartbeat
  <1>2. CASE kind = "ext list" /\ system # 0
    <2>1. handle_ext_parameter(p, route)
      BY <1>2 DEF process_message
    <2>2. lists' = [i \in Slots |-> IF i \in SlotFor(p) \cap Slots
                THEN [active |-> TRUE, who |-> p, route |-> route, next |-> 0, asked |-> LinkOf(route)] ELSE lists[i]]
      BY <2>1 DEF handle_ext_parameter
    <2> QED
      BY <2>2
  <1>3. CASE kind = "list" /\ system # 0
    BY <1>3 DEF process_message, handle_parameter_list
  <1>4. CASE kind # "heartbeat" /\ ~(kind = "ext list" /\ system # 0) /\ ~(kind = "list" /\ system # 0)
    BY <1>4 DEF process_message
  <1> QED
    BY <1>1, <1>2, <1>3, <1>4

\* Processing and feeding a message that came by an open route.
LEMMA MessageKeeps ==
    ASSUME ServerInv, NEW route \in Routes, SlotInUse(route),
           NEW kind, NEW p \in Speakers, process_message(kind, p, route),
           UNCHANGED <<client, conns>>,
           \/ UNCHANGED <<fc_route, heard>>
           \/ fc_route' = route /\ heard' = heard \cup {LinkOf(route)}
    PROVE  ServerInv'
PROOF
  <1> USE MavlinkLinksAssumption
  <1>1. \A r \in Routes : SlotInUse(r)' = SlotInUse(r) /\ LinkOf(r)' = LinkOf(r)
    BY DEF SlotInUse, LinkOf
  <1>2. LinkOf(route) \in LinkKinds \X Nat
    BY DEF LinkOf, Routes, LinkKinds, ServerInv, ServerTypeOK
  <1> DEFINE new == [active |-> TRUE, who |-> p, route |-> route, next |-> 0, asked |-> LinkOf(route)]
  <1>3. new \in Lists
    BY <1>2 DEF Lists
  <1>4. new.route = route /\ new.asked = LinkOf(route)
    OBVIOUS
  <1>0. lists' = lists \/ \E S \in SUBSET Slots : lists' = [i \in Slots |-> IF i \in S THEN new ELSE lists[i]]
    BY ProcessEffect
  <1> HIDE DEF new
  <1>5. \A i \in Slots : lists'[i] = lists[i] \/ lists'[i] = new
    BY <1>0
  <1>6. lists' \in [Slots -> Lists]
    BY <1>0, <1>3 DEF ServerInv, ServerTypeOK
  <1>7. ServerTypeOK'
    BY <1>6 DEF ServerInv, ServerTypeOK
  <1>8. ASSUME NEW i \in Slots, lists'[i].active
        PROVE  SlotInUse(lists[i].route)' /\ LinkOf(lists[i].route)' = lists'[i].asked
    <2>1. CASE lists'[i] = new
      BY <1>1, <1>4, <2>1 DEF SlotInUse, LinkOf
    <2>2. CASE lists'[i] = lists[i]
      BY <1>8, <2>2 DEF ServerInv, RoutesOpen, RoutesCurrent, SlotInUse, LinkOf
    <2> QED
      BY <1>5, <2>1, <2>2
  <1>9. SlotInUse(fc_route)' /\ (fc_route' # NoRoute => LinkOf(fc_route)' \in heard')
    BY DEF ServerInv, RoutesOpen, RoutesCurrent, SlotInUse, LinkOf
  <1> QED
    BY <1>7, <1>8, <1>9 DEF ServerInv, RoutesOpen, RoutesCurrent

LEMMA ReceiveKeeps ==
    ASSUME ServerInv, NEW route \in Routes, SlotInUse(route), Receive(route)
    PROVE  ServerInv'
PROOF
  <1>1. PICK kind \in Kinds, p \in Speakers :
            /\ process_message(kind, p, route)
            /\ IF kind = "heartbeat" THEN feed(p, route) ELSE UNCHANGED <<fc_route, heard>>
    BY DEF Receive
  <1>2. \/ UNCHANGED <<fc_route, heard>>
        \/ fc_route' = route /\ heard' = heard \cup {LinkOf(route)}
    BY <1>1 DEF feed
  <1>3. UNCHANGED <<client, conns>>
    BY DEF Receive
  <1> QED
    BY <1>1, <1>2, <1>3, MessageKeeps

LEMMA PeriodicKeeps == ServerInv /\ periodic => ServerInv'
PROOF
  <1> SUFFICES ASSUME ServerInv, periodic PROVE ServerInv'
    OBVIOUS
  <1>1. \A i \in Slots : lists[i] \in Lists
    BY DEF ServerInv, ServerTypeOK
  <1> DEFINE later(i) == [lists[i] EXCEPT !.next = @ + 1, !.active = @ /\ lists[i].next + 1 < Values]
  <1>2. ASSUME NEW i \in Slots
        PROVE  later(i) \in Lists /\ later(i).route = lists[i].route /\ later(i).asked = lists[i].asked
    <2> DEFINE next == lists[i].next + 1
               active == lists[i].active /\ next < Values
    <2>1. next \in Nat /\ active \in BOOLEAN
      BY <1>1 DEF Lists
    <2>2. later(i) = [[lists[i] EXCEPT !.next = next] EXCEPT !.active = active]
      OBVIOUS
    <2> HIDE DEF next, active, later
    <2> QED
      BY <1>1, <2>1, <2>2 DEF Lists
  <1>3. lists' = [i \in Slots |-> IF lists[i].active THEN later(i) ELSE lists[i]]
    BY DEF periodic
  <1>4. UNCHANGED <<client, conns, fc_route, heard>>
    BY DEF periodic
  <1> HIDE DEF later
  <1>5. ServerTypeOK'
    BY <1>1, <1>2, <1>3, <1>4 DEF ServerInv, ServerTypeOK
  <1>6. ASSUME NEW i \in Slots, lists'[i].active
        PROVE  SlotInUse(lists[i].route)' /\ LinkOf(lists[i].route)' = lists'[i].asked
    BY <1>2, <1>3, <1>4, <1>6 DEF ServerInv, RoutesOpen, RoutesCurrent, SlotInUse, LinkOf
  <1> QED
    BY <1>4, <1>5, <1>6 DEF ServerInv, RoutesOpen, RoutesCurrent, SlotInUse, LinkOf

LEMMA ServerNextInv == ServerInv /\ [ServerNext]_serverVars => ServerInv'
PROOF
  <1> SUFFICES ASSUME ServerInv, [ServerNext]_serverVars PROVE ServerInv'
    OBVIOUS
  <1> USE MavlinkLinksAssumption
  <1>1. CASE accept_clients
    BY <1>1, AcceptKeeps
  <1>2. CASE disable_uart
    <2>1. NoRoute \in Routes
      BY DEF NoRoute, Route, Routes, LinkKinds
    <2> QED
      BY <1>2, <2>1 DEF disable_uart, ServerInv, ServerTypeOK, RoutesOpen, RoutesCurrent, SlotInUse, LinkOf, NoRoute, Route
  <1>3. CASE read_uart
    <2>1. Route("uart", 0) \in Routes /\ SlotInUse(Route("uart", 0))
      BY DEF Route, Routes, LinkKinds, SlotInUse
    <2> QED
      BY <1>3, <2>1, ReceiveKeeps DEF read_uart
  <1>4. CASE FromProxy
    <2>1. Route("proxy", 0) \in Routes /\ SlotInUse(Route("proxy", 0))
      BY DEF Route, Routes, LinkKinds, SlotInUse
    <2>2. PICK kind \in Kinds, p \in Speakers : process_message(kind, p, Route("proxy", 0))
      BY <1>4 DEF FromProxy
    <2>3. UNCHANGED <<client, conns, fc_route, heard>>
      BY <1>4 DEF FromProxy
    <2> QED
      BY <2>1, <2>2, <2>3, MessageKeeps
  <1>5. CASE periodic
    BY <1>5, PeriodicKeeps
  <1>6. CASE ca_mavlink_server_close
    <2>1. NoRoute \in Routes /\ NoList \in Lists /\ ~NoList.active
      <3>1. NoRoute \in Routes
        BY DEF NoRoute, Route, Routes, LinkKinds
      <3>2. <<"none", 0>> \in LinkKinds \X Nat
        BY DEF LinkKinds
      <3> QED
        BY <3>1, <3>2 DEF NoList, Lists, Speakers
    <2>2. ServerTypeOK'
      BY <1>6, <2>1 DEF ca_mavlink_server_close, ServerInv, ServerTypeOK
    <2> QED
      BY <1>6, <2>1, <2>2 DEF ca_mavlink_server_close, ServerInv, RoutesOpen, RoutesCurrent, SlotInUse, NoRoute, Route
  <1>7. ASSUME NEW s \in Slots, close_client(s) PROVE ServerInv'
    BY <1>7, CloseKeeps
  <1>8. ASSUME NEW s \in Slots, read_client(s) PROVE ServerInv'
    <2>1. Route("tcp", s) \in Routes /\ SlotInUse(Route("tcp", s))
      BY <1>8 DEF Route, Routes, LinkKinds, SlotInUse, Slots, read_client
    <2> QED
      BY <1>8, <2>1, ReceiveKeeps DEF read_client
  <1>9. ASSUME NEW a \in Addresses, read_udp(a) PROVE ServerInv'
    <2>1. Route("udp", a) \in Routes /\ SlotInUse(Route("udp", a))
      BY DEF Route, Routes, LinkKinds, SlotInUse
    <2> QED
      BY <1>9, <2>1, ReceiveKeeps DEF read_udp
  <1>10. CASE UNCHANGED serverVars
    BY <1>10 DEF serverVars, ServerInv, ServerTypeOK, RoutesOpen, RoutesCurrent, SlotInUse, LinkOf
  <1> QED
    BY <1>1, <1>2, <1>3, <1>4, <1>5, <1>6, <1>7, <1>8, <1>9, <1>10 DEF ServerNext

\* The MAVLink server never answers or forwards through a link that has gone:
\* closing a client drops every route and parameter list that led through its
\* slot, whoever takes the slot next (close_client, RoutesCurrent).
THEOREM RoutesStayCurrent == ServerSpec => []RoutesCurrent
PROOF
  <1>1. ServerInv => RoutesCurrent
    BY DEF ServerInv
  <1> QED
    BY <1>1, ServerInitInv, ServerNextInv, PTL DEF ServerSpec

-----------------------------------------------------------------------------
\* The bytes on the UART (MavlinkUart).

Bytes == Nat \X Nat
Outputs ==
    [open : BOOLEAN, data : [0 .. UartOutput - 1 -> Bytes], offset : Nat, length : Nat, armed : BOOLEAN]
Inside(o) == o \in Outputs /\ o.offset + o.length <= UartOutput

UartTypeOK ==
    /\ Inside(output)
    /\ written \in Seq(Bytes) /\ accepted \in Seq(Bytes)
    /\ queued \in Nat

UartInv == UartTypeOK /\ StreamWhole

LEMMA FunctionIsSeq ==
    ASSUME NEW S, NEW n \in Nat, NEW f \in [1 .. n -> S]
    PROVE  f \in Seq(S) /\ Len(f) = n
PROOF
  OBVIOUS

LEMMA ConcatAt ==
    ASSUME NEW S, NEW s, NEW t, NEW m \in Nat, NEW n \in Nat, s \in Seq(S), t \in Seq(S), Len(s) = m, Len(t) = n
    PROVE  /\ s \o t \in Seq(S) /\ Len(s \o t) = m + n
           /\ \A i \in 1 .. m + n : (s \o t)[i] = IF i <= m THEN s[i] ELSE t[i - m]
PROOF
  BY ConcatProperties

LEMMA Behind ==
    ASSUME NEW f \in Nat, NEW l \in Nat, NEW n \in Nat, NEW N \in Nat, f + l + n <= N, NEW i \in l + 1 .. l + n
    PROVE  f + i - 1 \in 0 .. N - 1 /\ (f + i - 1) - f - l + 1 = i - l /\ i - l \in 1 .. n
PROOF
  OBVIOUS

LEMMA WaitingSeq ==
    ASSUME NEW o, Inside(o)
    PROVE  /\ Waiting(o) \in Seq(Bytes) /\ Len(Waiting(o)) = o.length
           /\ \A i \in 1 .. o.length : Waiting(o)[i] = o.data[o.offset + i - 1]
PROOF
  <1> USE MavlinkUartAssumption
  <1>1. o.length \in Nat /\ o.offset \in Nat /\ o.data \in [0 .. UartOutput - 1 -> Bytes] /\ o.offset + o.length <= UartOutput
    BY DEF Inside, Outputs
  <1>2. \A i \in 1 .. o.length : o.offset + i - 1 \in 0 .. UartOutput - 1
    BY <1>1
  <1>3. \A i \in 1 .. o.length : o.data[o.offset + i - 1] \in Bytes
    BY <1>1, <1>2
  <1>4. Waiting(o) \in [1 .. o.length -> Bytes]
    BY <1>3 DEF Waiting
  <1>5. \A i \in 1 .. o.length : Waiting(o)[i] = o.data[o.offset + i - 1]
    BY DEF Waiting
  <1> QED
    BY <1>1, <1>4, <1>5, FunctionIsSeq

LEMMA MessageSeq ==
    ASSUME NEW n \in Nat, queued \in Nat
    PROVE  /\ Message(n) \in Seq(Bytes) /\ Len(Message(n)) = n
           /\ \A i \in 1 .. n : Message(n)[i] = Byte(queued + 1, i)
PROOF
  <1>1. \A i \in 1 .. n : Byte(queued + 1, i) \in Bytes
    BY DEF Byte, Bytes
  <1> HIDE DEF Byte
  <1> QED
    BY <1>1, IsASeq DEF Message

\* Compaction moves the bytes that wait and makes room behind them.
LEMMA CompactedWaits ==
    ASSUME NEW o, Inside(o), NEW n \in Nat, n <= UartOutput - o.length
    PROVE  LET c == Compacted(o, n) IN
           Inside(c) /\ c.offset + c.length + n <= UartOutput /\ Waiting(c) = Waiting(o) /\ c.open = o.open
PROOF
  <1> USE MavlinkUartAssumption
  <1>1. /\ o \in Outputs /\ o.length \in Nat /\ o.offset \in Nat /\ o.offset + o.length <= UartOutput
        /\ o.data \in [0 .. UartOutput - 1 -> Bytes] /\ DOMAIN o.data = 0 .. UartOutput - 1
    BY DEF Inside, Outputs
  <1>2. CASE ~(o.offset # 0 /\ o.offset + o.length + n > UartOutput)
    <2>1. Compacted(o, n) = o
      BY <1>2 DEF Compacted
    <2>2. o.offset + o.length + n <= UartOutput
      BY <1>1, <1>2
    <2> QED
      BY <2>1, <2>2
  <1>3. CASE o.offset # 0 /\ o.offset + o.length + n > UartOutput
    <2> DEFINE moved == [i \in 0 .. UartOutput - 1 |-> IF i < o.length THEN o.data[o.offset + i] ELSE o.data[i]]
               c == Compacted(o, n)
    <2>1. c = [[o EXCEPT !.offset = 0] EXCEPT !.data = moved]
      BY <1>1, <1>3 DEF Compacted
    <2>2. moved \in [0 .. UartOutput - 1 -> Bytes]
      BY <1>1
    <2>3. c \in Outputs /\ c.offset = 0 /\ c.length = o.length /\ c.data = moved /\ c.open = o.open
      <3> HIDE DEF moved, c
      <3> QED
        BY <1>1, <2>1, <2>2 DEF Outputs
    <2> HIDE DEF c
    <2>4. Inside(c)
      BY <1>1, <2>3 DEF Inside
    <2>5. \A i \in 1 .. o.length : c.data[c.offset + i - 1] = o.data[o.offset + i - 1]
      <3> SUFFICES ASSUME NEW i \in 1 .. o.length PROVE c.data[c.offset + i - 1] = o.data[o.offset + i - 1]
        OBVIOUS
      <3>1. i - 1 \in 0 .. UartOutput - 1 /\ i - 1 < o.length /\ o.offset + (i - 1) = o.offset + i - 1 /\ 0 + i - 1 = i - 1
        BY <1>1
      <3>2. moved[i - 1] = o.data[o.offset + (i - 1)]
        BY <3>1
      <3> HIDE DEF moved
      <3> QED
        BY <2>3, <3>1, <3>2
    <2>6. Waiting(c) = Waiting(o)
      BY <2>3, <2>5 DEF Waiting
    <2> QED
      BY <1>1, <2>3, <2>4, <2>6 DEF c
  <1> QED
    BY <1>2, <1>3

LEMMA AppendedWaits ==
    ASSUME NEW o, Inside(o), queued \in Nat, NEW n \in Nat, o.offset + o.length + n <= UartOutput
    PROVE  LET a == Appended(o, n) IN
           Inside(a) /\ a.length = o.length + n /\ Waiting(a) = Waiting(o) \o Message(n) /\ a.open = o.open
PROOF
  <1> USE MavlinkUartAssumption
  <1>1. /\ o \in Outputs /\ o.length \in Nat /\ o.offset \in Nat
        /\ o.data \in [0 .. UartOutput - 1 -> Bytes] /\ DOMAIN o.data = 0 .. UartOutput - 1
    BY DEF Inside, Outputs
  <1> DEFINE bytes == [i \in 0 .. UartOutput - 1 |->
                  LET k == i - o.offset - o.length + 1 IN IF k \in 1 .. n THEN Message(n)[k] ELSE o.data[i]]
             a == Appended(o, n)
  <1>2. a = [[o EXCEPT !.length = o.length + n] EXCEPT !.data = bytes]
    BY <1>1 DEF Appended
  <1>3. \A k \in 1 .. n : Message(n)[k] \in Bytes
    BY MessageSeq
  <1>4. bytes \in [0 .. UartOutput - 1 -> Bytes]
    BY <1>1, <1>3
  <1>5. a \in Outputs /\ a.offset = o.offset /\ a.length = o.length + n /\ a.data = bytes /\ a.open = o.open
    <2> DEFINE more == o.length + n
    <2>1. more \in Nat /\ a = [[o EXCEPT !.length = more] EXCEPT !.data = bytes]
      BY <1>1, <1>2
    <2> HIDE DEF bytes, a, more
    <2>2. a \in Outputs /\ a.offset = o.offset /\ a.length = more /\ a.data = bytes /\ a.open = o.open
      BY <1>1, <2>1, <1>4 DEF Outputs
    <2> QED
      BY <2>2 DEF more
  <1> HIDE DEF a
  <1>6. Inside(a)
    BY <1>1, <1>5 DEF Inside
  <1>7. \A i \in 1 .. o.length : bytes[o.offset + i - 1] = o.data[o.offset + i - 1]
    <2> SUFFICES ASSUME NEW i \in 1 .. o.length PROVE bytes[o.offset + i - 1] = o.data[o.offset + i - 1]
      OBVIOUS
    <2> DEFINE p == o.offset + i - 1
    <2>1. p \in 0 .. UartOutput - 1 /\ ~(p - o.offset - o.length + 1 \in 1 .. n)
      BY <1>1
    <2> HIDE DEF p
    <2>2. bytes[p] = o.data[p]
      BY <2>1
    <2> QED
      BY <2>2 DEF p
  <1>8. \A i \in o.length + 1 .. o.length + n : bytes[o.offset + i - 1] = Message(n)[i - o.length]
    <2> SUFFICES ASSUME NEW i \in o.length + 1 .. o.length + n PROVE bytes[o.offset + i - 1] = Message(n)[i - o.length]
      OBVIOUS
    <2> DEFINE p == o.offset + i - 1
    <2>1. p \in 0 .. UartOutput - 1 /\ p - o.offset - o.length + 1 = i - o.length /\ i - o.length \in 1 .. n
      BY <1>1, Behind
    <2> HIDE DEF p
    <2>2. bytes[p] = Message(n)[i - o.length]
      BY <2>1
    <2> QED
      BY <2>2 DEF p
  <1> HIDE DEF bytes
  <1>9. Waiting(a) = Waiting(o) \o Message(n)
    <2>1. Waiting(a) \in Seq(Bytes) /\ Len(Waiting(a)) = o.length + n
          /\ \A i \in 1 .. o.length + n : Waiting(a)[i] = bytes[o.offset + i - 1]
      BY <1>5, <1>6, WaitingSeq
    <2>2. Waiting(o) \in Seq(Bytes) /\ Len(Waiting(o)) = o.length
          /\ \A i \in 1 .. o.length : Waiting(o)[i] = o.data[o.offset + i - 1]
      BY WaitingSeq
    <2>3. Message(n) \in Seq(Bytes) /\ Len(Message(n)) = n
      BY MessageSeq
    <2> DEFINE both == Waiting(o) \o Message(n)
    <2>4. both \in Seq(Bytes) /\ Len(both) = o.length + n
          /\ \A i \in 1 .. o.length + n : both[i] = IF i <= o.length THEN Waiting(o)[i] ELSE Message(n)[i - o.length]
      <3>1. o.length \in Nat /\ n \in Nat
        BY <1>1
      <3> DEFINE s == Waiting(o)
                 u == Message(n)
                 l == o.length
      <3>2. s \in Seq(Bytes) /\ u \in Seq(Bytes) /\ l \in Nat /\ Len(s) = l /\ Len(u) = n
        BY <2>2, <2>3, <3>1
      <3> HIDE DEF s, u, l
      <3>3. /\ s \o u \in Seq(Bytes) /\ Len(s \o u) = l + n
            /\ \A i \in 1 .. l + n : (s \o u)[i] = IF i <= l THEN s[i] ELSE u[i - l]
        BY <3>2
      <3> QED
        BY <3>3 DEF s, u, l
    <2> HIDE DEF both
    <2>5. ASSUME NEW i \in 1 .. o.length + n PROVE Waiting(a)[i] = both[i]
      <3>1. CASE i <= o.length
        <4>1. i \in 1 .. o.length
          BY <1>1, <3>1
        <4> QED
          BY <2>1, <2>2, <2>4, <1>7, <3>1, <4>1
      <3>2. CASE i > o.length
        <4>1. i \in o.length + 1 .. o.length + n /\ ~(i <= o.length)
          BY <1>1, <3>2
        <4> QED
          BY <2>1, <2>4, <1>8, <4>1
      <3> QED
        BY <1>1, <3>1, <3>2
    <2>6. Waiting(a) = both
      BY <1>1, <2>1, <2>4, <2>5, SeqEqual
    <2> QED
      BY <2>6 DEF both
  <1> QED
    BY <1>5, <1>6, <1>9 DEF a

\* A flush takes bytes from the front.
LEMMA FlushedWaits ==
    ASSUME NEW o, Inside(o), NEW k \in 0 .. o.length
    PROVE  LET f == Flushed(o, k) IN
           /\ Inside(f) /\ f.open = o.open /\ (f.length > 0 => f.armed)
           /\ SubSeq(Waiting(o), 1, k) \in Seq(Bytes)
           /\ SubSeq(Waiting(o), 1, k) \o Waiting(f) = Waiting(o)
PROOF
  <1> USE MavlinkUartAssumption
  <1>1. /\ o \in Outputs /\ o.length \in Nat /\ o.offset \in Nat /\ k \in Nat /\ o.offset + o.length <= UartOutput
    BY DEF Inside, Outputs
  <1> DEFINE f == Flushed(o, k)
             rest == o.length - k
             from == IF o.length = k THEN 0 ELSE o.offset + k
             arm == o.length # k
  <1>2. rest \in Nat /\ from \in Nat /\ arm \in BOOLEAN /\ (rest > 0 => arm /\ from = o.offset + k) /\ (rest = 0 => from = 0)
    BY <1>1
  <1>3. f = [[[o EXCEPT !.length = rest] EXCEPT !.offset = from] EXCEPT !.armed = arm]
    BY DEF Flushed
  <1>4. f \in Outputs /\ f.offset = from /\ f.length = rest /\ f.armed = arm /\ f.data = o.data /\ f.open = o.open
    <2> HIDE DEF f, rest, from, arm
    <2> QED
      BY <1>1, <1>2, <1>3 DEF Outputs
  <1>5. Inside(f)
    <2>1. from + rest <= UartOutput
      BY <1>1
    <2> HIDE DEF f, rest, from, arm
    <2> QED
      BY <2>1, <1>4 DEF Inside
  <1>6. rest > 0 => arm
    BY <1>2
  <1> DEFINE w == Waiting(o)
             head == SubSeq(w, 1, k)
  <1>7. w \in Seq(Bytes) /\ Len(w) = o.length /\ \A i \in 1 .. o.length : w[i] = o.data[o.offset + i - 1]
    BY WaitingSeq
  <1>8. Waiting(f) \in Seq(Bytes) /\ Len(Waiting(f)) = rest /\ \A i \in 1 .. rest : Waiting(f)[i] = o.data[from + i - 1]
    <2> HIDE DEF f, rest, from, arm
    <2> QED
      BY <1>4, <1>5, WaitingSeq
  <1> HIDE DEF f, w
  <1>9. head \in Seq(Bytes) /\ Len(head) = k /\ \A i \in 1 .. k : head[i] = w[i]
    BY <1>1, <1>7
  <1> HIDE DEF head
  <1> DEFINE both == head \o Waiting(f)
  <1>10. both \in Seq(Bytes) /\ Len(both) = o.length
         /\ \A i \in 1 .. o.length : both[i] = IF i <= k THEN head[i] ELSE Waiting(f)[i - k]
    <2> DEFINE u == Waiting(f)
               l == o.length
    <2>1. head \in Seq(Bytes) /\ u \in Seq(Bytes) /\ k \in Nat /\ rest \in Nat /\ Len(head) = k /\ Len(u) = rest
      BY <1>1, <1>2, <1>8, <1>9
    <2>2. k + rest = o.length
      BY <1>1
    <2> HIDE DEF u, rest
    <2>3. /\ head \o u \in Seq(Bytes) /\ Len(head \o u) = k + rest
          /\ \A i \in 1 .. k + rest : (head \o u)[i] = IF i <= k THEN head[i] ELSE u[i - k]
      BY <2>1
    <2> QED
      BY <2>2, <2>3 DEF u
  <1> HIDE DEF both
  <1>11. ASSUME NEW i \in 1 .. o.length PROVE both[i] = w[i]
    <2>1. CASE i <= k
      BY <1>1, <1>9, <1>10, <2>1
    <2>2. CASE i > k
      <3>1. i - k \in 1 .. rest /\ ~(i <= k) /\ from = o.offset + k
        BY <1>1, <1>2, <2>2
      <3>2. from + (i - k) - 1 = o.offset + i - 1
        BY <1>1, <3>1
      <3> HIDE DEF rest, from
      <3> QED
        BY <1>7, <1>8, <1>10, <3>1, <3>2
    <2> QED
      BY <1>1, <2>1, <2>2
  <1>12. both = w
    BY <1>7, <1>10, <1>11, SeqEqual
  <1> QED
    BY <1>4, <1>5, <1>6, <1>9, <1>12 DEF f, w, head, both

LEMMA ConcatOfThree ==
    \A s, t, u \in Seq(Bytes) : (s \o t) \o u = s \o (t \o u)
PROOF
  BY ConcatAssociative

LEMMA UartInitInv == UartInit => UartInv
PROOF
  <1> SUFFICES ASSUME UartInit PROVE UartInv
    OBVIOUS
  <1> USE MavlinkUartAssumption
  <1> DEFINE blank == [i \in 0 .. UartOutput - 1 |-> Byte(0, 0)]
  <1>1. blank \in [0 .. UartOutput - 1 -> Bytes]
    BY DEF Byte, Bytes
  <1>2. output = [open |-> TRUE, data |-> blank, offset |-> 0, length |-> 0, armed |-> FALSE]
    BY DEF UartInit
  <1> HIDE DEF blank
  <1>3. output \in Outputs /\ output.length = 0 /\ output.offset = 0
    BY <1>1, <1>2 DEF Outputs
  <1>4. Inside(output)
    BY <1>3 DEF Inside
  <1>5. UartTypeOK
    BY <1>4 DEF UartTypeOK, UartInit
  <1>6. Waiting(output) \in Seq(Bytes) /\ Len(Waiting(output)) = 0
    BY <1>3, <1>4, WaitingSeq
  <1>7. Waiting(output) = <<>>
    BY <1>6, EmptySeq
  <1>8. written \o Waiting(output) = accepted
    BY <1>7 DEF UartInit
  <1> QED
    BY <1>3, <1>5, <1>8 DEF UartInv, StreamWhole

\* What a flush keeps, whatever waits: the two parts of the stream still make up
\* the same bytes.
LEMMA FlushKeeps ==
    ASSUME NEW o, Inside(o), written \in Seq(Bytes), NEW stream, written \o Waiting(o) = stream, Flush(o)
    PROVE  /\ Inside(output') /\ output'.open = o.open /\ written' \in Seq(Bytes)
           /\ written' \o Waiting(output') = stream
           /\ output'.length > 0 => output'.armed
PROOF
  <1>1. PICK k \in 0 .. o.length : output' = Flushed(o, k) /\ written' = written \o SubSeq(Waiting(o), 1, k)
    BY DEF Flush
  <1> DEFINE head == SubSeq(Waiting(o), 1, k)
             rest == Waiting(Flushed(o, k))
  <1>2. /\ Inside(output') /\ output'.open = o.open /\ (output'.length > 0 => output'.armed)
        /\ head \in Seq(Bytes) /\ head \o rest = Waiting(o)
    BY <1>1, FlushedWaits
  <1>3. rest \in Seq(Bytes)
    BY <1>1, <1>2, WaitingSeq
  <1>4. (written \o head) \o rest = written \o (head \o rest)
    <2> HIDE DEF head, rest
    <2>1. written \in Seq(Bytes) /\ head \in Seq(Bytes) /\ rest \in Seq(Bytes)
      BY <1>2, <1>3
    <2> QED
      BY <2>1, ConcatOfThree
  <1>5. written \o head \in Seq(Bytes)
    BY <1>2, ConcatProperties
  <1>6. Waiting(output') = rest
    BY <1>1
  <1> QED
    BY <1>1, <1>2, <1>4, <1>5, <1>6

LEMMA DisabledKeeps ==
    ASSUME NEW o, Inside(o), Disabled(o)
    PROVE  Inside(output') /\ ~ output'.open /\ written' = written
PROOF
  <1>1. output' = [[[o EXCEPT !.open = FALSE] EXCEPT !.offset = 0] EXCEPT !.length = 0]
    BY DEF Disabled
  <1>2. output' \in Outputs /\ output'.offset = 0 /\ output'.length = 0 /\ output'.open = FALSE
    BY <1>1 DEF Inside, Outputs
  <1> QED
    BY <1>2, MavlinkUartAssumption DEF Inside, Disabled

\* The invariant in the next state, from what the lemmas about output' say.
LEMMA NextUart ==
    ASSUME Inside(output'), written' \in Seq(Bytes), accepted' \in Seq(Bytes), queued' \in Nat,
           output'.open => written' \o Waiting(output') = accepted' /\ (output'.length > 0 => output'.armed)
    PROVE  UartInv'
PROOF
  <1>1. Waiting(output)' = Waiting(output') /\ Inside(output)' = Inside(output')
    BY DEF Waiting, Inside
  <1>2. (output.offset + output.length <= UartOutput)'
    BY DEF Inside
  <1> QED
    BY <1>1, <1>2 DEF UartInv, UartTypeOK, StreamWhole

LEMMA UartNextInv == UartInv /\ [UartNext]_uartVars => UartInv'
PROOF
  <1> SUFFICES ASSUME UartInv, [UartNext]_uartVars PROVE UartInv'
    OBVIOUS
  <1> USE MavlinkUartAssumption
  <1>1. /\ Inside(output) /\ written \in Seq(Bytes) /\ accepted \in Seq(Bytes) /\ queued \in Nat
        /\ output.open => written \o Waiting(output) = accepted
    BY DEF UartInv, UartTypeOK, StreamWhole
  <1>2. ASSUME NEW n \in MessageSizes, queue_uart(n) PROVE UartInv'
    <2>1. output.open /\ queued' = queued + 1 /\ n \in Nat
      BY <1>2 DEF queue_uart
    <2>2. CASE n > UartOutput - output.length
      <3>1. UNCHANGED <<output, written, accepted>>
        BY <1>2, <2>2 DEF queue_uart
      <3> QED
        BY <1>1, <2>1, <3>1, NextUart DEF UartInv, StreamWhole
    <2>3. CASE ~(n > UartOutput - output.length)
      <3> DEFINE c == Compacted(output, n)
                 o == Appended(c, n)
      <3>1. accepted' = accepted \o Message(n) /\ (Flush(o) \/ Disabled(o))
        BY <1>2, <2>3 DEF queue_uart
      <3>2. n <= UartOutput - output.length
        BY <1>1, <2>1, <2>3 DEF Inside, Outputs
      <3>3. Inside(c) /\ c.offset + c.length + n <= UartOutput /\ Waiting(c) = Waiting(output) /\ c.open = output.open
        BY <1>1, <2>1, <3>2, CompactedWaits
      <3> HIDE DEF c
      <3>4. Inside(o) /\ Waiting(o) = Waiting(c) \o Message(n) /\ o.open = c.open
        BY <1>1, <2>1, <3>3, AppendedWaits
      <3> HIDE DEF o
      <3>5. Message(n) \in Seq(Bytes) /\ Waiting(c) \in Seq(Bytes)
        BY <1>1, <2>1, <3>3, MessageSeq, WaitingSeq
      <3>6. accepted' \in Seq(Bytes)
        BY <1>1, <3>1, <3>5, ConcatProperties
      <3>7. written \o Waiting(o) = accepted'
        <4>1. written \o (Waiting(c) \o Message(n)) = (written \o Waiting(c)) \o Message(n)
          <5> DEFINE w == Waiting(c)
                     m == Message(n)
          <5>1. written \in Seq(Bytes) /\ w \in Seq(Bytes) /\ m \in Seq(Bytes)
            BY <1>1, <3>5
          <5> HIDE DEF w, m
          <5>2. (written \o w) \o m = written \o (w \o m)
            BY <5>1, ConcatOfThree
          <5> QED
            BY <5>2 DEF w, m
        <4>2. written \o Waiting(c) = accepted
          BY <1>1, <2>1, <3>3
        <4> QED
          BY <3>1, <3>4, <4>1, <4>2
      <3>8. CASE Flush(o)
        <4>1. /\ Inside(output') /\ written' \in Seq(Bytes) /\ written' \o Waiting(output') = accepted'
              /\ (output'.length > 0 => output'.armed)
          BY <1>1, <3>4, <3>7, <3>8, FlushKeeps
        <4> QED
          BY <1>1, <2>1, <3>6, <4>1, NextUart
      <3>9. CASE Disabled(o)
        <4>1. Inside(output') /\ ~ output'.open /\ written' = written
          BY <3>4, <3>9, DisabledKeeps
        <4> QED
          BY <1>1, <2>1, <3>6, <4>1, NextUart
      <3> QED
        BY <3>1, <3>8, <3>9
    <2> QED
      BY <2>2, <2>3
  <1>3. ASSUME flush_uart PROVE UartInv'
    <2>1. output.open /\ Flush(output) /\ UNCHANGED <<accepted, queued>>
      BY <1>3 DEF flush_uart
    <2>2. /\ Inside(output') /\ written' \in Seq(Bytes) /\ written' \o Waiting(output') = accepted
          /\ (output'.length > 0 => output'.armed)
      BY <1>1, <2>1, FlushKeeps
    <2> QED
      BY <1>1, <2>1, <2>2, NextUart
  <1>4. ASSUME UartFails PROVE UartInv'
    <2>1. Disabled(output) /\ UNCHANGED <<accepted, queued>>
      BY <1>4 DEF UartFails
    <2>2. Inside(output') /\ ~ output'.open /\ written' = written
      BY <1>1, <2>1, DisabledKeeps
    <2> QED
      BY <1>1, <2>1, <2>2, NextUart
  <1>5. ASSUME UNCHANGED uartVars PROVE UartInv'
    BY <1>1, <1>5 DEF UartInv, UartTypeOK, StreamWhole, Inside, Waiting, uartVars
  <1> QED
    BY <1>2, <1>3, <1>4, <1>5 DEF UartNext

\* Whatever the driver takes at a time, the bytes on the UART are the accepted
\* messages, whole and in order, and the buffer is never overrun: appending,
\* moving the bytes to the front and flushing agree (queue_uart, flush_uart).
THEOREM UartStreamWhole == UartSpec => []StreamWhole
PROOF
  <1>1. UartInv => StreamWhole
    BY DEF UartInv
  <1> QED
    BY <1>1, UartInitInv, UartNextInv, PTL DEF UartSpec

-----------------------------------------------------------------------------
\* Camera commands (MavlinkCamera).

CameraTypeOK ==
    /\ capture \in [remaining : Int, interval : Nat, next : Nat]
    /\ zoom \in [level : Int, rate : Int, fixed : Int]
    /\ cameraNow \in Nat /\ spaced \in BOOLEAN
    /\ shots \in [asked : Nat, taken : Nat, last : Nat]

\* A counted series has an end, the next photo of a series is due one interval
\* after the last, and no rate runs under an absolute zoom.
CameraInv ==
    /\ CameraTypeOK
    /\ CommandsExact
    /\ shots.asked > 0 => capture.remaining >= 0
    /\ capture.remaining # 0 => capture.next = shots.last + capture.interval
    /\ zoom.fixed # 0 => zoom.rate = 0

LEMMA CameraInitInv == CameraInit => CameraInv
PROOF
  BY DEF CameraInit, CameraInv, CameraTypeOK, CommandsExact, CapturesExact, ZoomHolds

\* The clauses about photos, and the one about zoom, in the next state.
LEMMA PhotosKept ==
    ASSUME CameraInv, cameraNow' \in Nat, UNCHANGED <<capture, shots, spaced>>,
           zoom' \in [level : Int, rate : Int, fixed : Int], zoom'.fixed # 0 => zoom'.level = zoom'.fixed /\ zoom'.rate = 0
    PROVE  CameraInv'
PROOF
  BY DEF CameraInv, CameraTypeOK, CommandsExact, CapturesExact, ZoomHolds

LEMMA ZoomKept ==
    ASSUME CameraInv, UNCHANGED zoom, cameraNow' \in Nat, spaced' \in BOOLEAN,
           NEW r \in Int, NEW i \in Nat, NEW x \in Nat, capture' = [remaining |-> r, interval |-> i, next |-> x],
           NEW a \in Nat, NEW t \in Nat, NEW l \in Nat, shots' = [asked |-> a, taken |-> t, last |-> l],
           a > 0 => t + r = a /\ r >= 0, a = 0 => r = (IF t = 0 THEN 0 ELSE -1), r # 0 => x = l + i, spaced'
    PROVE  CameraInv'
PROOF
  BY DEF CameraInv, CameraTypeOK, CommandsExact, CapturesExact, ZoomHolds

LEMMA StartKeeps == CameraInv /\ ImageStartCapture => CameraInv'
PROOF
  <1> SUFFICES ASSUME CameraInv, ImageStartCapture PROVE CameraInv'
    OBVIOUS
  <1> USE MavlinkCameraAssumption
  <1>1. UNCHANGED <<zoom, cameraNow, spaced>> /\ spaced /\ cameraNow \in Nat
    BY DEF ImageStartCapture, CameraInv, CameraTypeOK, CommandsExact, CapturesExact
  <1>2. PICK count \in Counts, interval \in Intervals :
        /\ capture' = IF count = 1 THEN [capture EXCEPT !.remaining = 0, !.interval = 0]
                      ELSE [remaining |-> Remaining(count), interval |-> Bounded(interval), next |-> cameraNow + Bounded(interval)]
        /\ capture_one(count, 1)
    BY DEF ImageStartCapture
  <1>3. count \in Nat /\ interval \in Nat /\ shots' = [asked |-> count, taken |-> 1, last |-> cameraNow]
    BY <1>2 DEF capture_one
  <1>4. CASE count = 1
    <2>1. capture' = [remaining |-> 0, interval |-> 0, next |-> capture.next] /\ capture.next \in Nat
      BY <1>2, <1>4 DEF CameraInv, CameraTypeOK
    <2> QED
      BY <1>1, <1>3, <1>4, <2>1, ZoomKept
  <1>5. CASE count # 1
    <2> DEFINE r == Remaining(count)
               i == Bounded(interval)
               x == cameraNow + i
    <2>1. r \in Int /\ i \in Nat /\ x \in Nat /\ x = cameraNow + i /\ r = IF count = 0 THEN -1 ELSE count - 1
      BY <1>1, <1>3 DEF Remaining, Bounded
    <2>2. capture' = [remaining |-> r, interval |-> i, next |-> x]
      BY <1>2, <1>5
    <2>3. (count > 0 => 1 + r = count /\ r >= 0) /\ (count = 0 => r = -1)
      BY <1>3, <2>1
    <2> HIDE DEF r, i, x
    <2> QED
      BY <1>1, <1>3, <2>1, <2>2, <2>3, ZoomKept
  <1> QED
    BY <1>4, <1>5

LEMMA StopKeeps == CameraInv /\ ImageStopCapture => CameraInv'
PROOF
  <1> SUFFICES ASSUME CameraInv, ImageStopCapture PROVE CameraInv'
    OBVIOUS
  <1>1. UNCHANGED <<zoom, cameraNow, spaced>> /\ spaced /\ spaced \in BOOLEAN /\ cameraNow \in Nat
    BY DEF ImageStopCapture, CameraInv, CameraTypeOK, CommandsExact, CapturesExact
  <1>2. shots' = [asked |-> 0, taken |-> 0, last |-> 0] /\ capture' = [remaining |-> 0, interval |-> 0, next |-> capture.next]
        /\ capture.next \in Nat
    BY DEF ImageStopCapture, CameraInv, CameraTypeOK
  <1> QED
    BY <1>1, <1>2, ZoomKept

LEMMA ZoomKeeps == CameraInv /\ set_zoom => CameraInv'
PROOF
  <1> SUFFICES ASSUME CameraInv, set_zoom PROVE CameraInv'
    OBVIOUS
  <1> USE MavlinkCameraAssumption
  <1>1. UNCHANGED <<capture, shots, spaced, cameraNow>> /\ cameraNow' \in Nat /\ zoom \in [level : Int, rate : Int, fixed : Int]
    BY DEF set_zoom, CameraInv, CameraTypeOK
  <1>2. zoom' \in [level : Int, rate : Int, fixed : Int] /\ (zoom'.fixed # 0 => zoom'.level = zoom'.fixed /\ zoom'.rate = 0)
    <2>1. ASSUME NEW level \in 1 .. ZoomMax, ZoomTo(level) PROVE <1>2!1 /\ <1>2!2
      BY <2>1 DEF ZoomTo
    <2>2. ASSUME zoom' = [zoom EXCEPT !.rate = 0, !.fixed = 0] PROVE <1>2!1 /\ <1>2!2
      <3>1. zoom' = [level |-> zoom.level, rate |-> 0, fixed |-> 0]
        BY <1>1, <2>2
      <3> QED
        BY <1>1, <3>1
    <2>3. ASSUME NEW rate \in -1 .. 1, ZoomRate(rate) PROVE <1>2!1 /\ <1>2!2
      <3>1. zoom' = [level |-> zoom.level, rate |-> rate, fixed |-> 0]
        BY <1>1, <2>3 DEF ZoomRate
      <3> QED
        BY <1>1, <3>1
    <2>4. ASSUME NEW step \in {-1, 1}, ZoomStep(step) PROVE <1>2!1 /\ <1>2!2
      <3>1. Limited(zoom.level + step) \in Int
        BY <1>1 DEF Limited
      <3>2. zoom' = [level |-> Limited(zoom.level + step), rate |-> zoom.rate, fixed |-> 0]
        BY <1>1, <2>4 DEF ZoomStep
      <3> QED
        BY <1>1, <3>1, <3>2
    <2> QED
      BY <2>1, <2>2, <2>3, <2>4 DEF set_zoom
  <1> QED
    BY <1>1, <1>2, PhotosKept

LEMMA ClockKeeps == CameraInv /\ cameraPeriodic => CameraInv'
PROOF
  <1> SUFFICES ASSUME CameraInv, cameraPeriodic PROVE CameraInv'
    OBVIOUS
  <1> USE MavlinkCameraAssumption
  <1>1. /\ cameraNow \in Nat /\ cameraNow' \in Nat /\ spaced /\ zoom \in [level : Int, rate : Int, fixed : Int]
        /\ (zoom.fixed # 0 => zoom.level = zoom.fixed /\ zoom.rate = 0)
    BY DEF cameraPeriodic, CameraInv, CameraTypeOK, CommandsExact, CapturesExact, ZoomHolds
  <1>2. zoom' \in [level : Int, rate : Int, fixed : Int] /\ (zoom'.fixed # 0 => zoom'.level = zoom'.fixed /\ zoom'.rate = 0)
    <2>1. CASE zoom.rate = 0
      BY <1>1, <2>1 DEF cameraPeriodic
    <2>2. CASE zoom.rate # 0
      <3> DEFINE level == Limited(zoom.level + zoom.rate)
                 rate == IF zoom.level + zoom.rate <= 1 \/ zoom.level + zoom.rate >= ZoomMax THEN 0 ELSE zoom.rate
      <3>1. level \in Int /\ rate \in Int /\ zoom.fixed = 0
        BY <1>1, <2>2 DEF Limited
      <3>2. Moved = [[zoom EXCEPT !.level = level] EXCEPT !.rate = rate]
        BY DEF Moved
      <3> HIDE DEF level, rate
      <3>3. Moved \in [level : Int, rate : Int, fixed : Int] /\ Moved.fixed = 0
        BY <1>1, <3>1, <3>2
      <3>4. zoom' = Moved \/ zoom' = [Moved EXCEPT !.level = zoom.level]
        BY <2>2 DEF cameraPeriodic
      <3> HIDE DEF Moved
      <3> QED
        BY <1>1, <3>3, <3>4
    <2> QED
      BY <2>1, <2>2
  <1>3. TimedPhoto
    BY DEF cameraPeriodic
  <1>4. CASE ~Due
    BY <1>1, <1>2, <1>3, <1>4, PhotosKept DEF TimedPhoto
  <1>5. CASE Due
    <2> DEFINE left == IF capture.remaining > 0 THEN capture.remaining - 1 ELSE capture.remaining
               taken == IF shots.asked = 0 THEN 1 ELSE shots.taken + 1
               i == IF left = 0 THEN 0 ELSE capture.interval
               x == IF left = 0 THEN capture.next ELSE cameraNow + capture.interval
    <2>1. /\ shots' = [asked |-> shots.asked, taken |-> taken, last |-> cameraNow]
          /\ spaced' = (spaced /\ cameraNow - shots.last >= capture.interval)
          /\ capture' = [remaining |-> left, interval |-> i, next |-> x]
      BY <1>3, <1>5 DEF TimedPhoto, capture_one
    <2>2. /\ capture.remaining \in Int /\ capture.interval \in Nat /\ capture.next \in Nat
          /\ shots.asked \in Nat /\ shots.taken \in Nat /\ shots.last \in Nat
          /\ capture.remaining # 0 /\ cameraNow >= capture.next
          /\ capture.next = shots.last + capture.interval
          /\ (shots.asked > 0 => shots.taken + capture.remaining = shots.asked /\ capture.remaining >= 0)
          /\ (shots.asked = 0 => capture.remaining = (IF shots.taken = 0 THEN 0 ELSE -1))
      BY <1>5 DEF Due, CameraInv, CameraTypeOK, CommandsExact, CapturesExact
    <2>3. /\ left \in Int /\ taken \in Nat /\ i \in Nat /\ x \in Nat
          /\ (left # 0 => x = cameraNow + i)
          /\ (shots.asked > 0 => taken + left = shots.asked /\ left >= 0)
          /\ (shots.asked = 0 => left = (IF taken = 0 THEN 0 ELSE -1))
          /\ cameraNow - shots.last >= capture.interval
      BY <1>1, <2>2
    <2>4. spaced' = TRUE
      BY <1>1, <2>1, <2>3
    <2> HIDE DEF left, taken, i, x
    <2>5. (shots'.asked = shots.asked /\ capture'.remaining = left)
      BY <2>1
    <2> QED
      BY <1>1, <1>2, <2>1, <2>2, <2>3, <2>4 DEF CameraInv, CameraTypeOK, CommandsExact, CapturesExact, ZoomHolds
  <1> QED
    BY <1>4, <1>5

LEMMA CameraNextInv == CameraInv /\ [CameraNext]_cameraVars => CameraInv'
PROOF
  <1> SUFFICES ASSUME CameraInv, [CameraNext]_cameraVars PROVE CameraInv'
    OBVIOUS
  <1>1. ASSUME UNCHANGED <<capture, zoom, cameraNow, shots, spaced>> PROVE CameraInv'
    BY <1>1 DEF CameraInv, CameraTypeOK, CommandsExact, CapturesExact, ZoomHolds
  <1>2. ASSUME OtherRecords \/ camera_parameter_set \/ (\E on \in BOOLEAN : VideoCapture(on))
               \/ (\E state \in {"armed", "disarmed"} : VehicleHeartbeat(state)) \/ UNCHANGED cameraVars
        PROVE CameraInv'
    BY <1>1, <1>2 DEF OtherRecords, camera_parameter_set, VideoCapture, VehicleHeartbeat, cameraVars
  <1> QED
    BY <1>2, StartKeeps, StopKeeps, ZoomKeeps, ClockKeeps DEF CameraNext

\* A series of n photos takes n, one interval apart, and an absolute zoom stays,
\* whatever commands and ticks come between (handle_camera_command and the
\* periodic work).
THEOREM CommandsStayExact == CameraSpec => []CommandsExact
PROOF
  <1>1. CameraInv => CommandsExact
    BY DEF CameraInv
  <1> QED
    BY <1>1, CameraInitInv, CameraNextInv, PTL DEF CameraSpec

-----------------------------------------------------------------------------
\* File transfer (CameraFtp).

Session == [active : BOOLEAN, client : FtpClients \cup {"none"}, id : FtpIds \cup {0}, last : Nat]
SessionTable == [Numbers -> Session]
Beliefs == FtpClients \X FtpIds \X Nat

FtpTypeOK == session \in SessionTable /\ ftpNow \in Nat /\ believed \subseteq Beliefs

\* A name is the name of at most one session in use.
OneName(s) ==
    \A m, n \in Numbers : s[m].active /\ s[n].active /\ s[m].client = s[n].client /\ s[m].id = s[n].id => m = n
\* The session a client believes in is in use, and was used when the client thinks.
Held(s, b) == \E n \in Numbers : s[n].active /\ s[n].client = b[1] /\ s[n].id = b[2] /\ s[n].last = b[3]
FtpInv ==
    /\ FtpTypeOK
    /\ OneName(session)
    /\ \A b \in believed : ftpNow - b[3] <= Expiry => Held(session, b)

LEMMA FtpInitInv == FtpInit => FtpInv
PROOF
  <1> SUFFICES ASSUME FtpInit PROVE FtpInv
    OBVIOUS
  <1>1. session \in SessionTable /\ ftpNow \in Nat /\ believed = {}
    BY DEF FtpInit, Closed, SessionTable, Session
  <1>2. \A n \in Numbers : session[n].active = FALSE
    BY DEF FtpInit, Closed
  <1> QED
    BY <1>1, <1>2 DEF FtpInv, FtpTypeOK, OneName

\* What a request finds once it has expired sessions: nobody who may still
\* believe in a session has lost it.
LEMMA CurrentInv ==
    ASSUME FtpInv
    PROVE  /\ Current \in SessionTable /\ OneName(Current) /\ DOMAIN Current = Numbers
           /\ \A b \in believed : ftpNow - b[3] <= Expiry => Held(Current, b)
PROOF
  <1> USE CameraFtpAssumption
  <1>1. session \in SessionTable /\ ftpNow \in Nat /\ believed \subseteq Beliefs
    BY DEF FtpInv, FtpTypeOK
  <1>2. ASSUME NEW n \in Numbers
        PROVE  /\ Current[n] \in Session /\ Current[n].client = session[n].client /\ Current[n].id = session[n].id
               /\ Current[n].last = session[n].last /\ (Current[n].active => session[n].active)
               /\ (session[n].active /\ ftpNow - session[n].last <= Expiry => Current[n].active)
    <2>1. session[n] \in Session
      BY <1>1 DEF SessionTable
    <2>2. Current[n] = IF ftpNow - session[n].last > Expiry THEN [session[n] EXCEPT !.active = FALSE] ELSE session[n]
      BY DEF Current
    <2>3. ftpNow - session[n].last > Expiry <=> ~(ftpNow - session[n].last <= Expiry)
      BY <1>1, <2>1 DEF Session
    <2> QED
      BY <2>1, <2>2, <2>3 DEF Session
  <1>3. Current \in SessionTable /\ DOMAIN Current = Numbers
    BY <1>2 DEF SessionTable, Current
  <1>4. OneName(Current)
    <2> HIDE DEF Current
    <2> QED
      BY <1>2 DEF FtpInv, OneName
  <1>5. ASSUME NEW b \in believed, ftpNow - b[3] <= Expiry PROVE Held(Current, b)
    <2>1. PICK n \in Numbers : session[n].active /\ session[n].client = b[1] /\ session[n].id = b[2] /\ session[n].last = b[3]
      BY <1>5 DEF FtpInv, Held
    <2>2. Current[n].active
      BY <1>2, <1>5, <2>1
    <2> HIDE DEF Current
    <2> QED
      BY <1>2, <2>1, <2>2 DEF Held
  <1> QED
    BY <1>3, <1>4, <1>5

\* The invariant in the next state, of a request.
LEMMA NextFtp ==
    ASSUME NEW s \in SessionTable, NEW t \in SUBSET Beliefs, session' = s, believed' = t, NEW time \in Nat, ftpNow' = time, OneName(s),
           \A b \in t : time - b[3] <= Expiry => Held(s, b)
    PROVE  FtpInv'
PROOF
  <1>1. OneName(session)' = OneName(s)
    BY DEF OneName
  <1>2. \A b : Held(session, b)' <=> Held(s, b)
    BY DEF Held
  <1>3. FtpTypeOK'
    BY DEF FtpTypeOK
  <1>4. (\A b \in believed : ftpNow - b[3] <= Expiry => Held(session, b))'
    BY <1>2
  <1> QED
    BY <1>1, <1>3, <1>4 DEF FtpInv

LEMMA ResetKeeps ==
    ASSUME FtpInv, ftpNow' = ftpNow, NEW c \in FtpClients, ResetSessions(c)
    PROVE  FtpInv'
PROOF
  <1> DEFINE cur == Current
             s == [n \in Numbers |-> IF cur[n].client = c THEN [cur[n] EXCEPT !.active = FALSE] ELSE cur[n]]
             t == {b \in believed : b[1] # c}
  <1>1. session' = s /\ believed' = t
    BY DEF ResetSessions
  <1>2. /\ cur \in SessionTable /\ OneName(cur)
        /\ \A b \in believed : ftpNow - b[3] <= Expiry => Held(cur, b)
    BY CurrentInv
  <1>3. ftpNow \in Nat /\ t \in SUBSET Beliefs
    BY DEF FtpInv, FtpTypeOK
  <1> HIDE DEF cur
  <1>4. ASSUME NEW n \in Numbers
        PROVE  /\ s[n] \in Session /\ s[n].client = cur[n].client /\ s[n].id = cur[n].id /\ s[n].last = cur[n].last
               /\ (s[n].active <=> cur[n].active /\ cur[n].client # c)
    <2>1. cur[n] \in Session
      BY <1>2 DEF SessionTable
    <2> QED
      BY <2>1 DEF Session
  <1>5. s \in SessionTable
    BY <1>4 DEF SessionTable
  <1> HIDE DEF s
  <1>6. OneName(s)
    BY <1>2, <1>4 DEF OneName
  <1>7. ASSUME NEW b \in t, ftpNow - b[3] <= Expiry PROVE Held(s, b)
    BY <1>2, <1>4, <1>7 DEF Held
  <1> HIDE DEF t
  <1> QED
    BY <1>1, <1>3, <1>5, <1>6, <1>7, NextFtp

LEMMA TerminateKeeps ==
    ASSUME FtpInv, ftpNow' = ftpNow, NEW c \in FtpClients, NEW id \in FtpIds, TerminateSession(c, id)
    PROVE  FtpInv'
PROOF
  <1> DEFINE cur == Current
             s == [n \in Numbers |-> IF n \in Of(cur, c, id) THEN [cur[n] EXCEPT !.active = FALSE] ELSE cur[n]]
             t == believed \ Believes(c, id)
  <1>1. session' = s /\ believed' = t
    BY DEF TerminateSession
  <1>2. /\ cur \in SessionTable /\ OneName(cur)
        /\ \A b \in believed : ftpNow - b[3] <= Expiry => Held(cur, b)
    BY CurrentInv
  <1>3. ftpNow \in Nat /\ t \in SUBSET Beliefs
    BY DEF FtpInv, FtpTypeOK
  <1> HIDE DEF cur
  <1>4. ASSUME NEW n \in Numbers
        PROVE  /\ s[n] \in Session /\ s[n].client = cur[n].client /\ s[n].id = cur[n].id /\ s[n].last = cur[n].last
               /\ (s[n].active <=> cur[n].active /\ ~(cur[n].client = c /\ cur[n].id = id))
    <2>1. cur[n] \in Session
      BY <1>2 DEF SessionTable
    <2> QED
      BY <2>1 DEF Session, Of
  <1>5. s \in SessionTable
    BY <1>4 DEF SessionTable
  <1> HIDE DEF s
  <1>6. OneName(s)
    BY <1>2, <1>4 DEF OneName
  <1>7. ASSUME NEW b \in t, ftpNow - b[3] <= Expiry PROVE Held(s, b)
    <2>1. ~(b[1] = c /\ b[2] = id) /\ b \in believed
      BY DEF Believes
    <2> QED
      BY <1>2, <1>4, <1>7, <2>1 DEF Held
  <1> HIDE DEF t
  <1> QED
    BY <1>1, <1>3, <1>5, <1>6, <1>7, NextFtp

\* Opening and reading: the sessions in "slot" are the client's own or a free
\* one, and become or stay its session, used now.
LEMMA UsedKeeps ==
    ASSUME FtpInv, ftpNow' = ftpNow, NEW c \in FtpClients, NEW id \in FtpIds,
           NEW cur \in SessionTable, OneName(cur), \A b \in believed : ftpNow - b[3] <= Expiry => Held(cur, b),
           NEW k \in Numbers, cur[k].active => cur[k].client = c /\ cur[k].id = id,
           \A n \in Numbers : cur[n].active /\ cur[n].client = c /\ cur[n].id = id => n = k,
           session' = [n \in Numbers |-> IF n = k THEN [active |-> TRUE, client |-> c, id |-> id, last |-> ftpNow] ELSE cur[n]],
           believed' = (believed \ Believes(c, id)) \cup {<<c, id, ftpNow>>}
    PROVE  FtpInv'
PROOF
  <1> DEFINE s == [n \in Numbers |-> IF n = k THEN [active |-> TRUE, client |-> c, id |-> id, last |-> ftpNow] ELSE cur[n]]
             t == (believed \ Believes(c, id)) \cup {<<c, id, ftpNow>>}
  <1>1. session' = s /\ believed' = t
    OBVIOUS
  <1>2. ftpNow \in Nat /\ believed \subseteq Beliefs
    BY DEF FtpInv, FtpTypeOK
  <1>3. t \in SUBSET Beliefs
    BY <1>2 DEF Beliefs
  <1>4. s[k].active /\ s[k].client = c /\ s[k].id = id /\ s[k].last = ftpNow /\ s[k] \in Session
    BY <1>2 DEF Session
  <1>5. \A n \in Numbers : n # k => s[n] = cur[n] /\ s[n] \in Session
    BY DEF SessionTable
  <1>6. s \in SessionTable
    BY <1>4, <1>5 DEF SessionTable
  <1> HIDE DEF s
  <1>7. OneName(s)
    BY <1>4, <1>5 DEF OneName
  <1>8. ASSUME NEW b \in t, ftpNow - b[3] <= Expiry PROVE Held(s, b)
    <2>1. CASE b = <<c, id, ftpNow>>
      BY <1>4, <2>1 DEF Held
    <2>2. CASE b # <<c, id, ftpNow>>
      <3>1. b \in believed /\ ~(b[1] = c /\ b[2] = id)
        BY <2>2 DEF Believes
      <3>2. PICK n \in Numbers : cur[n].active /\ cur[n].client = b[1] /\ cur[n].id = b[2] /\ cur[n].last = b[3]
        BY <1>8, <3>1 DEF Held
      <3>3. n # k
        BY <3>1, <3>2
      <3> QED
        BY <1>5, <3>2, <3>3 DEF Held
    <2> QED
      BY <2>1, <2>2
  <1> HIDE DEF t
  <1> QED
    BY <1>1, <1>2, <1>3, <1>6, <1>7, <1>8, NextFtp

LEMMA ReadKeeps ==
    ASSUME FtpInv, ftpNow' = ftpNow, NEW c \in FtpClients, NEW id \in FtpIds, ReadFile(c, id)
    PROVE  FtpInv'
PROOF
  <1> DEFINE cur == Current
             mine == Of(cur, c, id)
  <1>1. /\ session' = [n \in Numbers |-> IF n \in mine THEN [cur[n] EXCEPT !.last = ftpNow] ELSE cur[n]]
        /\ believed' = IF mine = {} THEN believed \ Believes(c, id) ELSE (believed \ Believes(c, id)) \cup {<<c, id, ftpNow>>}
    BY DEF ReadFile
  <1>2. /\ cur \in SessionTable /\ OneName(cur) /\ DOMAIN cur = Numbers
        /\ \A b \in believed : ftpNow - b[3] <= Expiry => Held(cur, b)
    BY CurrentInv
  <1>3. ftpNow \in Nat /\ believed \in SUBSET Beliefs
    BY DEF FtpInv, FtpTypeOK
  <1> HIDE DEF cur
  <1>4. CASE mine = {}
    <2>1. session' = cur
      <3>1. \A n \in Numbers : n \notin mine
        BY <1>4
      <3> HIDE DEF mine
      <3> QED
        BY <1>1, <1>2, <3>1 DEF SessionTable
    <2> DEFINE t == believed \ Believes(c, id)
    <2>2. believed' = t /\ t \in SUBSET Beliefs /\ \A b \in t : ftpNow - b[3] <= Expiry => Held(cur, b)
      BY <1>1, <1>2, <1>3, <1>4
    <2> HIDE DEF t
    <2> QED
      BY <1>2, <1>3, <2>1, <2>2, NextFtp
  <1>5. CASE mine # {}
    <2>1. PICK k \in Numbers : k \in mine
      BY <1>5 DEF Of
    <2>2. cur[k].active /\ cur[k].client = c /\ cur[k].id = id /\ cur[k] \in Session
      BY <1>2, <2>1 DEF Of, SessionTable
    <2>3. \A n \in Numbers : cur[n].active /\ cur[n].client = c /\ cur[n].id = id => n = k
      BY <1>2, <2>2 DEF OneName
    <2>4. \A n \in Numbers : n \in mine <=> n = k
      BY <2>1, <2>3 DEF Of
    <2>5. [cur[k] EXCEPT !.last = ftpNow] = [active |-> TRUE, client |-> c, id |-> id, last |-> ftpNow]
      <3> DEFINE r == cur[k]
      <3>1. r.active = TRUE /\ r.client = c /\ r.id = id /\ r \in Session
        BY <2>2 DEF Session
      <3> HIDE DEF r
      <3>2. [r EXCEPT !.last = ftpNow] = [active |-> r.active, client |-> r.client, id |-> r.id, last |-> ftpNow]
        BY <3>1 DEF Session
      <3> QED
        BY <3>1, <3>2 DEF r
    <2> DEFINE s == [n \in Numbers |-> IF n = k THEN [active |-> TRUE, client |-> c, id |-> id, last |-> ftpNow] ELSE cur[n]]
    <2>6. session' = s
      <3> HIDE DEF mine
      <3> QED
        BY <1>1, <2>4, <2>5
    <2>7. believed' = (believed \ Believes(c, id)) \cup {<<c, id, ftpNow>>}
      BY <1>1, <1>5
    <2> QED
      BY <1>2, <2>2, <2>3, <2>6, <2>7, UsedKeeps
  <1> QED
    BY <1>4, <1>5

LEMMA OpenKeeps ==
    ASSUME FtpInv, ftpNow' = ftpNow, NEW c \in FtpClients, NEW id \in FtpIds, OpenFileRO(c, id)
    PROVE  FtpInv'
PROOF
  <1> DEFINE cur == Current
             mine == Of(cur, c, id)
             free == {n \in Numbers : ~cur[n].active}
             first == CHOOSE n \in free : \A m \in free : n <= m
             slot == IF mine # {} THEN mine ELSE IF free = {} THEN {} ELSE {first}
  <1>1. /\ session' = [n \in Numbers |-> IF n \in slot THEN [active |-> TRUE, client |-> c, id |-> id, last |-> ftpNow] ELSE cur[n]]
        /\ believed' = IF slot = {} THEN believed ELSE (believed \ Believes(c, id)) \cup {<<c, id, ftpNow>>}
    BY DEF OpenFileRO
  <1>2. /\ cur \in SessionTable /\ OneName(cur) /\ DOMAIN cur = Numbers
        /\ \A b \in believed : ftpNow - b[3] <= Expiry => Held(cur, b)
    BY CurrentInv
  <1>3. ftpNow \in Nat /\ believed \in SUBSET Beliefs
    BY DEF FtpInv, FtpTypeOK
  <1> HIDE DEF cur
  <1>4. ASSUME NEW k \in Numbers, slot = {k}, cur[k].active => cur[k].client = c /\ cur[k].id = id,
               \A n \in Numbers : cur[n].active /\ cur[n].client = c /\ cur[n].id = id => n = k
        PROVE  FtpInv'
    <2> HIDE DEF slot
    <2> DEFINE s == [n \in Numbers |-> IF n = k THEN [active |-> TRUE, client |-> c, id |-> id, last |-> ftpNow] ELSE cur[n]]
    <2>1. session' = s /\ believed' = (believed \ Believes(c, id)) \cup {<<c, id, ftpNow>>}
      BY <1>1, <1>4
    <2> QED
      BY <1>2, <1>4, <2>1, UsedKeeps
  <1>5. CASE mine # {}
    <2>1. PICK k \in Numbers : k \in mine
      BY <1>5 DEF Of
    <2>2. cur[k].active /\ cur[k].client = c /\ cur[k].id = id
      BY <2>1 DEF Of
    <2>3. \A n \in Numbers : cur[n].active /\ cur[n].client = c /\ cur[n].id = id => n = k
      BY <1>2, <2>2 DEF OneName
    <2>4. slot = {k}
      BY <1>5, <2>1, <2>3 DEF Of
    <2> QED
      BY <1>4, <2>2, <2>3, <2>4
  <1>6. CASE mine = {} /\ free # {}
    <2>1. \A n \in Numbers : ~(cur[n].active /\ cur[n].client = c /\ cur[n].id = id)
      BY <1>6 DEF Of
    <2>2. first \in free
      <3>1. \E n \in free : \A m \in free : n <= m
        <4>1. free \subseteq Nat /\ free # {}
          BY <1>6 DEF Numbers
        <4> HIDE DEF free
        <4> QED
          BY <4>1, LeastNumber
      <3> HIDE DEF free
      <3> QED
        BY <3>1
    <2>3. first \in Numbers /\ ~cur[first].active
      BY <2>2
    <2>4. slot = {first}
      BY <1>6
    <2> HIDE DEF first
    <2> QED
      BY <1>4, <2>1, <2>3, <2>4
  <1>7. CASE mine = {} /\ free = {}
    <2>1. slot = {}
      BY <1>7
    <2>2. session' = cur /\ believed' = believed
      <3> HIDE DEF slot
      <3> QED
        BY <1>1, <1>2, <2>1 DEF SessionTable
    <2> QED
      BY <1>2, <1>3, <2>2, NextFtp
  <1> QED
    BY <1>5, <1>6, <1>7

LEMMA FtpNextInv == FtpInv /\ [FtpNext]_ftpVars => FtpInv'
PROOF
  <1> SUFFICES ASSUME FtpInv, [FtpNext]_ftpVars PROVE FtpInv'
    OBVIOUS
  <1> USE CameraFtpAssumption
  <1>1. ASSUME Stateless, ftpNow' = ftpNow PROVE FtpInv'
    <2> DEFINE cur == Current
    <2>1. session' = cur /\ believed' = believed
      BY <1>1 DEF Stateless
    <2>2. /\ cur \in SessionTable /\ OneName(cur) /\ \A b \in believed : ftpNow - b[3] <= Expiry => Held(cur, b)
      BY CurrentInv
    <2>3. ftpNow \in Nat /\ believed \in SUBSET Beliefs
      BY DEF FtpInv, FtpTypeOK
    <2> HIDE DEF cur
    <2> QED
      BY <1>1, <2>1, <2>2, <2>3, NextFtp
  <1>2. CASE FtpRequest
    <2>1. ftpNow' = ftpNow
      BY <1>2 DEF FtpRequest
    <2>2. PICK c \in FtpClients :
             ResetSessions(c) \/ Stateless \/ \E id \in FtpIds : OpenFileRO(c, id) \/ TerminateSession(c, id) \/ ReadFile(c, id)
      BY <1>2 DEF FtpRequest
    <2> QED
      BY <1>1, <2>1, <2>2, ResetKeeps, OpenKeeps, TerminateKeeps, ReadKeeps
  <1>3. CASE FtpTick
    <2>1. UNCHANGED <<session, believed>> /\ ftpNow' = ftpNow + 1 /\ ftpNow \in Nat /\ believed \subseteq Beliefs
      BY <1>3 DEF FtpTick, FtpInv, FtpTypeOK
    <2>2. \A b \in believed : (ftpNow + 1) - b[3] <= Expiry => ftpNow - b[3] <= Expiry
      BY <2>1 DEF Beliefs
    <2>3. /\ session \in SessionTable /\ believed \in SUBSET Beliefs /\ OneName(session) /\ ftpNow + 1 \in Nat
          /\ \A b \in believed : (ftpNow + 1) - b[3] <= Expiry => Held(session, b)
      BY <2>1, <2>2 DEF FtpInv, FtpTypeOK
    <2> QED
      BY <2>1, <2>3, NextFtp
  <1>4. CASE UNCHANGED ftpVars
    BY <1>4 DEF ftpVars, FtpInv, FtpTypeOK, OneName, Held
  <1> QED
    BY <1>2, <1>3, <1>4 DEF FtpNext

\* No request of another client, no repeated request and no expiry takes a
\* session away that was used in the last minute (ca_camera_ftp_reply).
THEOREM SessionsStayKept == FtpSpec => []SessionKept
PROOF
  <1>1. FtpInv => SessionKept
    <2> SUFFICES ASSUME FtpInv, NEW b \in believed, ftpNow - b[3] <= Expiry
                 PROVE  \E n \in Numbers : Of(session, b[1], b[2]) = {n}
      BY DEF SessionKept
    <2>1. PICK n \in Numbers : session[n].active /\ session[n].client = b[1] /\ session[n].id = b[2]
      BY DEF FtpInv, Held
    <2>2. Of(session, b[1], b[2]) = {n}
      BY <2>1 DEF FtpInv, OneName, Of
    <2> QED
      BY <2>2
  <1> QED
    BY <1>1, FtpInitInv, FtpNextInv, PTL DEF FtpSpec

-----------------------------------------------------------------------------
\* The relay to the SupportProxy (SupportMavlink).

LEMMA Wraps ==
    ASSUME NEW Q \in Nat \ {0}, NEW x \in Nat, x < Q + Q
    PROVE  x % Q = IF x < Q THEN x ELSE x - Q
PROOF
  <1>1. CASE x < Q
    BY <1>1
  <1>2. CASE x >= Q
    BY <1>2
  <1> QED
    BY <1>1, <1>2

LEMMA QueueSize == QUEUE_SIZE \in Nat \ {0} /\ QUEUE_SIZE \in Nat /\ QUEUE_SIZE > 0
PROOF
  BY SupportMavlinkAssumption

\* The index of a slot, and the slots of two messages that wait.
LEMMA SlotAfter ==
    ASSUME NEW Q \in Nat \ {0}, NEW f \in 0 .. Q - 1, NEW i \in 0 .. Q
    PROVE  /\ (f + i) % Q = (IF f + i < Q THEN f + i ELSE (f + i) - Q)
           /\ (f + i) % Q \in 0 .. Q - 1
           /\ i < Q => (((f + 1) % Q) + i) % Q = (f + (i + 1)) % Q
           /\ \A j \in 0 .. Q : i < j /\ j < Q => (f + i) % Q # (f + j) % Q
PROOF
  <1>1. f \in Nat /\ i \in Nat /\ f < Q /\ i <= Q
    OBVIOUS
  <1>2. \A j \in 0 .. Q : (f + j) % Q = (IF f + j < Q THEN f + j ELSE (f + j) - Q)
    <2> SUFFICES ASSUME NEW j \in 0 .. Q PROVE (f + j) % Q = (IF f + j < Q THEN f + j ELSE (f + j) - Q)
      OBVIOUS
    <2>1. f + j \in Nat /\ f + j < Q + Q
      BY <1>1
    <2> QED
      BY <2>1, Wraps
  <1>3. (f + i) % Q \in 0 .. Q - 1
    BY <1>1, <1>2
  <1>4. ASSUME i < Q PROVE (((f + 1) % Q) + i) % Q = (f + (i + 1)) % Q
    <2> DEFINE n == (f + 1) % Q
    <2>1. n = (IF f + 1 < Q THEN f + 1 ELSE 0) /\ n \in 0 .. Q - 1
      BY <1>1, <1>2
    <2> HIDE DEF n
    <2>2. n + i \in Nat /\ n + i < Q + Q
      BY <1>1, <1>4, <2>1
    <2>3. (n + i) % Q = (IF n + i < Q THEN n + i ELSE (n + i) - Q)
      BY <2>2, Wraps
    <2>4. (f + (i + 1)) % Q = (IF f + (i + 1) < Q THEN f + (i + 1) ELSE (f + (i + 1)) - Q)
      BY <1>1, <1>2, <1>4
    <2>5. (n + i) % Q = (f + (i + 1)) % Q
      BY <1>1, <1>4, <2>1, <2>3, <2>4
    <2> QED
      BY <2>5 DEF n
  <1>5. ASSUME NEW j \in 0 .. Q, i < j, j < Q PROVE (f + i) % Q # (f + j) % Q
    BY <1>1, <1>2, <1>5
  <1> QED
    BY <1>2, <1>3, <1>4, <1>5

\* A ring holds the newest messages given, in order from its first slot on, and
\* how many it holds is what the abstract queue has left to take.
Rings == [messages : [0 .. QUEUE_SIZE - 1 -> Nat], first : 0 .. QUEUE_SIZE - 1, count : 0 .. QUEUE_SIZE]
InOrder(q, g) == q.count <= g /\ \A i \in 0 .. q.count - 1 : q.messages[(q.first + i) % QUEUE_SIZE] = (g - q.count) + 1 + i
Left(g, t) == IF t < g - QUEUE_SIZE THEN QUEUE_SIZE ELSE g - t
RingOf(q, g, t) == q \in Rings /\ g \in Nat /\ t \in Nat /\ t <= g /\ InOrder(q, g) /\ q.count = Left(g, t)

LEMMA PopInOrder ==
    ASSUME NEW q \in Rings, NEW g \in Nat, InOrder(q, g), q.count > 0
    PROVE  pop(q) \in Rings /\ pop(q).count = q.count - 1 /\ InOrder(pop(q), g) /\ FrontOf(q) = (g - q.count) + 1
PROOF
  <1> USE QueueSize
  <1>1. q.first \in 0 .. QUEUE_SIZE - 1 /\ q.count \in 0 .. QUEUE_SIZE /\ q.messages \in [0 .. QUEUE_SIZE - 1 -> Nat]
    BY DEF Rings
  <1> DEFINE f == Next1(q.first)
             c == q.count - 1
             p == pop(q)
  <1>2. f = (q.first + 1) % QUEUE_SIZE /\ f \in 0 .. QUEUE_SIZE - 1 /\ c \in 0 .. QUEUE_SIZE
    <2>1. 1 \in 0 .. QUEUE_SIZE /\ c \in 0 .. QUEUE_SIZE
      BY <1>1
    <2>2. (q.first + 1) % QUEUE_SIZE \in 0 .. QUEUE_SIZE - 1
      BY <1>1, <2>1, SlotAfter
    <2> QED
      BY <2>1, <2>2 DEF Next1
  <1>3. p = [[q EXCEPT !.first = f] EXCEPT !.count = c]
    BY DEF pop
  <1>4. p \in Rings /\ p.first = f /\ p.count = c /\ p.messages = q.messages
    <2> HIDE DEF f, c, p
    <2> QED
      BY <1>1, <1>2, <1>3 DEF Rings
  <1> HIDE DEF p
  <1>5. ASSUME NEW i \in 0 .. c - 1 PROVE p.messages[(p.first + i) % QUEUE_SIZE] = (g - p.count) + 1 + i
    <2>1. i + 1 \in 0 .. q.count - 1 /\ i \in Nat
      BY <1>1
    <2>2. q.messages[(q.first + (i + 1)) % QUEUE_SIZE] = (g - q.count) + 1 + (i + 1)
      BY <2>1 DEF InOrder
    <2>3. (f + i) % QUEUE_SIZE = (q.first + (i + 1)) % QUEUE_SIZE
      <3>1. i \in 0 .. QUEUE_SIZE /\ i < QUEUE_SIZE
        BY <1>1
      <3>2. (((q.first + 1) % QUEUE_SIZE) + i) % QUEUE_SIZE = (q.first + (i + 1)) % QUEUE_SIZE
        BY <1>1, <3>1, SlotAfter
      <3> HIDE DEF f
      <3> QED
        BY <1>2, <3>2
    <2>4. (g - c) + 1 + i = (g - q.count) + 1 + (i + 1)
      <3>1. q.count \in Int /\ i \in Int /\ g \in Int
        BY <1>1, <2>1
      <3> QED
        BY <3>1
    <2> HIDE DEF f, c
    <2> QED
      BY <1>4, <2>2, <2>3, <2>4
  <1>6. InOrder(p, g)
    <2>1. c <= g
      BY <1>1 DEF InOrder
    <2> HIDE DEF c
    <2> QED
      BY <1>4, <1>5, <2>1 DEF InOrder
  <1>7. FrontOf(q) = (g - q.count) + 1
    <2>1. 0 \in 0 .. q.count - 1 /\ (q.first + 0) % QUEUE_SIZE = q.first
      <3>1. 0 \in 0 .. QUEUE_SIZE /\ 0 \in 0 .. q.count - 1 /\ q.first + 0 = q.first /\ q.first < QUEUE_SIZE
        BY <1>1
      <3>2. (q.first + 0) % QUEUE_SIZE = (IF q.first + 0 < QUEUE_SIZE THEN q.first + 0 ELSE (q.first + 0) - QUEUE_SIZE)
        BY <1>1, <3>1, SlotAfter
      <3> QED
        BY <3>1, <3>2
    <2>2. q.messages[(q.first + 0) % QUEUE_SIZE] = (g - q.count) + 1 + 0
      BY <2>1 DEF InOrder
    <2>3. (g - q.count) + 1 + 0 = (g - q.count) + 1
      BY <1>1
    <2> QED
      BY <2>1, <2>2, <2>3 DEF FrontOf
  <1> QED
    BY <1>4, <1>6, <1>7 DEF p

LEMMA PutInOrder ==
    ASSUME NEW q \in Rings, NEW g \in Nat, InOrder(q, g), q.count < QUEUE_SIZE
    PROVE  Put(q, g + 1) \in Rings /\ Put(q, g + 1).count = q.count + 1 /\ InOrder(Put(q, g + 1), g + 1)
PROOF
  <1> USE QueueSize
  <1>1. q.first \in 0 .. QUEUE_SIZE - 1 /\ q.count \in 0 .. QUEUE_SIZE /\ q.messages \in [0 .. QUEUE_SIZE - 1 -> Nat]
    BY DEF Rings
  <1> DEFINE k == (q.first + q.count) % QUEUE_SIZE
             m == [q.messages EXCEPT ![k] = g + 1]
             c == q.count + 1
             p == Put(q, g + 1)
  <1>2. k \in 0 .. QUEUE_SIZE - 1
    BY <1>1, SlotAfter
  <1>3. c \in 0 .. QUEUE_SIZE /\ m \in [0 .. QUEUE_SIZE - 1 -> Nat]
    BY <1>1, <1>2
  <1>4. p = [[q EXCEPT !.messages = m] EXCEPT !.count = c]
    BY DEF Put
  <1>5. p \in Rings /\ p.first = q.first /\ p.count = c /\ p.messages = m
    <2> HIDE DEF k, m, c, p
    <2> QED
      BY <1>1, <1>3, <1>4 DEF Rings
  <1> HIDE DEF p
  <1>6. ASSUME NEW i \in 0 .. c - 1 PROVE m[(q.first + i) % QUEUE_SIZE] = ((g + 1) - c) + 1 + i
    <2> DEFINE j == (q.first + i) % QUEUE_SIZE
    <2>1. i \in Nat /\ i <= q.count
      BY <1>1
    <2>2. i \in 0 .. QUEUE_SIZE /\ j \in 0 .. QUEUE_SIZE - 1
      <3>1. i \in 0 .. QUEUE_SIZE
        BY <1>1, <2>1
      <3> QED
        BY <1>1, <3>1, SlotAfter
    <2>3. CASE i = q.count
      <3>1. j = k
        BY <2>3
      <3>2. ((g + 1) - c) + 1 + i = g + 1
        BY <1>1, <2>3
      <3> HIDE DEF j, k, c
      <3> QED
        BY <1>1, <1>2, <3>1, <3>2 DEF j
    <2>4. CASE i # q.count
      <3>1. i \in 0 .. q.count - 1 /\ ((g + 1) - c) + 1 + i = (g - q.count) + 1 + i
        BY <1>1, <2>1, <2>4
      <3>2. q.messages[j] = (g - q.count) + 1 + i
        BY <3>1 DEF InOrder
      <3> HIDE DEF j, k, c
      <3>3. j # k
        <4>1. i < q.count /\ q.count < QUEUE_SIZE
          BY <1>1, <2>1, <2>4
        <4>2. \A n \in 0 .. QUEUE_SIZE : i < n /\ n < QUEUE_SIZE => (q.first + i) % QUEUE_SIZE # (q.first + n) % QUEUE_SIZE
          BY <1>1, <2>2, SlotAfter
        <4> QED
          BY <1>1, <4>1, <4>2 DEF j, k
      <3>4. m[j] = q.messages[j]
        BY <1>1, <1>2, <2>2, <3>3
      <3> HIDE DEF m
      <3> QED
        BY <3>1, <3>2, <3>4 DEF j
    <2> QED
      BY <2>3, <2>4
  <1>7. InOrder(p, g + 1)
    <2>1. c <= g + 1
      BY <1>1 DEF InOrder
    <2> HIDE DEF c, m
    <2> QED
      BY <1>5, <1>6, <2>1 DEF InOrder
  <1> QED
    BY <1>5, <1>7 DEF p

\* pop takes what the abstract queue would, and push gives.
LEMMA PopRefines ==
    ASSUME NEW q, NEW g, NEW t, RingOf(q, g, t), q.count > 0
    PROVE  /\ RingOf(pop(q), g, FrontOf(q))
           /\ FrontOf(q) = 1 + (IF t < g - QUEUE_SIZE THEN g - QUEUE_SIZE ELSE t) /\ FrontOf(q) <= g
PROOF
  <1> USE QueueSize
  <1>1. q \in Rings /\ g \in Nat /\ t \in Nat /\ t <= g /\ InOrder(q, g) /\ q.count = Left(g, t) /\ q.count \in 0 .. QUEUE_SIZE /\ q.count <= g
    BY DEF RingOf, Rings, InOrder
  <1> DEFINE f == FrontOf(q)
             c == q.count
             p == pop(q)
  <1>2. p \in Rings /\ p.count = c - 1 /\ InOrder(p, g) /\ f = (g - c) + 1
    BY <1>1, PopInOrder
  <1> HIDE DEF f, p
  <1>3. f \in Nat /\ f <= g /\ f = 1 + (IF t < g - QUEUE_SIZE THEN g - QUEUE_SIZE ELSE t) /\ c - 1 = Left(g, f)
    <2>1. c = Left(g, t) /\ c \in 0 .. QUEUE_SIZE /\ c <= g /\ c > 0
      BY <1>1
    <2> HIDE DEF c
    <2> QED
      BY <1>1, <1>2, <2>1 DEF Left
  <1>4. RingOf(p, g, f)
    BY <1>1, <1>2, <1>3 DEF RingOf
  <1> QED
    BY <1>3, <1>4 DEF f, p

LEMMA PushRefines ==
    ASSUME NEW q, NEW g, NEW t, RingOf(q, g, t)
    PROVE  RingOf(push(q, g + 1), g + 1, t)
PROOF
  <1> USE QueueSize
  <1>1. q \in Rings /\ g \in Nat /\ t \in Nat /\ t <= g /\ InOrder(q, g) /\ q.count = Left(g, t) /\ q.count \in 0 .. QUEUE_SIZE
    BY DEF RingOf, Rings
  <1> DEFINE r == IF q.count = QUEUE_SIZE THEN pop(q) ELSE q
             p == Put(r, g + 1)
  <1>2. r \in Rings /\ InOrder(r, g) /\ r.count < QUEUE_SIZE /\ r.count = IF q.count = QUEUE_SIZE THEN q.count - 1 ELSE q.count
    <2>1. CASE q.count = QUEUE_SIZE
      <3>1. pop(q) \in Rings /\ pop(q).count = q.count - 1 /\ InOrder(pop(q), g)
        BY <1>1, <2>1, PopInOrder
      <3> QED
        BY <1>1, <2>1, <3>1
    <2>2. CASE q.count # QUEUE_SIZE
      BY <1>1, <2>2
    <2> QED
      BY <2>1, <2>2
  <1> HIDE DEF r
  <1>3. p \in Rings /\ p.count = r.count + 1 /\ InOrder(p, g + 1)
    BY <1>1, <1>2, PutInOrder
  <1> HIDE DEF p
  <1>4. p.count = Left(g + 1, t) /\ g + 1 \in Nat /\ t <= g + 1
    BY <1>1, <1>2, <1>3 DEF Left
  <1>5. RingOf(p, g + 1, t)
    BY <1>1, <1>3, <1>4 DEF RingOf
  <1> QED
    BY <1>5 DEF p, r, push

\* The timestamp of the next packet is above every one that was sent.
LinkInv ==
    /\ RingOf(outgoing, outGiven, outTaken) /\ RingOf(incoming, inGiven, inTaken)
    /\ signing \in Nat /\ clock \in Nat
    /\ stamps \in [last : Nat, fresh : BOOLEAN] /\ stamps.last < signing /\ stamps.fresh

LEMMA LinkInitInv == LinkInit => LinkInv /\ Out!Init /\ In!Init
PROOF
  <1> SUFFICES ASSUME LinkInit PROVE LinkInv /\ Out!Init /\ In!Init
    OBVIOUS
  <1> USE QueueSize
  <1>1. RingOf(Empty, 0, 0)
    <2> DEFINE m == [i \in 0 .. QUEUE_SIZE - 1 |-> 0]
    <2>1. m \in [0 .. QUEUE_SIZE - 1 -> Nat] /\ 0 \in 0 .. QUEUE_SIZE - 1 /\ 0 \in 0 .. QUEUE_SIZE
      OBVIOUS
    <2>2. Empty = [messages |-> m, first |-> 0, count |-> 0]
      BY DEF Empty
    <2> HIDE DEF m
    <2>3. Empty \in Rings /\ Empty.count = 0
      BY <2>1, <2>2 DEF Rings
    <2> HIDE DEF Empty
    <2> QED
      BY <2>3 DEF RingOf, InOrder, Left
  <1>2. stamps = [last |-> 0, fresh |-> TRUE] /\ clock \in 1 .. MaxClock /\ signing = clock
    BY DEF LinkInit
  <1>3. stamps \in [last : Nat, fresh : BOOLEAN] /\ stamps.last = 0 /\ stamps.fresh /\ signing \in Nat /\ clock \in Nat /\ 0 < signing
    BY <1>2
  <1> QED
    BY <1>1, <1>3 DEF LinkInit, LinkInv, Out!Init, In!Init

LEMMA LinkStep ==
    LinkInv /\ [LinkNext]_linkVars => LinkInv' /\ [Out!Give \/ Out!Take]_<<outGiven, outTaken>> /\ [In!Give \/ In!Take]_<<inGiven, inTaken>>
PROOF
  <1> SUFFICES ASSUME LinkInv, [LinkNext]_linkVars
               PROVE  LinkInv' /\ [Out!Give \/ Out!Take]_<<outGiven, outTaken>> /\ [In!Give \/ In!Take]_<<inGiven, inTaken>>
    OBVIOUS
  <1> USE QueueSize
  <1> DEFINE Goal == LinkInv' /\ [Out!Give \/ Out!Take]_<<outGiven, outTaken>> /\ [In!Give \/ In!Take]_<<inGiven, inTaken>>
             OutSame == UNCHANGED <<outgoing, outGiven, outTaken>>
             InSame == UNCHANGED <<incoming, inGiven, inTaken>>
             SignSame == UNCHANGED <<signing, stamps, clock>>
  <1>1. ASSUME OutSame, InSame, SignSame PROVE Goal
    BY <1>1 DEF LinkInv, RingOf, InOrder, Rings, Left
  <1>2. CASE ca_support_mavlink_send
    <2>1. outgoing' = push(outgoing, outGiven + 1) /\ outGiven' = outGiven + 1 /\ outTaken' = outTaken /\ InSame /\ SignSame
      BY <1>2 DEF ca_support_mavlink_send
    <2>2. RingOf(push(outgoing, outGiven + 1), outGiven + 1, outTaken)
      BY PushRefines DEF LinkInv
    <2>3. Out!Give
      BY <2>1 DEF Out!Give
    <2> QED
      BY <2>1, <2>2, <2>3 DEF LinkInv
  <1>3. CASE ca_support_mavlink_receive
    <2>1. incoming.count > 0 /\ inTaken' = FrontOf(incoming) /\ incoming' = pop(incoming) /\ inGiven' = inGiven /\ OutSame /\ SignSame
      BY <1>3 DEF ca_support_mavlink_receive
    <2>2. /\ RingOf(pop(incoming), inGiven, FrontOf(incoming)) /\ FrontOf(incoming) <= inGiven
          /\ FrontOf(incoming) = 1 + (IF inTaken < inGiven - QUEUE_SIZE THEN inGiven - QUEUE_SIZE ELSE inTaken)
      BY <2>1, PopRefines DEF LinkInv
    <2>3. In!Take
      BY <2>1, <2>2 DEF In!Take, In!Oldest
    <2> QED
      BY <2>1, <2>2, <2>3 DEF LinkInv
  <1>4. CASE Batch
    <2>1. CASE relay.tries < QUEUE_SIZE /\ outgoing.count > 0
      <3>1. outgoing.count > 0 /\ outTaken' = FrontOf(outgoing) /\ outgoing' = pop(outgoing) /\ outGiven' = outGiven /\ InSame /\ SignSame
        BY <1>4, <2>1 DEF Batch
      <3>2. /\ RingOf(pop(outgoing), outGiven, FrontOf(outgoing)) /\ FrontOf(outgoing) <= outGiven
            /\ FrontOf(outgoing) = 1 + (IF outTaken < outGiven - QUEUE_SIZE THEN outGiven - QUEUE_SIZE ELSE outTaken)
        BY <3>1, PopRefines DEF LinkInv
      <3>3. Out!Take
        BY <3>1, <3>2 DEF Out!Take, Out!Oldest
      <3> QED
        BY <3>1, <3>2, <3>3 DEF LinkInv
    <2>2. CASE ~(relay.tries < QUEUE_SIZE /\ outgoing.count > 0)
      BY <1>1, <1>4, <2>2 DEF Batch
    <2> QED
      BY <2>1, <2>2
  <1>5. CASE Parse
    <2>1. CASE relay.left = 0 \/ inGiven = MaxGiven
      BY <1>1, <1>5, <2>1 DEF Parse
    <2>2. CASE ~(relay.left = 0 \/ inGiven = MaxGiven)
      <3>1. incoming' = push(incoming, inGiven + 1) /\ inGiven' = inGiven + 1 /\ inTaken' = inTaken /\ OutSame /\ SignSame
        BY <1>5, <2>2 DEF Parse
      <3>2. RingOf(push(incoming, inGiven + 1), inGiven + 1, inTaken)
        BY PushRefines DEF LinkInv
      <3>3. In!Give
        BY <3>1 DEF In!Give
      <3> QED
        BY <3>1, <3>2, <3>3 DEF LinkInv
    <2> QED
      BY <2>1, <2>2
  <1>6. CASE Send
    <2>1. /\ signing' = Stamp + 1 /\ stamps' = [last |-> Stamp, fresh |-> stamps.fresh /\ Stamp > stamps.last]
          /\ clock' = clock /\ OutSame /\ InSame
      BY <1>6 DEF Send
    <2>2. Stamp \in Nat /\ Stamp >= signing /\ signing \in Nat /\ clock \in Nat /\ stamps.last \in Nat /\ stamps.last < signing /\ stamps.fresh
      BY DEF LinkInv, Stamp
    <2> HIDE DEF Stamp
    <2>3. stamps'.last = Stamp /\ stamps'.fresh = TRUE /\ stamps' \in [last : Nat, fresh : BOOLEAN]
      <3>1. (stamps.fresh /\ Stamp > stamps.last) = TRUE
        BY <2>2
      <3> QED
        BY <2>1, <2>2, <3>1
    <2>4. RingOf(outgoing, outGiven, outTaken)' /\ RingOf(incoming, inGiven, inTaken)'
      BY <2>1 DEF LinkInv, RingOf, InOrder, Rings, Left
    <2> QED
      BY <2>1, <2>2, <2>3, <2>4 DEF LinkInv
  <1>7. CASE SetClock
    <2>1. clock' \in Nat /\ OutSame /\ InSame /\ UNCHANGED <<signing, stamps>>
      BY <1>7, SupportMavlinkAssumption DEF SetClock
    <2>2. RingOf(outgoing, outGiven, outTaken)' /\ RingOf(incoming, inGiven, inTaken)'
      BY <2>1 DEF LinkInv, RingOf, InOrder, Rings, Left
    <2> QED
      BY <2>1, <2>2 DEF LinkInv
  <1>8. CASE ca_support_mavlink_close \/ Join \/ Top \/ connect_proxy \/ Poll \/ UNCHANGED linkVars
    BY <1>1, <1>8 DEF ca_support_mavlink_close, Join, Top, connect_proxy, Poll, relayRest, linkVars
  <1> QED
    BY <1>2, <1>3, <1>4, <1>5, <1>6, <1>7, <1>8 DEF LinkNext, RelayStep

\* Each signed packet has a timestamp above all earlier ones, although the
\* real-time clock may be set back between two of them (relay, Send).
THEOREM StampsIncrease == LinkSpec => []SignedInOrder
PROOF
  <1>1. LinkInv => SignedInOrder
    BY DEF LinkInv, SignedInOrder
  <1> QED
    BY <1>1, LinkInitInv, LinkStep, PTL DEF LinkSpec

\* Both rings, with their wrapping indices and their full state, implement the
\* abstract queue that keeps the newest messages (push and pop).
THEOREM RingsKeepNewest == LinkSpec => KeepsNewest
PROOF
  <1>1. LinkInit => Out!Init /\ In!Init
    BY LinkInitInv
  <1>2. LinkInv /\ [LinkNext]_linkVars => [Out!Give \/ Out!Take]_<<outGiven, outTaken>> /\ [In!Give \/ In!Take]_<<inGiven, inTaken>>
    BY LinkStep
  <1> QED
    BY <1>1, <1>2, LinkInitInv, LinkStep, PTL DEF LinkSpec, KeepsNewest, Out!Spec, In!Spec, Out!queueVars, In!queueVars

-----------------------------------------------------------------------------
\* Restarting the application (WebRestart).

Phases == {"forked", "booting", "ready", "dead"}
LauncherSteps == {"read", "mark", "fork", "starting", "watch", "stop", "reap", "wait"}
\* The steps of a restart: through the launcher, from the publication of the
\* request on, and of the MT11.
Requested == {"check", "scan again", "check again", "stop", "stopping", "await"}
Served == {"idle", "scan", "publish"} \cup Requested
Direct == {"idle", "stop all", "stopping all", "start", "await child"}

Apps == [pid : Nat, gen : Nat, born : Nat, st : Phases, term : BOOLEAN]
Workings == [pc : Served \cup Direct, old : SUBSET Nat, gen : Nat, now : SUBSET Nat]
RestartTypeOK ==
    /\ target \in {"mt11", "a8", "zr10"} /\ request \in Nat /\ started \in Nat /\ ready \in Nat
    /\ app \in Apps
    /\ launcher \in [pc : LauncherSteps \cup {"none"}, gen : Nat]
    /\ restarter \in [Restarters -> Workings]
    /\ vouched \subseteq [gen : Nat, born : Nat]

\* An instance reads its configuration after the request it is started for.
Booted == app.st \in {"booting", "ready"}
AppInv == app.gen <= request /\ (Booted => app.born >= app.gen)

\* On the MT11 there is no launcher.  Elsewhere the launcher starts one instance
\* at a time, when the one before is dead, for the request it recorded last.
LauncherInv ==
    IF target = "mt11" THEN launcher.pc = "none"
    ELSE /\ launcher.pc # "none" /\ started <= launcher.gen /\ launcher.gen <= request
         /\ launcher.pc \in {"wait", "read", "mark", "fork"} => ~Alive
         /\ launcher.pc = "fork" => started = launcher.gen
         /\ app.gen <= started /\ (Alive => app.gen = started)

\* What a worker that restarts knows at each of its steps.
WorkerInv(w) ==
    LET r == restarter[w] IN
    /\ r.pc # "idle" => restartLock = {w}
    /\ r.pc \in (IF target = "mt11" THEN Direct ELSE Served)
    /\ r.pc \in Requested \cup {"await child"} => r.gen = request
    /\ r.pc \in Requested \cup {"publish"} => \A p \in r.old : p <= app.pid
    /\ r.pc \in Requested /\ app.pid \in r.old => app.gen < r.gen
    /\ r.pc = "check again" => (\A p \in r.now : p <= app.pid) /\ (Booted => app.born >= r.gen \/ app.pid \in r.now)
    /\ r.pc \in {"stop", "stopping", "await"} /\ Booted => app.born >= r.gen \/ app.pid \in r.old
    /\ r.pc = "await child" => app.gen = r.gen /\ (ready # 0 => app.born >= r.gen)

RestartInv ==
    /\ RestartTypeOK /\ AppInv /\ LauncherInv /\ FreshInstance
    /\ \A w \in Restarters : WorkerInv(w)

LEMMA RestartInitInv == RestartInit => RestartInv
PROOF
  <1> SUFFICES ASSUME RestartInit PROVE RestartInv
    OBVIOUS
  <1>1. app \in Apps /\ app.gen = 0 /\ app.pid = 1 /\ app.st = "ready" /\ app.born = 0
    BY DEF RestartInit, Apps, Phases
  <1>2. launcher \in [pc : LauncherSteps \cup {"none"}, gen : Nat] /\ launcher.gen = 0 /\ launcher.pc = IF target = "mt11" THEN "none" ELSE "watch"
    BY DEF RestartInit, LauncherSteps
  <1>3. restarter \in [Restarters -> Workings] /\ \A w \in Restarters : restarter[w].pc = "idle"
    BY DEF RestartInit, Workings, Served, Direct
  <1>4. RestartTypeOK
    BY <1>1, <1>2, <1>3 DEF RestartInit, RestartTypeOK
  <1>5. AppInv /\ LauncherInv /\ FreshInstance
    BY <1>1, <1>2 DEF RestartInit, AppInv, LauncherInv, FreshInstance, Booted
  <1>6. \A w \in Restarters : WorkerInv(w)
    BY <1>3 DEF WorkerInv, Served, Direct, Requested
  <1> QED
    BY <1>4, <1>5, <1>6 DEF RestartInv

-----------------------------------------------------------------------------
\* The application.  Apart from its own progress an instance is only asked to
\* end, or ends.

Milder(a) == a \in Apps /\ a.pid = app.pid /\ a.gen = app.gen /\ a.born = app.born /\ a.st \in {app.st, "dead"}

LEMMA SignalsAreMild ==
    ASSUME app \in Apps
    PROVE  Milder(app) /\ Milder(Terminated) /\ Milder(Killed)
PROOF
  <1>1. Milder(app)
    BY DEF Milder
  <1>2. Milder(Killed)
    BY DEF Milder, Killed, Apps, Phases
  <1>3. Milder(Terminated)
    <2>1. CASE app.st = "forked"
      BY <2>1 DEF Milder, Terminated, Apps, Phases
    <2>2. CASE app.st # "forked" /\ Alive
      BY <2>2 DEF Milder, Terminated, Apps, Phases
    <2>3. CASE app.st # "forked" /\ ~Alive
      BY <1>1, <2>3 DEF Terminated
    <2> QED
      BY <2>1, <2>2, <2>3
  <1> QED
    BY <1>1, <1>2, <1>3

LEMMA MildForAll ==
    ASSUME RestartInv, Milder(app'), UNCHANGED <<target, request>>
    PROVE  /\ AppInv' /\ app' \in Apps
           /\ UNCHANGED <<started, launcher>> => LauncherInv'
           /\ UNCHANGED <<restarter, restartLock>> /\ ready' \in {ready, 0} => \A w \in Restarters : WorkerInv(w)'
PROOF
  <1>1. app'.pid = app.pid /\ app'.gen = app.gen /\ app'.born = app.born /\ app'.st \in {app.st, "dead"} /\ app' \in Apps
    BY DEF Milder
  <1>2. AppInv'
    BY <1>1 DEF RestartInv, AppInv, Booted
  <1>3. ASSUME UNCHANGED <<started, launcher>> PROVE LauncherInv'
    BY <1>1, <1>3 DEF RestartInv, LauncherInv, Alive
  <1>4. ASSUME UNCHANGED <<restarter, restartLock>>, ready' \in {ready, 0}, NEW w \in Restarters PROVE WorkerInv(w)'
    BY <1>1, <1>4 DEF RestartInv, WorkerInv, Booted
  <1> QED
    BY <1>1, <1>2, <1>3, <1>4

LEMMA AppKeeps == RestartInv /\ (AppStep \/ AppFails) => RestartInv'
PROOF
  <1> SUFFICES ASSUME RestartInv, AppStep \/ AppFails PROVE RestartInv'
    OBVIOUS
  <1>1. UNCHANGED <<target, request, started, launcher, restarter, restartLock, vouched>> /\ app \in Apps /\ RestartTypeOK
    BY DEF AppStep, AppStarts, write_ready, AppExits, AppFails, webFiles, webSide, RestartInv, RestartTypeOK
  <1>2. FreshInstance'
    BY <1>1 DEF RestartInv, FreshInstance
  <1>3. CASE AppStarts
    <2>1. app' = [[app EXCEPT !.st = "booting"] EXCEPT !.born = request] /\ ready' = 0 /\ app.st = "forked" /\ request \in Nat
      BY <1>1, <1>3 DEF AppStarts, RestartTypeOK
    <2>2. app'.pid = app.pid /\ app'.gen = app.gen /\ app'.born = request /\ app'.st = "booting" /\ app' \in Apps
      BY <1>1, <2>1 DEF Apps, Phases
    <2>3. AppInv'
      BY <1>1, <2>2 DEF RestartInv, AppInv, Booted
    <2>4. LauncherInv'
      BY <1>1, <2>1, <2>2 DEF RestartInv, LauncherInv, Alive
    <2>5. ASSUME NEW w \in Restarters PROVE WorkerInv(w)'
      <3>1. WorkerInv(w) /\ restarter' = restarter /\ restartLock' = restartLock /\ request' = request /\ target' = target /\ restarter[w].gen \in Nat
        BY <1>1 DEF RestartInv, RestartTypeOK, Workings
      <3>2. restarter[w].pc \in Requested => app'.born >= restarter[w].gen
        <4>1. restarter[w].pc \in Requested => restarter[w].gen = request
          BY <3>1 DEF WorkerInv
        <4>2. request >= request
          BY <2>1
        <4> QED
          BY <2>2, <4>1, <4>2
      <3>3. {"check again", "stop", "stopping", "await"} \subseteq Requested
        BY DEF Requested
      <3> QED
        BY <2>1, <2>2, <3>1, <3>2, <3>3 DEF WorkerInv, Booted
    <2>6. RestartTypeOK'
      BY <1>1, <2>1, <2>2 DEF RestartTypeOK
    <2> QED
      BY <1>2, <2>3, <2>4, <2>5, <2>6 DEF RestartInv
  <1>4. CASE write_ready
    <2>1. app' = [app EXCEPT !.st = "ready"] /\ ready' = app.pid /\ app.st = "booting"
      BY <1>4 DEF write_ready
    <2>2. app'.pid = app.pid /\ app'.gen = app.gen /\ app'.born = app.born /\ app'.st = "ready" /\ app' \in Apps
      BY <1>1, <2>1 DEF Apps, Phases
    <2>3. AppInv'
      BY <1>1, <2>1, <2>2 DEF RestartInv, AppInv, Booted
    <2>4. LauncherInv'
      BY <1>1, <2>1, <2>2 DEF RestartInv, LauncherInv, Alive
    <2>5. ASSUME NEW w \in Restarters PROVE WorkerInv(w)'
      <3>1. /\ WorkerInv(w) /\ restarter' = restarter /\ restartLock' = restartLock /\ request' = request /\ target' = target
            /\ app.born >= app.gen
        BY <1>1, <2>1 DEF RestartInv, AppInv, Booted
      <3> QED
        BY <2>1, <2>2, <3>1 DEF WorkerInv, Booted
    <2>6. RestartTypeOK'
      BY <1>1, <2>1, <2>2 DEF RestartTypeOK, Apps
    <2> QED
      BY <1>2, <2>3, <2>4, <2>5, <2>6 DEF RestartInv
  <1>5. CASE AppExits \/ AppFails
    <2>1. app' = Killed /\ ready' \in {ready, 0}
      BY <1>5 DEF AppExits, AppFails
    <2>2. Milder(app')
      BY <1>1, <2>1, SignalsAreMild
    <2>3. AppInv' /\ app' \in Apps /\ LauncherInv' /\ \A w \in Restarters : WorkerInv(w)'
      BY <1>1, <2>1, <2>2, MildForAll
    <2>4. RestartTypeOK'
      BY <1>1, <2>1, <2>3 DEF RestartTypeOK
    <2> QED
      BY <1>2, <2>3, <2>4 DEF RestartInv
  <1> QED
    BY <1>3, <1>4, <1>5 DEF AppStep

-----------------------------------------------------------------------------
\* The launcher.

LEMMA LauncherKeeps == RestartInv /\ LauncherStep => RestartInv'
PROOF
  <1> SUFFICES ASSUME RestartInv, LauncherStep PROVE RestartInv'
    OBVIOUS
  <1>1. UNCHANGED <<target, request, restarter, restartLock, vouched>>
    BY DEF LauncherStep, ReadRequest, mark_started, StartApp, Starting, Watch, StopChild, wait_for_restart, webFiles, webSide
  <1>2. /\ RestartTypeOK /\ app \in Apps /\ request \in Nat /\ started \in Nat /\ ready \in Nat
        /\ launcher \in [pc : LauncherSteps \cup {"none"}, gen : Nat]
        /\ launcher.gen \in Nat
    BY DEF RestartInv, RestartTypeOK
  <1>3. FreshInstance'
    BY <1>1 DEF RestartInv, FreshInstance
  <1>4. ASSUME NEW pc \in LauncherSteps, NEW g \in Nat, launcher' = [pc |-> pc, gen |-> g], started' \in Nat, ready' \in {ready, 0}, app' = app,
               target # "mt11" => /\ started' <= g /\ g <= request /\ (pc \in {"wait", "read", "mark", "fork"} => ~Alive)
                                  /\ (pc = "fork" => started' = g) /\ app.gen <= started' /\ (Alive => app.gen = started'),
               target # "mt11"
        PROVE  RestartInv'
    <2>1. launcher' \in [pc : LauncherSteps \cup {"none"}, gen : Nat] /\ launcher'.pc = pc /\ launcher'.gen = g /\ pc # "none"
      BY <1>4 DEF LauncherSteps
    <2>2. RestartTypeOK'
      BY <1>1, <1>2, <1>4, <2>1 DEF RestartTypeOK
    <2>3. AppInv' /\ \A w \in Restarters : WorkerInv(w)'
      BY <1>1, <1>2, <1>4, SignalsAreMild, MildForAll
    <2>4. LauncherInv'
      BY <1>1, <1>4, <2>1 DEF LauncherInv, Alive
    <2> QED
      BY <1>3, <2>2, <2>3, <2>4 DEF RestartInv
  <1>5. target # "mt11" /\ launcher.pc # "none"
    <2>1. launcher.pc # "none"
      BY DEF LauncherStep, ReadRequest, mark_started, StartApp, Starting, Watch, StopChild, wait_for_restart, LauncherAt
    <2> QED
      BY <2>1 DEF RestartInv, LauncherInv
  <1>6. /\ started <= launcher.gen /\ launcher.gen <= request
        /\ launcher.pc \in {"wait", "read", "mark", "fork"} => ~Alive
        /\ launcher.pc = "fork" => started = launcher.gen
        /\ app.gen <= started /\ (Alive => app.gen = started) /\ app.gen \in Nat
    BY <1>2, <1>5 DEF RestartInv, LauncherInv, Apps
  <1>7. \A pc : launcher' = [launcher EXCEPT !.pc = pc] => launcher' = [pc |-> pc, gen |-> launcher.gen]
    BY <1>2
  <1>8. CASE ReadRequest
    <2>1. CASE target = "zr10"
      <3>1. launcher' = [pc |-> "fork", gen |-> request] /\ started' = request /\ ready' = 0 /\ app' = app /\ ~Alive
        BY <1>6, <1>8, <2>1 DEF ReadRequest, LauncherAt
      <3>2. app.gen <= request
        BY <1>2, <1>6
      <3> QED
        BY <1>2, <1>4, <1>5, <3>1, <3>2 DEF LauncherSteps
    <2>2. CASE target # "zr10"
      <3>1. launcher' = [pc |-> "mark", gen |-> request] /\ started' = started /\ ready' = 0 /\ app' = app /\ ~Alive
        BY <1>6, <1>8, <2>2 DEF ReadRequest, LauncherAt, After
      <3>2. started <= request
        BY <1>2, <1>6
      <3> QED
        BY <1>2, <1>4, <1>5, <1>6, <3>1, <3>2 DEF LauncherSteps
    <2> QED
      BY <2>1, <2>2
  <1>9. CASE mark_started
    <2>1. ~Alive /\ ready' = ready /\ app' = app
      BY <1>6, <1>9 DEF mark_started, LauncherAt
    <2>2. CASE started' = launcher.gen /\ launcher' = [launcher EXCEPT !.pc = After("mark")]
      <3>1. launcher' = [pc |-> "fork", gen |-> launcher.gen]
        BY <1>7, <2>2 DEF After
      <3>2. app.gen <= launcher.gen
        BY <1>2, <1>6
      <3> QED
        BY <1>2, <1>4, <1>5, <1>6, <2>1, <2>2, <3>1, <3>2 DEF LauncherSteps
    <2>3. CASE launcher' = [launcher EXCEPT !.pc = "stop"] /\ started' = started
      BY <1>2, <1>4, <1>5, <1>6, <1>7, <2>1, <2>3 DEF LauncherSteps
    <2> QED
      BY <1>9, <2>2, <2>3 DEF mark_started
  <1>10. CASE Starting \/ Watch
    <2>1. app' = app /\ ready' = ready /\ started' = started
      BY <1>10 DEF Starting, Watch, webFiles
    <2>2. launcher' = [launcher EXCEPT !.pc = "watch"] \/ launcher' = [launcher EXCEPT !.pc = "stop"]
      BY <1>10 DEF Starting, Watch
    <2>3. launcher' = [pc |-> "watch", gen |-> launcher.gen] \/ launcher' = [pc |-> "stop", gen |-> launcher.gen]
      BY <1>7, <2>2
    <2> QED
      BY <1>2, <1>4, <1>5, <1>6, <2>1, <2>3 DEF LauncherSteps
  <1>11. CASE wait_for_restart
    <2>1. app' = app /\ ready' = ready /\ started' = started /\ ~Alive /\ launcher' = [pc |-> "read", gen |-> launcher.gen]
      BY <1>6, <1>7, <1>11 DEF wait_for_restart, webFiles, LauncherAt
    <2> QED
      BY <1>2, <1>4, <1>5, <1>6, <2>1 DEF LauncherSteps
  <1>12. CASE StopChild
    <2>1. started' = started
      BY <1>12 DEF StopChild, webFiles
    <2>2. CASE LauncherAt("reap") /\ ~Alive /\ launcher' = [launcher EXCEPT !.pc = "wait"] /\ ready' = 0 /\ UNCHANGED app
      BY <1>2, <1>4, <1>5, <1>6, <1>7, <2>1, <2>2 DEF LauncherSteps
    <2>3. CASE LauncherAt("reap") /\ Alive /\ app' = Killed /\ UNCHANGED <<launcher, ready>>
      <3>1. Milder(app')
        BY <1>2, <2>3, SignalsAreMild
      <3>2. AppInv' /\ app' \in Apps /\ LauncherInv' /\ \A w \in Restarters : WorkerInv(w)'
        BY <1>1, <2>1, <2>3, <3>1, MildForAll
      <3>3. RestartTypeOK'
        BY <1>1, <1>2, <2>1, <2>3, <3>2 DEF RestartTypeOK
      <3> QED
        BY <1>3, <3>2, <3>3 DEF RestartInv
    <2>4. CASE LauncherAt("stop") /\ app' = Terminated /\ launcher' = [launcher EXCEPT !.pc = "reap"] /\ UNCHANGED ready
      <3>1. Milder(app')
        BY <1>2, <2>4, SignalsAreMild
      <3>2. AppInv' /\ app' \in Apps /\ \A w \in Restarters : WorkerInv(w)'
        BY <1>1, <2>4, <3>1, MildForAll
      <3>3. launcher' \in [pc : LauncherSteps \cup {"none"}, gen : Nat] /\ launcher'.pc = "reap" /\ launcher'.gen = launcher.gen
        BY <1>2, <1>7, <2>4 DEF LauncherSteps
      <3>4. RestartTypeOK'
        BY <1>1, <1>2, <2>1, <2>4, <3>2, <3>3 DEF RestartTypeOK
      <3>5. LauncherInv'
        BY <1>1, <1>5, <1>6, <2>1, <3>1, <3>3 DEF LauncherInv, Alive, Milder
      <3> QED
        BY <1>3, <3>2, <3>4, <3>5 DEF RestartInv
    <2> QED
      BY <1>12, <2>2, <2>3, <2>4 DEF StopChild
  <1>13. CASE StartApp
    <2>1. /\ app' = [pid |-> app.pid + 1, gen |-> launcher.gen, born |-> 0, st |-> "forked", term |-> FALSE]
          /\ started' = started /\ ready' = ready /\ launcher' = [pc |-> "starting", gen |-> launcher.gen]
          /\ launcher.pc = "fork"
      BY <1>7, <1>13 DEF StartApp, Forked, After, webFiles, LauncherAt
    <2>2. app.pid \in Nat
      BY <1>2 DEF Apps
    <2>3. app' \in Apps /\ app'.pid = app.pid + 1 /\ app'.gen = launcher.gen /\ app'.born = 0 /\ app'.st = "forked"
      BY <1>2, <2>1, <2>2 DEF Apps, Phases
    <2>4. launcher' \in [pc : LauncherSteps \cup {"none"}, gen : Nat] /\ launcher'.pc = "starting" /\ launcher'.gen = launcher.gen
      BY <1>2, <2>1 DEF LauncherSteps
    <2>5. RestartTypeOK'
      BY <1>1, <1>2, <2>1, <2>3, <2>4 DEF RestartTypeOK
    <2>6. AppInv'
      BY <1>1, <1>6, <2>3 DEF AppInv, Booted
    <2>7. LauncherInv'
      BY <1>1, <1>2, <1>5, <1>6, <2>1, <2>3, <2>4 DEF LauncherInv, Alive
    <2>8. ASSUME NEW w \in Restarters PROVE WorkerInv(w)'
      <3>1. /\ WorkerInv(w) /\ restarter' = restarter /\ restartLock' = restartLock /\ request' = request /\ target' = target
            /\ restarter[w].old \subseteq Nat /\ restarter[w].now \subseteq Nat /\ restarter[w].pc \in Served
        BY <1>1, <1>2, <1>5 DEF RestartInv, RestartTypeOK, Workings, WorkerInv
      <3>2. \A S \in SUBSET Nat : (\A p \in S : p <= app.pid) => app.pid + 1 \notin S /\ \A p \in S : p <= app.pid + 1
        BY <2>2
      <3>3. restarter[w].pc \notin {"await child"}
        BY <3>1 DEF Served, Requested
      <3> QED
        BY <2>3, <3>1, <3>2, <3>3 DEF WorkerInv, Booted, Requested
    <2> QED
      BY <1>3, <2>5, <2>6, <2>7, <2>8 DEF RestartInv
  <1> QED
    BY <1>8, <1>9, <1>10, <1>11, <1>12, <1>13 DEF LauncherStep

-----------------------------------------------------------------------------
\* The web workers.

\* What a step of a worker does to its own record.
Became(w, pc, old, g, again) ==
    /\ restarter' \in [Restarters -> Workings]
    /\ restarter'[w].pc = pc /\ restarter'[w].old = old /\ restarter'[w].gen = g /\ restarter'[w].now = again
    /\ \A v \in Restarters \ {w} : restarter'[v] = restarter[v]

LEMMA Becomes ==
    ASSUME restarter \in [Restarters -> Workings], NEW w \in Restarters, NEW pc \in Served \cup Direct
    PROVE  LET r == restarter[w] IN
           /\ To(w, pc) => Became(w, pc, r.old, r.gen, r.now)
           /\ \A old \in SUBSET Nat : restarter' = [restarter EXCEPT ![w].pc = pc, ![w].old = old] => Became(w, pc, old, r.gen, r.now)
           /\ \A g \in Nat : restarter' = [restarter EXCEPT ![w].pc = pc, ![w].gen = g] => Became(w, pc, r.old, g, r.now)
           /\ \A again \in SUBSET Nat : restarter' = [restarter EXCEPT ![w].pc = pc, ![w].now = again] => Became(w, pc, r.old, r.gen, again)
           /\ \A old, again \in SUBSET Nat :
                restarter' = [restarter EXCEPT ![w].pc = pc, ![w].now = again, ![w].old = old] => Became(w, pc, old, r.gen, again)
PROOF
  <1>1. restarter[w] \in Workings
    OBVIOUS
  <1>2. To(w, pc) => Became(w, pc, restarter[w].old, restarter[w].gen, restarter[w].now)
    BY <1>1 DEF Workings, To, Became
  <1>3. ASSUME NEW old \in SUBSET Nat, restarter' = [restarter EXCEPT ![w].pc = pc, ![w].old = old]
        PROVE  Became(w, pc, old, restarter[w].gen, restarter[w].now)
    BY <1>1, <1>3 DEF Workings, Became
  <1>4. ASSUME NEW g \in Nat, restarter' = [restarter EXCEPT ![w].pc = pc, ![w].gen = g]
        PROVE  Became(w, pc, restarter[w].old, g, restarter[w].now)
    BY <1>1, <1>4 DEF Workings, Became
  <1>5. ASSUME NEW again \in SUBSET Nat, restarter' = [restarter EXCEPT ![w].pc = pc, ![w].now = again]
        PROVE  Became(w, pc, restarter[w].old, restarter[w].gen, again)
    BY <1>1, <1>5 DEF Workings, Became
  <1>6. ASSUME NEW old \in SUBSET Nat, NEW again \in SUBSET Nat, restarter' = [restarter EXCEPT ![w].pc = pc, ![w].now = again, ![w].old = old]
        PROVE  Became(w, pc, old, restarter[w].gen, again)
    BY <1>1, <1>6 DEF Workings, Became
  <1> QED
    BY <1>2, <1>3, <1>4, <1>5, <1>6

\* The restart lock is held by the one worker that is not idle, so a step of
\* one worker keeps what the others know.
LEMMA OthersKeep ==
    ASSUME RestartInv, NEW w \in Restarters, restarter[w].pc # "idle" \/ restartLock = {},
           NEW pc, NEW old, NEW g, NEW again, Became(w, pc, old, g, again), NEW v \in Restarters \ {w}
    PROVE  WorkerInv(v)'
PROOF
  <1>1. restarter[v].pc = "idle"
    BY DEF RestartInv, WorkerInv
  <1>2. restarter'[v].pc = "idle"
    BY <1>1 DEF Became
  <1> QED
    BY <1>2 DEF WorkerInv, Served, Direct, Requested

\* A step that only moves the worker, by what is known where it stands and
\* where it goes.
LEMMA WorkerMoves ==
    ASSUME RestartInv, NEW w \in Restarters, restarter[w].pc # "idle" \/ restartLock = {},
           NEW pc \in Served \cup Direct, NEW old, NEW g, NEW again, Became(w, pc, old, g, again), WorkerInv(w)',
           UNCHANGED <<target, request, started, ready, launcher>>, Milder(app'),
           vouched' = vouched \/ \E b \in Nat : vouched' = vouched \cup {[gen |-> restarter[w].gen, born |-> b]} /\ b >= restarter[w].gen
    PROVE  RestartInv'
PROOF
  <1>1. AppInv' /\ app' \in Apps /\ LauncherInv'
    BY MildForAll
  <1>2. \A v \in Restarters : WorkerInv(v)'
    BY OthersKeep
  <1>3. vouched' \subseteq [gen : Nat, born : Nat] /\ FreshInstance'
    BY DEF RestartInv, RestartTypeOK, FreshInstance, Workings
  <1>4. RestartTypeOK'
    BY <1>1, <1>3 DEF RestartInv, RestartTypeOK, Became
  <1> QED
    BY <1>1, <1>2, <1>3, <1>4 DEF RestartInv

LEMMA ScanSees ==
    ASSUME app \in Apps
    PROVE  camera_pids \in SUBSET Nat /\ (\A p \in camera_pids : p = app.pid) /\ (Booted => app.pid \in camera_pids)
PROOF
  BY DEF camera_pids, Booted, Apps

\* What every step of a worker starts from.
LEMMA WorkerFacts ==
    ASSUME RestartInv, NEW w \in Restarters
    PROVE  /\ RestartTypeOK /\ WorkerInv(w) /\ restarter \in [Restarters -> Workings] /\ restarter[w] \in Workings
           /\ restarter[w].old \in SUBSET Nat /\ restarter[w].now \in SUBSET Nat /\ restarter[w].gen \in Nat
           /\ app \in Apps /\ app.pid \in Nat /\ app.gen \in Nat /\ app.born \in Nat /\ request \in Nat /\ started \in Nat /\ app.gen <= request
           /\ Milder(app) /\ Milder(Terminated) /\ Milder(Killed)
PROOF
  <1>1. RestartTypeOK /\ WorkerInv(w) /\ restarter \in [Restarters -> Workings] /\ restarter[w] \in Workings /\ app \in Apps
    BY DEF RestartInv, RestartTypeOK
  <1> QED
    BY <1>1, SignalsAreMild DEF RestartInv, RestartTypeOK, Workings, Apps, AppInv

\* Before the request is published: scanning for what runs.
LEMMA BeforeKeeps ==
    ASSUME RestartInv, NEW w \in Restarters, lock_restart(w) \/ ScanOld(w)
    PROVE  RestartInv'
PROOF
  <1> USE WorkerFacts
  <1> DEFINE r == restarter[w]
  <1>1. UNCHANGED <<target, request, started, ready, launcher, app, vouched>> /\ Milder(app')
    BY DEF lock_restart, ScanOld, webFiles, Milder
  <1>2. CASE lock_restart(w)
    <2> DEFINE pc == IF target = "mt11" THEN "stop all" ELSE "scan"
    <2>1. pc \in Served \cup Direct /\ pc \in (IF target = "mt11" THEN Direct ELSE Served) /\ pc \in {"stop all", "scan"}
      BY DEF Served, Direct
    <2>2. To(w, pc) /\ restartLock = {} /\ restartLock' = {w}
      BY <1>2 DEF lock_restart
    <2> HIDE DEF pc
    <2>3. Became(w, pc, r.old, r.gen, r.now)
      BY <2>1, <2>2, Becomes
    <2>4. WorkerInv(w)'
      BY <1>1, <2>1, <2>2, <2>3 DEF Became, WorkerInv, Requested
    <2> QED
      BY <1>1, <2>1, <2>2, <2>3, <2>4, WorkerMoves
  <1>3. CASE ScanOld(w)
    <2>1. r.pc = "scan" /\ restarter' = [restarter EXCEPT ![w].pc = "publish", ![w].old = camera_pids] /\ restartLock' = restartLock
      BY <1>3 DEF ScanOld, RestarterAt
    <2>2. camera_pids \in SUBSET Nat /\ \A p \in camera_pids : p = app.pid
      BY ScanSees
    <2>3. "publish" \in Served \cup Direct /\ "publish" \in Served
      BY DEF Served, Direct
    <2>4. Became(w, "publish", camera_pids, r.gen, r.now)
      BY <2>1, <2>2, <2>3, Becomes
    <2>5. WorkerInv(w)'
      <3>1. target # "mt11" /\ restartLock = {w}
        BY <2>1 DEF WorkerInv, Direct
      <3>2. \A p \in camera_pids : p <= app.pid
        BY <2>2
      <3>3. restartLock' = {w} /\ target' # "mt11" /\ app' = app
        BY <1>1, <2>1, <3>1
      <3> HIDE DEF r
      <3> QED
        BY ONLY <2>3, <2>4, <3>2, <3>3 DEF Became, WorkerInv, Requested
    <2> QED
      BY <1>1, <2>1, <2>3, <2>4, <2>5, WorkerMoves
  <1> QED
    BY <1>2, <1>3

LEMMA PublishKeeps ==
    ASSUME RestartInv, NEW w \in Restarters, publish_request(w)
    PROVE  RestartInv'
PROOF
  <1> USE WorkerFacts
  <1> DEFINE r == restarter[w]
  <1>1. /\ r.pc = "publish" /\ request' = request + 1 /\ restarter' = [restarter EXCEPT ![w].pc = "check", ![w].gen = request + 1]
        /\ UNCHANGED <<target, started, ready, app, launcher, restartLock, vouched>>
    BY DEF publish_request, RestarterAt
  <1>2. "check" \in Served \cup Direct /\ "check" \in Served /\ request + 1 \in Nat
    BY DEF Served, Requested
  <1>3. Became(w, "check", r.old, request + 1, r.now)
    BY <1>1, <1>2, Becomes
  <1>4. target # "mt11" /\ restartLock = {w} /\ (\A p \in r.old : p <= app.pid)
    BY <1>1 DEF WorkerInv, Direct
  <1>5. app.gen < request + 1
    OBVIOUS
  <1>6. WorkerInv(w)'
    <2>1. restartLock' = {w} /\ target' # "mt11" /\ request' = request + 1 /\ app' = app /\ r.old \in SUBSET Nat
      BY <1>1, <1>4
    <2> HIDE DEF r
    <2> QED
      BY ONLY <1>2, <1>3, <1>4, <1>5, <2>1 DEF Became, WorkerInv
  <1>7. \A v \in Restarters : WorkerInv(v)'
    BY <1>1, <1>3, <1>6, OthersKeep
  <1>8. RestartTypeOK'
    BY <1>1, <1>2, <1>3 DEF RestartTypeOK, Became
  <1>9. AppInv' /\ LauncherInv' /\ FreshInstance'
    <2>1. launcher.gen \in Nat
      BY DEF RestartTypeOK
    <2> QED
      BY <1>1, <2>1 DEF RestartInv, AppInv, LauncherInv, FreshInstance, Booted, Alive
  <1> QED
    BY <1>7, <1>8, <1>9 DEF RestartInv

\* The second scan.  An instance it does not see has yet to read its
\* configuration; and when an instance was recorded as started for this
\* request, it is the only one.
LEMMA CheckKeeps ==
    ASSUME RestartInv, NEW w \in Restarters, Check(w) \/ ScanAgain(w) \/ CheckAgain(w)
    PROVE  RestartInv'
PROOF
  <1> USE WorkerFacts
  <1> DEFINE r == restarter[w]
  <1>1. UNCHANGED <<target, request, started, ready, launcher, app, vouched, restartLock>> /\ Milder(app')
    BY DEF Check, ScanAgain, CheckAgain, webFiles, Milder
  <1>2. r.pc \in {"check", "scan again", "check again"}
    BY DEF Check, ScanAgain, CheckAgain, RestarterAt
  <1>3. /\ target # "mt11" /\ restartLock = {w} /\ r.gen = request /\ (\A p \in r.old : p <= app.pid)
        /\ (app.pid \in r.old => app.gen < r.gen)
    BY <1>2 DEF WorkerInv, Direct, Requested
  <1>4. {"check", "scan again", "check again", "stop"} \subseteq Served /\ {"check", "scan again", "check again", "stop"} \subseteq Served \cup Direct
    BY DEF Served, Requested
  <1>5. ~(started < r.gen) => (Booted => app.born >= r.gen)
    <2> SUFFICES ASSUME ~(started < r.gen), Booted PROVE app.born >= r.gen
      OBVIOUS
    <2>1. app.gen = started /\ app.born >= app.gen
      BY <1>3 DEF RestartInv, LauncherInv, AppInv, Booted, Alive
    <2> QED
      BY <2>1
  <1>6. CASE Check(w)
    <2> DEFINE pc == IF started < r.gen THEN "scan again" ELSE "stop"
    <2>1. To(w, pc) /\ pc \in Served \cup Direct /\ pc \in Served
      BY <1>4, <1>6 DEF Check
    <2>2. (pc = "scan again") \/ (pc = "stop" /\ ~(started < r.gen))
      OBVIOUS
    <2> HIDE DEF pc
    <2>3. Became(w, pc, r.old, r.gen, r.now)
      BY <2>1, Becomes
    <2>4. WorkerInv(w)'
      <3> HIDE DEF r
      <3> QED
        BY <1>1, <1>3, <1>5, <2>1, <2>2, <2>3 DEF Became, WorkerInv, Booted
    <2> QED
      BY <1>1, <1>2, <2>1, <2>3, <2>4, WorkerMoves
  <1>7. CASE ScanAgain(w)
    <2>1. restarter' = [restarter EXCEPT ![w].pc = "check again", ![w].now = camera_pids]
      BY <1>7 DEF ScanAgain
    <2>2. camera_pids \in SUBSET Nat /\ (\A p \in camera_pids : p <= app.pid) /\ (Booted => app.pid \in camera_pids)
      BY ScanSees
    <2>3. Became(w, "check again", r.old, r.gen, camera_pids)
      BY <1>4, <2>1, <2>2, Becomes
    <2>4. WorkerInv(w)'
      <3> DEFINE seen == camera_pids
      <3>1. (\A p \in seen : p <= app.pid) /\ (Booted => app.pid \in seen) /\ Became(w, "check again", r.old, r.gen, seen)
        BY <2>2, <2>3
      <3> HIDE DEF r, seen
      <3> QED
        BY <1>1, <1>3, <1>4, <3>1 DEF Became, WorkerInv, Booted
    <2> QED
      BY <1>1, <1>2, <1>4, <2>3, <2>4, WorkerMoves
  <1>8. CASE CheckAgain(w)
    <2> DEFINE old == IF started < r.gen THEN r.old \cup r.now ELSE r.old
    <2>1. restarter' = [restarter EXCEPT ![w].pc = "stop", ![w].now = {}, ![w].old = old] /\ r.pc = "check again"
      BY <1>8 DEF CheckAgain, RestarterAt
    <2>2. (\A p \in r.now : p <= app.pid) /\ (Booted => app.born >= r.gen \/ app.pid \in r.now)
      BY <2>1 DEF WorkerInv
    <2>3. started < r.gen => app.gen < r.gen
      BY <1>3 DEF RestartInv, LauncherInv
    <2>4. /\ old \in SUBSET Nat /\ (\A p \in old : p <= app.pid) /\ (app.pid \in old => app.gen < r.gen)
          /\ (Booted => app.born >= r.gen \/ app.pid \in old)
      BY <1>3, <1>5, <2>2, <2>3
    <2> HIDE DEF old
    <2>5. Became(w, "stop", old, r.gen, {})
      BY <1>4, <2>1, <2>4, Becomes
    <2>6. WorkerInv(w)'
      <3> HIDE DEF r
      <3> QED
        BY <1>1, <1>3, <1>4, <2>4, <2>5 DEF Became, WorkerInv, Booted
    <2> QED
      BY <1>1, <1>2, <1>4, <2>5, <2>6, WorkerMoves
  <1> QED
    BY <1>6, <1>7, <1>8

\* Stopping the old instances and waiting for a new one.
LEMMA StopPidsKeeps ==
    ASSUME RestartInv, NEW w \in Restarters, stop_pids(w)
    PROVE  RestartInv'
PROOF
  <1> USE WorkerFacts
  <1> DEFINE r == restarter[w]
  <1>1. UNCHANGED <<target, request, started, ready, launcher, vouched, restartLock>>
    BY DEF stop_pids, webFiles
  <1>2. r.pc \in {"stop", "stopping"}
    BY DEF stop_pids, RestarterAt
  <1>3. /\ target # "mt11" /\ restartLock = {w} /\ r.gen = request /\ (\A p \in r.old : p <= app.pid)
        /\ (app.pid \in r.old => app.gen < r.gen) /\ (Booted => app.born >= r.gen \/ app.pid \in r.old)
    BY <1>2 DEF WorkerInv, Direct, Requested
  <1>4. {"stopping", "await"} \subseteq Served /\ {"stopping", "await"} \subseteq Served \cup Direct
    BY DEF Served, Requested
  <1>5. ASSUME NEW pc \in {"stopping", "await"}, To(w, pc), Milder(app') PROVE RestartInv'
    <2>1. Became(w, pc, r.old, r.gen, r.now)
      BY <1>4, <1>5, Becomes
    <2>2. WorkerInv(w)'
      <3>1. app'.pid = app.pid /\ app'.gen = app.gen /\ app'.born = app.born /\ app'.st \in {app.st, "dead"}
        BY <1>5 DEF Milder
      <3>2. pc \in Served /\ restartLock' = {w} /\ target' # "mt11" /\ request' = request /\ pc \in {"stopping", "await"}
        BY <1>1, <1>3, <1>4
      <3> HIDE DEF r
      <3> QED
        BY ONLY <1>3, <2>1, <3>1, <3>2 DEF Became, WorkerInv, Booted
    <2>3. pc \in Served \cup Direct /\ restarter[w].pc # "idle" /\ vouched' = vouched
      BY <1>1, <1>2, <1>4
    <2> QED
      BY <1>1, <1>5, <2>1, <2>2, <2>3, WorkerMoves
  <1>6. CASE RestarterAt(w, "stopping") /\ ~Gone(restarter[w].old) /\ app' = Killed /\ UNCHANGED restarter
    <2>1. AppInv' /\ app' \in Apps /\ LauncherInv' /\ \A v \in Restarters : WorkerInv(v)'
      BY <1>1, <1>6, MildForAll
    <2>2. RestartTypeOK' /\ FreshInstance'
      BY <1>1, <1>6, <2>1 DEF RestartInv, RestartTypeOK, FreshInstance
    <2> QED
      BY <2>1, <2>2 DEF RestartInv
  <1> QED
    BY <1>5, <1>6 DEF stop_pids

\* A worker that has finished.
LEMMA FinishKeeps ==
    ASSUME RestartInv, NEW w \in Restarters, restarter[w].pc # "idle", NEW ok \in BOOLEAN, Finish(w, ok),
           UNCHANGED <<target, request, started, ready, launcher>>, Milder(app'), ok => app.born >= restarter[w].gen
    PROVE  RestartInv'
PROOF
  <1> USE WorkerFacts
  <1>1. "idle" \in Served \cup Direct
    BY DEF Direct
  <1>2. Became(w, "idle", restarter[w].old, restarter[w].gen, restarter[w].now)
    BY <1>1, Becomes DEF Finish
  <1>3. WorkerInv(w)'
    BY <1>2 DEF Became, WorkerInv, Served, Direct, Requested
  <1>4. vouched' = vouched \/ \E b \in Nat : vouched' = vouched \cup {[gen |-> restarter[w].gen, born |-> b]} /\ b >= restarter[w].gen
    BY DEF Finish
  <1> QED
    BY <1>1, <1>2, <1>3, <1>4, WorkerMoves

LEMMA AwaitKeeps ==
    ASSUME RestartInv, NEW w \in Restarters, wait_for_camera(w)
    PROVE  RestartInv'
PROOF
  <1> USE WorkerFacts
  <1>1. UNCHANGED <<target, request, started, ready, launcher, app>> /\ restarter[w].pc = "await" /\ Milder(app')
    BY DEF wait_for_camera, webFiles, RestarterAt, Milder
  <1>2. CASE ready \in camera_pids \ restarter[w].old /\ Finish(w, TRUE)
    <2>1. Booted /\ app.pid \notin restarter[w].old
      BY <1>2 DEF camera_pids, Booted
    <2>2. app.born >= restarter[w].gen
      BY <1>1, <2>1 DEF WorkerInv
    <2> QED
      BY <1>1, <1>2, <2>2, FinishKeeps
  <1>3. CASE Finish(w, FALSE)
    BY <1>1, <1>3, FinishKeeps
  <1> QED
    BY <1>2, <1>3 DEF wait_for_camera

\* The MT11.
LEMMA DirectKeeps ==
    ASSUME RestartInv, NEW w \in Restarters, stop_camera(w) \/ restart_camera_direct(w)
    PROVE  RestartInv'
PROOF
  <1> USE WorkerFacts
  <1>1. UNCHANGED <<target, request, started, ready, launcher>> /\ restarter[w].pc # "idle"
    BY DEF stop_camera, restart_camera_direct, webFiles, RestarterAt
  <1>2. ASSUME Finish(w, FALSE), Milder(app') PROVE RestartInv'
    BY <1>1, <1>2, FinishKeeps
  <1>3. ASSUME NEW pc \in {"stopping all", "start"}, To(w, pc), Milder(app'), UNCHANGED <<restartLock, vouched>>, restarter[w].pc \in {"stop all", "stopping all"}
        PROVE  RestartInv'
    <2>1. pc \in Direct /\ pc \in Served \cup Direct
      BY DEF Direct
    <2>2. Became(w, pc, restarter[w].old, restarter[w].gen, restarter[w].now)
      BY <1>3, <2>1, Becomes
    <2>3. target = "mt11" /\ restartLock = {w}
      BY <1>3 DEF WorkerInv, Served, Requested
    <2>4. WorkerInv(w)'
      <3>1. target' = "mt11" /\ restartLock' = {w} /\ pc \in {"stopping all", "start"}
        BY <1>1, <1>3, <2>3
      <3> QED
        BY ONLY <2>1, <2>2, <3>1 DEF Became, WorkerInv, Requested
    <2> QED
      BY <1>1, <1>3, <2>1, <2>2, <2>4, WorkerMoves
  <1>4. CASE stop_camera(w)
    <2>1. Milder(app')
      BY <1>4 DEF stop_camera, Milder
    <2>2. \/ Finish(w, FALSE)
          \/ \E pc \in {"stopping all", "start"} : To(w, pc) /\ UNCHANGED <<restartLock, vouched>> /\ restarter[w].pc \in {"stop all", "stopping all"}
      BY <1>4 DEF stop_camera, RestarterAt
    <2> QED
      BY <1>2, <1>3, <2>1, <2>2
  <1>5. CASE restart_camera_direct(w)
    <2>1. restarter[w].pc = "await child"
      BY <1>5 DEF restart_camera_direct, RestarterAt
    <2>2. Milder(app')
      BY <1>5 DEF restart_camera_direct, Milder
    <2>3. CASE ready # 0 /\ Finish(w, TRUE)
      <3>1. app.born >= restarter[w].gen
        BY <2>1, <2>3 DEF WorkerInv
      <3> QED
        BY <1>1, <2>2, <2>3, <3>1, FinishKeeps
    <2>4. CASE Finish(w, FALSE)
      BY <1>2, <2>2, <2>4
    <2> QED
      BY <1>5, <2>3, <2>4 DEF restart_camera_direct
  <1> QED
    BY <1>4, <1>5

LEMMA StartKeepsDirect ==
    ASSUME RestartInv, NEW w \in Restarters, start_camera(w)
    PROVE  RestartInv'
PROOF
  <1> USE WorkerFacts
  <1> DEFINE g == request + 1
  <1>1. /\ restarter[w].pc = "start" /\ ready' = 0 /\ request' = g
        /\ restarter' = [restarter EXCEPT ![w].pc = "await child", ![w].gen = g]
        /\ app' = [pid |-> app.pid + 1, gen |-> g, born |-> 0, st |-> "forked", term |-> FALSE]
        /\ UNCHANGED <<target, started, launcher, restartLock, vouched>>
    BY DEF start_camera, RestarterAt, Forked
  <1>2. g \in Nat /\ app.pid + 1 \in Nat
    OBVIOUS
  <1> HIDE DEF g
  <1>3. app' \in Apps /\ app'.gen = g /\ app'.st = "forked" /\ app'.pid = app.pid + 1
    BY <1>1, <1>2 DEF Apps, Phases
  <1>4. "await child" \in Served \cup Direct /\ "await child" \in Direct
    BY DEF Direct
  <1>5. Became(w, "await child", restarter[w].old, g, restarter[w].now)
    BY <1>1, <1>2, <1>4, Becomes
  <1>6. target = "mt11" /\ restartLock = {w}
    BY <1>1 DEF WorkerInv, Served, Requested
  <1>7. WorkerInv(w)'
    <2>1. target' = "mt11" /\ restartLock' = {w} /\ request' = g /\ ready' = 0
      BY <1>1, <1>6
    <2> QED
      BY ONLY <1>3, <1>4, <1>5, <2>1 DEF Became, WorkerInv, Requested
  <1>8. \A v \in Restarters : WorkerInv(v)'
    BY <1>1, <1>5, <1>7, OthersKeep
  <1>9. RestartTypeOK'
    BY <1>1, <1>2, <1>3, <1>5 DEF RestartTypeOK, Became
  <1>10. AppInv' /\ LauncherInv' /\ FreshInstance'
    <2>1. request' = g /\ target' = "mt11" /\ launcher' = launcher /\ vouched' = vouched /\ launcher.pc = "none" /\ FreshInstance
      BY <1>1, <1>6 DEF RestartInv, LauncherInv
    <2>2. AppInv'
      BY ONLY <1>2, <1>3, <2>1 DEF AppInv, Booted
    <2> QED
      BY ONLY <2>1, <2>2 DEF LauncherInv, FreshInstance
  <1> QED
    BY <1>8, <1>9, <1>10 DEF RestartInv

LEMMA RestartNextInv == RestartInv /\ [RestartNext]_restartVars => RestartInv'
PROOF
  <1> SUFFICES ASSUME RestartInv, [RestartNext]_restartVars PROVE RestartInv'
    OBVIOUS
  <1>1. CASE UNCHANGED restartVars
    BY <1>1 DEF restartVars, RestartInv, RestartTypeOK, AppInv, LauncherInv, FreshInstance, WorkerInv, Booted, Alive
  <1>2. ASSUME NEW w \in Restarters, lock_restart(w) \/ RestarterStep(w) PROVE RestartInv'
    BY <1>2, BeforeKeeps, PublishKeeps, CheckKeeps, StopPidsKeeps, AwaitKeeps, DirectKeeps, StartKeepsDirect DEF RestarterStep
  <1> QED
    BY <1>1, <1>2, AppKeeps, LauncherKeeps DEF RestartNext

\* A restart through the launcher or on the MT11 reports only an application that
\* read its configuration after the restart was asked for, and never stops the
\* one started for it, for any number of workers, restarts and failures
\* (restart_camera_locked).
THEOREM RestartsStayHonest == RestartSpec => []RestartHonest
PROOF
  <1>1. RestartInv => RestartHonest
    <2> SUFFICES ASSUME RestartInv PROVE RestartHonest
      OBVIOUS
    <2>1. FreshInstance
      BY DEF RestartInv
    <2>2. ASSUME NEW w \in Restarters, restarter[w].pc \in {"stop", "stopping"}, ~Gone(restarter[w].old)
          PROVE  app.gen < restarter[w].gen
      BY <2>2 DEF RestartInv, WorkerInv, Gone, Requested
    <2> QED
      BY <2>1, <2>2 DEF RestartHonest, Spared
  <1> QED
    BY <1>1, RestartInitInv, RestartNextInv, PTL DEF RestartSpec

-----------------------------------------------------------------------------
\* Sessions, credentials and files of the web server (WebAccess).  First what is
\* left of a program.

Rest(p, n) == SubSeq(p, n, Len(p))

LEMMA RestStep ==
    ASSUME NEW S, NEW p \in Seq(S), NEW n \in 1 .. Len(p)
    PROVE  /\ Rest(p, n) \in Seq(S)
           /\ Rest(p, n) # <<>>
           /\ Len(Rest(p, n)) = Len(p) + 1 - n
           /\ Head(Rest(p, n)) = p[n]
           /\ Tail(Rest(p, n)) = Rest(p, n + 1)
           /\ \A i \in 1 .. Len(p) + 1 - n : Rest(p, n)[i] = p[n + i - 1]
  <1>1. Rest(p, n) \in Seq(S) /\ Len(Rest(p, n)) = Len(p) + 1 - n
        /\ \A i \in 1 .. Len(p) + 1 - n : Rest(p, n)[i] = p[n + i - 1]
    BY DEF Rest
  <1>2. Rest(p, n) # <<>> /\ Head(Rest(p, n)) = p[n]
    BY <1>1
  <1>3. Tail(Rest(p, n)) = Rest(p, n + 1)
    BY <1>1 DEF Rest
  <1> QED
    BY <1>1, <1>2, <1>3

LEMMA RestEnds ==
    ASSUME NEW S, NEW p \in Seq(S)
    PROVE  Rest(p, Len(p) + 1) = <<>> /\ (p # <<>> => Rest(p, 1) = p)
  BY DEF Rest

\* Sequences of the lengths that programs have, put together as these are.

LEMMA NotAmong ==
    ASSUME NEW S, NEW p \in Seq(S), NEW n, Len(p) = n, NEW x, x \notin S
    PROVE  \A i \in 1 .. n : p[i] # x
  OBVIOUS

\* A program is a sequence of steps, none of which is the check of the request.
IsProgram(p, n) == Len(p) = n /\ (\E S : p \in Seq(S)) /\ \A i \in 1 .. n : p[i] # <<"auth">>

Size(req) ==
    CASE req = "password" -> 7
      [] req \in {"add_key", "remove_key"} -> 12
      [] req = "parameters" -> 10
      [] req = "config" -> 9
      [] req = "upgrade" -> 10
      [] req \in {"login", "logout"} -> 6
      [] req \in {"page", "delete", "reboot"} -> 1
KeyRequests == {"add_key", "remove_key"}
ConfigRequests == {"parameters", "config"}
SessionRequests == {"login", "logout"}
WebRequests == {"page", "login", "logout", "password", "add_key", "remove_key", "parameters", "config",
              "upgrade", "delete", "reboot"}

PasswordTable(w, arg, p) ==
    /\ p[1] = <<"lock", "users">>
    /\ p[2] = <<"new_password">>
    /\ p[3] = <<"write", Temp(w)>>
    /\ p[4] = <<"fsync", Temp(w)>>
    /\ p[5] = <<"rename", Temp(w), Password>>
    /\ p[6] = <<"sync_dir", Password>>
    /\ p[7] = <<"unlock", "users">>
LEMMA PasswordProgram ==
    ASSUME NEW w, NEW arg, NEW p, p = Program(w, "password", arg)
    PROVE  IsProgram(p, 7) /\ PasswordTable(w, arg, p)
  <1> DEFINE sa == <<"lock", "users">>
  <1> DEFINE sb == <<"new_password">>
  <1> DEFINE sc == <<"write", Temp(w)>>
  <1> DEFINE sd == <<"fsync", Temp(w)>>
  <1> DEFINE se == <<"rename", Temp(w), Password>>
  <1> DEFINE sf == <<"sync_dir", Password>>
  <1> DEFINE sg == <<"unlock", "users">>
  <1>1. p = <<sa, sb>> \o <<sc, sd, se, sf>> \o <<sg>>
    BY DEF Program, change_admin_password, save_atomic_file
  <1>2. <<"auth">> \notin {sa, sb, sc, sd, se, sf, sg}
    OBVIOUS
  <1> DEFINE au == <<"auth">>
  <1> DEFINE S == {sa, sb, sc, sd, se, sf, sg}
  <1> HIDE DEF au, sa, sb, sc, sd, se, sf, sg
  <1>3. au \notin S
    BY <1>2 DEF au
  <1>4. Len(p) = 7
    BY <1>1
  <1>5. p[1] = sa /\ p[2] = sb /\ p[3] = sc /\ p[4] = sd /\ p[5] = se /\ p[6] = sf /\ p[7] = sg
    BY <1>1
  <1>6. sa \in S /\ sb \in S /\ sc \in S /\ sd \in S /\ se \in S /\ sf \in S /\ sg \in S
    OBVIOUS
  <1> HIDE DEF S
  <1>7. <<sa, sb>> \o <<sc, sd, se, sf>> \o <<sg>> \in Seq(S)
    BY <1>6
  <1>8. p \in Seq(S)
    BY <1>1, <1>7, Zenon
  <1>9. \A i \in 1 .. 7 : p[i] # au
    BY <1>3, <1>4, <1>8, NotAmong
  <1>10. IsProgram(p, 7)
    BY <1>4, <1>8, <1>9 DEF IsProgram, au
  <1> QED
    BY <1>5, <1>10 DEF PasswordTable, sa, sb, sc, sd, se, sf, sg

KeysTable(w, arg, p) ==
    /\ p[1] = <<"lock", "users">>
    /\ p[2] = <<"read", KeyFile>>
    /\ p[3] = <<"edit_keys">>
    /\ p[4] = <<"write", Temp(w)>>
    /\ p[5] = <<"fsync", Temp(w)>>
    /\ p[6] = <<"rename", Temp(w), KeyFile>>
    /\ p[7] = <<"sync_dir", KeyFile>>
    /\ p[8] = <<"write", Temp(w)>>
    /\ p[9] = <<"fsync", Temp(w)>>
    /\ p[10] = <<"rename", Temp(w), Runtime>>
    /\ p[11] = <<"sync_dir", Runtime>>
    /\ p[12] = <<"unlock", "users">>
LEMMA KeysProgram ==
    ASSUME NEW w, NEW req \in KeyRequests, NEW arg, NEW p, p = Program(w, req, arg)
    PROVE  IsProgram(p, 12) /\ KeysTable(w, arg, p)
  <1> DEFINE sa == <<"lock", "users">>
  <1> DEFINE sb == <<"read", KeyFile>>
  <1> DEFINE sc == <<"edit_keys">>
  <1> DEFINE sd == <<"write", Temp(w)>>
  <1> DEFINE se == <<"fsync", Temp(w)>>
  <1> DEFINE sf == <<"rename", Temp(w), KeyFile>>
  <1> DEFINE sg == <<"sync_dir", KeyFile>>
  <1> DEFINE sh == <<"write", Temp(w)>>
  <1> DEFINE si == <<"fsync", Temp(w)>>
  <1> DEFINE sj == <<"rename", Temp(w), Runtime>>
  <1> DEFINE sk == <<"sync_dir", Runtime>>
  <1> DEFINE sl == <<"unlock", "users">>
  <1>1. p = <<sa, sb, sc>> \o <<sd, se, sf, sg>> \o <<sh, si, sj, sk>> \o <<sl>>
    BY DEF Program, install_authorized_keys, save_atomic_file, KeyRequests
  <1>2. <<"auth">> \notin {sa, sb, sc, sd, se, sf, sg, sh, si, sj, sk, sl}
    OBVIOUS
  <1> DEFINE au == <<"auth">>
  <1> DEFINE S == {sa, sb, sc, sd, se, sf, sg, sh, si, sj, sk, sl}
  <1> HIDE DEF au, sa, sb, sc, sd, se, sf, sg, sh, si, sj, sk, sl
  <1>3. au \notin S
    BY <1>2 DEF au
  <1>4. Len(p) = 12
    BY <1>1
  <1>5. p[1] = sa /\ p[2] = sb /\ p[3] = sc /\ p[4] = sd /\ p[5] = se /\ p[6] = sf /\ p[7] = sg /\ p[8] = sh /\ p[9] = si /\ p[10] = sj /\ p[11] = sk /\ p[12] = sl
    BY <1>1
  <1>6. sa \in S /\ sb \in S /\ sc \in S /\ sd \in S /\ se \in S /\ sf \in S /\ sg \in S /\ sh \in S /\ si \in S /\ sj \in S /\ sk \in S /\ sl \in S
    OBVIOUS
  <1> HIDE DEF S
  <1>7. <<sa, sb, sc>> \o <<sd, se, sf, sg>> \o <<sh, si, sj, sk>> \o <<sl>> \in Seq(S)
    BY <1>6
  <1>8. p \in Seq(S)
    BY <1>1, <1>7, Zenon
  <1>9. \A i \in 1 .. 12 : p[i] # au
    BY <1>3, <1>4, <1>8, NotAmong
  <1>10. IsProgram(p, 12)
    BY <1>4, <1>8, <1>9 DEF IsProgram, au
  <1> QED
    BY <1>5, <1>10 DEF KeysTable, sa, sb, sc, sd, se, sf, sg, sh, si, sj, sk, sl

ParametersTable(w, arg, p) ==
    /\ p[1] = <<"read", Config>>
    /\ p[2] = <<"edit_config">>
    /\ p[3] = <<"copy", Config, Temp(w)>>
    /\ p[4] = <<"fsync", Temp(w)>>
    /\ p[5] = <<"rename", Temp(w), Backup>>
    /\ p[6] = <<"mine">>
    /\ p[7] = <<"write", Temp(w)>>
    /\ p[8] = <<"fsync", Temp(w)>>
    /\ p[9] = <<"rename", Temp(w), Config>>
    /\ p[10] = <<"sync_dir", Config>>
LEMMA ParametersProgram ==
    ASSUME NEW w, NEW arg, NEW p, p = Program(w, "parameters", arg)
    PROVE  IsProgram(p, 10) /\ ParametersTable(w, arg, p)
  <1> DEFINE sa == <<"read", Config>>
  <1> DEFINE sb == <<"edit_config">>
  <1> DEFINE sc == <<"copy", Config, Temp(w)>>
  <1> DEFINE sd == <<"fsync", Temp(w)>>
  <1> DEFINE se == <<"rename", Temp(w), Backup>>
  <1> DEFINE sf == <<"mine">>
  <1> DEFINE sg == <<"write", Temp(w)>>
  <1> DEFINE sh == <<"fsync", Temp(w)>>
  <1> DEFINE si == <<"rename", Temp(w), Config>>
  <1> DEFINE sj == <<"sync_dir", Config>>
  <1>1. p = <<sa, sb>> \o (<<sc, sd, se, sf>> \o <<sg, sh, si, sj>>)
    BY DEF Program, save_config, save_atomic_file
  <1>2. <<"auth">> \notin {sa, sb, sc, sd, se, sf, sg, sh, si, sj}
    OBVIOUS
  <1> DEFINE au == <<"auth">>
  <1> DEFINE S == {sa, sb, sc, sd, se, sf, sg, sh, si, sj}
  <1> HIDE DEF au, sa, sb, sc, sd, se, sf, sg, sh, si, sj
  <1>3. au \notin S
    BY <1>2 DEF au
  <1>4. Len(p) = 10
    BY <1>1
  <1>5. p[1] = sa /\ p[2] = sb /\ p[3] = sc /\ p[4] = sd /\ p[5] = se /\ p[6] = sf /\ p[7] = sg /\ p[8] = sh /\ p[9] = si /\ p[10] = sj
    BY <1>1
  <1>6. sa \in S /\ sb \in S /\ sc \in S /\ sd \in S /\ se \in S /\ sf \in S /\ sg \in S /\ sh \in S /\ si \in S /\ sj \in S
    OBVIOUS
  <1> HIDE DEF S
  <1>7. <<sa, sb>> \o (<<sc, sd, se, sf>> \o <<sg, sh, si, sj>>) \in Seq(S)
    BY <1>6
  <1>8. p \in Seq(S)
    BY <1>1, <1>7, Zenon
  <1>9. \A i \in 1 .. 10 : p[i] # au
    BY <1>3, <1>4, <1>8, NotAmong
  <1>10. IsProgram(p, 10)
    BY <1>4, <1>8, <1>9 DEF IsProgram, au
  <1> QED
    BY <1>5, <1>10 DEF ParametersTable, sa, sb, sc, sd, se, sf, sg, sh, si, sj

ConfigTable(w, arg, p) ==
    /\ p[1] = <<"new_config">>
    /\ p[2] = <<"copy", Config, Temp(w)>>
    /\ p[3] = <<"fsync", Temp(w)>>
    /\ p[4] = <<"rename", Temp(w), Backup>>
    /\ p[5] = <<"mine">>
    /\ p[6] = <<"write", Temp(w)>>
    /\ p[7] = <<"fsync", Temp(w)>>
    /\ p[8] = <<"rename", Temp(w), Config>>
    /\ p[9] = <<"sync_dir", Config>>
LEMMA ConfigProgram ==
    ASSUME NEW w, NEW arg, NEW p, p = Program(w, "config", arg)
    PROVE  IsProgram(p, 9) /\ ConfigTable(w, arg, p)
  <1> DEFINE sa == <<"new_config">>
  <1> DEFINE sb == <<"copy", Config, Temp(w)>>
  <1> DEFINE sc == <<"fsync", Temp(w)>>
  <1> DEFINE sd == <<"rename", Temp(w), Backup>>
  <1> DEFINE se == <<"mine">>
  <1> DEFINE sf == <<"write", Temp(w)>>
  <1> DEFINE sg == <<"fsync", Temp(w)>>
  <1> DEFINE sh == <<"rename", Temp(w), Config>>
  <1> DEFINE si == <<"sync_dir", Config>>
  <1>1. p = <<sa>> \o (<<sb, sc, sd, se>> \o <<sf, sg, sh, si>>)
    BY DEF Program, save_config, save_atomic_file
  <1>2. <<"auth">> \notin {sa, sb, sc, sd, se, sf, sg, sh, si}
    OBVIOUS
  <1> DEFINE au == <<"auth">>
  <1> DEFINE S == {sa, sb, sc, sd, se, sf, sg, sh, si}
  <1> HIDE DEF au, sa, sb, sc, sd, se, sf, sg, sh, si
  <1>3. au \notin S
    BY <1>2 DEF au
  <1>4. Len(p) = 9
    BY <1>1
  <1>5. p[1] = sa /\ p[2] = sb /\ p[3] = sc /\ p[4] = sd /\ p[5] = se /\ p[6] = sf /\ p[7] = sg /\ p[8] = sh /\ p[9] = si
    BY <1>1
  <1>6. sa \in S /\ sb \in S /\ sc \in S /\ sd \in S /\ se \in S /\ sf \in S /\ sg \in S /\ sh \in S /\ si \in S
    OBVIOUS
  <1> HIDE DEF S
  <1>7. <<sa>> \o (<<sb, sc, sd, se>> \o <<sf, sg, sh, si>>) \in Seq(S)
    BY <1>6
  <1>8. p \in Seq(S)
    BY <1>1, <1>7, Zenon
  <1>9. \A i \in 1 .. 9 : p[i] # au
    BY <1>3, <1>4, <1>8, NotAmong
  <1>10. IsProgram(p, 9)
    BY <1>4, <1>8, <1>9 DEF IsProgram, au
  <1> QED
    BY <1>5, <1>10 DEF ConfigTable, sa, sb, sc, sd, se, sf, sg, sh, si

UpgradeTable(w, arg, p) ==
    /\ p[1] = <<"lock", "upgrade">>
    /\ p[2] = <<"check_image", arg>>
    /\ p[3] = <<"create", ImageTemp(arg)>>
    /\ p[4] = <<"write", ImageTemp(arg)>>
    /\ p[5] = <<"fsync", ImageTemp(arg)>>
    /\ p[6] = <<"sync">>
    /\ p[7] = <<"publish", arg>>
    /\ p[8] = <<"sync_dir", Image(arg)>>
    /\ p[9] = <<"sync">>
    /\ p[10] = <<"unlock", "upgrade">>
LEMMA UpgradeProgram ==
    ASSUME NEW w, NEW arg, NEW p, p = Program(w, "upgrade", arg)
    PROVE  IsProgram(p, 10) /\ UpgradeTable(w, arg, p)
  <1> DEFINE sa == <<"lock", "upgrade">>
  <1> DEFINE sb == <<"check_image", arg>>
  <1> DEFINE sc == <<"create", ImageTemp(arg)>>
  <1> DEFINE sd == <<"write", ImageTemp(arg)>>
  <1> DEFINE se == <<"fsync", ImageTemp(arg)>>
  <1> DEFINE sf == <<"sync">>
  <1> DEFINE sg == <<"publish", arg>>
  <1> DEFINE sh == <<"sync_dir", Image(arg)>>
  <1> DEFINE si == <<"sync">>
  <1> DEFINE sj == <<"unlock", "upgrade">>
  <1>1. p = <<sa, sb, sc, sd, se, sf, sg, sh, si, sj>>
    BY DEF Program, handle_firmware_upload
  <1>2. <<"auth">> \notin {sa, sb, sc, sd, se, sf, sg, sh, si, sj}
    OBVIOUS
  <1> DEFINE au == <<"auth">>
  <1> DEFINE S == {sa, sb, sc, sd, se, sf, sg, sh, si, sj}
  <1> HIDE DEF au, sa, sb, sc, sd, se, sf, sg, sh, si, sj
  <1>3. au \notin S
    BY <1>2 DEF au
  <1>4. Len(p) = 10
    BY <1>1
  <1>5. p[1] = sa /\ p[2] = sb /\ p[3] = sc /\ p[4] = sd /\ p[5] = se /\ p[6] = sf /\ p[7] = sg /\ p[8] = sh /\ p[9] = si /\ p[10] = sj
    BY <1>1
  <1>6. sa \in S /\ sb \in S /\ sc \in S /\ sd \in S /\ se \in S /\ sf \in S /\ sg \in S /\ sh \in S /\ si \in S /\ sj \in S
    OBVIOUS
  <1> HIDE DEF S
  <1>7. <<sa, sb, sc, sd, se, sf, sg, sh, si, sj>> \in Seq(S)
    BY <1>6
  <1>8. p \in Seq(S)
    BY <1>1, <1>7, Zenon
  <1>9. \A i \in 1 .. 10 : p[i] # au
    BY <1>3, <1>4, <1>8, NotAmong
  <1>10. IsProgram(p, 10)
    BY <1>4, <1>8, <1>9 DEF IsProgram, au
  <1> QED
    BY <1>5, <1>10 DEF UpgradeTable, sa, sb, sc, sd, se, sf, sg, sh, si, sj

LoginTable(w, arg, p) ==
    /\ p[1] = <<"lock", "sessions">>
    /\ p[2] = <<"load", "sessions">>
    /\ p[3] = <<"add">>
    /\ p[4] = <<"truncate">>
    /\ p[5] = <<"store">>
    /\ p[6] = <<"unlock", "sessions">>
LEMMA LoginProgram ==
    ASSUME NEW w, NEW arg, NEW p, p = Program(w, "login", arg)
    PROVE  IsProgram(p, 6) /\ LoginTable(w, arg, p)
  <1> DEFINE sa == <<"lock", "sessions">>
  <1> DEFINE sb == <<"load", "sessions">>
  <1> DEFINE sc == <<"add">>
  <1> DEFINE sd == <<"truncate">>
  <1> DEFINE se == <<"store">>
  <1> DEFINE sf == <<"unlock", "sessions">>
  <1>1. p = <<sa, sb, sc, sd, se, sf>>
    BY DEF Program, handle_login, create_session
  <1>2. <<"auth">> \notin {sa, sb, sc, sd, se, sf}
    OBVIOUS
  <1> DEFINE au == <<"auth">>
  <1> DEFINE S == {sa, sb, sc, sd, se, sf}
  <1> HIDE DEF au, sa, sb, sc, sd, se, sf
  <1>3. au \notin S
    BY <1>2 DEF au
  <1>4. Len(p) = 6
    BY <1>1
  <1>5. p[1] = sa /\ p[2] = sb /\ p[3] = sc /\ p[4] = sd /\ p[5] = se /\ p[6] = sf
    BY <1>1
  <1>6. sa \in S /\ sb \in S /\ sc \in S /\ sd \in S /\ se \in S /\ sf \in S
    OBVIOUS
  <1> HIDE DEF S
  <1>7. <<sa, sb, sc, sd, se, sf>> \in Seq(S)
    BY <1>6
  <1>8. p \in Seq(S)
    BY <1>1, <1>7, Zenon
  <1>9. \A i \in 1 .. 6 : p[i] # au
    BY <1>3, <1>4, <1>8, NotAmong
  <1>10. IsProgram(p, 6)
    BY <1>4, <1>8, <1>9 DEF IsProgram, au
  <1> QED
    BY <1>5, <1>10 DEF LoginTable, sa, sb, sc, sd, se, sf

LogoutTable(w, arg, p) ==
    /\ p[1] = <<"lock", "sessions">>
    /\ p[2] = <<"load", "sessions">>
    /\ p[3] = <<"drop">>
    /\ p[4] = <<"truncate">>
    /\ p[5] = <<"store">>
    /\ p[6] = <<"unlock", "sessions">>
LEMMA LogoutProgram ==
    ASSUME NEW w, NEW arg, NEW p, p = Program(w, "logout", arg)
    PROVE  IsProgram(p, 6) /\ LogoutTable(w, arg, p)
  <1> DEFINE sa == <<"lock", "sessions">>
  <1> DEFINE sb == <<"load", "sessions">>
  <1> DEFINE sc == <<"drop">>
  <1> DEFINE sd == <<"truncate">>
  <1> DEFINE se == <<"store">>
  <1> DEFINE sf == <<"unlock", "sessions">>
  <1>1. p = <<sa, sb, sc, sd, se, sf>>
    BY DEF Program, destroy_session
  <1>2. <<"auth">> \notin {sa, sb, sc, sd, se, sf}
    OBVIOUS
  <1> DEFINE au == <<"auth">>
  <1> DEFINE S == {sa, sb, sc, sd, se, sf}
  <1> HIDE DEF au, sa, sb, sc, sd, se, sf
  <1>3. au \notin S
    BY <1>2 DEF au
  <1>4. Len(p) = 6
    BY <1>1
  <1>5. p[1] = sa /\ p[2] = sb /\ p[3] = sc /\ p[4] = sd /\ p[5] = se /\ p[6] = sf
    BY <1>1
  <1>6. sa \in S /\ sb \in S /\ sc \in S /\ sd \in S /\ se \in S /\ sf \in S
    OBVIOUS
  <1> HIDE DEF S
  <1>7. <<sa, sb, sc, sd, se, sf>> \in Seq(S)
    BY <1>6
  <1>8. p \in Seq(S)
    BY <1>1, <1>7, Zenon
  <1>9. \A i \in 1 .. 6 : p[i] # au
    BY <1>3, <1>4, <1>8, NotAmong
  <1>10. IsProgram(p, 6)
    BY <1>4, <1>8, <1>9 DEF IsProgram, au
  <1> QED
    BY <1>5, <1>10 DEF LogoutTable, sa, sb, sc, sd, se, sf

PageTable(w, arg, p) ==
    /\ p[1] = <<"serve">>
LEMMA PageProgram ==
    ASSUME NEW w, NEW arg, NEW p, p = Program(w, "page", arg)
    PROVE  IsProgram(p, 1) /\ PageTable(w, arg, p)
  <1> DEFINE sa == <<"serve">>
  <1>1. p = <<sa>>
    BY DEF Program
  <1>2. <<"auth">> \notin {sa}
    OBVIOUS
  <1> DEFINE au == <<"auth">>
  <1> DEFINE S == {sa}
  <1> HIDE DEF au, sa
  <1>3. au \notin S
    BY <1>2 DEF au
  <1>4. Len(p) = 1
    BY <1>1
  <1>5. p[1] = sa
    BY <1>1
  <1>6. sa \in S
    OBVIOUS
  <1> HIDE DEF S
  <1>7. <<sa>> \in Seq(S)
    BY <1>6
  <1>8. p \in Seq(S)
    BY <1>1, <1>7, Zenon
  <1>9. \A i \in 1 .. 1 : p[i] # au
    BY <1>3, <1>4, <1>8, NotAmong
  <1>10. IsProgram(p, 1)
    BY <1>4, <1>8, <1>9 DEF IsProgram, au
  <1> QED
    BY <1>5, <1>10 DEF PageTable, sa

DeleteTable(w, arg, p) ==
    /\ p[1] = <<"delete", arg>>
LEMMA DeleteProgram ==
    ASSUME NEW w, NEW arg, NEW p, p = Program(w, "delete", arg)
    PROVE  IsProgram(p, 1) /\ DeleteTable(w, arg, p)
  <1> DEFINE sa == <<"delete", arg>>
  <1>1. p = <<sa>>
    BY DEF Program
  <1>2. <<"auth">> \notin {sa}
    OBVIOUS
  <1> DEFINE au == <<"auth">>
  <1> DEFINE S == {sa}
  <1> HIDE DEF au, sa
  <1>3. au \notin S
    BY <1>2 DEF au
  <1>4. Len(p) = 1
    BY <1>1
  <1>5. p[1] = sa
    BY <1>1
  <1>6. sa \in S
    OBVIOUS
  <1> HIDE DEF S
  <1>7. <<sa>> \in Seq(S)
    BY <1>6
  <1>8. p \in Seq(S)
    BY <1>1, <1>7, Zenon
  <1>9. \A i \in 1 .. 1 : p[i] # au
    BY <1>3, <1>4, <1>8, NotAmong
  <1>10. IsProgram(p, 1)
    BY <1>4, <1>8, <1>9 DEF IsProgram, au
  <1> QED
    BY <1>5, <1>10 DEF DeleteTable, sa

RebootTable(w, arg, p) ==
    /\ p[1] = <<"reboot">>
LEMMA RebootProgram ==
    ASSUME NEW w, NEW arg, NEW p, p = Program(w, "reboot", arg)
    PROVE  IsProgram(p, 1) /\ RebootTable(w, arg, p)
  <1> DEFINE sa == <<"reboot">>
  <1>1. p = <<sa>>
    BY DEF Program
  <1>2. <<"auth">> \notin {sa}
    OBVIOUS
  <1> DEFINE au == <<"auth">>
  <1> DEFINE S == {sa}
  <1> HIDE DEF au, sa
  <1>3. au \notin S
    BY <1>2 DEF au
  <1>4. Len(p) = 1
    BY <1>1
  <1>5. p[1] = sa
    BY <1>1
  <1>6. sa \in S
    OBVIOUS
  <1> HIDE DEF S
  <1>7. <<sa>> \in Seq(S)
    BY <1>6
  <1>8. p \in Seq(S)
    BY <1>1, <1>7, Zenon
  <1>9. \A i \in 1 .. 1 : p[i] # au
    BY <1>3, <1>4, <1>8, NotAmong
  <1>10. IsProgram(p, 1)
    BY <1>4, <1>8, <1>9 DEF IsProgram, au
  <1> QED
    BY <1>5, <1>10 DEF RebootTable, sa

-----------------------------------------------------------------------------
(* Where a worker is *)

Auth == <<<<"auth">>>>
Rec(r, a, t, c, l) == [req |-> r, arg |-> a, todo |-> t, copy |-> c, list |-> l]

\* How many steps of its program are left: none, or -1 before the request is checked.
LeftOf(q) == IF q.todo = Auth THEN -1 ELSE Len(q.todo)
Running(w, q) ==
    /\ q.req \in WebRequests /\ LeftOf(q) \in 1 .. Size(q.req)
    /\ q.todo = Rest(Program(w, q.req, q.arg), Size(q.req) + 1 - LeftOf(q))
OnProgram(w, q) ==
    /\ q = Rec(q.req, q.arg, q.todo, q.copy, q.list)
    /\ \/ q.todo = <<>>
       \/ q.todo = Auth /\ q.req \in WebRequests
       \/ Running(w, q)

LEMMA RecFields ==
    \A r, a, t, c, l : /\ Rec(r, a, t, c, l).req = r /\ Rec(r, a, t, c, l).arg = a /\ Rec(r, a, t, c, l).todo = t
                       /\ Rec(r, a, t, c, l).copy = c /\ Rec(r, a, t, c, l).list = l
  BY DEF Rec

LEMMA AuthFacts == /\ Auth # <<>> /\ Len(Auth) = 1 /\ Auth[1] = <<"auth">> /\ Head(Auth) = <<"auth">>
                   /\ Tail(Auth) = <<>>
  BY DEF Auth

LEMMA EveryProgram ==
    ASSUME NEW w, NEW req \in WebRequests, NEW arg
    PROVE  IsProgram(Program(w, req, arg), Size(req)) /\ Size(req) \in 1 .. 12
  <1>1. CASE req = "password"
    <2>1. Size(req) = 7
      BY <1>1 DEF Size, KeyRequests
    <2>2. IsProgram(Program(w, req, arg), 7)
      BY <1>1, PasswordProgram
    <2> QED
      BY <2>1, <2>2
  <1>2. CASE req \in KeyRequests
    <2>1. Size(req) = 12
      BY <1>2 DEF Size, KeyRequests
    <2>2. IsProgram(Program(w, req, arg), 12)
      BY <1>2, KeysProgram
    <2> QED
      BY <2>1, <2>2
  <1>3. CASE req = "parameters"
    <2>1. Size(req) = 10
      BY <1>3 DEF Size, KeyRequests
    <2>2. IsProgram(Program(w, req, arg), 10)
      BY <1>3, ParametersProgram
    <2> QED
      BY <2>1, <2>2
  <1>4. CASE req = "config"
    <2>1. Size(req) = 9
      BY <1>4 DEF Size, KeyRequests
    <2>2. IsProgram(Program(w, req, arg), 9)
      BY <1>4, ConfigProgram
    <2> QED
      BY <2>1, <2>2
  <1>5. CASE req = "upgrade"
    <2>1. Size(req) = 10
      BY <1>5 DEF Size, KeyRequests
    <2>2. IsProgram(Program(w, req, arg), 10)
      BY <1>5, UpgradeProgram
    <2> QED
      BY <2>1, <2>2
  <1>6. CASE req = "login"
    <2>1. Size(req) = 6
      BY <1>6 DEF Size, KeyRequests
    <2>2. IsProgram(Program(w, req, arg), 6)
      BY <1>6, LoginProgram
    <2> QED
      BY <2>1, <2>2
  <1>7. CASE req = "logout"
    <2>1. Size(req) = 6
      BY <1>7 DEF Size, KeyRequests
    <2>2. IsProgram(Program(w, req, arg), 6)
      BY <1>7, LogoutProgram
    <2> QED
      BY <2>1, <2>2
  <1>8. CASE req = "page"
    <2>1. Size(req) = 1
      BY <1>8 DEF Size, KeyRequests
    <2>2. IsProgram(Program(w, req, arg), 1)
      BY <1>8, PageProgram
    <2> QED
      BY <2>1, <2>2
  <1>9. CASE req = "delete"
    <2>1. Size(req) = 1
      BY <1>9 DEF Size, KeyRequests
    <2>2. IsProgram(Program(w, req, arg), 1)
      BY <1>9, DeleteProgram
    <2> QED
      BY <2>1, <2>2
  <1>10. CASE req = "reboot"
    <2>1. Size(req) = 1
      BY <1>10 DEF Size, KeyRequests
    <2>2. IsProgram(Program(w, req, arg), 1)
      BY <1>10, RebootProgram
    <2> QED
      BY <2>1, <2>2
  <1> QED
    BY <1>1, <1>2, <1>3, <1>4, <1>5, <1>6, <1>7, <1>8, <1>9, <1>10 DEF WebRequests, KeyRequests

RestFacts(p, n, i) ==
    /\ Rest(p, i) # <<>> /\ Rest(p, i) # Auth /\ Len(Rest(p, i)) = n + 1 - i
    /\ Head(Rest(p, i)) = p[i] /\ Tail(Rest(p, i)) = Rest(p, i + 1)
    /\ Last(Rest(p, i)) = p[n] /\ <<p[n]>> = Rest(p, n)
    /\ Rest(p, n + 1) = <<>> /\ Rest(p, 1) = p
LEMMA RestOf ==
    ASSUME NEW p, NEW n \in Nat, IsProgram(p, n), NEW i \in 1 .. n
    PROVE  RestFacts(p, n, i)
  <1>1. PICK S : p \in Seq(S)
    BY DEF IsProgram
  <1>2. Len(p) = n /\ p # <<>>
    BY <1>1 DEF IsProgram
  <1>3. /\ Rest(p, i) \in Seq(S)
        /\ Rest(p, i) # <<>>
        /\ Len(Rest(p, i)) = n + 1 - i
        /\ Head(Rest(p, i)) = p[i]
        /\ Tail(Rest(p, i)) = Rest(p, i + 1)
        /\ \A j \in 1 .. n + 1 - i : Rest(p, i)[j] = p[i + j - 1]
    BY <1>1, <1>2, RestStep
  <1>4. Rest(p, n + 1) = <<>> /\ Rest(p, 1) = p
    BY <1>1, <1>2, RestEnds
  <1>5. Rest(p, i) # Auth
    BY <1>3, AuthFacts DEF IsProgram
  <1>6. Last(Rest(p, i)) = p[n]
    BY <1>3 DEF Last
  <1>7. <<p[n]>> = Rest(p, n)
    BY <1>1, <1>2 DEF Rest
  <1> QED
    BY <1>3, <1>4, <1>5, <1>6, <1>7 DEF RestFacts

StepAt(w, q) == Head(q.todo) = Program(w, q.req, q.arg)[Size(q.req) + 1 - LeftOf(q)]
StepFacts(w, q) ==
           /\ q.todo # <<>> /\ q.todo # Auth
           /\ \A c, l : LET s == Rec(q.req, q.arg, Tail(q.todo), c, l)
                        IN  OnProgram(w, s) /\ LeftOf(s) = LeftOf(q) - 1
           /\ \A c, l : LET s == Rec(q.req, q.arg, <<Last(q.todo)>>, c, l)
                        IN  OnProgram(w, s) /\ LeftOf(s) = 1
LEMMA NextStep ==
    ASSUME NEW w, NEW q, Running(w, q)
    PROVE  StepAt(w, q) /\ StepFacts(w, q)
  <1> DEFINE p == Program(w, q.req, q.arg)  n == Size(q.req)  i == Size(q.req) + 1 - LeftOf(q)
  <1>1. IsProgram(p, n) /\ n \in 1 .. 12 /\ q.req \in WebRequests
    BY EveryProgram DEF Running
  <1>2. i \in 1 .. n /\ LeftOf(q) = n + 1 - i /\ n + 1 - (LeftOf(q) - 1) = i + 1 /\ LeftOf(q) \in 1 .. n
    BY <1>1 DEF Running
  <1>3. q.todo = Rest(p, i)
    BY DEF Running
  <1> HIDE DEF p, n, i
  <1>4. /\ Rest(p, i) # <<>> /\ Rest(p, i) # Auth /\ Len(Rest(p, i)) = n + 1 - i
        /\ Head(Rest(p, i)) = p[i] /\ Tail(Rest(p, i)) = Rest(p, i + 1)
        /\ Last(Rest(p, i)) = p[n] /\ <<p[n]>> = Rest(p, n)
        /\ Rest(p, n + 1) = <<>> /\ Rest(p, 1) = p
    <2>1. n \in Nat
      BY <1>1
    <2> QED
      BY <1>1, <1>2, <2>1, RestOf DEF RestFacts
  <1>5. ASSUME NEW c, NEW l
        PROVE  LET s == Rec(q.req, q.arg, Tail(q.todo), c, l)
               IN  OnProgram(w, s) /\ LeftOf(s) = LeftOf(q) - 1
    <2> DEFINE s == Rec(q.req, q.arg, Tail(q.todo), c, l)
    <2>1. s.req = q.req /\ s.arg = q.arg /\ s.todo = Tail(q.todo) /\ s.copy = c /\ s.list = l
      BY RecFields
    <2>2. s = Rec(s.req, s.arg, s.todo, s.copy, s.list)
      BY <2>1
    <2> HIDE DEF s
    <2>3. CASE i = n
      <3>1. s.todo = <<>>
        BY <1>3, <1>4, <2>1, <2>3
      <3>2. LeftOf(s) = 0 /\ LeftOf(q) = 1
        BY <3>1, <1>1, <1>2, <2>3, AuthFacts DEF LeftOf
      <3> QED
        BY <3>1, <3>2, <2>2 DEF OnProgram, s
    <2>4. CASE i # n
      <3>1. i + 1 \in 1 .. n
        BY <1>1, <1>2, <2>4
      <3>2. s.todo = Rest(p, i + 1) /\ Rest(p, i + 1) # Auth /\ Len(Rest(p, i + 1)) = n + 1 - (i + 1)
        <4>1. n \in Nat
          BY <1>1
        <4>2. RestFacts(p, n, i + 1)
          BY <1>1, <3>1, <4>1, RestOf
        <4> QED
          BY <1>3, <1>4, <2>1, <4>2 DEF RestFacts
      <3>3. LeftOf(s) = LeftOf(q) - 1 /\ LeftOf(s) \in 1 .. n /\ n + 1 - LeftOf(s) = i + 1
        <4>1. \A k, m \in Nat : k \in 1 .. m => m + 1 - (k + 1) = (m + 1 - k) - 1 /\ m + 1 - (m + 1 - (k + 1)) = k + 1
          OBVIOUS
        <4>2. LeftOf(s) = n + 1 - (i + 1)
          BY <3>2 DEF LeftOf
        <4>3. n \in Nat /\ i \in 1 .. n /\ i \in Nat
          BY <1>1, <1>2
        <4>4. LeftOf(q) = n + 1 - i
          BY <1>2
        <4> QED
          BY <4>1, <4>2, <4>3, <4>4, <3>1
      <3>4. Running(w, s)
        BY <3>2, <3>3, <2>1, <1>1 DEF Running, p, n
      <3> QED
        BY <3>3, <3>4, <2>2 DEF OnProgram, s
    <2> QED
      BY <2>3, <2>4
  <1>6. ASSUME NEW c, NEW l
        PROVE  LET s == Rec(q.req, q.arg, <<Last(q.todo)>>, c, l)
               IN  OnProgram(w, s) /\ LeftOf(s) = 1
    <2> DEFINE s == Rec(q.req, q.arg, <<Last(q.todo)>>, c, l)
    <2>1. s.req = q.req /\ s.arg = q.arg /\ s.todo = <<Last(q.todo)>> /\ s.copy = c /\ s.list = l
      BY RecFields
    <2>2. s = Rec(s.req, s.arg, s.todo, s.copy, s.list)
      BY <2>1
    <2> HIDE DEF s
    <2>3. n \in 1 .. n
      BY <1>1
    <2>4. s.todo = Rest(p, n) /\ Rest(p, n) # Auth /\ Len(Rest(p, n)) = n + 1 - n
      <3>1. n \in Nat
        BY <1>1
      <3>2. RestFacts(p, n, n)
        BY <1>1, <2>3, <3>1, RestOf
      <3> QED
        BY <1>3, <1>4, <2>1, <3>2 DEF RestFacts
    <2>5. LeftOf(s) = 1 /\ LeftOf(s) \in 1 .. n /\ n + 1 - LeftOf(s) = n
      BY <2>4, <1>1 DEF LeftOf
    <2>6. Running(w, s)
      BY <2>4, <2>5, <2>1, <1>1 DEF Running, p, n
    <2> QED
      BY <2>2, <2>5, <2>6 DEF OnProgram, s
  <1>7. q.todo # <<>> /\ q.todo # Auth
    BY <1>3, <1>4
  <1>8. Head(q.todo) = Program(w, q.req, q.arg)[Size(q.req) + 1 - LeftOf(q)]
    BY <1>3, <1>4 DEF p, n, i
  <1> QED
    BY <1>5, <1>6, <1>7, <1>8 DEF StepFacts, StepAt

PasswordStep(q, w) ==
    /\ LeftOf(q) \in 1 .. 7
    /\ LeftOf(q) = 7 => Head(q.todo) = <<"lock", "users">>
    /\ LeftOf(q) = 6 => Head(q.todo) = <<"new_password">>
    /\ LeftOf(q) = 5 => Head(q.todo) = <<"write", Temp(w)>>
    /\ LeftOf(q) = 4 => Head(q.todo) = <<"fsync", Temp(w)>>
    /\ LeftOf(q) = 3 => Head(q.todo) = <<"rename", Temp(w), Password>>
    /\ LeftOf(q) = 2 => Head(q.todo) = <<"sync_dir", Password>>
    /\ LeftOf(q) = 1 => Head(q.todo) = <<"unlock", "users">>
LEMMA PasswordSteps ==
    ASSUME NEW w, NEW q, Running(w, q), q.req = "password"
    PROVE  PasswordStep(q, w)
  <1>1. Size(q.req) = 7
    BY DEF Size, KeyRequests
  <1>2. LeftOf(q) \in 1 .. 7
    BY <1>1 DEF Running
  <1> DEFINE p == Program(w, q.req, q.arg)
  <1>3. PasswordTable(w, q.arg, p)
    BY PasswordProgram
  <1>4. StepAt(w, q)
    BY NextStep
  <1>5. Head(q.todo) = p[8 - LeftOf(q)]
    BY <1>1, <1>2, <1>4 DEF StepAt
  <1> HIDE DEF p
  <1>6. LeftOf(q) = 7 => Head(q.todo) = <<"lock", "users">>
    <2>1. LeftOf(q) = 7 => Head(q.todo) = p[1]
      BY <1>5
    <2> QED
      BY <1>3, <2>1, Zenon DEF PasswordTable
  <1>7. LeftOf(q) = 6 => Head(q.todo) = <<"new_password">>
    <2>1. LeftOf(q) = 6 => Head(q.todo) = p[2]
      BY <1>5
    <2> QED
      BY <1>3, <2>1, Zenon DEF PasswordTable
  <1>8. LeftOf(q) = 5 => Head(q.todo) = <<"write", Temp(w)>>
    <2>1. LeftOf(q) = 5 => Head(q.todo) = p[3]
      BY <1>5
    <2> QED
      BY <1>3, <2>1, Zenon DEF PasswordTable
  <1>9. LeftOf(q) = 4 => Head(q.todo) = <<"fsync", Temp(w)>>
    <2>1. LeftOf(q) = 4 => Head(q.todo) = p[4]
      BY <1>5
    <2> QED
      BY <1>3, <2>1, Zenon DEF PasswordTable
  <1>10. LeftOf(q) = 3 => Head(q.todo) = <<"rename", Temp(w), Password>>
    <2>1. LeftOf(q) = 3 => Head(q.todo) = p[5]
      BY <1>5
    <2> QED
      BY <1>3, <2>1, Zenon DEF PasswordTable
  <1>11. LeftOf(q) = 2 => Head(q.todo) = <<"sync_dir", Password>>
    <2>1. LeftOf(q) = 2 => Head(q.todo) = p[6]
      BY <1>5
    <2> QED
      BY <1>3, <2>1, Zenon DEF PasswordTable
  <1>12. LeftOf(q) = 1 => Head(q.todo) = <<"unlock", "users">>
    <2>1. LeftOf(q) = 1 => Head(q.todo) = p[7]
      BY <1>5
    <2> QED
      BY <1>3, <2>1, Zenon DEF PasswordTable
  <1> QED
    BY <1>2, <1>6, <1>7, <1>8, <1>9, <1>10, <1>11, <1>12, Zenon DEF PasswordStep

KeysStep(q, w) ==
    /\ LeftOf(q) \in 1 .. 12
    /\ LeftOf(q) = 12 => Head(q.todo) = <<"lock", "users">>
    /\ LeftOf(q) = 11 => Head(q.todo) = <<"read", KeyFile>>
    /\ LeftOf(q) = 10 => Head(q.todo) = <<"edit_keys">>
    /\ LeftOf(q) = 9 => Head(q.todo) = <<"write", Temp(w)>>
    /\ LeftOf(q) = 8 => Head(q.todo) = <<"fsync", Temp(w)>>
    /\ LeftOf(q) = 7 => Head(q.todo) = <<"rename", Temp(w), KeyFile>>
    /\ LeftOf(q) = 6 => Head(q.todo) = <<"sync_dir", KeyFile>>
    /\ LeftOf(q) = 5 => Head(q.todo) = <<"write", Temp(w)>>
    /\ LeftOf(q) = 4 => Head(q.todo) = <<"fsync", Temp(w)>>
    /\ LeftOf(q) = 3 => Head(q.todo) = <<"rename", Temp(w), Runtime>>
    /\ LeftOf(q) = 2 => Head(q.todo) = <<"sync_dir", Runtime>>
    /\ LeftOf(q) = 1 => Head(q.todo) = <<"unlock", "users">>
LEMMA KeysSteps ==
    ASSUME NEW w, NEW q, Running(w, q), q.req \in KeyRequests
    PROVE  KeysStep(q, w)
  <1>1. Size(q.req) = 12
    BY DEF Size, KeyRequests
  <1>2. LeftOf(q) \in 1 .. 12
    BY <1>1 DEF Running
  <1> DEFINE p == Program(w, q.req, q.arg)
  <1>3. KeysTable(w, q.arg, p)
    BY KeysProgram
  <1>4. StepAt(w, q)
    BY NextStep
  <1>5. Head(q.todo) = p[13 - LeftOf(q)]
    BY <1>1, <1>2, <1>4 DEF StepAt
  <1> HIDE DEF p
  <1>6. LeftOf(q) = 12 => Head(q.todo) = <<"lock", "users">>
    <2>1. LeftOf(q) = 12 => Head(q.todo) = p[1]
      BY <1>5
    <2> QED
      BY <1>3, <2>1, Zenon DEF KeysTable
  <1>7. LeftOf(q) = 11 => Head(q.todo) = <<"read", KeyFile>>
    <2>1. LeftOf(q) = 11 => Head(q.todo) = p[2]
      BY <1>5
    <2> QED
      BY <1>3, <2>1, Zenon DEF KeysTable
  <1>8. LeftOf(q) = 10 => Head(q.todo) = <<"edit_keys">>
    <2>1. LeftOf(q) = 10 => Head(q.todo) = p[3]
      BY <1>5
    <2> QED
      BY <1>3, <2>1, Zenon DEF KeysTable
  <1>9. LeftOf(q) = 9 => Head(q.todo) = <<"write", Temp(w)>>
    <2>1. LeftOf(q) = 9 => Head(q.todo) = p[4]
      BY <1>5
    <2> QED
      BY <1>3, <2>1, Zenon DEF KeysTable
  <1>10. LeftOf(q) = 8 => Head(q.todo) = <<"fsync", Temp(w)>>
    <2>1. LeftOf(q) = 8 => Head(q.todo) = p[5]
      BY <1>5
    <2> QED
      BY <1>3, <2>1, Zenon DEF KeysTable
  <1>11. LeftOf(q) = 7 => Head(q.todo) = <<"rename", Temp(w), KeyFile>>
    <2>1. LeftOf(q) = 7 => Head(q.todo) = p[6]
      BY <1>5
    <2> QED
      BY <1>3, <2>1, Zenon DEF KeysTable
  <1>12. LeftOf(q) = 6 => Head(q.todo) = <<"sync_dir", KeyFile>>
    <2>1. LeftOf(q) = 6 => Head(q.todo) = p[7]
      BY <1>5
    <2> QED
      BY <1>3, <2>1, Zenon DEF KeysTable
  <1>13. LeftOf(q) = 5 => Head(q.todo) = <<"write", Temp(w)>>
    <2>1. LeftOf(q) = 5 => Head(q.todo) = p[8]
      BY <1>5
    <2> QED
      BY <1>3, <2>1, Zenon DEF KeysTable
  <1>14. LeftOf(q) = 4 => Head(q.todo) = <<"fsync", Temp(w)>>
    <2>1. LeftOf(q) = 4 => Head(q.todo) = p[9]
      BY <1>5
    <2> QED
      BY <1>3, <2>1, Zenon DEF KeysTable
  <1>15. LeftOf(q) = 3 => Head(q.todo) = <<"rename", Temp(w), Runtime>>
    <2>1. LeftOf(q) = 3 => Head(q.todo) = p[10]
      BY <1>5
    <2> QED
      BY <1>3, <2>1, Zenon DEF KeysTable
  <1>16. LeftOf(q) = 2 => Head(q.todo) = <<"sync_dir", Runtime>>
    <2>1. LeftOf(q) = 2 => Head(q.todo) = p[11]
      BY <1>5
    <2> QED
      BY <1>3, <2>1, Zenon DEF KeysTable
  <1>17. LeftOf(q) = 1 => Head(q.todo) = <<"unlock", "users">>
    <2>1. LeftOf(q) = 1 => Head(q.todo) = p[12]
      BY <1>5
    <2> QED
      BY <1>3, <2>1, Zenon DEF KeysTable
  <1> QED
    BY <1>2, <1>6, <1>7, <1>8, <1>9, <1>10, <1>11, <1>12, <1>13, <1>14, <1>15, <1>16, <1>17, Zenon DEF KeysStep

ParametersStep(q, w) ==
    /\ LeftOf(q) \in 1 .. 10
    /\ LeftOf(q) = 10 => Head(q.todo) = <<"read", Config>>
    /\ LeftOf(q) = 9 => Head(q.todo) = <<"edit_config">>
    /\ LeftOf(q) = 8 => Head(q.todo) = <<"copy", Config, Temp(w)>>
    /\ LeftOf(q) = 7 => Head(q.todo) = <<"fsync", Temp(w)>>
    /\ LeftOf(q) = 6 => Head(q.todo) = <<"rename", Temp(w), Backup>>
    /\ LeftOf(q) = 5 => Head(q.todo) = <<"mine">>
    /\ LeftOf(q) = 4 => Head(q.todo) = <<"write", Temp(w)>>
    /\ LeftOf(q) = 3 => Head(q.todo) = <<"fsync", Temp(w)>>
    /\ LeftOf(q) = 2 => Head(q.todo) = <<"rename", Temp(w), Config>>
    /\ LeftOf(q) = 1 => Head(q.todo) = <<"sync_dir", Config>>
LEMMA ParametersSteps ==
    ASSUME NEW w, NEW q, Running(w, q), q.req = "parameters"
    PROVE  ParametersStep(q, w)
  <1>1. Size(q.req) = 10
    BY DEF Size, KeyRequests
  <1>2. LeftOf(q) \in 1 .. 10
    BY <1>1 DEF Running
  <1> DEFINE p == Program(w, q.req, q.arg)
  <1>3. ParametersTable(w, q.arg, p)
    BY ParametersProgram
  <1>4. StepAt(w, q)
    BY NextStep
  <1>5. Head(q.todo) = p[11 - LeftOf(q)]
    BY <1>1, <1>2, <1>4 DEF StepAt
  <1> HIDE DEF p
  <1>6. LeftOf(q) = 10 => Head(q.todo) = <<"read", Config>>
    <2>1. LeftOf(q) = 10 => Head(q.todo) = p[1]
      BY <1>5
    <2> QED
      BY <1>3, <2>1, Zenon DEF ParametersTable
  <1>7. LeftOf(q) = 9 => Head(q.todo) = <<"edit_config">>
    <2>1. LeftOf(q) = 9 => Head(q.todo) = p[2]
      BY <1>5
    <2> QED
      BY <1>3, <2>1, Zenon DEF ParametersTable
  <1>8. LeftOf(q) = 8 => Head(q.todo) = <<"copy", Config, Temp(w)>>
    <2>1. LeftOf(q) = 8 => Head(q.todo) = p[3]
      BY <1>5
    <2> QED
      BY <1>3, <2>1, Zenon DEF ParametersTable
  <1>9. LeftOf(q) = 7 => Head(q.todo) = <<"fsync", Temp(w)>>
    <2>1. LeftOf(q) = 7 => Head(q.todo) = p[4]
      BY <1>5
    <2> QED
      BY <1>3, <2>1, Zenon DEF ParametersTable
  <1>10. LeftOf(q) = 6 => Head(q.todo) = <<"rename", Temp(w), Backup>>
    <2>1. LeftOf(q) = 6 => Head(q.todo) = p[5]
      BY <1>5
    <2> QED
      BY <1>3, <2>1, Zenon DEF ParametersTable
  <1>11. LeftOf(q) = 5 => Head(q.todo) = <<"mine">>
    <2>1. LeftOf(q) = 5 => Head(q.todo) = p[6]
      BY <1>5
    <2> QED
      BY <1>3, <2>1, Zenon DEF ParametersTable
  <1>12. LeftOf(q) = 4 => Head(q.todo) = <<"write", Temp(w)>>
    <2>1. LeftOf(q) = 4 => Head(q.todo) = p[7]
      BY <1>5
    <2> QED
      BY <1>3, <2>1, Zenon DEF ParametersTable
  <1>13. LeftOf(q) = 3 => Head(q.todo) = <<"fsync", Temp(w)>>
    <2>1. LeftOf(q) = 3 => Head(q.todo) = p[8]
      BY <1>5
    <2> QED
      BY <1>3, <2>1, Zenon DEF ParametersTable
  <1>14. LeftOf(q) = 2 => Head(q.todo) = <<"rename", Temp(w), Config>>
    <2>1. LeftOf(q) = 2 => Head(q.todo) = p[9]
      BY <1>5
    <2> QED
      BY <1>3, <2>1, Zenon DEF ParametersTable
  <1>15. LeftOf(q) = 1 => Head(q.todo) = <<"sync_dir", Config>>
    <2>1. LeftOf(q) = 1 => Head(q.todo) = p[10]
      BY <1>5
    <2> QED
      BY <1>3, <2>1, Zenon DEF ParametersTable
  <1> QED
    BY <1>2, <1>6, <1>7, <1>8, <1>9, <1>10, <1>11, <1>12, <1>13, <1>14, <1>15, Zenon DEF ParametersStep

ConfigStep(q, w) ==
    /\ LeftOf(q) \in 1 .. 9
    /\ LeftOf(q) = 9 => Head(q.todo) = <<"new_config">>
    /\ LeftOf(q) = 8 => Head(q.todo) = <<"copy", Config, Temp(w)>>
    /\ LeftOf(q) = 7 => Head(q.todo) = <<"fsync", Temp(w)>>
    /\ LeftOf(q) = 6 => Head(q.todo) = <<"rename", Temp(w), Backup>>
    /\ LeftOf(q) = 5 => Head(q.todo) = <<"mine">>
    /\ LeftOf(q) = 4 => Head(q.todo) = <<"write", Temp(w)>>
    /\ LeftOf(q) = 3 => Head(q.todo) = <<"fsync", Temp(w)>>
    /\ LeftOf(q) = 2 => Head(q.todo) = <<"rename", Temp(w), Config>>
    /\ LeftOf(q) = 1 => Head(q.todo) = <<"sync_dir", Config>>
LEMMA ConfigSteps ==
    ASSUME NEW w, NEW q, Running(w, q), q.req = "config"
    PROVE  ConfigStep(q, w)
  <1>1. Size(q.req) = 9
    BY DEF Size, KeyRequests
  <1>2. LeftOf(q) \in 1 .. 9
    BY <1>1 DEF Running
  <1> DEFINE p == Program(w, q.req, q.arg)
  <1>3. ConfigTable(w, q.arg, p)
    BY ConfigProgram
  <1>4. StepAt(w, q)
    BY NextStep
  <1>5. Head(q.todo) = p[10 - LeftOf(q)]
    BY <1>1, <1>2, <1>4 DEF StepAt
  <1> HIDE DEF p
  <1>6. LeftOf(q) = 9 => Head(q.todo) = <<"new_config">>
    <2>1. LeftOf(q) = 9 => Head(q.todo) = p[1]
      BY <1>5
    <2> QED
      BY <1>3, <2>1, Zenon DEF ConfigTable
  <1>7. LeftOf(q) = 8 => Head(q.todo) = <<"copy", Config, Temp(w)>>
    <2>1. LeftOf(q) = 8 => Head(q.todo) = p[2]
      BY <1>5
    <2> QED
      BY <1>3, <2>1, Zenon DEF ConfigTable
  <1>8. LeftOf(q) = 7 => Head(q.todo) = <<"fsync", Temp(w)>>
    <2>1. LeftOf(q) = 7 => Head(q.todo) = p[3]
      BY <1>5
    <2> QED
      BY <1>3, <2>1, Zenon DEF ConfigTable
  <1>9. LeftOf(q) = 6 => Head(q.todo) = <<"rename", Temp(w), Backup>>
    <2>1. LeftOf(q) = 6 => Head(q.todo) = p[4]
      BY <1>5
    <2> QED
      BY <1>3, <2>1, Zenon DEF ConfigTable
  <1>10. LeftOf(q) = 5 => Head(q.todo) = <<"mine">>
    <2>1. LeftOf(q) = 5 => Head(q.todo) = p[5]
      BY <1>5
    <2> QED
      BY <1>3, <2>1, Zenon DEF ConfigTable
  <1>11. LeftOf(q) = 4 => Head(q.todo) = <<"write", Temp(w)>>
    <2>1. LeftOf(q) = 4 => Head(q.todo) = p[6]
      BY <1>5
    <2> QED
      BY <1>3, <2>1, Zenon DEF ConfigTable
  <1>12. LeftOf(q) = 3 => Head(q.todo) = <<"fsync", Temp(w)>>
    <2>1. LeftOf(q) = 3 => Head(q.todo) = p[7]
      BY <1>5
    <2> QED
      BY <1>3, <2>1, Zenon DEF ConfigTable
  <1>13. LeftOf(q) = 2 => Head(q.todo) = <<"rename", Temp(w), Config>>
    <2>1. LeftOf(q) = 2 => Head(q.todo) = p[8]
      BY <1>5
    <2> QED
      BY <1>3, <2>1, Zenon DEF ConfigTable
  <1>14. LeftOf(q) = 1 => Head(q.todo) = <<"sync_dir", Config>>
    <2>1. LeftOf(q) = 1 => Head(q.todo) = p[9]
      BY <1>5
    <2> QED
      BY <1>3, <2>1, Zenon DEF ConfigTable
  <1> QED
    BY <1>2, <1>6, <1>7, <1>8, <1>9, <1>10, <1>11, <1>12, <1>13, <1>14, Zenon DEF ConfigStep

UpgradeStep(q, w) ==
    /\ LeftOf(q) \in 1 .. 10
    /\ LeftOf(q) = 10 => Head(q.todo) = <<"lock", "upgrade">>
    /\ LeftOf(q) = 9 => Head(q.todo) = <<"check_image", q.arg>>
    /\ LeftOf(q) = 8 => Head(q.todo) = <<"create", ImageTemp(q.arg)>>
    /\ LeftOf(q) = 7 => Head(q.todo) = <<"write", ImageTemp(q.arg)>>
    /\ LeftOf(q) = 6 => Head(q.todo) = <<"fsync", ImageTemp(q.arg)>>
    /\ LeftOf(q) = 5 => Head(q.todo) = <<"sync">>
    /\ LeftOf(q) = 4 => Head(q.todo) = <<"publish", q.arg>>
    /\ LeftOf(q) = 3 => Head(q.todo) = <<"sync_dir", Image(q.arg)>>
    /\ LeftOf(q) = 2 => Head(q.todo) = <<"sync">>
    /\ LeftOf(q) = 1 => Head(q.todo) = <<"unlock", "upgrade">>
LEMMA UpgradeSteps ==
    ASSUME NEW w, NEW q, Running(w, q), q.req = "upgrade"
    PROVE  UpgradeStep(q, w)
  <1>1. Size(q.req) = 10
    BY DEF Size, KeyRequests
  <1>2. LeftOf(q) \in 1 .. 10
    BY <1>1 DEF Running
  <1> DEFINE p == Program(w, q.req, q.arg)
  <1>3. UpgradeTable(w, q.arg, p)
    BY UpgradeProgram
  <1>4. StepAt(w, q)
    BY NextStep
  <1>5. Head(q.todo) = p[11 - LeftOf(q)]
    BY <1>1, <1>2, <1>4 DEF StepAt
  <1> HIDE DEF p
  <1>6. LeftOf(q) = 10 => Head(q.todo) = <<"lock", "upgrade">>
    <2>1. LeftOf(q) = 10 => Head(q.todo) = p[1]
      BY <1>5
    <2> QED
      BY <1>3, <2>1, Zenon DEF UpgradeTable
  <1>7. LeftOf(q) = 9 => Head(q.todo) = <<"check_image", q.arg>>
    <2>1. LeftOf(q) = 9 => Head(q.todo) = p[2]
      BY <1>5
    <2> QED
      BY <1>3, <2>1, Zenon DEF UpgradeTable
  <1>8. LeftOf(q) = 8 => Head(q.todo) = <<"create", ImageTemp(q.arg)>>
    <2>1. LeftOf(q) = 8 => Head(q.todo) = p[3]
      BY <1>5
    <2> QED
      BY <1>3, <2>1, Zenon DEF UpgradeTable
  <1>9. LeftOf(q) = 7 => Head(q.todo) = <<"write", ImageTemp(q.arg)>>
    <2>1. LeftOf(q) = 7 => Head(q.todo) = p[4]
      BY <1>5
    <2> QED
      BY <1>3, <2>1, Zenon DEF UpgradeTable
  <1>10. LeftOf(q) = 6 => Head(q.todo) = <<"fsync", ImageTemp(q.arg)>>
    <2>1. LeftOf(q) = 6 => Head(q.todo) = p[5]
      BY <1>5
    <2> QED
      BY <1>3, <2>1, Zenon DEF UpgradeTable
  <1>11. LeftOf(q) = 5 => Head(q.todo) = <<"sync">>
    <2>1. LeftOf(q) = 5 => Head(q.todo) = p[6]
      BY <1>5
    <2> QED
      BY <1>3, <2>1, Zenon DEF UpgradeTable
  <1>12. LeftOf(q) = 4 => Head(q.todo) = <<"publish", q.arg>>
    <2>1. LeftOf(q) = 4 => Head(q.todo) = p[7]
      BY <1>5
    <2> QED
      BY <1>3, <2>1, Zenon DEF UpgradeTable
  <1>13. LeftOf(q) = 3 => Head(q.todo) = <<"sync_dir", Image(q.arg)>>
    <2>1. LeftOf(q) = 3 => Head(q.todo) = p[8]
      BY <1>5
    <2> QED
      BY <1>3, <2>1, Zenon DEF UpgradeTable
  <1>14. LeftOf(q) = 2 => Head(q.todo) = <<"sync">>
    <2>1. LeftOf(q) = 2 => Head(q.todo) = p[9]
      BY <1>5
    <2> QED
      BY <1>3, <2>1, Zenon DEF UpgradeTable
  <1>15. LeftOf(q) = 1 => Head(q.todo) = <<"unlock", "upgrade">>
    <2>1. LeftOf(q) = 1 => Head(q.todo) = p[10]
      BY <1>5
    <2> QED
      BY <1>3, <2>1, Zenon DEF UpgradeTable
  <1> QED
    BY <1>2, <1>6, <1>7, <1>8, <1>9, <1>10, <1>11, <1>12, <1>13, <1>14, <1>15, Zenon DEF UpgradeStep

LoginStep(q, w) ==
    /\ LeftOf(q) \in 1 .. 6
    /\ LeftOf(q) = 6 => Head(q.todo) = <<"lock", "sessions">>
    /\ LeftOf(q) = 5 => Head(q.todo) = <<"load", "sessions">>
    /\ LeftOf(q) = 4 => Head(q.todo) = <<"add">>
    /\ LeftOf(q) = 3 => Head(q.todo) = <<"truncate">>
    /\ LeftOf(q) = 2 => Head(q.todo) = <<"store">>
    /\ LeftOf(q) = 1 => Head(q.todo) = <<"unlock", "sessions">>
LEMMA LoginSteps ==
    ASSUME NEW w, NEW q, Running(w, q), q.req = "login"
    PROVE  LoginStep(q, w)
  <1>1. Size(q.req) = 6
    BY DEF Size, KeyRequests
  <1>2. LeftOf(q) \in 1 .. 6
    BY <1>1 DEF Running
  <1> DEFINE p == Program(w, q.req, q.arg)
  <1>3. LoginTable(w, q.arg, p)
    BY LoginProgram
  <1>4. StepAt(w, q)
    BY NextStep
  <1>5. Head(q.todo) = p[7 - LeftOf(q)]
    BY <1>1, <1>2, <1>4 DEF StepAt
  <1> HIDE DEF p
  <1>6. LeftOf(q) = 6 => Head(q.todo) = <<"lock", "sessions">>
    <2>1. LeftOf(q) = 6 => Head(q.todo) = p[1]
      BY <1>5
    <2> QED
      BY <1>3, <2>1, Zenon DEF LoginTable
  <1>7. LeftOf(q) = 5 => Head(q.todo) = <<"load", "sessions">>
    <2>1. LeftOf(q) = 5 => Head(q.todo) = p[2]
      BY <1>5
    <2> QED
      BY <1>3, <2>1, Zenon DEF LoginTable
  <1>8. LeftOf(q) = 4 => Head(q.todo) = <<"add">>
    <2>1. LeftOf(q) = 4 => Head(q.todo) = p[3]
      BY <1>5
    <2> QED
      BY <1>3, <2>1, Zenon DEF LoginTable
  <1>9. LeftOf(q) = 3 => Head(q.todo) = <<"truncate">>
    <2>1. LeftOf(q) = 3 => Head(q.todo) = p[4]
      BY <1>5
    <2> QED
      BY <1>3, <2>1, Zenon DEF LoginTable
  <1>10. LeftOf(q) = 2 => Head(q.todo) = <<"store">>
    <2>1. LeftOf(q) = 2 => Head(q.todo) = p[5]
      BY <1>5
    <2> QED
      BY <1>3, <2>1, Zenon DEF LoginTable
  <1>11. LeftOf(q) = 1 => Head(q.todo) = <<"unlock", "sessions">>
    <2>1. LeftOf(q) = 1 => Head(q.todo) = p[6]
      BY <1>5
    <2> QED
      BY <1>3, <2>1, Zenon DEF LoginTable
  <1> QED
    BY <1>2, <1>6, <1>7, <1>8, <1>9, <1>10, <1>11, Zenon DEF LoginStep

LogoutStep(q, w) ==
    /\ LeftOf(q) \in 1 .. 6
    /\ LeftOf(q) = 6 => Head(q.todo) = <<"lock", "sessions">>
    /\ LeftOf(q) = 5 => Head(q.todo) = <<"load", "sessions">>
    /\ LeftOf(q) = 4 => Head(q.todo) = <<"drop">>
    /\ LeftOf(q) = 3 => Head(q.todo) = <<"truncate">>
    /\ LeftOf(q) = 2 => Head(q.todo) = <<"store">>
    /\ LeftOf(q) = 1 => Head(q.todo) = <<"unlock", "sessions">>
LEMMA LogoutSteps ==
    ASSUME NEW w, NEW q, Running(w, q), q.req = "logout"
    PROVE  LogoutStep(q, w)
  <1>1. Size(q.req) = 6
    BY DEF Size, KeyRequests
  <1>2. LeftOf(q) \in 1 .. 6
    BY <1>1 DEF Running
  <1> DEFINE p == Program(w, q.req, q.arg)
  <1>3. LogoutTable(w, q.arg, p)
    BY LogoutProgram
  <1>4. StepAt(w, q)
    BY NextStep
  <1>5. Head(q.todo) = p[7 - LeftOf(q)]
    BY <1>1, <1>2, <1>4 DEF StepAt
  <1> HIDE DEF p
  <1>6. LeftOf(q) = 6 => Head(q.todo) = <<"lock", "sessions">>
    <2>1. LeftOf(q) = 6 => Head(q.todo) = p[1]
      BY <1>5
    <2> QED
      BY <1>3, <2>1, Zenon DEF LogoutTable
  <1>7. LeftOf(q) = 5 => Head(q.todo) = <<"load", "sessions">>
    <2>1. LeftOf(q) = 5 => Head(q.todo) = p[2]
      BY <1>5
    <2> QED
      BY <1>3, <2>1, Zenon DEF LogoutTable
  <1>8. LeftOf(q) = 4 => Head(q.todo) = <<"drop">>
    <2>1. LeftOf(q) = 4 => Head(q.todo) = p[3]
      BY <1>5
    <2> QED
      BY <1>3, <2>1, Zenon DEF LogoutTable
  <1>9. LeftOf(q) = 3 => Head(q.todo) = <<"truncate">>
    <2>1. LeftOf(q) = 3 => Head(q.todo) = p[4]
      BY <1>5
    <2> QED
      BY <1>3, <2>1, Zenon DEF LogoutTable
  <1>10. LeftOf(q) = 2 => Head(q.todo) = <<"store">>
    <2>1. LeftOf(q) = 2 => Head(q.todo) = p[5]
      BY <1>5
    <2> QED
      BY <1>3, <2>1, Zenon DEF LogoutTable
  <1>11. LeftOf(q) = 1 => Head(q.todo) = <<"unlock", "sessions">>
    <2>1. LeftOf(q) = 1 => Head(q.todo) = p[6]
      BY <1>5
    <2> QED
      BY <1>3, <2>1, Zenon DEF LogoutTable
  <1> QED
    BY <1>2, <1>6, <1>7, <1>8, <1>9, <1>10, <1>11, Zenon DEF LogoutStep

PageStep(q, w) ==
    /\ LeftOf(q) \in 1 .. 1
    /\ LeftOf(q) = 1 => Head(q.todo) = <<"serve">>
LEMMA PageSteps ==
    ASSUME NEW w, NEW q, Running(w, q), q.req = "page"
    PROVE  PageStep(q, w)
  <1>1. Size(q.req) = 1
    BY DEF Size, KeyRequests
  <1>2. LeftOf(q) \in 1 .. 1
    BY <1>1 DEF Running
  <1> DEFINE p == Program(w, q.req, q.arg)
  <1>3. PageTable(w, q.arg, p)
    BY PageProgram
  <1>4. StepAt(w, q)
    BY NextStep
  <1>5. Head(q.todo) = p[2 - LeftOf(q)]
    BY <1>1, <1>2, <1>4 DEF StepAt
  <1> HIDE DEF p
  <1>6. LeftOf(q) = 1 => Head(q.todo) = <<"serve">>
    <2>1. LeftOf(q) = 1 => Head(q.todo) = p[1]
      BY <1>5
    <2> QED
      BY <1>3, <2>1, Zenon DEF PageTable
  <1> QED
    BY <1>2, <1>6, Zenon DEF PageStep

DeleteStep(q, w) ==
    /\ LeftOf(q) \in 1 .. 1
    /\ LeftOf(q) = 1 => Head(q.todo) = <<"delete", q.arg>>
LEMMA DeleteSteps ==
    ASSUME NEW w, NEW q, Running(w, q), q.req = "delete"
    PROVE  DeleteStep(q, w)
  <1>1. Size(q.req) = 1
    BY DEF Size, KeyRequests
  <1>2. LeftOf(q) \in 1 .. 1
    BY <1>1 DEF Running
  <1> DEFINE p == Program(w, q.req, q.arg)
  <1>3. DeleteTable(w, q.arg, p)
    BY DeleteProgram
  <1>4. StepAt(w, q)
    BY NextStep
  <1>5. Head(q.todo) = p[2 - LeftOf(q)]
    BY <1>1, <1>2, <1>4 DEF StepAt
  <1> HIDE DEF p
  <1>6. LeftOf(q) = 1 => Head(q.todo) = <<"delete", q.arg>>
    <2>1. LeftOf(q) = 1 => Head(q.todo) = p[1]
      BY <1>5
    <2> QED
      BY <1>3, <2>1, Zenon DEF DeleteTable
  <1> QED
    BY <1>2, <1>6, Zenon DEF DeleteStep

RebootStep(q, w) ==
    /\ LeftOf(q) \in 1 .. 1
    /\ LeftOf(q) = 1 => Head(q.todo) = <<"reboot">>
LEMMA RebootSteps ==
    ASSUME NEW w, NEW q, Running(w, q), q.req = "reboot"
    PROVE  RebootStep(q, w)
  <1>1. Size(q.req) = 1
    BY DEF Size, KeyRequests
  <1>2. LeftOf(q) \in 1 .. 1
    BY <1>1 DEF Running
  <1> DEFINE p == Program(w, q.req, q.arg)
  <1>3. RebootTable(w, q.arg, p)
    BY RebootProgram
  <1>4. StepAt(w, q)
    BY NextStep
  <1>5. Head(q.todo) = p[2 - LeftOf(q)]
    BY <1>1, <1>2, <1>4 DEF StepAt
  <1> HIDE DEF p
  <1>6. LeftOf(q) = 1 => Head(q.todo) = <<"reboot">>
    <2>1. LeftOf(q) = 1 => Head(q.todo) = p[1]
      BY <1>5
    <2> QED
      BY <1>3, <2>1, Zenon DEF RebootTable
  <1> QED
    BY <1>2, <1>6, Zenon DEF RebootStep

\* The call at which a worker is.
Op(q) == Head(q.todo)[1]
AtOp(q, op) == q.todo # <<>> /\ Op(q) = op

LEMMA OpOf ==
    /\ \A q, op : Head(q.todo) = <<op>> => Op(q) = op
    /\ \A q, op, x : Head(q.todo) = <<op, x>> => Op(q) = op
    /\ \A q, op, x, y : Head(q.todo) = <<op, x, y>> => Op(q) = op
  BY DEF Op

PasswordOps(q) ==
    /\ LeftOf(q) \in 1 .. 7
    /\ LeftOf(q) = 7 => Op(q) = "lock"
    /\ LeftOf(q) = 6 => Op(q) = "new_password"
    /\ LeftOf(q) = 5 => Op(q) = "write"
    /\ LeftOf(q) = 4 => Op(q) = "fsync"
    /\ LeftOf(q) = 3 => Op(q) = "rename"
    /\ LeftOf(q) = 2 => Op(q) = "sync_dir"
    /\ LeftOf(q) = 1 => Op(q) = "unlock"
LEMMA PasswordOpsAre ==
    ASSUME NEW w, NEW q, Running(w, q), q.req = "password"
    PROVE  PasswordOps(q)
  <1>1. PasswordStep(q, w)
    BY PasswordSteps
  <1> QED
    BY <1>1, OpOf, Zenon DEF PasswordStep, PasswordOps

KeysOps(q) ==
    /\ LeftOf(q) \in 1 .. 12
    /\ LeftOf(q) = 12 => Op(q) = "lock"
    /\ LeftOf(q) = 11 => Op(q) = "read"
    /\ LeftOf(q) = 10 => Op(q) = "edit_keys"
    /\ LeftOf(q) = 9 => Op(q) = "write"
    /\ LeftOf(q) = 8 => Op(q) = "fsync"
    /\ LeftOf(q) = 7 => Op(q) = "rename"
    /\ LeftOf(q) = 6 => Op(q) = "sync_dir"
    /\ LeftOf(q) = 5 => Op(q) = "write"
    /\ LeftOf(q) = 4 => Op(q) = "fsync"
    /\ LeftOf(q) = 3 => Op(q) = "rename"
    /\ LeftOf(q) = 2 => Op(q) = "sync_dir"
    /\ LeftOf(q) = 1 => Op(q) = "unlock"
LEMMA KeysOpsAre ==
    ASSUME NEW w, NEW q, Running(w, q), q.req \in KeyRequests
    PROVE  KeysOps(q)
  <1>1. KeysStep(q, w)
    BY KeysSteps
  <1> QED
    BY <1>1, OpOf, Zenon DEF KeysStep, KeysOps

ParametersOps(q) ==
    /\ LeftOf(q) \in 1 .. 10
    /\ LeftOf(q) = 10 => Op(q) = "read"
    /\ LeftOf(q) = 9 => Op(q) = "edit_config"
    /\ LeftOf(q) = 8 => Op(q) = "copy"
    /\ LeftOf(q) = 7 => Op(q) = "fsync"
    /\ LeftOf(q) = 6 => Op(q) = "rename"
    /\ LeftOf(q) = 5 => Op(q) = "mine"
    /\ LeftOf(q) = 4 => Op(q) = "write"
    /\ LeftOf(q) = 3 => Op(q) = "fsync"
    /\ LeftOf(q) = 2 => Op(q) = "rename"
    /\ LeftOf(q) = 1 => Op(q) = "sync_dir"
LEMMA ParametersOpsAre ==
    ASSUME NEW w, NEW q, Running(w, q), q.req = "parameters"
    PROVE  ParametersOps(q)
  <1>1. ParametersStep(q, w)
    BY ParametersSteps
  <1> QED
    BY <1>1, OpOf, Zenon DEF ParametersStep, ParametersOps

ConfigOps(q) ==
    /\ LeftOf(q) \in 1 .. 9
    /\ LeftOf(q) = 9 => Op(q) = "new_config"
    /\ LeftOf(q) = 8 => Op(q) = "copy"
    /\ LeftOf(q) = 7 => Op(q) = "fsync"
    /\ LeftOf(q) = 6 => Op(q) = "rename"
    /\ LeftOf(q) = 5 => Op(q) = "mine"
    /\ LeftOf(q) = 4 => Op(q) = "write"
    /\ LeftOf(q) = 3 => Op(q) = "fsync"
    /\ LeftOf(q) = 2 => Op(q) = "rename"
    /\ LeftOf(q) = 1 => Op(q) = "sync_dir"
LEMMA ConfigOpsAre ==
    ASSUME NEW w, NEW q, Running(w, q), q.req = "config"
    PROVE  ConfigOps(q)
  <1>1. ConfigStep(q, w)
    BY ConfigSteps
  <1> QED
    BY <1>1, OpOf, Zenon DEF ConfigStep, ConfigOps

UpgradeOps(q) ==
    /\ LeftOf(q) \in 1 .. 10
    /\ LeftOf(q) = 10 => Op(q) = "lock"
    /\ LeftOf(q) = 9 => Op(q) = "check_image"
    /\ LeftOf(q) = 8 => Op(q) = "create"
    /\ LeftOf(q) = 7 => Op(q) = "write"
    /\ LeftOf(q) = 6 => Op(q) = "fsync"
    /\ LeftOf(q) = 5 => Op(q) = "sync"
    /\ LeftOf(q) = 4 => Op(q) = "publish"
    /\ LeftOf(q) = 3 => Op(q) = "sync_dir"
    /\ LeftOf(q) = 2 => Op(q) = "sync"
    /\ LeftOf(q) = 1 => Op(q) = "unlock"
LEMMA UpgradeOpsAre ==
    ASSUME NEW w, NEW q, Running(w, q), q.req = "upgrade"
    PROVE  UpgradeOps(q)
  <1>1. UpgradeStep(q, w)
    BY UpgradeSteps
  <1> QED
    BY <1>1, OpOf, Zenon DEF UpgradeStep, UpgradeOps

LoginOps(q) ==
    /\ LeftOf(q) \in 1 .. 6
    /\ LeftOf(q) = 6 => Op(q) = "lock"
    /\ LeftOf(q) = 5 => Op(q) = "load"
    /\ LeftOf(q) = 4 => Op(q) = "add"
    /\ LeftOf(q) = 3 => Op(q) = "truncate"
    /\ LeftOf(q) = 2 => Op(q) = "store"
    /\ LeftOf(q) = 1 => Op(q) = "unlock"
LEMMA LoginOpsAre ==
    ASSUME NEW w, NEW q, Running(w, q), q.req = "login"
    PROVE  LoginOps(q)
  <1>1. LoginStep(q, w)
    BY LoginSteps
  <1> QED
    BY <1>1, OpOf, Zenon DEF LoginStep, LoginOps

LogoutOps(q) ==
    /\ LeftOf(q) \in 1 .. 6
    /\ LeftOf(q) = 6 => Op(q) = "lock"
    /\ LeftOf(q) = 5 => Op(q) = "load"
    /\ LeftOf(q) = 4 => Op(q) = "drop"
    /\ LeftOf(q) = 3 => Op(q) = "truncate"
    /\ LeftOf(q) = 2 => Op(q) = "store"
    /\ LeftOf(q) = 1 => Op(q) = "unlock"
LEMMA LogoutOpsAre ==
    ASSUME NEW w, NEW q, Running(w, q), q.req = "logout"
    PROVE  LogoutOps(q)
  <1>1. LogoutStep(q, w)
    BY LogoutSteps
  <1> QED
    BY <1>1, OpOf, Zenon DEF LogoutStep, LogoutOps

PageOps(q) ==
    /\ LeftOf(q) \in 1 .. 1
    /\ LeftOf(q) = 1 => Op(q) = "serve"
LEMMA PageOpsAre ==
    ASSUME NEW w, NEW q, Running(w, q), q.req = "page"
    PROVE  PageOps(q)
  <1>1. PageStep(q, w)
    BY PageSteps
  <1> QED
    BY <1>1, OpOf, Zenon DEF PageStep, PageOps

DeleteOps(q) ==
    /\ LeftOf(q) \in 1 .. 1
    /\ LeftOf(q) = 1 => Op(q) = "delete"
LEMMA DeleteOpsAre ==
    ASSUME NEW w, NEW q, Running(w, q), q.req = "delete"
    PROVE  DeleteOps(q)
  <1>1. DeleteStep(q, w)
    BY DeleteSteps
  <1> QED
    BY <1>1, OpOf, Zenon DEF DeleteStep, DeleteOps

RebootOps(q) ==
    /\ LeftOf(q) \in 1 .. 1
    /\ LeftOf(q) = 1 => Op(q) = "reboot"
LEMMA RebootOpsAre ==
    ASSUME NEW w, NEW q, Running(w, q), q.req = "reboot"
    PROVE  RebootOps(q)
  <1>1. RebootStep(q, w)
    BY RebootSteps
  <1> QED
    BY <1>1, OpOf, Zenon DEF RebootStep, RebootOps

InProgram(q) ==
    \/ q.req = "password" /\ PasswordOps(q)
    \/ q.req \in KeyRequests /\ KeysOps(q)
    \/ q.req = "parameters" /\ ParametersOps(q)
    \/ q.req = "config" /\ ConfigOps(q)
    \/ q.req = "upgrade" /\ UpgradeOps(q)
    \/ q.req = "login" /\ LoginOps(q)
    \/ q.req = "logout" /\ LogoutOps(q)
    \/ q.req = "page" /\ PageOps(q)
    \/ q.req = "delete" /\ DeleteOps(q)
    \/ q.req = "reboot" /\ RebootOps(q)
LEMMA OpsOf ==
    ASSUME NEW w, NEW q, Running(w, q)
    PROVE  InProgram(q)
  BY PasswordOpsAre, KeysOpsAre, ParametersOpsAre, ConfigOpsAre, UpgradeOpsAre, LoginOpsAre, LogoutOpsAre, PageOpsAre, DeleteOpsAre, RebootOpsAre DEF InProgram, Running, WebRequests, KeyRequests

LEMMA NotAuth ==
    ASSUME NEW w, NEW q, OnProgram(w, q), NEW op, AtOp(q, op), op # "auth"
    PROVE  Running(w, q)
  <1>1. ASSUME q.todo = Auth
        PROVE  FALSE
    <2>1. Head(q.todo) = <<"auth">>
      BY <1>1, AuthFacts
    <2>2. Op(q) = "auth"
      BY <2>1, OpOf
    <2> QED
      BY <2>2 DEF AtOp
  <1> QED
    BY <1>1 DEF OnProgram, AtOp

LEMMA AtAuth ==
    ASSUME NEW w, NEW q, OnProgram(w, q), AtOp(q, "auth")
    PROVE  q.todo = Auth /\ q.req \in WebRequests /\ LeftOf(q) = -1
  <1>1. ~Running(w, q)
    <2> SUFFICES ASSUME Running(w, q) PROVE FALSE
      OBVIOUS
    <2>1. Op(q) = "auth"
      BY DEF AtOp
    <2>2. InProgram(q)
      BY OpsOf
    <2> QED
      BY <2>1, <2>2, SMT DEF InProgram, PasswordOps, KeysOps, ParametersOps, ConfigOps, UpgradeOps, LoginOps, LogoutOps, PageOps, DeleteOps, RebootOps
  <1> QED
    BY <1>1 DEF OnProgram, AtOp, LeftOf

LEMMA AtLock ==
    ASSUME NEW w, NEW q, OnProgram(w, q), AtOp(q, "lock")
    PROVE  /\ Running(w, q)
           /\ \/ q.req = "password" /\ LeftOf(q) = 7
              \/ q.req \in KeyRequests /\ LeftOf(q) = 12
              \/ q.req = "upgrade" /\ LeftOf(q) = 10
              \/ q.req = "login" /\ LeftOf(q) = 6
              \/ q.req = "logout" /\ LeftOf(q) = 6
  <1>1. Running(w, q)
    BY NotAuth
  <1>2. Op(q) = "lock"
    BY DEF AtOp
  <1>3. InProgram(q)
    BY <1>1, OpsOf
  <1> QED
    BY <1>1, <1>2, <1>3, SMT DEF InProgram, PasswordOps, KeysOps, ParametersOps, ConfigOps, UpgradeOps, LoginOps, LogoutOps, PageOps, DeleteOps, RebootOps

LEMMA AtNewPassword ==
    ASSUME NEW w, NEW q, OnProgram(w, q), AtOp(q, "new_password")
    PROVE  /\ Running(w, q)
           /\ \/ q.req = "password" /\ LeftOf(q) = 6
  <1>1. Running(w, q)
    BY NotAuth
  <1>2. Op(q) = "new_password"
    BY DEF AtOp
  <1>3. InProgram(q)
    BY <1>1, OpsOf
  <1> QED
    BY <1>1, <1>2, <1>3, SMT DEF InProgram, PasswordOps, KeysOps, ParametersOps, ConfigOps, UpgradeOps, LoginOps, LogoutOps, PageOps, DeleteOps, RebootOps

LEMMA AtWrite ==
    ASSUME NEW w, NEW q, OnProgram(w, q), AtOp(q, "write")
    PROVE  /\ Running(w, q)
           /\ \/ q.req = "password" /\ LeftOf(q) = 5
              \/ q.req \in KeyRequests /\ LeftOf(q) = 9
              \/ q.req \in KeyRequests /\ LeftOf(q) = 5
              \/ q.req = "parameters" /\ LeftOf(q) = 4
              \/ q.req = "config" /\ LeftOf(q) = 4
              \/ q.req = "upgrade" /\ LeftOf(q) = 7
  <1>1. Running(w, q)
    BY NotAuth
  <1>2. Op(q) = "write"
    BY DEF AtOp
  <1>3. InProgram(q)
    BY <1>1, OpsOf
  <1> QED
    BY <1>1, <1>2, <1>3, SMT DEF InProgram, PasswordOps, KeysOps, ParametersOps, ConfigOps, UpgradeOps, LoginOps, LogoutOps, PageOps, DeleteOps, RebootOps

LEMMA AtFsync ==
    ASSUME NEW w, NEW q, OnProgram(w, q), AtOp(q, "fsync")
    PROVE  /\ Running(w, q)
           /\ \/ q.req = "password" /\ LeftOf(q) = 4
              \/ q.req \in KeyRequests /\ LeftOf(q) = 8
              \/ q.req \in KeyRequests /\ LeftOf(q) = 4
              \/ q.req = "parameters" /\ LeftOf(q) = 7
              \/ q.req = "parameters" /\ LeftOf(q) = 3
              \/ q.req = "config" /\ LeftOf(q) = 7
              \/ q.req = "config" /\ LeftOf(q) = 3
              \/ q.req = "upgrade" /\ LeftOf(q) = 6
  <1>1. Running(w, q)
    BY NotAuth
  <1>2. Op(q) = "fsync"
    BY DEF AtOp
  <1>3. InProgram(q)
    BY <1>1, OpsOf
  <1> QED
    BY <1>1, <1>2, <1>3, SMT DEF InProgram, PasswordOps, KeysOps, ParametersOps, ConfigOps, UpgradeOps, LoginOps, LogoutOps, PageOps, DeleteOps, RebootOps

LEMMA AtRename ==
    ASSUME NEW w, NEW q, OnProgram(w, q), AtOp(q, "rename")
    PROVE  /\ Running(w, q)
           /\ \/ q.req = "password" /\ LeftOf(q) = 3
              \/ q.req \in KeyRequests /\ LeftOf(q) = 7
              \/ q.req \in KeyRequests /\ LeftOf(q) = 3
              \/ q.req = "parameters" /\ LeftOf(q) = 6
              \/ q.req = "parameters" /\ LeftOf(q) = 2
              \/ q.req = "config" /\ LeftOf(q) = 6
              \/ q.req = "config" /\ LeftOf(q) = 2
  <1>1. Running(w, q)
    BY NotAuth
  <1>2. Op(q) = "rename"
    BY DEF AtOp
  <1>3. InProgram(q)
    BY <1>1, OpsOf
  <1> QED
    BY <1>1, <1>2, <1>3, SMT DEF InProgram, PasswordOps, KeysOps, ParametersOps, ConfigOps, UpgradeOps, LoginOps, LogoutOps, PageOps, DeleteOps, RebootOps

LEMMA AtSyncDir ==
    ASSUME NEW w, NEW q, OnProgram(w, q), AtOp(q, "sync_dir")
    PROVE  /\ Running(w, q)
           /\ \/ q.req = "password" /\ LeftOf(q) = 2
              \/ q.req \in KeyRequests /\ LeftOf(q) = 6
              \/ q.req \in KeyRequests /\ LeftOf(q) = 2
              \/ q.req = "parameters" /\ LeftOf(q) = 1
              \/ q.req = "config" /\ LeftOf(q) = 1
              \/ q.req = "upgrade" /\ LeftOf(q) = 3
  <1>1. Running(w, q)
    BY NotAuth
  <1>2. Op(q) = "sync_dir"
    BY DEF AtOp
  <1>3. InProgram(q)
    BY <1>1, OpsOf
  <1> QED
    BY <1>1, <1>2, <1>3, SMT DEF InProgram, PasswordOps, KeysOps, ParametersOps, ConfigOps, UpgradeOps, LoginOps, LogoutOps, PageOps, DeleteOps, RebootOps

LEMMA AtUnlock ==
    ASSUME NEW w, NEW q, OnProgram(w, q), AtOp(q, "unlock")
    PROVE  /\ Running(w, q)
           /\ \/ q.req = "password" /\ LeftOf(q) = 1
              \/ q.req \in KeyRequests /\ LeftOf(q) = 1
              \/ q.req = "upgrade" /\ LeftOf(q) = 1
              \/ q.req = "login" /\ LeftOf(q) = 1
              \/ q.req = "logout" /\ LeftOf(q) = 1
  <1>1. Running(w, q)
    BY NotAuth
  <1>2. Op(q) = "unlock"
    BY DEF AtOp
  <1>3. InProgram(q)
    BY <1>1, OpsOf
  <1> QED
    BY <1>1, <1>2, <1>3, SMT DEF InProgram, PasswordOps, KeysOps, ParametersOps, ConfigOps, UpgradeOps, LoginOps, LogoutOps, PageOps, DeleteOps, RebootOps

LEMMA AtRead ==
    ASSUME NEW w, NEW q, OnProgram(w, q), AtOp(q, "read")
    PROVE  /\ Running(w, q)
           /\ \/ q.req \in KeyRequests /\ LeftOf(q) = 11
              \/ q.req = "parameters" /\ LeftOf(q) = 10
  <1>1. Running(w, q)
    BY NotAuth
  <1>2. Op(q) = "read"
    BY DEF AtOp
  <1>3. InProgram(q)
    BY <1>1, OpsOf
  <1> QED
    BY <1>1, <1>2, <1>3, SMT DEF InProgram, PasswordOps, KeysOps, ParametersOps, ConfigOps, UpgradeOps, LoginOps, LogoutOps, PageOps, DeleteOps, RebootOps

LEMMA AtEditKeys ==
    ASSUME NEW w, NEW q, OnProgram(w, q), AtOp(q, "edit_keys")
    PROVE  /\ Running(w, q)
           /\ \/ q.req \in KeyRequests /\ LeftOf(q) = 10
  <1>1. Running(w, q)
    BY NotAuth
  <1>2. Op(q) = "edit_keys"
    BY DEF AtOp
  <1>3. InProgram(q)
    BY <1>1, OpsOf
  <1> QED
    BY <1>1, <1>2, <1>3, SMT DEF InProgram, PasswordOps, KeysOps, ParametersOps, ConfigOps, UpgradeOps, LoginOps, LogoutOps, PageOps, DeleteOps, RebootOps

LEMMA AtEditConfig ==
    ASSUME NEW w, NEW q, OnProgram(w, q), AtOp(q, "edit_config")
    PROVE  /\ Running(w, q)
           /\ \/ q.req = "parameters" /\ LeftOf(q) = 9
  <1>1. Running(w, q)
    BY NotAuth
  <1>2. Op(q) = "edit_config"
    BY DEF AtOp
  <1>3. InProgram(q)
    BY <1>1, OpsOf
  <1> QED
    BY <1>1, <1>2, <1>3, SMT DEF InProgram, PasswordOps, KeysOps, ParametersOps, ConfigOps, UpgradeOps, LoginOps, LogoutOps, PageOps, DeleteOps, RebootOps

LEMMA AtCopy ==
    ASSUME NEW w, NEW q, OnProgram(w, q), AtOp(q, "copy")
    PROVE  /\ Running(w, q)
           /\ \/ q.req = "parameters" /\ LeftOf(q) = 8
              \/ q.req = "config" /\ LeftOf(q) = 8
  <1>1. Running(w, q)
    BY NotAuth
  <1>2. Op(q) = "copy"
    BY DEF AtOp
  <1>3. InProgram(q)
    BY <1>1, OpsOf
  <1> QED
    BY <1>1, <1>2, <1>3, SMT DEF InProgram, PasswordOps, KeysOps, ParametersOps, ConfigOps, UpgradeOps, LoginOps, LogoutOps, PageOps, DeleteOps, RebootOps

LEMMA AtMine ==
    ASSUME NEW w, NEW q, OnProgram(w, q), AtOp(q, "mine")
    PROVE  /\ Running(w, q)
           /\ \/ q.req = "parameters" /\ LeftOf(q) = 5
              \/ q.req = "config" /\ LeftOf(q) = 5
  <1>1. Running(w, q)
    BY NotAuth
  <1>2. Op(q) = "mine"
    BY DEF AtOp
  <1>3. InProgram(q)
    BY <1>1, OpsOf
  <1> QED
    BY <1>1, <1>2, <1>3, SMT DEF InProgram, PasswordOps, KeysOps, ParametersOps, ConfigOps, UpgradeOps, LoginOps, LogoutOps, PageOps, DeleteOps, RebootOps

LEMMA AtNewConfig ==
    ASSUME NEW w, NEW q, OnProgram(w, q), AtOp(q, "new_config")
    PROVE  /\ Running(w, q)
           /\ \/ q.req = "config" /\ LeftOf(q) = 9
  <1>1. Running(w, q)
    BY NotAuth
  <1>2. Op(q) = "new_config"
    BY DEF AtOp
  <1>3. InProgram(q)
    BY <1>1, OpsOf
  <1> QED
    BY <1>1, <1>2, <1>3, SMT DEF InProgram, PasswordOps, KeysOps, ParametersOps, ConfigOps, UpgradeOps, LoginOps, LogoutOps, PageOps, DeleteOps, RebootOps

LEMMA AtCheckImage ==
    ASSUME NEW w, NEW q, OnProgram(w, q), AtOp(q, "check_image")
    PROVE  /\ Running(w, q)
           /\ \/ q.req = "upgrade" /\ LeftOf(q) = 9
  <1>1. Running(w, q)
    BY NotAuth
  <1>2. Op(q) = "check_image"
    BY DEF AtOp
  <1>3. InProgram(q)
    BY <1>1, OpsOf
  <1> QED
    BY <1>1, <1>2, <1>3, SMT DEF InProgram, PasswordOps, KeysOps, ParametersOps, ConfigOps, UpgradeOps, LoginOps, LogoutOps, PageOps, DeleteOps, RebootOps

LEMMA AtCreate ==
    ASSUME NEW w, NEW q, OnProgram(w, q), AtOp(q, "create")
    PROVE  /\ Running(w, q)
           /\ \/ q.req = "upgrade" /\ LeftOf(q) = 8
  <1>1. Running(w, q)
    BY NotAuth
  <1>2. Op(q) = "create"
    BY DEF AtOp
  <1>3. InProgram(q)
    BY <1>1, OpsOf
  <1> QED
    BY <1>1, <1>2, <1>3, SMT DEF InProgram, PasswordOps, KeysOps, ParametersOps, ConfigOps, UpgradeOps, LoginOps, LogoutOps, PageOps, DeleteOps, RebootOps

LEMMA AtSync ==
    ASSUME NEW w, NEW q, OnProgram(w, q), AtOp(q, "sync")
    PROVE  /\ Running(w, q)
           /\ \/ q.req = "upgrade" /\ LeftOf(q) = 5
              \/ q.req = "upgrade" /\ LeftOf(q) = 2
  <1>1. Running(w, q)
    BY NotAuth
  <1>2. Op(q) = "sync"
    BY DEF AtOp
  <1>3. InProgram(q)
    BY <1>1, OpsOf
  <1> QED
    BY <1>1, <1>2, <1>3, SMT DEF InProgram, PasswordOps, KeysOps, ParametersOps, ConfigOps, UpgradeOps, LoginOps, LogoutOps, PageOps, DeleteOps, RebootOps

LEMMA AtPublish ==
    ASSUME NEW w, NEW q, OnProgram(w, q), AtOp(q, "publish")
    PROVE  /\ Running(w, q)
           /\ \/ q.req = "upgrade" /\ LeftOf(q) = 4
  <1>1. Running(w, q)
    BY NotAuth
  <1>2. Op(q) = "publish"
    BY DEF AtOp
  <1>3. InProgram(q)
    BY <1>1, OpsOf
  <1> QED
    BY <1>1, <1>2, <1>3, SMT DEF InProgram, PasswordOps, KeysOps, ParametersOps, ConfigOps, UpgradeOps, LoginOps, LogoutOps, PageOps, DeleteOps, RebootOps

LEMMA AtLoad ==
    ASSUME NEW w, NEW q, OnProgram(w, q), AtOp(q, "load")
    PROVE  /\ Running(w, q)
           /\ \/ q.req = "login" /\ LeftOf(q) = 5
              \/ q.req = "logout" /\ LeftOf(q) = 5
  <1>1. Running(w, q)
    BY NotAuth
  <1>2. Op(q) = "load"
    BY DEF AtOp
  <1>3. InProgram(q)
    BY <1>1, OpsOf
  <1> QED
    BY <1>1, <1>2, <1>3, SMT DEF InProgram, PasswordOps, KeysOps, ParametersOps, ConfigOps, UpgradeOps, LoginOps, LogoutOps, PageOps, DeleteOps, RebootOps

LEMMA AtAdd ==
    ASSUME NEW w, NEW q, OnProgram(w, q), AtOp(q, "add")
    PROVE  /\ Running(w, q)
           /\ \/ q.req = "login" /\ LeftOf(q) = 4
  <1>1. Running(w, q)
    BY NotAuth
  <1>2. Op(q) = "add"
    BY DEF AtOp
  <1>3. InProgram(q)
    BY <1>1, OpsOf
  <1> QED
    BY <1>1, <1>2, <1>3, SMT DEF InProgram, PasswordOps, KeysOps, ParametersOps, ConfigOps, UpgradeOps, LoginOps, LogoutOps, PageOps, DeleteOps, RebootOps

LEMMA AtTruncate ==
    ASSUME NEW w, NEW q, OnProgram(w, q), AtOp(q, "truncate")
    PROVE  /\ Running(w, q)
           /\ \/ q.req = "login" /\ LeftOf(q) = 3
              \/ q.req = "logout" /\ LeftOf(q) = 3
  <1>1. Running(w, q)
    BY NotAuth
  <1>2. Op(q) = "truncate"
    BY DEF AtOp
  <1>3. InProgram(q)
    BY <1>1, OpsOf
  <1> QED
    BY <1>1, <1>2, <1>3, SMT DEF InProgram, PasswordOps, KeysOps, ParametersOps, ConfigOps, UpgradeOps, LoginOps, LogoutOps, PageOps, DeleteOps, RebootOps

LEMMA AtStore ==
    ASSUME NEW w, NEW q, OnProgram(w, q), AtOp(q, "store")
    PROVE  /\ Running(w, q)
           /\ \/ q.req = "login" /\ LeftOf(q) = 2
              \/ q.req = "logout" /\ LeftOf(q) = 2
  <1>1. Running(w, q)
    BY NotAuth
  <1>2. Op(q) = "store"
    BY DEF AtOp
  <1>3. InProgram(q)
    BY <1>1, OpsOf
  <1> QED
    BY <1>1, <1>2, <1>3, SMT DEF InProgram, PasswordOps, KeysOps, ParametersOps, ConfigOps, UpgradeOps, LoginOps, LogoutOps, PageOps, DeleteOps, RebootOps

LEMMA AtDrop ==
    ASSUME NEW w, NEW q, OnProgram(w, q), AtOp(q, "drop")
    PROVE  /\ Running(w, q)
           /\ \/ q.req = "logout" /\ LeftOf(q) = 4
  <1>1. Running(w, q)
    BY NotAuth
  <1>2. Op(q) = "drop"
    BY DEF AtOp
  <1>3. InProgram(q)
    BY <1>1, OpsOf
  <1> QED
    BY <1>1, <1>2, <1>3, SMT DEF InProgram, PasswordOps, KeysOps, ParametersOps, ConfigOps, UpgradeOps, LoginOps, LogoutOps, PageOps, DeleteOps, RebootOps

LEMMA AtServe ==
    ASSUME NEW w, NEW q, OnProgram(w, q), AtOp(q, "serve")
    PROVE  /\ Running(w, q)
           /\ \/ q.req = "page" /\ LeftOf(q) = 1
  <1>1. Running(w, q)
    BY NotAuth
  <1>2. Op(q) = "serve"
    BY DEF AtOp
  <1>3. InProgram(q)
    BY <1>1, OpsOf
  <1> QED
    BY <1>1, <1>2, <1>3, SMT DEF InProgram, PasswordOps, KeysOps, ParametersOps, ConfigOps, UpgradeOps, LoginOps, LogoutOps, PageOps, DeleteOps, RebootOps

LEMMA AtDelete ==
    ASSUME NEW w, NEW q, OnProgram(w, q), AtOp(q, "delete")
    PROVE  /\ Running(w, q)
           /\ \/ q.req = "delete" /\ LeftOf(q) = 1
  <1>1. Running(w, q)
    BY NotAuth
  <1>2. Op(q) = "delete"
    BY DEF AtOp
  <1>3. InProgram(q)
    BY <1>1, OpsOf
  <1> QED
    BY <1>1, <1>2, <1>3, SMT DEF InProgram, PasswordOps, KeysOps, ParametersOps, ConfigOps, UpgradeOps, LoginOps, LogoutOps, PageOps, DeleteOps, RebootOps

LEMMA AtReboot ==
    ASSUME NEW w, NEW q, OnProgram(w, q), AtOp(q, "reboot")
    PROVE  /\ Running(w, q)
           /\ \/ q.req = "reboot" /\ LeftOf(q) = 1
  <1>1. Running(w, q)
    BY NotAuth
  <1>2. Op(q) = "reboot"
    BY DEF AtOp
  <1>3. InProgram(q)
    BY <1>1, OpsOf
  <1> QED
    BY <1>1, <1>2, <1>3, SMT DEF InProgram, PasswordOps, KeysOps, ParametersOps, ConfigOps, UpgradeOps, LoginOps, LogoutOps, PageOps, DeleteOps, RebootOps

-----------------------------------------------------------------------------
(* How a step moves a worker *)

Idler == Rec("none", "", <<>>, {}, <<>>)
WorkersOK == worker = [v \in Workers |-> worker[v]] /\ \A v \in Workers : OnProgram(v, worker[v])

\* One worker becomes s, and the others stay.
TurnsTo(w, s) == worker' = [worker EXCEPT ![w] = s]
Advanced(q, s) == \E c, l : s = Rec(q.req, q.arg, Tail(q.todo), c, l)
Jumped(q, s) == s = Rec(q.req, q.arg, <<Last(q.todo)>>, q.copy, q.list)
Routed(w, q, s) == s = Rec(q.req, q.arg, Program(w, q.req, q.arg), {}, q.list)
Accepted(s) == \E r \in WebRequests : \E a : s = Rec(r, a, Auth, {}, <<>>)

LEMMA RecTodo == \A r, a, t, c, l, t2 : [Rec(r, a, t, c, l) EXCEPT !.todo = t2] = Rec(r, a, t2, c, l)
  BY DEF Rec

LEMMA RecCopy == \A r, a, t, c, l, c2 : [Rec(r, a, t, c, l) EXCEPT !.copy = c2] = Rec(r, a, t, c2, l)
  BY DEF Rec

LEMMA RecList == \A r, a, t, c, l, l2 : [Rec(r, a, t, c, l) EXCEPT !.list = l2] = Rec(r, a, t, c, l2)
  BY DEF Rec

LEMMA GotoIs ==
    ASSUME NEW w \in Workers, WorkersOK, NEW t, NEW c, Goto(w, t, c)
    PROVE  TurnsTo(w, Rec(worker[w].req, worker[w].arg, t, c, worker[w].list))
  <1> DEFINE q == worker[w]
  <1>1. q = Rec(q.req, q.arg, q.todo, q.copy, q.list)
    BY DEF WorkersOK, OnProgram
  <1>2. worker' = [worker EXCEPT ![w] = [[q EXCEPT !.todo = t] EXCEPT !.copy = c]]
    BY DEF Goto, WorkersOK
  <1>3. [[q EXCEPT !.todo = t] EXCEPT !.copy = c] = Rec(q.req, q.arg, t, c, q.list)
    <2>1. PICK r, a, t0, c0, l0 : q = Rec(r, a, t0, c0, l0)
      BY <1>1
    <2>2. q.req = r /\ q.arg = a /\ q.copy = c0 /\ q.list = l0
      BY <2>1, RecFields
    <2>3. [q EXCEPT !.todo = t] = Rec(r, a, t, c0, l0)
      BY <2>1, RecTodo
    <2>4. [Rec(r, a, t, c0, l0) EXCEPT !.copy = c] = Rec(r, a, t, c, l0)
      BY RecCopy
    <2> QED
      BY <2>2, <2>3, <2>4
  <1> QED
    BY <1>2, <1>3 DEF TurnsTo

LEMMA StopIs ==
    ASSUME NEW w \in Workers, Stop(w)
    PROVE  TurnsTo(w, Idler)
  BY DEF Stop, TurnsTo, Idler, Rec

LEMMA WithListIs ==
    ASSUME NEW w \in Workers, WorkersOK, NEW l, WithList(w, l)
    PROVE  TurnsTo(w, Rec(worker[w].req, worker[w].arg, Tail(worker[w].todo), worker[w].copy, l))
  <1> DEFINE q == worker[w]
  <1>1. q = Rec(q.req, q.arg, q.todo, q.copy, q.list)
    BY DEF WorkersOK, OnProgram
  <1>2. worker' = [worker EXCEPT ![w] = [[q EXCEPT !.todo = Tail(q.todo)] EXCEPT !.list = l]]
    BY DEF WithList, WorkersOK
  <1>3. [[q EXCEPT !.todo = Tail(q.todo)] EXCEPT !.list = l] = Rec(q.req, q.arg, Tail(q.todo), q.copy, l)
    <2>1. PICK r, a, t0, c0, l0 : q = Rec(r, a, t0, c0, l0)
      BY <1>1
    <2>2. q.req = r /\ q.arg = a /\ q.copy = c0 /\ q.list = l0
      BY <2>1, RecFields
    <2>3. \A t : [q EXCEPT !.todo = t] = Rec(r, a, t, c0, l0)
      BY <2>1, RecTodo
    <2>4. [Rec(r, a, Tail(q.todo), c0, l0) EXCEPT !.list = l] = Rec(r, a, Tail(q.todo), c0, l)
      BY RecList
    <2> QED
      BY <2>2, <2>3, <2>4
  <1> QED
    BY <1>2, <1>3 DEF TurnsTo

LEMMA ContinueIs ==
    ASSUME NEW w \in Workers, WorkersOK, Continue(w)
    PROVE  TurnsTo(w, Rec(worker[w].req, worker[w].arg, Tail(worker[w].todo), worker[w].copy, worker[w].list))
  BY GotoIs DEF Continue

LEMMA BecomesIs ==
    ASSUME NEW w \in Workers, NEW s, WorkersOK, TurnsTo(w, s)
    PROVE  /\ worker'[w] = s /\ worker' = [v \in Workers |-> worker'[v]]
           /\ \A v \in Workers \ {w} : worker'[v] = worker[v]
  BY DEF TurnsTo, WorkersOK

LEMMA IdlerIs == /\ Idler.todo = <<>> /\ LeftOf(Idler) = 0 /\ Idler = Rec(Idler.req, Idler.arg, Idler.todo, Idler.copy, Idler.list)
                 /\ Idler.list = <<>> /\ Idler.copy = {} /\ Idler.req = "none"
  <1>1. Idler.todo = <<>> /\ Idler.list = <<>> /\ Idler.copy = {} /\ Idler.req = "none" /\ Idler.arg = ""
    BY DEF Idler, Rec
  <1>2. LeftOf(Idler) = 0
    BY <1>1, AuthFacts DEF LeftOf
  <1> QED
    BY <1>1, <1>2 DEF Idler, Rec

LEMMA AdvancedIs ==
    ASSUME NEW w, NEW q, Running(w, q), NEW s, Advanced(q, s)
    PROVE  OnProgram(w, s) /\ LeftOf(s) = LeftOf(q) - 1 /\ s.req = q.req /\ s.arg = q.arg
  <1>1. PICK c, l : s = Rec(q.req, q.arg, Tail(q.todo), c, l)
    BY DEF Advanced
  <1>2. StepFacts(w, q)
    BY NextStep
  <1> QED
    BY <1>1, <1>2, RecFields DEF StepFacts

LEMMA JumpedIs ==
    ASSUME NEW w, NEW q, Running(w, q), NEW s, Jumped(q, s)
    PROVE  OnProgram(w, s) /\ LeftOf(s) = 1 /\ s.req = q.req /\ s.arg = q.arg
  <1>1. StepFacts(w, q)
    BY NextStep
  <1> QED
    BY <1>1, RecFields DEF Jumped, StepFacts

LEMMA RoutedIs ==
    ASSUME NEW w, NEW q, q.req \in WebRequests, NEW s, Routed(w, q, s)
    PROVE  OnProgram(w, s) /\ LeftOf(s) = Size(q.req) /\ s.req = q.req /\ s.arg = q.arg
  <1> DEFINE p == Program(w, q.req, q.arg)  n == Size(q.req)
  <1>1. IsProgram(p, n) /\ n \in 1 .. 12
    BY EveryProgram
  <1>2. /\ s.req = q.req /\ s.arg = q.arg /\ s.todo = p
        /\ s = Rec(s.req, s.arg, s.todo, s.copy, s.list)
    BY RecFields DEF Routed
  <1> HIDE DEF p, n
  <1>3. 1 \in 1 .. n /\ n \in Nat
    BY <1>1
  <1>4. RestFacts(p, n, 1)
    BY <1>1, <1>3, RestOf
  <1>5. Rest(p, 1) = p /\ p # Auth /\ Len(p) = n
    BY <1>4, <1>1 DEF RestFacts, IsProgram
  <1>6. LeftOf(s) = n /\ n + 1 - LeftOf(s) = 1 /\ LeftOf(s) \in 1 .. n
    BY <1>1, <1>2, <1>5 DEF LeftOf
  <1>7. s.todo = Rest(p, n + 1 - LeftOf(s))
    BY <1>2, <1>5, <1>6
  <1>8. Running(w, s)
    BY <1>2, <1>6, <1>7 DEF Running, p, n
  <1> QED
    BY <1>2, <1>6, <1>8 DEF OnProgram, n

LEMMA AcceptedIs ==
    ASSUME NEW w, NEW s, Accepted(s)
    PROVE  OnProgram(w, s) /\ LeftOf(s) = -1 /\ s.list = <<>> /\ s.req \in WebRequests
  BY RecFields DEF Accepted, OnProgram, LeftOf

\* The ways a worker changes.
Moves(w, q, s) ==
    \/ s = Idler
    \/ LeftOf(q) = 0 /\ Accepted(s)
    \/ LeftOf(q) = -1 /\ q.req \in WebRequests /\ Routed(w, q, s)
    \/ Running(w, q) /\ Advanced(q, s)
    \/ Running(w, q) /\ q.req = "logout" /\ LeftOf(q) = 4 /\ Jumped(q, s)

LEMMA MovesKeepPrograms ==
    ASSUME NEW w \in Workers, WorkersOK, NEW s, Moves(w, worker[w], s), TurnsTo(w, s)
    PROVE  WorkersOK'
  <1>1. OnProgram(w, s)
    <2>1. CASE s = Idler
      BY <2>1, IdlerIs DEF OnProgram
    <2>2. CASE Accepted(s)
      BY <2>2, AcceptedIs
    <2>3. CASE worker[w].req \in WebRequests /\ Routed(w, worker[w], s)
      BY <2>3, RoutedIs
    <2>4. CASE Running(w, worker[w]) /\ Advanced(worker[w], s)
      BY <2>4, AdvancedIs
    <2>5. CASE Running(w, worker[w]) /\ Jumped(worker[w], s)
      BY <2>5, JumpedIs
    <2> QED
      BY <2>1, <2>2, <2>3, <2>4, <2>5 DEF Moves
  <1> QED
    BY <1>1, BecomesIs DEF WorkersOK

-----------------------------------------------------------------------------
(* Locks *)

LockNames == {"sessions", "users", "upgrade"}
HoldsLock(q, l) ==
    \/ l = "users" /\ q.req = "password" /\ LeftOf(q) \in 1 .. 6
    \/ l = "users" /\ q.req \in KeyRequests /\ LeftOf(q) \in 1 .. 11
    \/ l = "sessions" /\ q.req \in SessionRequests /\ LeftOf(q) \in 1 .. 5
    \/ l = "upgrade" /\ q.req = "upgrade" /\ LeftOf(q) \in 1 .. 9
LocksOK ==
    /\ lock = [l \in LockNames |-> lock[l]]
    /\ \A v \in Workers, l \in LockNames : HoldsLock(worker[v], l) => lock[l] = v

LEMMA AtStepIs == \A w, op : AtStep(w, op) <=> AtOp(worker[w], op)
  BY DEF AtStep, AtOp, Op, Spare, Step

LEMMA LockTarget ==
    ASSUME NEW w, NEW q, OnProgram(w, q), AtOp(q, "lock")
    PROVE  /\ Running(w, q) /\ Head(q.todo)[2] \in LockNames
           /\ \A s, l : Advanced(q, s) /\ HoldsLock(s, l) => l = Head(q.todo)[2]
  <1>1. /\ Running(w, q)
        /\ \/ q.req = "password" /\ LeftOf(q) = 7
           \/ q.req \in KeyRequests /\ LeftOf(q) = 12
           \/ q.req = "upgrade" /\ LeftOf(q) = 10
           \/ q.req = "login" /\ LeftOf(q) = 6
           \/ q.req = "logout" /\ LeftOf(q) = 6
    BY AtLock
  <1>2. \A s : Advanced(q, s) => LeftOf(s) = LeftOf(q) - 1 /\ s.req = q.req
    BY <1>1, AdvancedIs
  <1>3. CASE q.req = "password" /\ LeftOf(q) = 7
    <2>1. Head(q.todo) = <<"lock", "users">>
      BY <1>1, <1>3, PasswordSteps, Zenon DEF PasswordStep
    <2> QED
      BY <1>1, <1>2, <1>3, <2>1 DEF HoldsLock, LockNames, KeyRequests, SessionRequests
  <1>4. CASE q.req \in KeyRequests /\ LeftOf(q) = 12
    <2>1. Head(q.todo) = <<"lock", "users">>
      BY <1>1, <1>4, KeysSteps, Zenon DEF KeysStep
    <2> QED
      BY <1>1, <1>2, <1>4, <2>1 DEF HoldsLock, LockNames, KeyRequests, SessionRequests
  <1>5. CASE q.req = "upgrade" /\ LeftOf(q) = 10
    <2>1. Head(q.todo) = <<"lock", "upgrade">>
      BY <1>1, <1>5, UpgradeSteps, Zenon DEF UpgradeStep
    <2> QED
      BY <1>1, <1>2, <1>5, <2>1 DEF HoldsLock, LockNames, KeyRequests, SessionRequests
  <1>6. CASE q.req = "login" /\ LeftOf(q) = 6
    <2>1. Head(q.todo) = <<"lock", "sessions">>
      BY <1>1, <1>6, LoginSteps, Zenon DEF LoginStep
    <2> QED
      BY <1>1, <1>2, <1>6, <2>1 DEF HoldsLock, LockNames, KeyRequests, SessionRequests
  <1>7. CASE q.req = "logout" /\ LeftOf(q) = 6
    <2>1. Head(q.todo) = <<"lock", "sessions">>
      BY <1>1, <1>7, LogoutSteps, Zenon DEF LogoutStep
    <2> QED
      BY <1>1, <1>2, <1>7, <2>1 DEF HoldsLock, LockNames, KeyRequests, SessionRequests
  <1> QED
    BY <1>1, <1>3, <1>4, <1>5, <1>6, <1>7

LEMMA HeldKept ==
    ASSUME NEW w, NEW q, OnProgram(w, q), ~AtOp(q, "lock"), NEW s, Moves(w, q, s), NEW l, HoldsLock(s, l)
    PROVE  HoldsLock(q, l)
  <1>1. CASE s = Idler \/ Accepted(s)
    <2>1. LeftOf(s) = 0 \/ LeftOf(s) = -1
      BY <1>1, IdlerIs, AcceptedIs
    <2> QED
      BY <2>1 DEF HoldsLock
  <1>2. CASE q.req \in WebRequests /\ Routed(w, q, s)
    BY <1>2, RoutedIs DEF HoldsLock, Size, KeyRequests, SessionRequests
  <1>3. CASE Running(w, q) /\ q.req = "logout" /\ LeftOf(q) = 4 /\ Jumped(q, s)
    <2>1. LeftOf(s) = 1 /\ s.req = "logout"
      BY <1>3, JumpedIs
    <2> QED
      BY <1>3, <2>1 DEF HoldsLock, KeyRequests, SessionRequests
  <1>4. CASE Running(w, q) /\ Advanced(q, s)
    <2>1. LeftOf(s) = LeftOf(q) - 1 /\ s.req = q.req
      BY <1>4, AdvancedIs
    <2>2. Op(q) # "lock"
      BY <1>4, NextStep DEF AtOp, StepFacts
    <2>3. InProgram(q)
      BY <1>4, OpsOf
    <2>4. LeftOf(q) \in Nat
      BY <1>4, EveryProgram DEF Running
    <2>5. q.req = "password" => LeftOf(q) # 7
      BY <2>2, <2>3, <1>4, PasswordOpsAre DEF PasswordOps
    <2>6. q.req \in KeyRequests => LeftOf(q) # 12
      BY <2>2, <2>3, <1>4, KeysOpsAre DEF KeysOps
    <2>7. q.req = "upgrade" => LeftOf(q) # 10
      BY <2>2, <2>3, <1>4, UpgradeOpsAre DEF UpgradeOps
    <2>8. q.req \in SessionRequests => LeftOf(q) # 6
      BY <2>2, <2>3, <1>4, LoginOpsAre, LogoutOpsAre DEF LoginOps, LogoutOps, SessionRequests
    <2> QED
      BY <2>1, <2>4, <2>5, <2>6, <2>7, <2>8 DEF HoldsLock
  <1> QED
    BY <1>1, <1>2, <1>3, <1>4 DEF Moves

\* The moves of each action.
MovedOn(w) == \E s : TurnsTo(w, s) /\ Moves(w, worker[w], s)

LEMMA ContinueMoves ==
    ASSUME NEW w \in Workers, WorkersOK, NEW op, op # "auth", AtStep(w, op), Continue(w)
    PROVE  MovedOn(w)
  <1>1. Running(w, worker[w])
    BY AtStepIs, NotAuth DEF WorkersOK
  <1>2. TurnsTo(w, Rec(worker[w].req, worker[w].arg, Tail(worker[w].todo), worker[w].copy, worker[w].list))
    BY ContinueIs
  <1> QED
    BY <1>1, <1>2 DEF MovedOn, Moves, Advanced

LEMMA GotoMoves ==
    ASSUME NEW w \in Workers, WorkersOK, NEW op, op # "auth", AtStep(w, op), NEW c, Goto(w, Tail(worker[w].todo), c)
    PROVE  MovedOn(w)
  <1>1. Running(w, worker[w])
    BY AtStepIs, NotAuth DEF WorkersOK
  <1>2. TurnsTo(w, Rec(worker[w].req, worker[w].arg, Tail(worker[w].todo), c, worker[w].list))
    BY GotoIs
  <1> QED
    BY <1>1, <1>2 DEF MovedOn, Moves, Advanced

LEMMA WithListMoves ==
    ASSUME NEW w \in Workers, WorkersOK, NEW op, op # "auth", AtStep(w, op), NEW l, WithList(w, l)
    PROVE  MovedOn(w)
  <1>1. Running(w, worker[w])
    BY AtStepIs, NotAuth DEF WorkersOK
  <1>2. TurnsTo(w, Rec(worker[w].req, worker[w].arg, Tail(worker[w].todo), worker[w].copy, l))
    BY WithListIs
  <1> QED
    BY <1>1, <1>2 DEF MovedOn, Moves, Advanced

LEMMA StopMoves ==
    ASSUME NEW w \in Workers, Stop(w)
    PROVE  MovedOn(w)
  BY StopIs DEF MovedOn, Moves

LEMMA ConnectMoves ==
    ASSUME NEW w \in Workers, WorkersOK, Connect(w)
    PROVE  MovedOn(w)
  <1>1. PICK r \in Requests \cup Changes : Accept(w, r[1], r[2])
    BY DEF Connect
  <1>2. r[1] \in WebRequests
    <2>1. CASE r \in Requests
      BY <2>1 DEF Requests, WebRequests
    <2>2. CASE r \in {<<"password", "">>, <<"config", "">>, <<"reboot", "">>}
      <3>1. r[1] = "password" \/ r[1] = "config" \/ r[1] = "reboot"
        <4>1. r = <<"password", "">> \/ r = <<"config", "">> \/ r = <<"reboot", "">>
          BY <2>2
        <4>2. \A a, b, t : t = <<a, b>> => t[1] = a
          OBVIOUS
        <4> QED
          BY <4>1, <4>2, Zenon
      <3> QED
        BY <3>1 DEF WebRequests
    <2>3. CASE r \in {<<"add_key", k>> : k \in Keys} \cup {<<"remove_key", k>> : k \in Keys}
      BY <2>3 DEF WebRequests
    <2>4. CASE r \in {<<"parameters", s>> : s \in Settings}
      BY <2>4 DEF WebRequests
    <2>5. CASE r \in {<<"upgrade", i>> : i \in Images} \cup {<<"delete", i>> : i \in Images}
      BY <2>5 DEF WebRequests
    <2> QED
      BY <2>1, <2>2, <2>3, <2>4, <2>5 DEF Changes
  <1>3. TurnsTo(w, Rec(r[1], r[2], Auth, {}, <<>>)) /\ worker[w].todo = <<>>
    BY <1>1 DEF Accept, TurnsTo, Rec, Auth, Spare
  <1>4. LeftOf(worker[w]) = 0
    BY <1>3, AuthFacts DEF LeftOf
  <1> QED
    BY <1>2, <1>3, <1>4 DEF MovedOn, Moves, Accepted

LEMMA AuthenticateMoves ==
    ASSUME NEW w \in Workers, WorkersOK, authenticate(w)
    PROVE  MovedOn(w)
  <1>1. worker[w].req \in WebRequests /\ LeftOf(worker[w]) = -1
    BY AtStepIs, AtAuth DEF authenticate, WorkersOK
  <1>2. Goto(w, Program(w, worker[w].req, worker[w].arg), {}) \/ Stop(w)
    BY DEF authenticate
  <1> QED
    BY <1>1, <1>2, GotoIs, StopMoves DEF MovedOn, Moves, Routed

LEMMA EditSessionsMoves ==
    ASSUME NEW w \in Workers, WorkersOK, EditSessions(w)
    PROVE  MovedOn(w)
  <1>1. CASE \E op \in {"add", "drop"} : AtStep(w, op) /\ \E l : WithList(w, l)
    BY <1>1, WithListMoves
  <1>2. CASE AtStep(w, "drop") /\ Goto(w, <<Last(worker[w].todo)>>, worker[w].copy)
    <2>1. Running(w, worker[w]) /\ worker[w].req = "logout" /\ LeftOf(worker[w]) = 4
      BY <1>2, AtStepIs, AtDrop DEF WorkersOK
    <2>2. TurnsTo(w, Rec(worker[w].req, worker[w].arg, <<Last(worker[w].todo)>>, worker[w].copy, worker[w].list))
      BY <1>2, GotoIs
    <2> QED
      BY <2>1, <2>2 DEF MovedOn, Moves, Jumped
  <1> QED
    BY <1>1, <1>2 DEF EditSessions

LEMMA FileStepOp ==
    ASSUME NEW w, FileStep(w)
    PROVE  \E op : AtStep(w, op) /\ op \in {"write", "fsync", "create", "copy", "rename", "sync_dir", "sync", "mine", "serve"}
  BY DEF FileStep

\* Every step of a worker but the reboot is one of the moves.
LEMMA StepMoves ==
    ASSUME NEW w \in Workers, WorkersOK, Connect(w) \/ (WorkerStep(w) /\ ~Reboot(w)) \/ Fail(w)
    PROVE  MovedOn(w)
  <1>1. CASE Lock(w)
    BY <1>1, ContinueMoves DEF Lock
  <1>2. CASE Unlock(w)
    BY <1>2, ContinueMoves DEF Unlock
  <1>3. CASE load_sessions(w)
    BY <1>3, WithListMoves DEF load_sessions
  <1>4. CASE Truncate(w)
    BY <1>4, ContinueMoves DEF Truncate
  <1>5. CASE Store(w)
    BY <1>5, ContinueMoves DEF Store
  <1>6. CASE Read(w)
    <2>1. PICK op \in {"read", "copy"} : AtStep(w, op)
      BY <1>6 DEF Read
    <2>2. (AtStep(w, "read") /\ \E c : Goto(w, Tail(worker[w].todo), c)) \/ Stop(w)
      BY <1>6 DEF Read, GiveUp
    <2> QED
      BY <2>1, <2>2, GotoMoves, StopMoves
  <1>7. CASE Edit(w)
    <2>1. PICK op \in {"edit_keys", "edit_config", "new_config", "new_password"} : AtStep(w, op)
      BY <1>7 DEF Edit
    <2>2. (\E c : Goto(w, Tail(worker[w].todo), c)) \/ Stop(w)
      BY <1>7 DEF Edit, GiveUp
    <2> QED
      BY <2>1, <2>2, GotoMoves, StopMoves
  <1>8. CASE FileStep(w)
    BY <1>8, FileStepOp, ContinueMoves DEF FileStep
  <1>9. CASE CheckImage(w)
    BY <1>9, ContinueMoves, StopMoves DEF CheckImage
  <1>10. CASE Publish(w)
    BY <1>10, ContinueMoves, StopMoves DEF Publish, GiveUp
  <1>11. CASE Delete(w)
    BY <1>11, ContinueMoves DEF Delete
  <1>12. CASE Fail(w)
    BY <1>12, StopMoves DEF Fail, GiveUp
  <1> QED
    BY <1>1, <1>2, <1>3, <1>4, <1>5, <1>6, <1>7, <1>8, <1>9, <1>10, <1>11, <1>12,
       ConnectMoves, AuthenticateMoves, EditSessionsMoves DEF WorkerStep

\* What each action does with the locks.
LockKeeps(w) == UNCHANGED lock /\ ~AtStep(w, "lock")
Frees(w) == TurnsTo(w, Idler) /\ lock' = Unlocked(w)

LEMMA OneOp == ASSUME NEW w, NEW o1, NEW o2, AtStep(w, o1), AtStep(w, o2) PROVE o1 = o2
  BY DEF AtStep

LEMMA LockCases ==
    ASSUME NEW w \in Workers, Connect(w) \/ (WorkerStep(w) /\ ~Reboot(w)) \/ Fail(w)
    PROVE  LockKeeps(w) \/ Lock(w) \/ Unlock(w) \/ Frees(w)
  <1>1. CASE Connect(w)
    <2>1. UNCHANGED lock /\ Spare(w)
      BY <1>1 DEF Connect, Accept
    <2> QED
      BY <2>1 DEF LockKeeps, AtStep
  <1>2. CASE authenticate(w) \/ load_sessions(w) \/ EditSessions(w) \/ Truncate(w) \/ Store(w) \/ Delete(w)
    <2>1. UNCHANGED lock
      BY <1>2 DEF authenticate, load_sessions, EditSessions, Truncate, Store, Delete
    <2>2. \E op \in {"auth", "load", "add", "drop", "truncate", "store", "delete"} : AtStep(w, op)
      BY <1>2 DEF authenticate, load_sessions, EditSessions, Truncate, Store, Delete
    <2> QED
      BY <2>1, <2>2, OneOp DEF LockKeeps
  <1>3. CASE Edit(w) \/ Read(w)
    <2>1. \E op \in {"edit_keys", "edit_config", "new_config", "new_password", "read", "copy"} : AtStep(w, op)
      BY <1>3 DEF Edit, Read
    <2>2. UNCHANGED lock \/ GiveUp(w)
      BY <1>3 DEF Edit, Read
    <2> QED
      BY <2>1, <2>2, OneOp, StopIs DEF LockKeeps, Frees, GiveUp
  <1>4. CASE FileStep(w)
    BY <1>4, FileStepOp, OneOp DEF FileStep, LockKeeps
  <1>5. CASE CheckImage(w) \/ Publish(w)
    <2>1. AtStep(w, "check_image") \/ AtStep(w, "publish")
      BY <1>5 DEF CheckImage, Publish
    <2>2. UNCHANGED lock \/ (Stop(w) /\ lock' = Unlocked(w))
      BY <1>5 DEF CheckImage, Publish, GiveUp
    <2> QED
      BY <2>1, <2>2, OneOp, StopIs DEF LockKeeps, Frees
  <1>6. CASE Fail(w)
    BY <1>6, StopIs DEF Fail, GiveUp, Frees
  <1> QED
    BY <1>1, <1>2, <1>3, <1>4, <1>5, <1>6 DEF WorkerStep

LEMMA StepLocks ==
    ASSUME NEW w \in Workers, WorkersOK, LocksOK, Connect(w) \/ (WorkerStep(w) /\ ~Reboot(w)) \/ Fail(w)
    PROVE  LocksOK'
  <1>1. PICK s : TurnsTo(w, s) /\ Moves(w, worker[w], s)
    BY StepMoves DEF MovedOn
  <1>2. worker'[w] = s /\ \A v \in Workers \ {w} : worker'[v] = worker[v]
    BY <1>1, BecomesIs
  <1>3. OnProgram(w, worker[w])
    BY DEF WorkersOK
  <1>4. \A v \in Workers, l \in LockNames : HoldsLock(worker[v], l) => lock[l] = v
    BY DEF LocksOK
  <1>5. "free" \notin Workers
    BY WebAccessAssumption
  <1>6. CASE LockKeeps(w)
    <2>1. \A l : HoldsLock(s, l) => HoldsLock(worker[w], l)
      BY <1>1, <1>3, <1>6, HeldKept, AtStepIs DEF LockKeeps
    <2> QED
      BY <1>2, <1>4, <1>6, <2>1 DEF LockKeeps, LocksOK
  <1>7. CASE Lock(w)
    <2> DEFINE k == Head(worker[w].todo)[2]
    <2>1. AtOp(worker[w], "lock") /\ lock[k] = "free" /\ lock' = [lock EXCEPT ![k] = w] /\ Continue(w)
      BY <1>7, AtStepIs DEF Lock, Step
    <2>2. /\ Running(w, worker[w]) /\ k \in LockNames
          /\ \A t, l : Advanced(worker[w], t) /\ HoldsLock(t, l) => l = k
      BY <2>1, <1>3, LockTarget
    <2>3. Advanced(worker[w], s)
      BY <1>2, <2>1, ContinueIs, BecomesIs DEF Advanced
    <2> HIDE DEF k
    <2>4. lock' = [l \in LockNames |-> lock'[l]] /\ lock'[k] = w /\ \A l \in LockNames \ {k} : lock'[l] = lock[l]
      BY <2>1, <2>2 DEF LocksOK
    <2>5. ASSUME NEW v \in Workers, NEW l \in LockNames, HoldsLock(worker'[v], l)
          PROVE  lock'[l] = v
      <3>1. CASE v = w
        BY <1>2, <2>2, <2>3, <2>4, <2>5, <3>1
      <3>2. CASE v # w
        <4>1. lock[l] = v
          BY <1>2, <1>4, <2>5, <3>2
        <4>2. l # k
          BY <4>1, <2>1, <1>5 DEF k
        <4> QED
          BY <4>1, <4>2, <2>4
      <3> QED
        BY <3>1, <3>2
    <2> QED
      BY <2>4, <2>5 DEF LocksOK
  <1>8. CASE Unlock(w)
    <2>1. ~HoldsLock(s, "users") /\ ~HoldsLock(s, "sessions") /\ ~HoldsLock(s, "upgrade")
      <3>1. LeftOf(worker[w]) = 1 /\ Running(w, worker[w])
        BY <1>3, <1>8, AtStepIs, AtUnlock DEF Unlock
      <3>2. Continue(w)
        BY <1>8 DEF Unlock
      <3>3. Advanced(worker[w], s)
        BY <1>2, <3>2, ContinueIs, BecomesIs DEF Advanced
      <3>4. LeftOf(s) = 0
        BY <3>1, <3>3, AdvancedIs
      <3> QED
        BY <3>4 DEF HoldsLock
    <2>2. lock' = [l \in LockNames |-> lock'[l]]
          /\ \A l \in LockNames : lock[l] # w => lock'[l] = lock[l]
      BY <1>8 DEF Unlock, LocksOK
    <2> QED
      BY <1>2, <1>4, <2>1, <2>2 DEF LocksOK, LockNames
  <1>9. CASE Frees(w)
    <2>1. s = Idler
      BY <1>9, <1>2, BecomesIs DEF Frees
    <2>2. \A l : ~HoldsLock(s, l)
      BY <2>1, IdlerIs DEF HoldsLock
    <2>3. lock' = [l \in LockNames |-> lock'[l]]
          /\ \A l \in LockNames : lock[l] # w => lock'[l] = lock[l]
      BY <1>9 DEF Frees, Unlocked, LocksOK
    <2> QED
      BY <1>2, <1>4, <2>2, <2>3 DEF LocksOK
  <1> QED
    BY <1>6, <1>7, <1>8, <1>9, LockCases

LEMMA RestartIdles ==
    ASSUME NEW left, Restarted(left)
    PROVE  worker' = [v \in Workers |-> Idler]
  BY DEF Restarted, Idler, Rec

LEMMA RestartLocks ==
    ASSUME NEW left, Restarted(left), LocksOK
    PROVE  LocksOK' /\ WorkersOK'
  <1>1. worker' = [v \in Workers |-> Idler]
    BY RestartIdles
  <1>2. lock' = [l \in LockNames |-> lock'[l]]
    BY DEF Restarted, LocksOK
  <1>3. \A l : ~HoldsLock(Idler, l)
    BY IdlerIs DEF HoldsLock
  <1>4. \A v : OnProgram(v, Idler)
    BY IdlerIs DEF OnProgram
  <1> QED
    BY <1>1, <1>2, <1>3, <1>4 DEF LocksOK, WorkersOK

LEMMA NextCases ==
    ASSUME AccessNext
    PROVE  \/ Tick
           \/ \E left : Restarted(left)
           \/ \E w \in Workers : Connect(w) \/ (WorkerStep(w) /\ ~Reboot(w)) \/ Fail(w)
  BY DEF AccessNext, PowerCut, Reboot, WorkerStep

LEMMA WorkersAndLocks == AccessSpec => [](WorkersOK /\ LocksOK)
  <1>1. AccessInit => WorkersOK /\ LocksOK
    <2> SUFFICES ASSUME AccessInit PROVE WorkersOK /\ LocksOK
      OBVIOUS
    <2>1. worker = [v \in Workers |-> Idler]
      BY DEF AccessInit, Idler, Rec
    <2>2. lock = [l \in LockNames |-> lock[l]]
      BY DEF AccessInit, LockNames
    <2>3. \A l : ~HoldsLock(Idler, l)
      BY IdlerIs DEF HoldsLock
    <2>4. \A v : OnProgram(v, Idler)
      BY IdlerIs DEF OnProgram
    <2> QED
      BY <2>1, <2>2, <2>3, <2>4 DEF LocksOK, WorkersOK
  <1>2. WorkersOK /\ LocksOK /\ [AccessNext]_accessVars => (WorkersOK /\ LocksOK)'
    <2> SUFFICES ASSUME WorkersOK, LocksOK, [AccessNext]_accessVars PROVE (WorkersOK /\ LocksOK)'
      OBVIOUS
    <2>1. CASE UNCHANGED <<worker, lock>>
      BY <2>1 DEF WorkersOK, LocksOK
    <2>2. CASE \E left : Restarted(left)
      BY <2>2, RestartLocks
    <2>3. ASSUME NEW w \in Workers, Connect(w) \/ (WorkerStep(w) /\ ~Reboot(w)) \/ Fail(w)
          PROVE  (WorkersOK /\ LocksOK)'
      <3>1. WorkersOK'
        BY <2>3, StepMoves, MovesKeepPrograms DEF MovedOn
      <3>2. LocksOK'
        BY <2>3, StepLocks
      <3> QED
        BY <3>1, <3>2
    <2> QED
      BY <2>1, <2>2, <2>3, NextCases DEF Tick, accessVars
  <1> QED
    BY <1>1, <1>2, PTL DEF AccessSpec

-----------------------------------------------------------------------------
(* Files *)

FilesOK == file = [f \in Files |-> file[f]] /\ after = [f \in Files |-> after[f]]
ImageFiles(i) == {Image(i), ImageTemp(i)}

LEMMA FileNames ==
    /\ \A w \in Workers : Temp(w) \in Files
    /\ \A i \in Images : Image(i) \in Files /\ ImageTemp(i) \in Files
    /\ Password \in Files /\ KeyFile \in Files /\ Config \in Files /\ Backup \in Files /\ Runtime \in Files
  BY DEF Files, Temp, Image, ImageTemp, Password, KeyFile, Config, Backup, Runtime

LEMMA PairsDiffer == \A a, b, c, d : <<a, b>> = <<c, d>> => a = c /\ b = d
  OBVIOUS

LEMMA FixedNames ==
    /\ Password # KeyFile /\ Password # Config /\ Password # Backup /\ Password # Runtime
    /\ KeyFile # Config /\ KeyFile # Backup /\ KeyFile # Runtime
    /\ Config # Backup /\ Config # Runtime /\ Backup # Runtime
  <1>1. "password" # "keys" /\ "password" # "config" /\ "password" # "backup" /\ "password" # "runtime"
        /\ "keys" # "config" /\ "keys" # "backup" /\ "keys" # "runtime"
        /\ "config" # "backup" /\ "config" # "runtime" /\ "backup" # "runtime"
    OBVIOUS
  <1> QED
    BY <1>1, PairsDiffer, Zenon DEF Password, KeyFile, Config, Backup, Runtime

LEMMA TempNames ==
    /\ \A w : Temp(w) # Password /\ Temp(w) # KeyFile /\ Temp(w) # Config /\ Temp(w) # Backup /\ Temp(w) # Runtime
    /\ \A w, i : Temp(w) # Image(i) /\ Temp(w) # ImageTemp(i)
    /\ \A v, w : Temp(v) = Temp(w) => v = w
  <1>1. "temp" # "password" /\ "temp" # "keys" /\ "temp" # "config" /\ "temp" # "backup" /\ "temp" # "runtime"
        /\ "temp" # "image" /\ "temp" # "image_temp"
    OBVIOUS
  <1> QED
    BY <1>1, PairsDiffer, Zenon DEF Password, KeyFile, Config, Backup, Runtime, Temp, Image, ImageTemp

LEMMA ImageNames ==
    /\ \A i : Image(i) # Password /\ Image(i) # KeyFile /\ Image(i) # Config /\ Image(i) # Backup /\ Image(i) # Runtime
    /\ \A i : ImageTemp(i) # Password /\ ImageTemp(i) # KeyFile /\ ImageTemp(i) # Config /\ ImageTemp(i) # Backup
              /\ ImageTemp(i) # Runtime
    /\ \A i, j : Image(i) # ImageTemp(j)
    /\ \A i, j : Image(i) = Image(j) => i = j
    /\ \A i, j : ImageTemp(i) = ImageTemp(j) => i = j
  <1>1. "image" # "password" /\ "image" # "keys" /\ "image" # "config" /\ "image" # "backup" /\ "image" # "runtime"
        /\ "image_temp" # "password" /\ "image_temp" # "keys" /\ "image_temp" # "config" /\ "image_temp" # "backup"
        /\ "image_temp" # "runtime" /\ "image" # "image_temp"
    OBVIOUS
  <1> QED
    BY <1>1, PairsDiffer, Zenon DEF Password, KeyFile, Config, Backup, Runtime, Image, ImageTemp

\* The contents a worker may leave.
LEMMA Contents ==
    /\ Absent # Torn /\ Whole({}) /\ Whole({"new"}) /\ Whole({"old"}) /\ Whole({Root})
    /\ \A i \in Images : {i} # Absent /\ {i} # Torn
    /\ \A c : c \subseteq Keys /\ c # {} => Whole(c)
    /\ \A c, s : s \in Settings => Whole(c \cup {s})
  <1>1. "torn" \notin Keys \cup Images /\ "absent" \notin Keys \cup Images /\ Root \in Keys
    BY WebAccessAssumption
  <1>2. "torn" # "absent" /\ "new" # "torn" /\ "new" # "absent" /\ "old" # "torn" /\ "old" # "absent"
        /\ "rate" # "torn" /\ "rate" # "absent" /\ "port" # "torn" /\ "port" # "absent"
    OBVIOUS
  <1>3. \A c : c \subseteq Keys /\ c # {} => Whole(c)
    BY <1>1 DEF Whole, Absent, Torn
  <1>4. \A c, s : s \in Settings => Whole(c \cup {s})
    BY <1>2 DEF Whole, Absent, Torn, Settings
  <1>5. Whole({}) /\ Whole({"new"}) /\ Whole({"old"}) /\ Absent # Torn
    BY <1>2 DEF Whole, Absent, Torn
  <1>6. \A i \in Images : {i} # Absent /\ {i} # Torn
    BY <1>1 DEF Absent, Torn
  <1>7. Whole({Root})
    BY <1>1, <1>3
  <1> QED
    BY <1>3, <1>4, <1>5, <1>6, <1>7

Untouched(f) == file'[f] = file[f] /\ after'[f] = after[f]

LEMMA PutIs ==
    ASSUME FilesOK, NEW f \in Files, NEW c, NEW left, SetFile(f, c, left)
    PROVE  /\ FilesOK' /\ file'[f] = c /\ after'[f] = left
           /\ \A g \in Files \ {f} : Untouched(g)
  BY DEF FilesOK, SetFile, Untouched

Renames(a, b) ==
    /\ file' = [file EXCEPT ![b] = file[a], ![a] = Absent]
    /\ after' = [after EXCEPT ![b] = @ \cup (after[a] \ {Absent}), ![a] = {Absent, Torn}]

LEMMA RenamesIs ==
    ASSUME FilesOK, NEW a \in Files, NEW b \in Files, a # b, Renames(a, b)
    PROVE  /\ FilesOK' /\ file'[b] = file[a] /\ after'[b] = after[b] \cup (after[a] \ {Absent})
           /\ file'[a] = Absent /\ after'[a] = {Absent, Torn}
           /\ \A g \in Files \ {a, b} : Untouched(g)
  BY DEF FilesOK, Renames, Untouched

LEMMA GiveUpFiles ==
    ASSUME NEW w \in Workers, WorkersOK, FilesOK, GiveUp(w)
    PROVE  /\ FilesOK' /\ UNCHANGED after
           /\ \A f \in Files : file'[f] = file[f] \/ (file'[f] = Absent /\ (f = Temp(w) \/ \E i : f = ImageTemp(i)))
           /\ worker'[w] = Idler /\ \A v \in Workers \ {w} : worker'[v] = worker[v]
  BY StopIs, BecomesIs DEF GiveUp, FilesOK, Cleaned, Scratch

\* The action that each call stands for.
LEMMA ActionOf ==
    ASSUME NEW w, WorkerStep(w), NEW op, AtStep(w, op)
    PROVE  /\ op = "auth" => authenticate(w)
           /\ op = "lock" => Lock(w)
           /\ op = "unlock" => Unlock(w)
           /\ op = "load" => load_sessions(w)
           /\ op \in {"add", "drop"} => EditSessions(w)
           /\ op = "truncate" => Truncate(w)
           /\ op = "store" => Store(w)
           /\ op = "read" => Read(w)
           /\ op \in {"edit_keys", "edit_config", "new_config", "new_password"} => Edit(w)
           /\ op \in {"write", "fsync", "create", "rename", "sync_dir", "sync", "mine", "serve"} => FileStep(w)
           /\ op = "copy" => FileStep(w) \/ GiveUp(w)
           /\ op = "check_image" => CheckImage(w)
           /\ op = "publish" => Publish(w)
           /\ op = "delete" => Delete(w)
           /\ op = "reboot" => Reboot(w)
  <1>1. authenticate(w) => op = "auth"
    BY OneOp DEF authenticate
  <1>2. Lock(w) => op = "lock"
    BY OneOp DEF Lock
  <1>3. Unlock(w) => op = "unlock"
    BY OneOp DEF Unlock
  <1>4. load_sessions(w) => op = "load"
    BY OneOp DEF load_sessions
  <1>5. EditSessions(w) => op \in {"add", "drop"}
    BY OneOp DEF EditSessions
  <1>6. Truncate(w) => op = "truncate"
    BY OneOp DEF Truncate
  <1>7. Store(w) => op = "store"
    BY OneOp DEF Store
  <1>8. Read(w) => op = "read" \/ (op = "copy" /\ GiveUp(w))
    BY OneOp DEF Read
  <1>9. Edit(w) => op \in {"edit_keys", "edit_config", "new_config", "new_password"}
    BY OneOp DEF Edit
  <1>10. FileStep(w) => op \in {"write", "fsync", "create", "copy", "rename", "sync_dir", "sync", "mine", "serve"}
    BY OneOp, FileStepOp
  <1>11. CheckImage(w) => op = "check_image"
    BY OneOp DEF CheckImage
  <1>12. Publish(w) => op = "publish"
    BY OneOp DEF Publish
  <1>13. Delete(w) => op = "delete"
    BY OneOp DEF Delete
  <1>14. Reboot(w) => op = "reboot"
    BY OneOp DEF Reboot
  <1> QED
    BY <1>1, <1>2, <1>3, <1>4, <1>5, <1>6, <1>7, <1>8, <1>9, <1>10, <1>11, <1>12, <1>13, <1>14 DEF WorkerStep

\* What a call on a file does.
FileDoes(w, q, op, t) ==
    /\ op = "write" /\ q.req # "upgrade" => SetFile(t[2], q.copy, {Absent, Torn})
    /\ op = "write" /\ q.req = "upgrade" =>
         (Nameless(w) /\ UNCHANGED disk) \/ (~Nameless(w) /\ SetFile(t[2], {q.arg}, {Absent, Torn}))
    /\ op = "fsync" => (Nameless(w) /\ UNCHANGED disk) \/ (~Nameless(w) /\ SetFile(t[2], file[t[2]], {Absent, file[t[2]]}))
    /\ op = "create" => SetFile(t[2], Torn, {Absent, Torn})
    /\ op = "copy" => file[t[2]] # Absent /\ SetFile(t[3], file[t[2]], {Absent, Torn})
    /\ op = "rename" => Renames(t[2], t[3])
    /\ op = "sync_dir" => SetFile(t[2], file[t[2]], {c \in after[t[2]] : c = Torn \/ c = file[t[2]]})
    /\ op = "sync" => after' = [f \in Files |-> {file[f]}] /\ UNCHANGED file
    /\ op \in {"mine", "serve"} => UNCHANGED disk
LEMMA FileStepIs ==
    ASSUME NEW w \in Workers, FileStep(w), NEW op, AtStep(w, op)
    PROVE  /\ Continue(w) /\ UNCHANGED <<sessions, torn, lock, now, ghost, requests, faults>>
           /\ FileDoes(w, worker[w], op, Head(worker[w].todo))
  <1> DEFINE t == Head(worker[w].todo)
  <1>1. Continue(w) /\ UNCHANGED <<sessions, torn, lock, now, ghost, requests, faults>>
    BY DEF FileStep
  <1>2. \A o : AtStep(w, o) => o = op
    BY OneOp
  <1>3. t = Step(w)
    BY DEF Step
  <1>4. op = "write" /\ worker[w].req # "upgrade" => SetFile(t[2], worker[w].copy, {Absent, Torn})
    BY <1>2, <1>3 DEF FileStep, Nameless
  <1>5. op = "write" /\ worker[w].req = "upgrade" =>
                (Nameless(w) /\ UNCHANGED disk) \/ (~Nameless(w) /\ SetFile(t[2], {worker[w].arg}, {Absent, Torn}))
    BY <1>2, <1>3 DEF FileStep
  <1>6. op = "fsync" => (Nameless(w) /\ UNCHANGED disk) \/ (~Nameless(w) /\ SetFile(t[2], file[t[2]], {Absent, file[t[2]]}))
    BY <1>2, <1>3 DEF FileStep
  <1>7. /\ op = "create" => SetFile(t[2], Torn, {Absent, Torn})
        /\ op = "copy" => file[t[2]] # Absent /\ SetFile(t[3], file[t[2]], {Absent, Torn})
    BY <1>2, <1>3 DEF FileStep
  <1>8. op = "rename" => Renames(t[2], t[3])
    BY <1>2, <1>3 DEF FileStep, Renames
  <1>9. /\ op = "sync_dir" => SetFile(t[2], file[t[2]], {c \in after[t[2]] : c = Torn \/ c = file[t[2]]})
        /\ op = "sync" => after' = [f \in Files |-> {file[f]}] /\ UNCHANGED file
        /\ op \in {"mine", "serve"} => UNCHANGED disk
    BY <1>2, <1>3 DEF FileStep
  <1> HIDE DEF t
  <1>10. FileDoes(w, worker[w], op, t)
    BY <1>4, <1>5, <1>6, <1>7, <1>8, <1>9 DEF FileDoes
  <1> QED
    BY <1>1, <1>10 DEF t

-----------------------------------------------------------------------------
(* What has been answered *)

Gh(lg, gr, rv, lv, i, o, u) ==
    [logins |-> lg, granted |-> gr, revoked |-> rv, leaving |-> lv, in |-> i, out |-> o, unsure |-> u]
GhostOK == \E lg, gr, rv, lv, i, o, u : ghost = Gh(lg, gr, rv, lv, i, o, u)

LEMMA GhFields ==
    \A lg, gr, rv, lv, i, o, u :
        LET g == Gh(lg, gr, rv, lv, i, o, u) IN
        /\ g.logins = lg /\ g.granted = gr /\ g.revoked = rv /\ g.leaving = lv
        /\ g.in = i /\ g.out = o /\ g.unsure = u
  BY DEF Gh

LEMMA GhostFits ==
    ASSUME NEW lg, NEW gr, NEW rv, NEW lv, NEW i, NEW o, NEW u, ghost' = Gh(lg, gr, rv, lv, i, o, u)
    PROVE  /\ GhostOK' /\ ghost'.logins = lg /\ ghost'.granted = gr /\ ghost'.revoked = rv /\ ghost'.leaving = lv
           /\ ghost'.in = i /\ ghost'.out = o /\ ghost'.unsure = u
  <1>1. /\ ghost'.logins = lg /\ ghost'.granted = gr /\ ghost'.revoked = rv /\ ghost'.leaving = lv
        /\ ghost'.in = i /\ ghost'.out = o /\ ghost'.unsure = u
    BY GhFields
  <1> QED
    BY <1>1, Zenon DEF GhostOK

LEMMA GhLogins == \A lg, gr, rv, lv, i, o, u, x :
    [Gh(lg, gr, rv, lv, i, o, u) EXCEPT !.logins = x] = Gh(x, gr, rv, lv, i, o, u)
  BY DEF Gh
LEMMA SetLogins ==
    ASSUME GhostOK, NEW x, ghost' = [ghost EXCEPT !.logins = x]
    PROVE  GhostOK' /\ ghost'.logins = x /\ ghost'.granted = ghost.granted /\ ghost'.revoked = ghost.revoked /\ ghost'.leaving = ghost.leaving /\ ghost'.in = ghost.in /\ ghost'.out = ghost.out /\ ghost'.unsure = ghost.unsure
  <1>1. PICK lg, gr, rv, lv, i, o, u : ghost = Gh(lg, gr, rv, lv, i, o, u)
    BY Zenon DEF GhostOK
  <1>2. ghost' = Gh(x, gr, rv, lv, i, o, u)
    BY <1>1, GhLogins
  <1>3. ghost.logins = lg /\ ghost.granted = gr /\ ghost.revoked = rv /\ ghost.leaving = lv
        /\ ghost.in = i /\ ghost.out = o /\ ghost.unsure = u
    BY <1>1, GhFields
  <1>4. GhostOK' /\ ghost'.logins = x /\ ghost'.granted = gr /\ ghost'.revoked = rv /\ ghost'.leaving = lv /\ ghost'.in = i /\ ghost'.out = o /\ ghost'.unsure = u
    BY <1>2, GhostFits
  <1> QED
    BY <1>3, <1>4

LEMMA GhGranted == \A lg, gr, rv, lv, i, o, u, x :
    [Gh(lg, gr, rv, lv, i, o, u) EXCEPT !.granted = x] = Gh(lg, x, rv, lv, i, o, u)
  BY DEF Gh
LEMMA SetGranted ==
    ASSUME GhostOK, NEW x, ghost' = [ghost EXCEPT !.granted = x]
    PROVE  GhostOK' /\ ghost'.granted = x /\ ghost'.logins = ghost.logins /\ ghost'.revoked = ghost.revoked /\ ghost'.leaving = ghost.leaving /\ ghost'.in = ghost.in /\ ghost'.out = ghost.out /\ ghost'.unsure = ghost.unsure
  <1>1. PICK lg, gr, rv, lv, i, o, u : ghost = Gh(lg, gr, rv, lv, i, o, u)
    BY Zenon DEF GhostOK
  <1>2. ghost' = Gh(lg, x, rv, lv, i, o, u)
    BY <1>1, GhGranted
  <1>3. ghost.logins = lg /\ ghost.granted = gr /\ ghost.revoked = rv /\ ghost.leaving = lv
        /\ ghost.in = i /\ ghost.out = o /\ ghost.unsure = u
    BY <1>1, GhFields
  <1>4. GhostOK' /\ ghost'.granted = x /\ ghost'.logins = lg /\ ghost'.revoked = rv /\ ghost'.leaving = lv /\ ghost'.in = i /\ ghost'.out = o /\ ghost'.unsure = u
    BY <1>2, GhostFits
  <1> QED
    BY <1>3, <1>4

LEMMA GhRevoked == \A lg, gr, rv, lv, i, o, u, x :
    [Gh(lg, gr, rv, lv, i, o, u) EXCEPT !.revoked = x] = Gh(lg, gr, x, lv, i, o, u)
  BY DEF Gh
LEMMA SetRevoked ==
    ASSUME GhostOK, NEW x, ghost' = [ghost EXCEPT !.revoked = x]
    PROVE  GhostOK' /\ ghost'.revoked = x /\ ghost'.logins = ghost.logins /\ ghost'.granted = ghost.granted /\ ghost'.leaving = ghost.leaving /\ ghost'.in = ghost.in /\ ghost'.out = ghost.out /\ ghost'.unsure = ghost.unsure
  <1>1. PICK lg, gr, rv, lv, i, o, u : ghost = Gh(lg, gr, rv, lv, i, o, u)
    BY Zenon DEF GhostOK
  <1>2. ghost' = Gh(lg, gr, x, lv, i, o, u)
    BY <1>1, GhRevoked
  <1>3. ghost.logins = lg /\ ghost.granted = gr /\ ghost.revoked = rv /\ ghost.leaving = lv
        /\ ghost.in = i /\ ghost.out = o /\ ghost.unsure = u
    BY <1>1, GhFields
  <1>4. GhostOK' /\ ghost'.revoked = x /\ ghost'.logins = lg /\ ghost'.granted = gr /\ ghost'.leaving = lv /\ ghost'.in = i /\ ghost'.out = o /\ ghost'.unsure = u
    BY <1>2, GhostFits
  <1> QED
    BY <1>3, <1>4

LEMMA GhLeaving == \A lg, gr, rv, lv, i, o, u, x :
    [Gh(lg, gr, rv, lv, i, o, u) EXCEPT !.leaving = x] = Gh(lg, gr, rv, x, i, o, u)
  BY DEF Gh
LEMMA SetLeaving ==
    ASSUME GhostOK, NEW x, ghost' = [ghost EXCEPT !.leaving = x]
    PROVE  GhostOK' /\ ghost'.leaving = x /\ ghost'.logins = ghost.logins /\ ghost'.granted = ghost.granted /\ ghost'.revoked = ghost.revoked /\ ghost'.in = ghost.in /\ ghost'.out = ghost.out /\ ghost'.unsure = ghost.unsure
  <1>1. PICK lg, gr, rv, lv, i, o, u : ghost = Gh(lg, gr, rv, lv, i, o, u)
    BY Zenon DEF GhostOK
  <1>2. ghost' = Gh(lg, gr, rv, x, i, o, u)
    BY <1>1, GhLeaving
  <1>3. ghost.logins = lg /\ ghost.granted = gr /\ ghost.revoked = rv /\ ghost.leaving = lv
        /\ ghost.in = i /\ ghost.out = o /\ ghost.unsure = u
    BY <1>1, GhFields
  <1>4. GhostOK' /\ ghost'.leaving = x /\ ghost'.logins = lg /\ ghost'.granted = gr /\ ghost'.revoked = rv /\ ghost'.in = i /\ ghost'.out = o /\ ghost'.unsure = u
    BY <1>2, GhostFits
  <1> QED
    BY <1>3, <1>4

LEMMA GhIn == \A lg, gr, rv, lv, i, o, u, x :
    [Gh(lg, gr, rv, lv, i, o, u) EXCEPT !.in = x] = Gh(lg, gr, rv, lv, x, o, u)
  BY DEF Gh
LEMMA SetIn ==
    ASSUME GhostOK, NEW x, ghost' = [ghost EXCEPT !.in = x]
    PROVE  GhostOK' /\ ghost'.in = x /\ ghost'.logins = ghost.logins /\ ghost'.granted = ghost.granted /\ ghost'.revoked = ghost.revoked /\ ghost'.leaving = ghost.leaving /\ ghost'.out = ghost.out /\ ghost'.unsure = ghost.unsure
  <1>1. PICK lg, gr, rv, lv, i, o, u : ghost = Gh(lg, gr, rv, lv, i, o, u)
    BY Zenon DEF GhostOK
  <1>2. ghost' = Gh(lg, gr, rv, lv, x, o, u)
    BY <1>1, GhIn
  <1>3. ghost.logins = lg /\ ghost.granted = gr /\ ghost.revoked = rv /\ ghost.leaving = lv
        /\ ghost.in = i /\ ghost.out = o /\ ghost.unsure = u
    BY <1>1, GhFields
  <1>4. GhostOK' /\ ghost'.in = x /\ ghost'.logins = lg /\ ghost'.granted = gr /\ ghost'.revoked = rv /\ ghost'.leaving = lv /\ ghost'.out = o /\ ghost'.unsure = u
    BY <1>2, GhostFits
  <1> QED
    BY <1>3, <1>4

LEMMA GhOut == \A lg, gr, rv, lv, i, o, u, x :
    [Gh(lg, gr, rv, lv, i, o, u) EXCEPT !.out = x] = Gh(lg, gr, rv, lv, i, x, u)
  BY DEF Gh
LEMMA SetOut ==
    ASSUME GhostOK, NEW x, ghost' = [ghost EXCEPT !.out = x]
    PROVE  GhostOK' /\ ghost'.out = x /\ ghost'.logins = ghost.logins /\ ghost'.granted = ghost.granted /\ ghost'.revoked = ghost.revoked /\ ghost'.leaving = ghost.leaving /\ ghost'.in = ghost.in /\ ghost'.unsure = ghost.unsure
  <1>1. PICK lg, gr, rv, lv, i, o, u : ghost = Gh(lg, gr, rv, lv, i, o, u)
    BY Zenon DEF GhostOK
  <1>2. ghost' = Gh(lg, gr, rv, lv, i, x, u)
    BY <1>1, GhOut
  <1>3. ghost.logins = lg /\ ghost.granted = gr /\ ghost.revoked = rv /\ ghost.leaving = lv
        /\ ghost.in = i /\ ghost.out = o /\ ghost.unsure = u
    BY <1>1, GhFields
  <1>4. GhostOK' /\ ghost'.out = x /\ ghost'.logins = lg /\ ghost'.granted = gr /\ ghost'.revoked = rv /\ ghost'.leaving = lv /\ ghost'.in = i /\ ghost'.unsure = u
    BY <1>2, GhostFits
  <1> QED
    BY <1>3, <1>4

LEMMA GhUnsure == \A lg, gr, rv, lv, i, o, u, x :
    [Gh(lg, gr, rv, lv, i, o, u) EXCEPT !.unsure = x] = Gh(lg, gr, rv, lv, i, o, x)
  BY DEF Gh
LEMMA SetUnsure ==
    ASSUME GhostOK, NEW x, ghost' = [ghost EXCEPT !.unsure = x]
    PROVE  GhostOK' /\ ghost'.unsure = x /\ ghost'.logins = ghost.logins /\ ghost'.granted = ghost.granted /\ ghost'.revoked = ghost.revoked /\ ghost'.leaving = ghost.leaving /\ ghost'.in = ghost.in /\ ghost'.out = ghost.out
  <1>1. PICK lg, gr, rv, lv, i, o, u : ghost = Gh(lg, gr, rv, lv, i, o, u)
    BY Zenon DEF GhostOK
  <1>2. ghost' = Gh(lg, gr, rv, lv, i, o, x)
    BY <1>1, GhUnsure
  <1>3. ghost.logins = lg /\ ghost.granted = gr /\ ghost.revoked = rv /\ ghost.leaving = lv
        /\ ghost.in = i /\ ghost.out = o /\ ghost.unsure = u
    BY <1>1, GhFields
  <1>4. GhostOK' /\ ghost'.unsure = x /\ ghost'.logins = lg /\ ghost'.granted = gr /\ ghost'.revoked = rv /\ ghost'.leaving = lv /\ ghost'.in = i /\ ghost'.out = o
    BY <1>2, GhostFits
  <1> QED
    BY <1>3, <1>4

AcceptGives(r, a) ==
    /\ GhostOK' /\ ghost'.logins = ghost.logins /\ ghost'.granted = ghost.granted
    /\ ghost'.revoked = ghost.revoked /\ ghost'.unsure = ghost.unsure
    /\ ghost'.leaving = (IF r = "logout" THEN ghost.leaving \cup {a} ELSE ghost.leaving)
    /\ ghost'.out = (IF r = "add_key" THEN ghost.out \ {a} ELSE ghost.out)
    /\ ghost'.in = (IF r = "remove_key" THEN ghost.in \ {a} ELSE ghost.in)
LEMMA AcceptGhost ==
    ASSUME GhostOK, NEW w, NEW r, NEW a, Accept(w, r, a)
    PROVE  AcceptGives(r, a)
  <1>1. CASE r = "logout"
    <2>1. ghost' = [ghost EXCEPT !.leaving = ghost.leaving \cup {a}]
      BY <1>1 DEF Accept
    <2> QED
      BY <1>1, <2>1, SetLeaving DEF AcceptGives
  <1>2. CASE r = "add_key"
    <2>1. ghost' = [ghost EXCEPT !.out = ghost.out \ {a}]
      BY <1>2 DEF Accept
    <2> QED
      BY <1>2, <2>1, SetOut DEF AcceptGives
  <1>3. CASE r = "remove_key"
    <2>1. ghost' = [ghost EXCEPT !.in = ghost.in \ {a}]
      BY <1>3 DEF Accept
    <2> QED
      BY <1>3, <2>1, SetIn DEF AcceptGives
  <1>4. CASE r \notin {"logout", "add_key", "remove_key"}
    <2>1. ghost' = ghost
      BY <1>4 DEF Accept
    <2> QED
      BY <1>4, <2>1 DEF GhostOK, AcceptGives
  <1> QED
    BY <1>1, <1>2, <1>3, <1>4

LEMMA AnsweredGhost ==
    ASSUME GhostOK, NEW w, ghost' = Answered(w), NEW q, q = worker[w]
    PROVE  /\ GhostOK' /\ ghost'.logins = ghost.logins /\ ghost'.leaving = ghost.leaving /\ ghost'.unsure = ghost.unsure
           /\ ghost'.granted = (IF q.req = "login" THEN ghost.granted \cup {q.arg} ELSE ghost.granted)
           /\ ghost'.revoked = (IF q.req = "logout" THEN ghost.revoked \cup {q.arg} ELSE ghost.revoked)
           /\ ghost'.in = (IF q.req = "add_key" /\ ~Contested(w, q.arg) THEN ghost.in \cup {q.arg} ELSE ghost.in)
           /\ ghost'.out = (IF q.req = "remove_key" /\ ~Contested(w, q.arg) THEN ghost.out \cup {q.arg} ELSE ghost.out)
  <1>1. CASE q.req = "login"
    <2>1. ghost' = [ghost EXCEPT !.granted = ghost.granted \cup {q.arg}]
      BY <1>1 DEF Answered
    <2> QED
      BY <1>1, <2>1, SetGranted
  <1>2. CASE q.req = "logout"
    <2>1. ghost' = [ghost EXCEPT !.revoked = ghost.revoked \cup {q.arg}]
      BY <1>2 DEF Answered
    <2> QED
      BY <1>2, <2>1, SetRevoked
  <1>3. CASE q.req = "add_key" /\ ~Contested(w, q.arg)
    <2>1. ghost' = [ghost EXCEPT !.in = ghost.in \cup {q.arg}]
      BY <1>3 DEF Answered
    <2> QED
      BY <1>3, <2>1, SetIn
  <1>4. CASE q.req = "remove_key" /\ ~Contested(w, q.arg)
    <2>1. ghost' = [ghost EXCEPT !.out = ghost.out \cup {q.arg}]
      BY <1>4 DEF Answered
    <2> QED
      BY <1>4, <2>1, SetOut
  <1>5. CASE q.req \notin {"login", "logout"} /\ (q.req \in {"add_key", "remove_key"} => Contested(w, q.arg))
    <2>1. ghost' = ghost
      BY <1>5 DEF Answered
    <2> QED
      BY <1>5, <2>1 DEF GhostOK
  <1> QED
    BY <1>1, <1>2, <1>3, <1>4, <1>5

LEMMA StoreGhost ==
    ASSUME GhostOK, NEW w, Store(w), NEW q, q = worker[w]
    PROVE  /\ GhostOK' /\ ghost'.granted = ghost.granted /\ ghost'.revoked = ghost.revoked
           /\ ghost'.leaving = ghost.leaving /\ ghost'.unsure = ghost.unsure
           /\ ghost'.in = ghost.in /\ ghost'.out = ghost.out
           /\ ghost'.logins = (IF q.req = "login" THEN Append(ghost.logins, Last(q.list)) ELSE ghost.logins)
  <1> DEFINE x == Append(ghost.logins, Last(q.list))
  <1>1. CASE q.req = "login"
    <2>1. ghost' = [ghost EXCEPT !.logins = x]
      BY <1>1 DEF Store
    <2> HIDE DEF x
    <2>2. /\ GhostOK' /\ ghost'.granted = ghost.granted /\ ghost'.revoked = ghost.revoked
          /\ ghost'.leaving = ghost.leaving /\ ghost'.unsure = ghost.unsure
          /\ ghost'.in = ghost.in /\ ghost'.out = ghost.out /\ ghost'.logins = x
      BY <2>1, SetLogins
    <2>3. ghost'.logins = (IF q.req = "login" THEN x ELSE ghost.logins)
      BY <1>1, <2>2, Zenon
    <2> QED
      BY <2>2, <2>3, Zenon DEF x
  <1>2. CASE q.req # "login"
    <2>1. ghost' = ghost
      BY <1>2 DEF Store
    <2>2. GhostOK'
      BY <2>1 DEF GhostOK
    <2> QED
      BY <1>2, <2>1, <2>2, Zenon
  <1> QED
    BY <1>1, <1>2, Zenon

LEMMA FailGhost ==
    ASSUME GhostOK, NEW w, Fail(w)
    PROVE  /\ GhostOK' /\ ghost'.granted = ghost.granted /\ ghost'.revoked = ghost.revoked
           /\ ghost'.leaving = ghost.leaving /\ ghost'.logins = ghost.logins
           /\ ghost'.in = ghost.in /\ ghost'.out = ghost.out
           /\ ghost'.unsure = (ghost.unsure \/ AtStep(w, "store"))
  <1> DEFINE x == ghost.unsure \/ AtStep(w, "store")
  <1>1. ghost' = [ghost EXCEPT !.unsure = x]
    BY DEF Fail
  <1> HIDE DEF x
  <1>2. /\ GhostOK' /\ ghost'.granted = ghost.granted /\ ghost'.revoked = ghost.revoked
        /\ ghost'.leaving = ghost.leaving /\ ghost'.logins = ghost.logins
        /\ ghost'.in = ghost.in /\ ghost'.out = ghost.out /\ ghost'.unsure = x
    BY <1>1, SetUnsure
  <1> QED
    BY <1>2, Zenon DEF x

LEMMA RestartGhost ==
    ASSUME GhostOK, NEW left, Restarted(left)
    PROVE  /\ GhostOK' /\ ghost'.granted = {} /\ ghost'.revoked = ghost.revoked
           /\ ghost'.leaving = ghost.leaving /\ ghost'.logins = ghost.logins
           /\ ghost'.in = ghost.in /\ ghost'.out = ghost.out /\ ~ghost'.unsure
  <1>1. PICK lg, gr, rv, lv, i, o, u : ghost = Gh(lg, gr, rv, lv, i, o, u)
    BY Zenon DEF GhostOK
  <1> DEFINE no == FALSE
  <1> DEFINE mid == [ghost EXCEPT !.granted = {}]
  <1>2. ghost' = [mid EXCEPT !.unsure = no]
    BY DEF Restarted
  <1>3. mid = Gh(lg, {}, rv, lv, i, o, u)
    BY <1>1, GhGranted
  <1> HIDE DEF no, mid
  <1>4. ghost' = Gh(lg, {}, rv, lv, i, o, no)
    BY <1>2, <1>3, GhUnsure
  <1>5. /\ GhostOK' /\ ghost'.granted = {} /\ ghost'.revoked = rv
        /\ ghost'.leaving = lv /\ ghost'.logins = lg
        /\ ghost'.in = i /\ ghost'.out = o /\ ghost'.unsure = no
    BY <1>4, GhostFits
  <1>6. ghost.revoked = rv /\ ghost.leaving = lv /\ ghost.logins = lg /\ ghost.in = i /\ ghost.out = o
    BY <1>1, GhFields
  <1> QED
    BY <1>5, <1>6, Zenon DEF no

-----------------------------------------------------------------------------
(* What each call names, and what it does to the disk *)

WriteTarget(w, q) == IF q.req = "upgrade" THEN ImageTemp(q.arg) ELSE Temp(w)
RenameTarget(q) ==
    IF q.req = "password" THEN Password
    ELSE IF q.req \in KeyRequests THEN IF LeftOf(q) = 7 THEN KeyFile ELSE Runtime
    ELSE IF LeftOf(q) = 6 THEN Backup ELSE Config
SyncTarget(q) ==
    IF q.req = "password" THEN Password
    ELSE IF q.req \in KeyRequests THEN IF LeftOf(q) = 6 THEN KeyFile ELSE Runtime
    ELSE IF q.req = "upgrade" THEN Image(q.arg) ELSE Config
ReadTarget(q) == IF q.req \in KeyRequests THEN KeyFile ELSE Config

LEMMA Second == \A a, b, t : t = <<a, b>> => t[2] = b
  OBVIOUS
LEMMA SecondThird == \A a, b, c, t : t = <<a, b, c>> => t[2] = b /\ t[3] = c
  OBVIOUS

LEMMA WriteNames ==
    ASSUME NEW w, NEW q, OnProgram(w, q), AtOp(q, "write")
    PROVE  Head(q.todo)[2] = WriteTarget(w, q)
  <1>1. Running(w, q)
    BY AtWrite
  <1>2. CASE q.req = "password" /\ LeftOf(q) = 5
    <2>1. Head(q.todo) = <<"write", Temp(w)>>
      BY <1>1, <1>2, PasswordSteps, Zenon DEF PasswordStep
    <2>2. Head(q.todo)[2] = Temp(w)
      BY <2>1, Second, Zenon
    <2> QED
      BY <1>2, <2>2 DEF WriteTarget, KeyRequests
  <1>3. CASE q.req \in KeyRequests /\ LeftOf(q) = 9
    <2>1. Head(q.todo) = <<"write", Temp(w)>>
      BY <1>1, <1>3, KeysSteps, Zenon DEF KeysStep
    <2>2. Head(q.todo)[2] = Temp(w)
      BY <2>1, Second, Zenon
    <2> QED
      BY <1>3, <2>2 DEF WriteTarget, KeyRequests
  <1>4. CASE q.req \in KeyRequests /\ LeftOf(q) = 5
    <2>1. Head(q.todo) = <<"write", Temp(w)>>
      BY <1>1, <1>4, KeysSteps, Zenon DEF KeysStep
    <2>2. Head(q.todo)[2] = Temp(w)
      BY <2>1, Second, Zenon
    <2> QED
      BY <1>4, <2>2 DEF WriteTarget, KeyRequests
  <1>5. CASE q.req = "parameters" /\ LeftOf(q) = 4
    <2>1. Head(q.todo) = <<"write", Temp(w)>>
      BY <1>1, <1>5, ParametersSteps, Zenon DEF ParametersStep
    <2>2. Head(q.todo)[2] = Temp(w)
      BY <2>1, Second, Zenon
    <2> QED
      BY <1>5, <2>2 DEF WriteTarget, KeyRequests
  <1>6. CASE q.req = "config" /\ LeftOf(q) = 4
    <2>1. Head(q.todo) = <<"write", Temp(w)>>
      BY <1>1, <1>6, ConfigSteps, Zenon DEF ConfigStep
    <2>2. Head(q.todo)[2] = Temp(w)
      BY <2>1, Second, Zenon
    <2> QED
      BY <1>6, <2>2 DEF WriteTarget, KeyRequests
  <1>7. CASE q.req = "upgrade" /\ LeftOf(q) = 7
    <2>1. Head(q.todo) = <<"write", ImageTemp(q.arg)>>
      BY <1>1, <1>7, UpgradeSteps, Zenon DEF UpgradeStep
    <2>2. Head(q.todo)[2] = ImageTemp(q.arg)
      BY <2>1, Second, Zenon
    <2> QED
      BY <1>7, <2>2 DEF WriteTarget, KeyRequests
  <1> QED
    BY <1>2, <1>3, <1>4, <1>5, <1>6, <1>7, AtWrite

LEMMA FsyncNames ==
    ASSUME NEW w, NEW q, OnProgram(w, q), AtOp(q, "fsync")
    PROVE  Head(q.todo)[2] = WriteTarget(w, q)
  <1>1. Running(w, q)
    BY AtFsync
  <1>2. CASE q.req = "password" /\ LeftOf(q) = 4
    <2>1. Head(q.todo) = <<"fsync", Temp(w)>>
      BY <1>1, <1>2, PasswordSteps, Zenon DEF PasswordStep
    <2>2. Head(q.todo)[2] = Temp(w)
      BY <2>1, Second, Zenon
    <2> QED
      BY <1>2, <2>2 DEF WriteTarget, KeyRequests
  <1>3. CASE q.req \in KeyRequests /\ LeftOf(q) = 8
    <2>1. Head(q.todo) = <<"fsync", Temp(w)>>
      BY <1>1, <1>3, KeysSteps, Zenon DEF KeysStep
    <2>2. Head(q.todo)[2] = Temp(w)
      BY <2>1, Second, Zenon
    <2> QED
      BY <1>3, <2>2 DEF WriteTarget, KeyRequests
  <1>4. CASE q.req \in KeyRequests /\ LeftOf(q) = 4
    <2>1. Head(q.todo) = <<"fsync", Temp(w)>>
      BY <1>1, <1>4, KeysSteps, Zenon DEF KeysStep
    <2>2. Head(q.todo)[2] = Temp(w)
      BY <2>1, Second, Zenon
    <2> QED
      BY <1>4, <2>2 DEF WriteTarget, KeyRequests
  <1>5. CASE q.req = "parameters" /\ LeftOf(q) = 7
    <2>1. Head(q.todo) = <<"fsync", Temp(w)>>
      BY <1>1, <1>5, ParametersSteps, Zenon DEF ParametersStep
    <2>2. Head(q.todo)[2] = Temp(w)
      BY <2>1, Second, Zenon
    <2> QED
      BY <1>5, <2>2 DEF WriteTarget, KeyRequests
  <1>6. CASE q.req = "parameters" /\ LeftOf(q) = 3
    <2>1. Head(q.todo) = <<"fsync", Temp(w)>>
      BY <1>1, <1>6, ParametersSteps, Zenon DEF ParametersStep
    <2>2. Head(q.todo)[2] = Temp(w)
      BY <2>1, Second, Zenon
    <2> QED
      BY <1>6, <2>2 DEF WriteTarget, KeyRequests
  <1>7. CASE q.req = "config" /\ LeftOf(q) = 7
    <2>1. Head(q.todo) = <<"fsync", Temp(w)>>
      BY <1>1, <1>7, ConfigSteps, Zenon DEF ConfigStep
    <2>2. Head(q.todo)[2] = Temp(w)
      BY <2>1, Second, Zenon
    <2> QED
      BY <1>7, <2>2 DEF WriteTarget, KeyRequests
  <1>8. CASE q.req = "config" /\ LeftOf(q) = 3
    <2>1. Head(q.todo) = <<"fsync", Temp(w)>>
      BY <1>1, <1>8, ConfigSteps, Zenon DEF ConfigStep
    <2>2. Head(q.todo)[2] = Temp(w)
      BY <2>1, Second, Zenon
    <2> QED
      BY <1>8, <2>2 DEF WriteTarget, KeyRequests
  <1>9. CASE q.req = "upgrade" /\ LeftOf(q) = 6
    <2>1. Head(q.todo) = <<"fsync", ImageTemp(q.arg)>>
      BY <1>1, <1>9, UpgradeSteps, Zenon DEF UpgradeStep
    <2>2. Head(q.todo)[2] = ImageTemp(q.arg)
      BY <2>1, Second, Zenon
    <2> QED
      BY <1>9, <2>2 DEF WriteTarget, KeyRequests
  <1> QED
    BY <1>2, <1>3, <1>4, <1>5, <1>6, <1>7, <1>8, <1>9, AtFsync

LEMMA SyncDirNames ==
    ASSUME NEW w, NEW q, OnProgram(w, q), AtOp(q, "sync_dir")
    PROVE  Head(q.todo)[2] = SyncTarget(q)
  <1>1. Running(w, q)
    BY AtSyncDir
  <1>2. CASE q.req = "password" /\ LeftOf(q) = 2
    <2>1. Head(q.todo) = <<"sync_dir", Password>>
      BY <1>1, <1>2, PasswordSteps, Zenon DEF PasswordStep
    <2>2. Head(q.todo)[2] = Password
      BY <2>1, Second, Zenon
    <2> QED
      BY <1>2, <2>2 DEF SyncTarget, KeyRequests
  <1>3. CASE q.req \in KeyRequests /\ LeftOf(q) = 6
    <2>1. Head(q.todo) = <<"sync_dir", KeyFile>>
      BY <1>1, <1>3, KeysSteps, Zenon DEF KeysStep
    <2>2. Head(q.todo)[2] = KeyFile
      BY <2>1, Second, Zenon
    <2> QED
      BY <1>3, <2>2 DEF SyncTarget, KeyRequests
  <1>4. CASE q.req \in KeyRequests /\ LeftOf(q) = 2
    <2>1. Head(q.todo) = <<"sync_dir", Runtime>>
      BY <1>1, <1>4, KeysSteps, Zenon DEF KeysStep
    <2>2. Head(q.todo)[2] = Runtime
      BY <2>1, Second, Zenon
    <2> QED
      BY <1>4, <2>2 DEF SyncTarget, KeyRequests
  <1>5. CASE q.req = "parameters" /\ LeftOf(q) = 1
    <2>1. Head(q.todo) = <<"sync_dir", Config>>
      BY <1>1, <1>5, ParametersSteps, Zenon DEF ParametersStep
    <2>2. Head(q.todo)[2] = Config
      BY <2>1, Second, Zenon
    <2> QED
      BY <1>5, <2>2 DEF SyncTarget, KeyRequests
  <1>6. CASE q.req = "config" /\ LeftOf(q) = 1
    <2>1. Head(q.todo) = <<"sync_dir", Config>>
      BY <1>1, <1>6, ConfigSteps, Zenon DEF ConfigStep
    <2>2. Head(q.todo)[2] = Config
      BY <2>1, Second, Zenon
    <2> QED
      BY <1>6, <2>2 DEF SyncTarget, KeyRequests
  <1>7. CASE q.req = "upgrade" /\ LeftOf(q) = 3
    <2>1. Head(q.todo) = <<"sync_dir", Image(q.arg)>>
      BY <1>1, <1>7, UpgradeSteps, Zenon DEF UpgradeStep
    <2>2. Head(q.todo)[2] = Image(q.arg)
      BY <2>1, Second, Zenon
    <2> QED
      BY <1>7, <2>2 DEF SyncTarget, KeyRequests
  <1> QED
    BY <1>2, <1>3, <1>4, <1>5, <1>6, <1>7, AtSyncDir

LEMMA ReadNames ==
    ASSUME NEW w, NEW q, OnProgram(w, q), AtOp(q, "read")
    PROVE  Head(q.todo)[2] = ReadTarget(q)
  <1>1. Running(w, q)
    BY AtRead
  <1>2. CASE q.req \in KeyRequests /\ LeftOf(q) = 11
    <2>1. Head(q.todo) = <<"read", KeyFile>>
      BY <1>1, <1>2, KeysSteps, Zenon DEF KeysStep
    <2>2. Head(q.todo)[2] = KeyFile
      BY <2>1, Second, Zenon
    <2> QED
      BY <1>2, <2>2 DEF ReadTarget, KeyRequests
  <1>3. CASE q.req = "parameters" /\ LeftOf(q) = 10
    <2>1. Head(q.todo) = <<"read", Config>>
      BY <1>1, <1>3, ParametersSteps, Zenon DEF ParametersStep
    <2>2. Head(q.todo)[2] = Config
      BY <2>1, Second, Zenon
    <2> QED
      BY <1>3, <2>2 DEF ReadTarget, KeyRequests
  <1> QED
    BY <1>2, <1>3, AtRead

LEMMA CreateNames ==
    ASSUME NEW w, NEW q, OnProgram(w, q), AtOp(q, "create")
    PROVE  Head(q.todo)[2] = ImageTemp(q.arg)
  <1>1. Running(w, q)
    BY AtCreate
  <1>2. CASE q.req = "upgrade" /\ LeftOf(q) = 8
    <2>1. Head(q.todo) = <<"create", ImageTemp(q.arg)>>
      BY <1>1, <1>2, UpgradeSteps, Zenon DEF UpgradeStep
    <2>2. Head(q.todo)[2] = ImageTemp(q.arg)
      BY <2>1, Second, Zenon
    <2> QED
      BY <1>2, <2>2
  <1> QED
    BY <1>2, AtCreate

LEMMA CheckImageNames ==
    ASSUME NEW w, NEW q, OnProgram(w, q), AtOp(q, "check_image")
    PROVE  Head(q.todo)[2] = q.arg
  <1>1. Running(w, q)
    BY AtCheckImage
  <1>2. CASE q.req = "upgrade" /\ LeftOf(q) = 9
    <2>1. Head(q.todo) = <<"check_image", q.arg>>
      BY <1>1, <1>2, UpgradeSteps, Zenon DEF UpgradeStep
    <2>2. Head(q.todo)[2] = q.arg
      BY <2>1, Second, Zenon
    <2> QED
      BY <1>2, <2>2
  <1> QED
    BY <1>2, AtCheckImage

LEMMA PublishNames ==
    ASSUME NEW w, NEW q, OnProgram(w, q), AtOp(q, "publish")
    PROVE  Head(q.todo)[2] = q.arg
  <1>1. Running(w, q)
    BY AtPublish
  <1>2. CASE q.req = "upgrade" /\ LeftOf(q) = 4
    <2>1. Head(q.todo) = <<"publish", q.arg>>
      BY <1>1, <1>2, UpgradeSteps, Zenon DEF UpgradeStep
    <2>2. Head(q.todo)[2] = q.arg
      BY <2>1, Second, Zenon
    <2> QED
      BY <1>2, <2>2
  <1> QED
    BY <1>2, AtPublish

LEMMA DeleteNames ==
    ASSUME NEW w, NEW q, OnProgram(w, q), AtOp(q, "delete")
    PROVE  Head(q.todo)[2] = q.arg
  <1>1. Running(w, q)
    BY AtDelete
  <1>2. CASE q.req = "delete" /\ LeftOf(q) = 1
    <2>1. Head(q.todo) = <<"delete", q.arg>>
      BY <1>1, <1>2, DeleteSteps, Zenon DEF DeleteStep
    <2>2. Head(q.todo)[2] = q.arg
      BY <2>1, Second, Zenon
    <2> QED
      BY <1>2, <2>2
  <1> QED
    BY <1>2, AtDelete

LEMMA RenameNames ==
    ASSUME NEW w, NEW q, OnProgram(w, q), AtOp(q, "rename")
    PROVE  Head(q.todo)[2] = Temp(w) /\ Head(q.todo)[3] = RenameTarget(q)
  <1>1. Running(w, q)
    BY AtRename
  <1>2. CASE q.req = "password" /\ LeftOf(q) = 3
    <2>1. Head(q.todo) = <<"rename", Temp(w), Password>>
      BY <1>1, <1>2, PasswordSteps, Zenon DEF PasswordStep
    <2>2. Head(q.todo)[2] = Temp(w) /\ Head(q.todo)[3] = Password
      BY <2>1
    <2> QED
      BY <1>2, <2>2 DEF RenameTarget, KeyRequests
  <1>3. CASE q.req \in KeyRequests /\ LeftOf(q) = 7
    <2>1. Head(q.todo) = <<"rename", Temp(w), KeyFile>>
      BY <1>1, <1>3, KeysSteps, Zenon DEF KeysStep
    <2>2. Head(q.todo)[2] = Temp(w) /\ Head(q.todo)[3] = KeyFile
      BY <2>1
    <2> QED
      BY <1>3, <2>2 DEF RenameTarget, KeyRequests
  <1>4. CASE q.req \in KeyRequests /\ LeftOf(q) = 3
    <2>1. Head(q.todo) = <<"rename", Temp(w), Runtime>>
      BY <1>1, <1>4, KeysSteps, Zenon DEF KeysStep
    <2>2. Head(q.todo)[2] = Temp(w) /\ Head(q.todo)[3] = Runtime
      BY <2>1
    <2> QED
      BY <1>4, <2>2 DEF RenameTarget, KeyRequests
  <1>5. CASE q.req = "parameters" /\ LeftOf(q) = 6
    <2>1. Head(q.todo) = <<"rename", Temp(w), Backup>>
      BY <1>1, <1>5, ParametersSteps, Zenon DEF ParametersStep
    <2>2. Head(q.todo)[2] = Temp(w) /\ Head(q.todo)[3] = Backup
      BY <2>1
    <2> QED
      BY <1>5, <2>2 DEF RenameTarget, KeyRequests
  <1>6. CASE q.req = "parameters" /\ LeftOf(q) = 2
    <2>1. Head(q.todo) = <<"rename", Temp(w), Config>>
      BY <1>1, <1>6, ParametersSteps, Zenon DEF ParametersStep
    <2>2. Head(q.todo)[2] = Temp(w) /\ Head(q.todo)[3] = Config
      BY <2>1
    <2> QED
      BY <1>6, <2>2 DEF RenameTarget, KeyRequests
  <1>7. CASE q.req = "config" /\ LeftOf(q) = 6
    <2>1. Head(q.todo) = <<"rename", Temp(w), Backup>>
      BY <1>1, <1>7, ConfigSteps, Zenon DEF ConfigStep
    <2>2. Head(q.todo)[2] = Temp(w) /\ Head(q.todo)[3] = Backup
      BY <2>1
    <2> QED
      BY <1>7, <2>2 DEF RenameTarget, KeyRequests
  <1>8. CASE q.req = "config" /\ LeftOf(q) = 2
    <2>1. Head(q.todo) = <<"rename", Temp(w), Config>>
      BY <1>1, <1>8, ConfigSteps, Zenon DEF ConfigStep
    <2>2. Head(q.todo)[2] = Temp(w) /\ Head(q.todo)[3] = Config
      BY <2>1
    <2> QED
      BY <1>8, <2>2 DEF RenameTarget, KeyRequests
  <1> QED
    BY <1>2, <1>3, <1>4, <1>5, <1>6, <1>7, <1>8, AtRename

LEMMA CopyNames ==
    ASSUME NEW w, NEW q, OnProgram(w, q), AtOp(q, "copy")
    PROVE  Head(q.todo)[2] = Config /\ Head(q.todo)[3] = Temp(w)
  <1>1. Running(w, q)
    BY AtCopy
  <1>2. CASE q.req = "parameters" /\ LeftOf(q) = 8
    <2>1. Head(q.todo) = <<"copy", Config, Temp(w)>>
      BY <1>1, <1>2, ParametersSteps, Zenon DEF ParametersStep
    <2> QED
      BY <2>1
  <1>3. CASE q.req = "config" /\ LeftOf(q) = 8
    <2>1. Head(q.todo) = <<"copy", Config, Temp(w)>>
      BY <1>1, <1>3, ConfigSteps, Zenon DEF ConfigStep
    <2> QED
      BY <2>1
  <1> QED
    BY <1>2, <1>3, AtCopy

\* The effect of a step of w that is not a file's on the disk.
Rest2(w, q) == TurnsTo(w, Rec(q.req, q.arg, Tail(q.todo), q.copy, q.list))
Holds(c) == {Absent, c}
DiskWrite(w, q) ==
    \/ Nameless(w) /\ UNCHANGED disk
    \/ ~Nameless(w) /\ SetFile(WriteTarget(w, q), IF q.req = "upgrade" THEN {q.arg} ELSE q.copy, {Absent, Torn})
DiskFsync(w, q) ==
    \/ Nameless(w) /\ UNCHANGED disk
    \/ ~Nameless(w) /\ SetFile(WriteTarget(w, q), file[WriteTarget(w, q)], Holds(file[WriteTarget(w, q)]))
DiskSyncDir(w, q) == SetFile(SyncTarget(q), file[SyncTarget(q)], {c \in after[SyncTarget(q)] : c = Torn \/ c = file[SyncTarget(q)]})
DiskDoes(w, q, op) ==
    /\ op = "write" => DiskWrite(w, q)
    /\ op = "fsync" => DiskFsync(w, q)
    /\ op = "create" => SetFile(ImageTemp(q.arg), Torn, {Absent, Torn})
    /\ op = "copy" => file[Config] # Absent /\ SetFile(Temp(w), file[Config], {Absent, Torn})
    /\ op = "rename" => Renames(Temp(w), RenameTarget(q))
    /\ op = "sync_dir" => DiskSyncDir(w, q)
    /\ op = "sync" => after' = [f \in Files |-> {file[f]}] /\ UNCHANGED file
    /\ op \in {"mine", "serve"} => UNCHANGED disk

LEMMA DiskIs ==
    ASSUME NEW w \in Workers, WorkersOK, WorkerStep(w), NEW op, AtStep(w, op), NEW q, q = worker[w],
           op \in {"write", "fsync", "create", "copy", "rename", "sync_dir", "sync", "mine", "serve"},
           op = "copy" => FileStep(w)
    PROVE  /\ DiskDoes(w, q, op) /\ Rest2(w, q)
           /\ UNCHANGED <<sessions, torn, lock, now, ghost, requests, faults>>
  <1> DEFINE t == Head(q.todo)
  <1>1. FileStep(w) /\ OnProgram(w, q) /\ AtOp(q, op)
    BY ActionOf, AtStepIs DEF WorkersOK
  <1>2. /\ UNCHANGED <<sessions, torn, lock, now, ghost, requests, faults>>
        /\ Continue(w) /\ FileDoes(w, q, op, t)
    BY <1>1, FileStepIs
  <1>3. Rest2(w, q)
    BY <1>2, ContinueIs DEF Rest2
  <1>4. op = "write" => DiskWrite(w, q)
    BY <1>1, <1>2, WriteNames DEF FileDoes, DiskWrite, Nameless
  <1>5. op = "fsync" => DiskFsync(w, q)
    BY <1>1, <1>2, FsyncNames DEF FileDoes, DiskFsync, Holds
  <1>6. op = "create" => SetFile(ImageTemp(q.arg), Torn, {Absent, Torn})
    BY <1>1, <1>2, CreateNames DEF FileDoes
  <1>7. op = "copy" => file[Config] # Absent /\ SetFile(Temp(w), file[Config], {Absent, Torn})
    BY <1>1, <1>2, CopyNames DEF FileDoes
  <1>8. op = "rename" => Renames(Temp(w), RenameTarget(q))
    BY <1>1, <1>2, RenameNames DEF FileDoes
  <1>9. op = "sync_dir" => DiskSyncDir(w, q)
    BY <1>1, <1>2, SyncDirNames DEF FileDoes, DiskSyncDir
  <1> QED
    BY <1>2, <1>3, <1>4, <1>5, <1>6, <1>7, <1>8, <1>9 DEF DiskDoes, FileDoes
-----------------------------------------------------------------------------
(* What a request is about *)

ArgOf(r, a, lg, n) ==
    /\ r \in KeyRequests => a \in Keys
    /\ r = "parameters" => a \in Settings
    /\ r \in {"upgrade", "delete"} => a \in Images
    /\ r = "login" => a = n + 1
    /\ r \in {"logout", "page"} => \E i \in DOMAIN lg : a = lg[i].token

LEMMA ConnectIs ==
    ASSUME NEW w \in Workers, Connect(w)
    PROVE  \E r \in WebRequests : \E a :
             /\ Accept(w, r, a) /\ ArgOf(r, a, ghost.logins, requests)
             /\ TurnsTo(w, Rec(r, a, Auth, {}, <<>>)) /\ LeftOf(worker[w]) = 0
             /\ requests' = requests + 1
  <1>1. \A r, a : Accept(w, r, a) => /\ TurnsTo(w, Rec(r, a, Auth, {}, <<>>)) /\ LeftOf(worker[w]) = 0
                                     /\ requests' = requests + 1
    BY AuthFacts DEF Accept, TurnsTo, Rec, Auth, Spare, LeftOf
  <1>2. CASE \E r \in Requests :
        /\ Accept(w, r[1], r[2])
        /\ IF r[1] = "login" THEN r[2] = requests + 1 ELSE \E i \in DOMAIN ghost.logins : r[2] = ghost.logins[i].token
    <2>1. PICK r \in Requests :
        /\ Accept(w, r[1], r[2])
        /\ IF r[1] = "login" THEN r[2] = requests + 1 ELSE \E i \in DOMAIN ghost.logins : r[2] = ghost.logins[i].token
      BY <1>2
    <2>2. r[1] \in {"page", "login", "logout"}
      BY DEF Requests
    <2>3. r[1] \in WebRequests /\ ArgOf(r[1], r[2], ghost.logins, requests)
      BY <2>1, <2>2 DEF ArgOf, KeyRequests, WebRequests
    <2> QED
      BY <1>1, <2>1, <2>3
  <1>3. CASE \E r \in Changes : Accept(w, r[1], r[2])
    <2>1. PICK r \in Changes : Accept(w, r[1], r[2])
      BY <1>3
    <2>2. CASE r \in {<<"password", "">>, <<"config", "">>, <<"reboot", "">>}
      <3>1. r = <<"password", "">> \/ r = <<"config", "">> \/ r = <<"reboot", "">>
        BY <2>2
      <3>2. \A a, b, t : t = <<a, b>> => t[1] = a
        OBVIOUS
      <3>3. r[1] = "password" \/ r[1] = "config" \/ r[1] = "reboot"
        BY <3>1, <3>2, Zenon
      <3> QED
        BY <1>1, <2>1, <3>3 DEF ArgOf, KeyRequests, WebRequests
    <2>3. CASE r \in {<<"add_key", k>> : k \in Keys} \cup {<<"remove_key", k>> : k \in Keys}
      <3>1. r[1] \in KeyRequests /\ r[2] \in Keys
        BY <2>3 DEF KeyRequests
      <3> QED
        BY <1>1, <2>1, <3>1 DEF ArgOf, KeyRequests, WebRequests
    <2>4. CASE r \in {<<"parameters", s>> : s \in Settings}
      <3>1. r[1] = "parameters" /\ r[2] \in Settings
        BY <2>4
      <3> QED
        BY <1>1, <2>1, <3>1 DEF ArgOf, KeyRequests, WebRequests
    <2>5. CASE r \in {<<"upgrade", i>> : i \in Images} \cup {<<"delete", i>> : i \in Images}
      <3>1. r[1] \in {"upgrade", "delete"} /\ r[2] \in Images
        BY <2>5
      <3> QED
        BY <1>1, <2>1, <3>1 DEF ArgOf, KeyRequests, WebRequests
    <2> QED
      BY <2>1, <2>2, <2>3, <2>4, <2>5 DEF Changes
  <1> QED
    BY <1>2, <1>3 DEF Connect

ArgOK(q) ==
    LeftOf(q) # 0 =>
        /\ q.req \in KeyRequests => q.arg \in Keys
        /\ q.req = "parameters" => q.arg \in Settings
        /\ q.req \in {"upgrade", "delete"} => q.arg \in Images
ArgsOK == \A v \in Workers : ArgOK(worker[v])

\* A worker that is neither accepted nor idle keeps its request.
LEMMA SameRequest ==
    ASSUME NEW w, NEW q, NEW s, Moves(w, q, s), s # Idler, ~Accepted(s)
    PROVE  s.req = q.req /\ s.arg = q.arg /\ LeftOf(q) # 0 /\ OnProgram(w, s)
  <1>1. CASE q.req \in WebRequests /\ LeftOf(q) = -1 /\ Routed(w, q, s)
    BY <1>1, RoutedIs
  <1>2. CASE Running(w, q) /\ Advanced(q, s)
    BY <1>2, AdvancedIs, EveryProgram DEF Running
  <1>3. CASE Running(w, q) /\ Jumped(q, s)
    BY <1>3, JumpedIs, EveryProgram DEF Running
  <1> QED
    BY <1>1, <1>2, <1>3 DEF Moves

LEMMA StepArgs ==
    ASSUME NEW w \in Workers, WorkersOK, ArgsOK, Connect(w) \/ (WorkerStep(w) /\ ~Reboot(w)) \/ Fail(w)
    PROVE  ArgsOK'
  <1>1. PICK s : TurnsTo(w, s) /\ Moves(w, worker[w], s)
    BY StepMoves DEF MovedOn
  <1>2. worker'[w] = s /\ \A v \in Workers \ {w} : worker'[v] = worker[v]
    BY <1>1, BecomesIs
  <1>3. ArgOK(s)
    <2>1. CASE s = Idler
      BY <2>1, IdlerIs DEF ArgOK
    <2>2. CASE Connect(w)
      <3>0. PICK r \in WebRequests : \E a : /\ ArgOf(r, a, ghost.logins, requests)
                                           /\ TurnsTo(w, Rec(r, a, Auth, {}, <<>>))
        BY <2>2, ConnectIs
      <3>1. PICK a : ArgOf(r, a, ghost.logins, requests) /\ TurnsTo(w, Rec(r, a, Auth, {}, <<>>))
        BY <3>0
      <3>2. s = Rec(r, a, Auth, {}, <<>>)
        BY <3>1, <1>2, BecomesIs
      <3>3. s.req = r /\ s.arg = a
        BY <3>2, RecFields
      <3> QED
        BY <3>1, <3>3 DEF ArgOf, ArgOK
    <2>3. CASE s # Idler /\ ~Accepted(s)
      BY <1>1, <2>3, SameRequest DEF ArgOK, ArgsOK
    <2>4. CASE ~Connect(w) /\ Accepted(s)
      <3>1. AtStep(w, "auth") \/ ~AtStep(w, "auth")
        OBVIOUS
      <3>2. ~Spare(w)
        BY <2>4, FileStepOp DEF WorkerStep, Fail, authenticate, Lock, Unlock, load_sessions, EditSessions, Truncate,
           Store, Read, Edit, CheckImage, Publish, Delete, AtStep
      <3>3. LeftOf(worker[w]) # 0
        BY <3>2, AuthFacts, EveryProgram DEF LeftOf, Spare, WorkersOK, OnProgram, Running
      <3>4. s.todo = Auth /\ LeftOf(s) = -1 /\ Idler.todo # Auth
        BY <2>4, IdlerIs, AcceptedIs, AuthFacts, RecFields DEF Accepted
      <3>5. CASE worker[w].req \in WebRequests /\ LeftOf(worker[w]) = -1 /\ Routed(w, worker[w], s)
        BY <3>4, <3>5, RoutedIs, EveryProgram
      <3>6. CASE Running(w, worker[w]) /\ Advanced(worker[w], s)
        BY <3>4, <3>6, AdvancedIs, EveryProgram DEF Running
      <3>7. CASE Running(w, worker[w]) /\ Jumped(worker[w], s)
        BY <3>4, <3>7, JumpedIs
      <3> QED
        BY <1>1, <3>3, <3>4, <3>5, <3>6, <3>7 DEF Moves
    <2> QED
      BY <2>1, <2>2, <2>3, <2>4
  <1> QED
    BY <1>2, <1>3 DEF ArgsOK

LEMMA RestartArgs ==
    ASSUME NEW left, Restarted(left)
    PROVE  ArgsOK'
  BY RestartIdles, IdlerIs DEF ArgsOK, ArgOK

-----------------------------------------------------------------------------
(* What a step does to the disk *)

FileCalls == {"write", "fsync", "create", "copy", "rename", "sync_dir", "sync"}
Calls(w, op) == op \in FileCalls /\ AtOp(worker[w], op) /\ DiskDoes(w, worker[w], op) /\ Rest2(w, worker[w])

LEMMA DiskKinds ==
    ASSUME NEW w \in Workers, WorkersOK, Connect(w) \/ (WorkerStep(w) /\ ~Reboot(w)) \/ Fail(w)
    PROVE  UNCHANGED disk \/ GiveUp(w) \/ (\E op : Calls(w, op)) \/ Publish(w) \/ Delete(w)
  <1>1. CASE Connect(w)
    BY <1>1 DEF Connect, Accept
  <1>2. CASE authenticate(w) \/ Lock(w) \/ Unlock(w) \/ load_sessions(w) \/ EditSessions(w) \/ Truncate(w) \/ Store(w)
    BY <1>2 DEF authenticate, Lock, Unlock, load_sessions, EditSessions, Truncate, Store
  <1>3. CASE Read(w) \/ Edit(w) \/ CheckImage(w) \/ Fail(w)
    BY <1>3 DEF Read, Edit, CheckImage, Fail
  <1>4. CASE FileStep(w)
    <2>1. PICK op : AtStep(w, op) /\ op \in {"write", "fsync", "create", "copy", "rename", "sync_dir", "sync", "mine", "serve"}
      BY <1>4, FileStepOp
    <2>2. DiskDoes(w, worker[w], op) /\ Rest2(w, worker[w])
      BY <1>4, <2>1, DiskIs DEF WorkerStep
    <2>3. CASE op \in {"mine", "serve"}
      <3>1. UNCHANGED disk
        BY <2>2, <2>3 DEF DiskDoes
      <3> QED
        BY <3>1
    <2>4. CASE op \notin {"mine", "serve"}
      <3>1. op \in FileCalls
        BY <2>1, <2>4 DEF FileCalls
      <3>2. Calls(w, op)
        BY <2>1, <2>2, <3>1, AtStepIs DEF Calls
      <3> QED
        BY <3>2
    <2> QED
      BY <2>3, <2>4
  <1> QED
    BY <1>1, <1>2, <1>3, <1>4 DEF WorkerStep

\* A file is quiet when only a sync may have reached it.
Quiet(f) == file'[f] = file[f] /\ (after'[f] = after[f] \/ after'[f] = {file[f]})

LEMMA RenameTo ==
    ASSUME NEW w, NEW q, OnProgram(w, q), AtOp(q, "rename")
    PROVE  RenameTarget(q) \in {Password, KeyFile, Runtime, Config, Backup} /\ q.req # "upgrade"
  BY AtRename DEF RenameTarget, KeyRequests

LEMMA SyncTo ==
    ASSUME NEW w, NEW q, OnProgram(w, q), ArgOK(q), AtOp(q, "sync_dir")
    PROVE  /\ SyncTarget(q) \in Files
           /\ SyncTarget(q) \in {Password, KeyFile, Runtime, Config} \/ \E i : SyncTarget(q) = Image(i)
  <1>1. Running(w, q) /\ LeftOf(q) # 0
    BY AtSyncDir, EveryProgram DEF Running
  <1> QED
    BY <1>1, AtSyncDir, FileNames DEF SyncTarget, KeyRequests, ArgOK

LEMMA WriteTo ==
    ASSUME NEW w \in Workers, NEW q, OnProgram(w, q), ArgOK(q), AtOp(q, "write") \/ AtOp(q, "fsync")
    PROVE  /\ WriteTarget(w, q) \in Files
           /\ q.req = "upgrade" => q.arg \in Images /\ WriteTarget(w, q) = ImageTemp(q.arg)
           /\ q.req # "upgrade" => WriteTarget(w, q) = Temp(w)
  <1>1. Running(w, q)
    BY AtWrite, AtFsync
  <1>2. LeftOf(q) # 0
    BY <1>1, EveryProgram DEF Running
  <1> QED
    BY <1>2, FileNames DEF WriteTarget, ArgOK

\* A deletion takes files away, all at once.
Deleted(gone) ==
    /\ file' = [f \in Files |-> IF f \in gone THEN Absent ELSE file[f]]
    /\ after' = [f \in Files |-> IF f \in gone THEN after[f] \cup {Absent} ELSE after[f]]
LEMMA DeleteIs ==
    ASSUME NEW w \in Workers, WorkersOK, FilesOK, ArgsOK, Delete(w)
    PROVE  /\ FilesOK' /\ worker[w].arg \in Images
           /\ \E gone : /\ Deleted(gone)
                        /\ \/ gone \subseteq CardFiles
                           \/ gone = {Image(worker[w].arg)}
                           \/ gone = {ImageTemp(worker[w].arg)}
  <1> DEFINE q == worker[w]
  <1>1. OnProgram(w, q) /\ ArgOK(q) /\ AtOp(q, "delete")
    BY AtStepIs DEF Delete, WorkersOK, ArgsOK
  <1>2. Step(w)[2] = q.arg /\ q.arg \in Images
    BY <1>1, AtDelete, DeleteNames DEF Step, ArgOK
  <1>3. PICK gone \in {{Image(q.arg)}, {ImageTemp(q.arg)}} \cup SUBSET CardFiles : Deleted(gone)
    BY <1>2 DEF Delete, Deleted
  <1>4. FilesOK'
    BY <1>3 DEF Deleted, FilesOK
  <1> QED
    BY <1>2, <1>3, <1>4

LEMMA DeletedIs ==
    ASSUME NEW gone, Deleted(gone), NEW f \in Files
    PROVE  /\ f \in gone => file'[f] = Absent /\ after'[f] = after[f] \cup {Absent}
           /\ f \notin gone => file'[f] = file[f] /\ after'[f] = after[f]
  BY DEF Deleted

LEMMA CardNames ==
    /\ \A f \in CardFiles : f \in {Password, Config, Backup}
    /\ KeyFile \notin CardFiles
    /\ \A w : Temp(w) \notin CardFiles
    /\ \A i : Image(i) \notin CardFiles /\ ImageTemp(i) \notin CardFiles
  <1>1. \A f \in CardFiles : f \in {Password, Config, Backup}
    BY WebAccessAssumption DEF Password, Config, Backup
  <1> QED
    BY <1>1, FixedNames, TempNames, ImageNames

\* The files that a step of w may disturb.
Disturbed(w, q, f) ==
    \/ f = Temp(w)
    \/ \E i : f \in ImageFiles(i)
    \/ AtOp(q, "rename") /\ f = RenameTarget(q)
    \/ AtOp(q, "sync_dir") /\ f = SyncTarget(q)
    \/ Delete(w) /\ f \in CardFiles

LEMMA Disturbs ==
    ASSUME NEW w \in Workers, WorkersOK, FilesOK, ArgsOK, Connect(w) \/ (WorkerStep(w) /\ ~Reboot(w)) \/ Fail(w)
    PROVE  /\ FilesOK'
           /\ \A f \in Files : Quiet(f) \/ Disturbed(w, worker[w], f)
  <1> DEFINE q == worker[w]
  <1>1. OnProgram(w, q) /\ ArgOK(q)
    BY DEF WorkersOK, ArgsOK
  <1>2. CASE UNCHANGED disk
    BY <1>2 DEF disk, FilesOK, Quiet
  <1>3. CASE GiveUp(w)
    BY <1>3, GiveUpFiles DEF Quiet, Disturbed, ImageFiles
  <1>4. CASE \E op : Calls(w, op)
    <2>1. PICK op \in FileCalls : AtOp(q, op) /\ DiskDoes(w, q, op)
      BY <1>4 DEF Calls
    <2>2. CASE op = "write"
      <3>1. DiskWrite(w, q) /\ WriteTarget(w, q) \in Files
        BY <1>1, <2>1, <2>2, WriteTo DEF DiskDoes
      <3>2. WriteTarget(w, q) \in {Temp(w), ImageTemp(q.arg)}
        BY DEF WriteTarget
      <3>3. UNCHANGED disk \/ \E c, left : SetFile(WriteTarget(w, q), c, left)
        BY <3>1, Zenon DEF DiskWrite
      <3> QED
        BY <1>2, <3>1, <3>2, <3>3, PutIs DEF Quiet, Untouched, Disturbed, ImageFiles
    <2>3. CASE op = "fsync"
      <3>1. DiskFsync(w, q) /\ WriteTarget(w, q) \in Files
        BY <1>1, <2>1, <2>3, WriteTo DEF DiskDoes
      <3>2. WriteTarget(w, q) \in {Temp(w), ImageTemp(q.arg)}
        BY DEF WriteTarget
      <3>3. UNCHANGED disk \/ \E c, left : SetFile(WriteTarget(w, q), c, left)
        BY <3>1, Zenon DEF DiskFsync
      <3> QED
        BY <1>2, <3>1, <3>2, <3>3, PutIs DEF Quiet, Untouched, Disturbed, ImageFiles
    <2>4. CASE op = "create"
      <3>1. \E c, left : SetFile(ImageTemp(q.arg), c, left)
        BY <2>1, <2>4, Zenon DEF DiskDoes
      <3>2. ImageTemp(q.arg) \in Files
        BY <1>1, <2>1, <2>4, AtCreate, FileNames DEF ArgOK
      <3> QED
        BY <3>1, <3>2, PutIs DEF Quiet, Untouched, Disturbed, ImageFiles
    <2>5. CASE op = "copy"
      <3>1. \E c, left : SetFile(Temp(w), c, left)
        BY <2>1, <2>5, Zenon DEF DiskDoes
      <3> QED
        BY <3>1, FileNames, PutIs DEF Quiet, Untouched, Disturbed
    <2>6. CASE op = "rename"
      <3>1. Renames(Temp(w), RenameTarget(q))
        BY <2>1, <2>6 DEF DiskDoes
      <3>2. RenameTarget(q) \in Files /\ RenameTarget(q) # Temp(w)
        BY <1>1, <2>1, <2>6, RenameTo, FileNames, TempNames
      <3> QED
        BY <2>1, <2>6, <3>1, <3>2, FileNames, RenamesIs DEF Quiet, Untouched, Disturbed
    <2>7. CASE op = "sync_dir"
      <3>1. \E c, left : SetFile(SyncTarget(q), c, left)
        BY <2>1, <2>7, Zenon DEF DiskDoes, DiskSyncDir
      <3>2. SyncTarget(q) \in Files
        BY <1>1, <2>1, <2>7, SyncTo
      <3> QED
        BY <2>1, <2>7, <3>1, <3>2, PutIs DEF Quiet, Untouched, Disturbed
    <2>8. CASE op = "sync"
      <3>1. after' = [f \in Files |-> {file[f]}] /\ UNCHANGED file
        BY <2>1, <2>8 DEF DiskDoes
      <3> QED
        BY <3>1 DEF Quiet, FilesOK
    <2> QED
      BY <2>1, <2>2, <2>3, <2>4, <2>5, <2>6, <2>7, <2>8 DEF FileCalls
  <1>5. CASE Publish(w)
    <2>1. AtOp(q, "publish")
      BY <1>5, AtStepIs DEF Publish
    <2>2. /\ Step(w)[2] = q.arg /\ q.arg \in Images
      BY <1>1, <2>1, AtPublish, PublishNames DEF Step, ArgOK
    <2>3. GiveUp(w) \/ Renames(ImageTemp(q.arg), Image(q.arg))
      BY <1>5, <2>2 DEF Publish, Renames
    <2>4. CASE Renames(ImageTemp(q.arg), Image(q.arg))
      BY <2>2, <2>4, FileNames, ImageNames, RenamesIs DEF Quiet, Untouched, Disturbed, ImageFiles
    <2> QED
      BY <1>3, <2>3, <2>4
  <1>6. CASE Delete(w)
    <2>1. PICK gone : /\ Deleted(gone)
                      /\ gone \subseteq CardFiles \/ gone = {Image(q.arg)} \/ gone = {ImageTemp(q.arg)}
      BY <1>6, DeleteIs
    <2>2. \A f \in Files : Quiet(f) \/ f \in gone
      BY <2>1, DeletedIs DEF Quiet
    <2> QED
      BY <1>6, <2>1, <2>2, DeleteIs DEF Disturbed, ImageFiles
  <1> QED
    BY <1>2, <1>3, <1>4, <1>5, <1>6, DiskKinds
-----------------------------------------------------------------------------
(* Whole files *)

Synced(f, fl, af) == fl[f] \in af[f] /\ af[f] \subseteq Holds(fl[f])
CopyWhole(q) == (q.req = "password" /\ LeftOf(q) = 5) \/ (q.req \in ConfigRequests /\ LeftOf(q) \in 4 .. 8)
TempWhole(q) == (q.req = "password" /\ LeftOf(q) \in 3 .. 4) \/ (q.req \in ConfigRequests /\ LeftOf(q) \in {2, 3, 6, 7})
TempSynced(q) ==
    \/ q.req = "password" /\ LeftOf(q) = 3
    \/ q.req \in ConfigRequests /\ LeftOf(q) \in {2, 6}
    \/ q.req \in KeyRequests /\ LeftOf(q) = 7
SaveOK(w, q, fl, af) ==
    /\ CopyWhole(q) => Whole(q.copy)
    /\ TempWhole(q) => Whole(fl[Temp(w)])
    /\ TempSynced(q) => Synced(Temp(w), fl, af)
WholeAt(f, fl, af) == fl[f] \in af[f] /\ \A c \in af[f] : Sound(f, c)
SavesOK ==
    /\ \A f \in {Password, Config, Backup} : WholeAt(f, file, after)
    /\ \A v \in Workers : SaveOK(v, worker[v], file, after)

NoDuty(s) == ~CopyWhole(s) /\ ~TempWhole(s) /\ ~TempSynced(s)
LEMMA FreshHasNoDuty ==
    ASSUME NEW w, NEW q, NEW s, s = Idler \/ Accepted(s) \/ (q.req \in WebRequests /\ Routed(w, q, s))
                                \/ (Running(w, q) /\ q.req = "logout" /\ Jumped(q, s))
    PROVE  NoDuty(s)
  <1>1. CASE s = Idler \/ Accepted(s)
    <2>1. LeftOf(s) = 0 \/ LeftOf(s) = -1
      BY <1>1, IdlerIs, AcceptedIs
    <2> QED
      BY <2>1 DEF NoDuty, CopyWhole, TempWhole, TempSynced
  <1>2. CASE q.req \in WebRequests /\ Routed(w, q, s)
    <2>1. LeftOf(s) = Size(s.req)
      BY <1>2, RoutedIs
    <2> QED
      BY <2>1 DEF NoDuty, CopyWhole, TempWhole, TempSynced, Size, KeyRequests, ConfigRequests
  <1>3. CASE Running(w, q) /\ q.req = "logout" /\ Jumped(q, s)
    <2>1. s.req = "logout"
      BY <1>3, JumpedIs
    <2> QED
      BY <2>1 DEF NoDuty, CopyWhole, TempWhole, TempSynced, KeyRequests, ConfigRequests
  <1> QED
    BY <1>1, <1>2, <1>3

\* Where the duties of a worker that went one step on come from.
DutyFrom(q, s) ==
    /\ CopyWhole(s) =>
         \/ CopyWhole(q) /\ (AtOp(q, "write") \/ AtOp(q, "fsync") \/ AtOp(q, "copy") \/ AtOp(q, "rename") \/ AtOp(q, "mine"))
         \/ AtOp(q, "new_password") \/ AtOp(q, "edit_config") \/ AtOp(q, "new_config")
    /\ TempWhole(s) =>
         \/ AtOp(q, "write") /\ CopyWhole(q) /\ q.req # "upgrade"
         \/ AtOp(q, "copy")
         \/ AtOp(q, "fsync") /\ TempWhole(q) /\ q.req # "upgrade"
    /\ TempSynced(s) => AtOp(q, "fsync") /\ q.req # "upgrade"
LEMMA DutyOf ==
    ASSUME NEW w, NEW q, Running(w, q), NEW s, Advanced(q, s)
    PROVE  DutyFrom(q, s)
  <1>1. LeftOf(s) = LeftOf(q) - 1 /\ s.req = q.req /\ q.todo # <<>>
    BY AdvancedIs, NextStep DEF StepFacts
  <1>2. LeftOf(q) \in Nat
    BY EveryProgram DEF Running
  <1>3. \A op : AtOp(q, op) <=> Op(q) = op
    BY <1>1 DEF AtOp
  <1>4. CASE q.req = "password"
    <2>1. PasswordOps(q)
      BY <1>4, PasswordOpsAre
    <2> QED
      BY <1>1, <1>2, <1>3, <1>4, <2>1, SMT DEF PasswordOps, DutyFrom, CopyWhole, TempWhole, TempSynced, KeyRequests, ConfigRequests
  <1>5. CASE q.req \in KeyRequests
    <2>1. KeysOps(q)
      BY <1>5, KeysOpsAre
    <2> QED
      BY <1>1, <1>2, <1>3, <1>5, <2>1, SMT DEF KeysOps, DutyFrom, CopyWhole, TempWhole, TempSynced, KeyRequests, ConfigRequests
  <1>6. CASE q.req = "parameters"
    <2>1. ParametersOps(q)
      BY <1>6, ParametersOpsAre
    <2> QED
      BY <1>1, <1>2, <1>3, <1>6, <2>1, SMT DEF ParametersOps, DutyFrom, CopyWhole, TempWhole, TempSynced, KeyRequests, ConfigRequests
  <1>7. CASE q.req = "config"
    <2>1. ConfigOps(q)
      BY <1>7, ConfigOpsAre
    <2> QED
      BY <1>1, <1>2, <1>3, <1>7, <2>1, SMT DEF ConfigOps, DutyFrom, CopyWhole, TempWhole, TempSynced, KeyRequests, ConfigRequests
  <1>8. CASE q.req \notin {"password", "parameters", "config"} \cup KeyRequests
    BY <1>1, <1>8 DEF DutyFrom, CopyWhole, TempWhole, TempSynced, KeyRequests, ConfigRequests
  <1> QED
    BY <1>4, <1>5, <1>6, <1>7, <1>8

LEMMA RenameDuty ==
    ASSUME NEW w, NEW q, OnProgram(w, q), AtOp(q, "rename")
    PROVE  /\ RenameTarget(q) \in {Password, Config, Backup} => TempWhole(q)
           /\ RenameTarget(q) # Runtime => TempSynced(q)
  BY AtRename, FixedNames DEF RenameTarget, TempWhole, TempSynced, KeyRequests, ConfigRequests

LEMMA NamedAll ==
    ASSUME NEW w \in Workers, WorkersOK, ArgsOK, AtOp(worker[w], "write") \/ AtOp(worker[w], "fsync"), worker[w].req # "upgrade"
    PROVE  ~Nameless(w) /\ WriteTarget(w, worker[w]) = Temp(w)
  BY DEF Nameless, WriteTarget

\* The worker's own duties.
LEMMA OwnSaves ==
    ASSUME NEW w \in Workers, WorkersOK, FilesOK, ArgsOK, SavesOK,
           Connect(w) \/ (WorkerStep(w) /\ ~Reboot(w)) \/ Fail(w)
    PROVE  SaveOK(w, worker'[w], file', after')
  <1> DEFINE q == worker[w]
  <1>1. PICK s : TurnsTo(w, s) /\ Moves(w, q, s)
    BY StepMoves DEF MovedOn
  <1>2. worker'[w] = s
    BY <1>1, BecomesIs
  <1>3. CASE s = Idler \/ Accepted(s) \/ (q.req \in WebRequests /\ Routed(w, q, s))
             \/ (Running(w, q) /\ q.req = "logout" /\ Jumped(q, s))
    BY <1>2, <1>3, FreshHasNoDuty DEF NoDuty, SaveOK
  <1>4. CASE s # Idler /\ Running(w, q) /\ Advanced(q, s)
    <2>1. DutyFrom(q, s) /\ q.todo # <<>> /\ OnProgram(w, q)
      BY <1>4, DutyOf, NextStep DEF StepFacts, WorkersOK
    <2>2. SaveOK(w, q, file, after) /\ Temp(w) \in Files
      BY FileNames DEF SavesOK
    <2>3. WorkerStep(w) \/ (\A op : ~AtStep(w, op)) \/ Fail(w)
      BY DEF Connect, Accept, AtStep
    <2>4. ~Fail(w)
      BY <1>2, <1>4, StopIs, BecomesIs DEF Fail, GiveUp
    <2>5. \A op : AtOp(q, op) => AtStep(w, op) /\ WorkerStep(w)
      BY <2>3, <2>4, AtStepIs
    <2>6. \A op : AtOp(q, op) /\ op \in {"write", "fsync", "create", "copy", "rename", "sync_dir", "sync", "mine", "serve"}
             => DiskDoes(w, q, op) /\ s.copy = q.copy
      <3> SUFFICES ASSUME NEW op, AtOp(q, op), op \in {"write", "fsync", "create", "copy", "rename", "sync_dir", "sync", "mine", "serve"}
                   PROVE  DiskDoes(w, q, op) /\ s.copy = q.copy
        OBVIOUS
      <3>0. op = "copy" => FileStep(w)
        BY <2>5, <1>2, <1>4, ActionOf, StopIs, BecomesIs DEF GiveUp
      <3>1. DiskDoes(w, q, op) /\ Rest2(w, q)
        BY <2>5, <3>0, DiskIs
      <3>2. s = Rec(q.req, q.arg, Tail(q.todo), q.copy, q.list)
        BY <1>2, <3>1, BecomesIs DEF Rest2
      <3> QED
        BY <3>1, <3>2, RecFields
    <2>7. CopyWhole(s) => Whole(s.copy)
      <3>1. CASE CopyWhole(q) /\ (AtOp(q, "write") \/ AtOp(q, "fsync") \/ AtOp(q, "copy") \/ AtOp(q, "rename") \/ AtOp(q, "mine"))
        BY <2>2, <2>6, <3>1 DEF SaveOK
      <3>2. CASE AtOp(q, "new_password") \/ AtOp(q, "edit_config") \/ AtOp(q, "new_config")
        <4>1. Edit(w)
          BY <2>5, <3>2, ActionOf
        <4>2. ~GiveUp(w)
          BY <1>2, <1>4, StopIs, BecomesIs DEF GiveUp
        <4>3. PICK c \in Edited(w) : Goto(w, Tail(q.todo), c)
          BY <4>1, <4>2 DEF Edit
        <4>4. s.copy = c
          BY <4>3, <1>2, GotoIs, BecomesIs, RecFields
        <4>5. CASE q.req = "password"
          BY <4>3, <4>4, <4>5, Contents DEF Edited
        <4>6. CASE q.req = "config"
          BY <4>3, <4>4, <4>6, Contents DEF Edited
        <4>7. CASE q.req = "parameters"
          <5>1. q.arg \in Settings
            BY <1>4, <4>7, EveryProgram DEF ArgsOK, ArgOK, Running
          <5> QED
            BY <4>3, <4>4, <4>7, <5>1, Contents DEF Edited, ini_apply_updates
        <4> QED
          BY <2>1, <3>2, <4>5, <4>6, <4>7, AtNewPassword, AtEditConfig, AtNewConfig
      <3> QED
        BY <2>1, <3>1, <3>2 DEF DutyFrom
    <2>8. TempWhole(s) => Whole(file'[Temp(w)])
      <3>1. CASE AtOp(q, "write") /\ CopyWhole(q) /\ q.req # "upgrade"
        <4>1. SetFile(Temp(w), q.copy, {Absent, Torn})
          BY <2>6, <3>1, NamedAll DEF DiskDoes, DiskWrite
        <4> QED
          BY <2>2, <3>1, <4>1, PutIs DEF SaveOK
      <3>2. CASE AtOp(q, "copy")
        <4>1. file[Config] # Absent /\ SetFile(Temp(w), file[Config], {Absent, Torn})
          BY <2>6, <3>2 DEF DiskDoes
        <4> QED
          BY <2>2, <4>1, PutIs DEF SavesOK, WholeAt, Sound, Whole
      <3>3. CASE AtOp(q, "fsync") /\ TempWhole(q) /\ q.req # "upgrade"
        <4>1. \E left : SetFile(Temp(w), file[Temp(w)], left)
          BY <2>6, <3>3, NamedAll DEF DiskDoes, DiskFsync
        <4> QED
          BY <2>2, <3>3, <4>1, PutIs DEF SaveOK
      <3> QED
        BY <2>1, <3>1, <3>2, <3>3 DEF DutyFrom
    <2>9. TempSynced(s) => Synced(Temp(w), file', after')
      <3> SUFFICES ASSUME AtOp(q, "fsync"), q.req # "upgrade" PROVE Synced(Temp(w), file', after')
        BY <2>1 DEF DutyFrom
      <3>1. SetFile(Temp(w), file[Temp(w)], Holds(file[Temp(w)]))
        BY <2>6, NamedAll DEF DiskDoes, DiskFsync
      <3>2. file'[Temp(w)] = file[Temp(w)] /\ after'[Temp(w)] = Holds(file[Temp(w)])
        BY <2>2, <3>1, PutIs
      <3> QED
        BY <3>2 DEF Synced, Holds
    <2> QED
      BY <1>2, <2>7, <2>8, <2>9 DEF SaveOK
  <1> QED
    BY <1>1, <1>3, <1>4 DEF Moves

LEMMA QuietKeeps ==
    ASSUME NEW f, Quiet(f)
    PROVE  /\ WholeAt(f, file, after) => WholeAt(f, file', after')
           /\ Synced(f, file, after) => Synced(f, file', after')
  BY DEF Quiet, WholeAt, Synced, Holds

LEMMA StepSaves ==
    ASSUME NEW w \in Workers, WorkersOK, FilesOK, ArgsOK, SavesOK,
           Connect(w) \/ (WorkerStep(w) /\ ~Reboot(w)) \/ Fail(w)
    PROVE  SavesOK'
  <1> DEFINE q == worker[w]
  <1>1. \A f \in Files : Quiet(f) \/ Disturbed(w, q, f)
    BY Disturbs
  <1>2. OnProgram(w, q) /\ ArgOK(q) /\ SaveOK(w, q, file, after)
    BY DEF WorkersOK, ArgsOK, SavesOK
  <1>3. ASSUME NEW v \in Workers \ {w}
        PROVE  SaveOK(v, worker'[v], file', after')
    <2>1. worker'[v] = worker[v]
      BY StepMoves, BecomesIs DEF MovedOn
    <2>2. Quiet(Temp(v))
      BY <1>1, <1>2, FileNames, TempNames, RenameTo, SyncTo, CardNames DEF Disturbed, ImageFiles
    <2> QED
      BY <2>1, <2>2, QuietKeeps DEF SavesOK, SaveOK, Quiet
  <1>4. ASSUME NEW f \in {Password, Config, Backup}
        PROVE  WholeAt(f, file', after')
    <2>1. f \in Files /\ f # Temp(w) /\ (\A i : f \notin ImageFiles(i)) /\ WholeAt(f, file, after)
      BY FileNames, TempNames, ImageNames DEF ImageFiles, SavesOK
    <2>2. CASE Quiet(f)
      BY <2>1, <2>2, QuietKeeps
    <2>3. WorkerStep(w) \/ (\A op : ~AtStep(w, op)) \/ Fail(w)
      BY DEF Connect, Accept, AtStep
    <2>4. CASE Fail(w)
      <3>1. Quiet(f)
        BY <2>1, <2>4, GiveUpFiles DEF Fail, Quiet, ImageFiles
      <3> QED
        BY <2>2, <3>1
    <2>5. CASE ~Fail(w) /\ AtOp(q, "rename") /\ f = RenameTarget(q)
      <3>1. Renames(Temp(w), f)
        BY <2>3, <2>5, AtStepIs, DiskIs DEF DiskDoes
      <3>2. TempWhole(q) /\ TempSynced(q)
        BY <1>2, <2>5, RenameDuty, FixedNames
      <3>3. Whole(file[Temp(w)]) /\ Synced(Temp(w), file, after)
        BY <1>2, <3>2 DEF SaveOK
      <3>4. file'[f] = file[Temp(w)] /\ after'[f] = after[f] \cup (after[Temp(w)] \ {Absent})
        BY <2>1, <3>1, FileNames, RenamesIs
      <3> QED
        BY <2>1, <3>3, <3>4 DEF WholeAt, Synced, Holds, Whole, Sound
    <2>6. CASE ~Fail(w) /\ AtOp(q, "sync_dir") /\ f = SyncTarget(q)
      <3>1. DiskSyncDir(w, q)
        BY <2>3, <2>6, AtStepIs, DiskIs DEF DiskDoes
      <3>2. file'[f] = file[f] /\ after'[f] = {c \in after[f] : c = Torn \/ c = file[f]}
        BY <2>1, <2>6, <3>1, PutIs DEF DiskSyncDir
      <3> QED
        BY <2>1, <3>2 DEF WholeAt
    <2>7. CASE Delete(w) /\ f \in CardFiles
      <3>1. PICK gone : Deleted(gone)
        BY <2>7, DeleteIs
      <3>2. Quiet(f) \/ (file'[f] = Absent /\ after'[f] = after[f] \cup {Absent})
        BY <2>1, <3>1, DeletedIs DEF Quiet
      <3>3. Sound(f, Absent)
        BY <2>7, Contents DEF Sound
      <3> QED
        BY <2>1, <2>2, <3>2, <3>3 DEF WholeAt
    <2> QED
      BY <1>1, <2>1, <2>2, <2>4, <2>5, <2>6, <2>7 DEF Disturbed
  <1> QED
    BY <1>3, <1>4, OwnSaves DEF SavesOK
-----------------------------------------------------------------------------
(* Restarts *)

LEMMA RestartFiles ==
    ASSUME FilesOK, PowerCut \/ \E w \in Workers : Reboot(w)
    PROVE  /\ FilesOK' /\ \E left : Restarted(left)
           /\ \A f \in Files \ {Runtime} : /\ after'[f] = {file'[f]}
                                           /\ file[f] \in after[f] => file'[f] \in after[f]
  <1>1. CASE \E w \in Workers : Reboot(w)
    <2>1. Restarted(file)
      BY <1>1 DEF Reboot
    <2>2. file' = [f \in Files |-> IF f = Runtime THEN file[KeyFile] ELSE file[f]] /\ after' = [f \in Files |-> {file'[f]}]
      BY <2>1 DEF Restarted
    <2> QED
      BY <2>1, <2>2 DEF FilesOK
  <1>2. CASE PowerCut
    <2> DEFINE Left1(bad) == [f \in Files |-> IF f \in bad \/ file[f] \notin after[f]
                                   THEN CHOOSE c \in after[f] : c # file[f] ELSE file[f]]
    <2>1. PICK bad \in SUBSET Uncertain : Restarted(Left1(bad))
      BY <1>2 DEF PowerCut
    <2>2. ASSUME NEW f \in Files, file[f] \in after[f]
          PROVE  Left1(bad)[f] \in after[f]
      <3>1. CASE f \in bad
        <4>1. Cardinality(after[f]) > 1
          BY <2>1, <3>1 DEF Uncertain
        <4>2. after[f] # {file[f]}
          <5>1. Cardinality({file[f]}) = 1
            BY FS_Singleton, Zenon
          <5> QED
            BY <4>1, <5>1
        <4>3. \E c \in after[f] : c # file[f]
          BY <2>2, <4>2
        <4>4. (CHOOSE c \in after[f] : c # file[f]) \in after[f]
          BY <4>3
        <4> QED
          BY <3>1, <4>4
      <3>2. CASE f \notin bad
        BY <2>2, <3>2
      <3> QED
        BY <3>1, <3>2
    <2> DEFINE left == Left1(bad)
    <2> HIDE DEF Left1
    <2>3. file' = [f \in Files |-> IF f = Runtime THEN left[KeyFile] ELSE left[f]] /\ after' = [f \in Files |-> {file'[f]}]
      BY <2>1 DEF Restarted
    <2> QED
      BY <2>1, <2>2, <2>3 DEF FilesOK
  <1> QED
    BY <1>1, <1>2

LEMMA IdlersSave == \A w, fl, af : SaveOK(w, Idler, fl, af)
  BY IdlerIs DEF SaveOK, CopyWhole, TempWhole, TempSynced

LEMMA RestartSaves ==
    ASSUME FilesOK, SavesOK, PowerCut \/ \E w \in Workers : Reboot(w)
    PROVE  SavesOK'
  <1>1. \A f \in Files \ {Runtime} : /\ after'[f] = {file'[f]}
                                     /\ file[f] \in after[f] => file'[f] \in after[f]
    BY RestartFiles
  <1>2. \A v \in Workers : worker'[v] = Idler
    BY RestartFiles, RestartIdles
  <1>3. \A f \in {Password, Config, Backup} : WholeAt(f, file', after')
    BY <1>1, FileNames, FixedNames DEF WholeAt, SavesOK
  <1> QED
    BY <1>2, <1>3, IdlersSave DEF SavesOK

\* The steps of the service: time passes, it restarts, or one worker moves.
LEMMA NextIs ==
    ASSUME AccessNext
    PROVE  \/ Tick
           \/ PowerCut \/ \E w \in Workers : Reboot(w)
           \/ \E w \in Workers : Connect(w) \/ (WorkerStep(w) /\ ~Reboot(w)) \/ Fail(w)
  BY DEF AccessNext, WorkerStep

LEMMA InitFiles == AccessInit => FilesOK /\ \A f \in Files : file[f] = Fresh(f) /\ after[f] = {Fresh(f)}
  BY DEF AccessInit, FilesOK

LEMMA InitWorkers == AccessInit => \A v \in Workers : worker[v] = Idler
  BY DEF AccessInit, Idler, Rec

SafeFiles == FilesOK /\ ArgsOK /\ SavesOK
LEMMA FilesAreSaved == AccessSpec => []SafeFiles
  <1>1. AccessInit => SafeFiles
    <2> SUFFICES ASSUME AccessInit PROVE SafeFiles
      OBVIOUS
    <2>1. ArgsOK
      BY InitWorkers, IdlerIs DEF ArgsOK, ArgOK
    <2>2. \A f \in {Password, Config, Backup} : Whole(Fresh(f))
      BY FixedNames, Contents, Zenon DEF Fresh
    <2>3. \A f \in {Password, Config, Backup} : WholeAt(f, file, after)
      BY <2>2, InitFiles, FileNames DEF WholeAt, Sound, Whole
    <2> QED
      BY <2>1, <2>3, InitFiles, InitWorkers, IdlersSave DEF SavesOK, SafeFiles
  <1>2. SafeFiles /\ WorkersOK /\ LocksOK /\ [AccessNext]_accessVars => SafeFiles'
    <2> SUFFICES ASSUME FilesOK, ArgsOK, SavesOK, WorkersOK, [AccessNext]_accessVars
                 PROVE  (FilesOK /\ ArgsOK /\ SavesOK)'
      BY DEF SafeFiles
    <2>1. CASE UNCHANGED <<worker, file, after>>
      BY <2>1 DEF FilesOK, ArgsOK, SavesOK
    <2>2. CASE PowerCut \/ \E w \in Workers : Reboot(w)
      BY <2>2, RestartFiles, RestartArgs, RestartSaves
    <2>3. ASSUME NEW w \in Workers, Connect(w) \/ (WorkerStep(w) /\ ~Reboot(w)) \/ Fail(w)
          PROVE  (FilesOK /\ ArgsOK /\ SavesOK)'
      BY <2>3, Disturbs, StepArgs, StepSaves
    <2> QED
      BY <2>1, <2>2, <2>3, NextIs DEF Tick, accessVars, disk
  <1> QED
    BY <1>1, <1>2, WorkersAndLocks, PTL DEF AccessSpec
-----------------------------------------------------------------------------
(* Keys *)

KeysFit(c, i, o) == c \subseteq Keys /\ c # {} /\ i \subseteq c /\ o \cap c = {}
HandledBy(q, c) == (q.req = "add_key" => q.arg \in c) /\ (q.req = "remove_key" => q.arg \notin c)
Unanswered(q, i, o) == (q.req = "add_key" => q.arg \notin o) /\ (q.req = "remove_key" => q.arg \notin i)
KeyDuty(w, q, fl, af, i, o) ==
    q.req \in KeyRequests =>
        /\ LeftOf(q) # 0 => Unanswered(q, i, o)
        /\ LeftOf(q) \in 1 .. 10 => KeysFit(q.copy, i, o)
        /\ LeftOf(q) \in 1 .. 9 => HandledBy(q, q.copy)
        /\ LeftOf(q) \in 7 .. 8 => fl[Temp(w)] = q.copy
        /\ LeftOf(q) \in 1 .. 6 => fl[KeyFile] = q.copy
        /\ LeftOf(q) \in 1 .. 5 => af[KeyFile] = {q.copy}
KeyInstalled(fl, af, i, o) == fl[KeyFile] \in af[KeyFile] /\ \A c \in af[KeyFile] : KeysFit(c, i, o)
KeysOK ==
    /\ KeyInstalled(file, after, ghost.in, ghost.out)
    /\ \A v \in Workers : KeyDuty(v, worker[v], file, after, ghost.in, ghost.out)

LEMMA GhostMoves ==
    ASSUME NEW w \in Workers, Connect(w) \/ (WorkerStep(w) /\ ~Reboot(w)) \/ Fail(w)
    PROVE  UNCHANGED ghost \/ Connect(w) \/ Unlock(w) \/ Store(w) \/ Fail(w)
  BY DEF WorkerStep, authenticate, Lock, load_sessions, EditSessions, Truncate, Read, Edit, FileStep, CheckImage, Publish, Delete

\* An answer takes a key in or out; nothing else adds to what was answered.
Answers(w) ==
    /\ Unlock(w) /\ worker[w].req \in KeyRequests
    /\ ~Contested(w, worker[w].arg)
    /\ ghost'.in = (IF worker[w].req = "add_key" THEN ghost.in \cup {worker[w].arg} ELSE ghost.in)
    /\ ghost'.out = (IF worker[w].req = "remove_key" THEN ghost.out \cup {worker[w].arg} ELSE ghost.out)
LEMMA GhostKeys ==
    ASSUME NEW w \in Workers, GhostOK, Connect(w) \/ (WorkerStep(w) /\ ~Reboot(w)) \/ Fail(w)
    PROVE  /\ GhostOK'
           /\ (ghost'.in \subseteq ghost.in /\ ghost'.out \subseteq ghost.out) \/ Answers(w)
  <1>1. CASE UNCHANGED ghost
    BY <1>1 DEF GhostOK
  <1>2. CASE Connect(w)
    <2>1. PICK r, a : Accept(w, r, a)
      BY <1>2, ConnectIs
    <2> QED
      BY <2>1, AcceptGhost DEF AcceptGives
  <1>3. CASE Unlock(w)
    <2> DEFINE q == worker[w]
    <2>1. /\ GhostOK'
          /\ ghost'.in = (IF q.req = "add_key" /\ ~Contested(w, q.arg) THEN ghost.in \cup {q.arg} ELSE ghost.in)
          /\ ghost'.out = (IF q.req = "remove_key" /\ ~Contested(w, q.arg) THEN ghost.out \cup {q.arg} ELSE ghost.out)
      BY <1>3, AnsweredGhost DEF Unlock
    <2>2. CASE q.req \in KeyRequests /\ ~Contested(w, q.arg)
      BY <1>3, <2>1, <2>2 DEF Answers, KeyRequests
    <2>3. CASE ~(q.req \in KeyRequests /\ ~Contested(w, q.arg))
      BY <2>1, <2>3 DEF KeyRequests
    <2> QED
      BY <2>2, <2>3
  <1>4. CASE Store(w)
    BY <1>4, StoreGhost
  <1>5. CASE Fail(w)
    BY <1>5, FailGhost
  <1> QED
    BY <1>1, <1>2, <1>3, <1>4, <1>5, GhostMoves

LEMMA FitWeaker ==
    ASSUME NEW i, NEW o, NEW i2, NEW o2, i2 \subseteq i, o2 \subseteq o
    PROVE  /\ \A c : KeysFit(c, i, o) => KeysFit(c, i2, o2)
           /\ \A q : Unanswered(q, i, o) => Unanswered(q, i2, o2)
  BY DEF KeysFit, Unanswered

LEMMA FitWhole == \A c, i, o : KeysFit(c, i, o) => Whole(c) /\ c # Absent /\ c # Torn
  BY Contents DEF KeysFit, Whole

LEMMA EditedFits ==
    ASSUME NEW q, q.req \in KeyRequests, q.arg \in Keys, NEW i, NEW o, KeysFit(q.copy, i, o), Unanswered(q, i, o),
           NEW c \in EditedKeys(q)
    PROVE  KeysFit(c, i, o) /\ HandledBy(q, c)
  <1>1. CASE q.req = "add_key"
    <2>1. c = q.copy \cup {q.arg}
      BY <1>1 DEF EditedKeys
    <2> QED
      BY <1>1, <2>1 DEF KeysFit, HandledBy, Unanswered
  <1>2. CASE q.req = "remove_key"
    <2>1. c = q.copy \ {q.arg} /\ q.arg \in q.copy /\ q.copy # {q.arg}
      BY <1>2 DEF EditedKeys
    <2> QED
      BY <1>2, <2>1 DEF KeysFit, HandledBy, Unanswered
  <1> QED
    BY <1>1, <1>2 DEF KeyRequests

LEMMA KeysOpOf ==
    ASSUME NEW w, NEW q, Running(w, q), q.req \in KeyRequests
    PROVE  /\ LeftOf(q) \in 1 .. 12
           /\ LeftOf(q) = 11 => AtOp(q, "read")
           /\ LeftOf(q) = 10 => AtOp(q, "edit_keys")
           /\ LeftOf(q) \in {9, 5} => AtOp(q, "write")
           /\ LeftOf(q) \in {8, 4} => AtOp(q, "fsync")
           /\ LeftOf(q) \in {7, 3} => AtOp(q, "rename")
           /\ LeftOf(q) \in {6, 2} => AtOp(q, "sync_dir")
  <1>1. KeysOps(q) /\ LeftOf(q) \in 1 .. 12
    BY KeysOpsAre, KeysSteps DEF KeysStep
  <1>2. \A op : AtOp(q, op) <=> Op(q) = op
    BY NextStep DEF AtOp, StepFacts
  <1> QED
    BY <1>1, <1>2 DEF KeysOps
LEMMA Stepping ==
    ASSUME NEW w \in Workers, WorkersOK, Connect(w) \/ (WorkerStep(w) /\ ~Reboot(w)) \/ Fail(w),
           worker'[w] # Idler, NEW op, AtOp(worker[w], op)
    PROVE  WorkerStep(w) /\ ~Reboot(w) /\ AtStep(w, op) /\ ~Fail(w) /\ ~GiveUp(w)
  <1>1. AtStep(w, op)
    BY AtStepIs
  <1>2. ~Connect(w)
    BY <1>1 DEF Connect, Accept, AtStep
  <1>3. ~GiveUp(w)
    BY StopIs, BecomesIs DEF GiveUp
  <1> QED
    BY <1>1, <1>2, <1>3 DEF Fail

\* A worker that a step on files took one further.
LEMMA FileSteps ==
    ASSUME NEW w \in Workers, WorkersOK, Connect(w) \/ (WorkerStep(w) /\ ~Reboot(w)) \/ Fail(w),
           worker'[w] # Idler, NEW op, AtOp(worker[w], op),
           op \in {"write", "fsync", "create", "copy", "rename", "sync_dir", "sync", "mine", "serve"}
    PROVE  DiskDoes(w, worker[w], op) /\ worker'[w].copy = worker[w].copy /\ UNCHANGED ghost
  <1>1. WorkerStep(w) /\ AtStep(w, op)
    BY Stepping
  <1>0. op = "copy" => FileStep(w)
    BY <1>1, Stepping, ActionOf
  <1>2. DiskDoes(w, worker[w], op) /\ Rest2(w, worker[w]) /\ UNCHANGED ghost
    BY <1>0, <1>1, DiskIs
  <1>3. worker'[w] = Rec(worker[w].req, worker[w].arg, Tail(worker[w].todo), worker[w].copy, worker[w].list)
    BY <1>2, BecomesIs DEF Rest2
  <1> QED
    BY <1>2, <1>3, RecFields

LEMMA OwnKeys ==
    ASSUME NEW w \in Workers, WorkersOK, FilesOK, ArgsOK, SavesOK, GhostOK, KeysOK,
           Connect(w) \/ (WorkerStep(w) /\ ~Reboot(w)) \/ Fail(w)
    PROVE  KeyDuty(w, worker'[w], file', after', ghost'.in, ghost'.out)
  <1> DEFINE q == worker[w]
  <1>1. PICK s : TurnsTo(w, s) /\ Moves(w, q, s)
    BY StepMoves DEF MovedOn
  <1>2. worker'[w] = s
    BY <1>1, BecomesIs
  <1>3. (ghost'.in \subseteq ghost.in /\ ghost'.out \subseteq ghost.out) \/ AtOp(q, "unlock")
    BY GhostKeys, AtStepIs DEF Answers, Unlock
  <1>4. /\ KeyDuty(w, q, file, after, ghost.in, ghost.out) /\ KeyInstalled(file, after, ghost.in, ghost.out)
        /\ OnProgram(w, q) /\ ArgOK(q)
    BY DEF KeysOK, WorkersOK, ArgsOK
  <1>5. CASE s = Idler
    BY <1>2, <1>5, IdlerIs DEF KeyDuty, KeyRequests
  <1>6. CASE LeftOf(q) = 0 /\ Accepted(s)
    <2>1. \A op : ~AtOp(q, op)
      BY <1>6, <1>4, AuthFacts, EveryProgram, NotAuth, AtAuth DEF Running
    <2>2. Connect(w)
      <3>1. ~Fail(w)
        BY <2>1, AtStepIs DEF Fail, AtStep
      <3>2. ~WorkerStep(w)
        BY <2>1, AtStepIs, FileStepOp DEF WorkerStep, authenticate, Lock, Unlock, load_sessions, EditSessions, Truncate,
           Store, Read, Edit, CheckImage, Publish, Delete, Reboot
      <3> QED
        BY <3>1, <3>2
    <2>3. PICK r, a : Accept(w, r, a) /\ TurnsTo(w, Rec(r, a, Auth, {}, <<>>))
      BY <2>2, ConnectIs
    <2>4. s.req = r /\ s.arg = a
      BY <1>2, <2>3, BecomesIs, RecFields
    <2>5. LeftOf(s) = -1
      BY <1>6, AcceptedIs
    <2>6. Unanswered(s, ghost'.in, ghost'.out)
      <3>1. /\ ghost'.out = (IF r = "add_key" THEN ghost.out \ {a} ELSE ghost.out)
            /\ ghost'.in = (IF r = "remove_key" THEN ghost.in \ {a} ELSE ghost.in)
        <4>1. AcceptGives(r, a)
          BY <2>3, AcceptGhost
        <4> QED
          BY <4>1 DEF AcceptGives
      <3> QED
        BY <2>4, <3>1 DEF Unanswered
    <2> QED
      BY <1>2, <2>5, <2>6 DEF KeyDuty
  <1>7. CASE q.req \in WebRequests /\ LeftOf(q) = -1 /\ Routed(w, q, s)
    <2>1. s.req = q.req /\ s.arg = q.arg /\ LeftOf(s) = Size(q.req)
      BY <1>7, RoutedIs
    <2>2. ~AtOp(q, "unlock")
      BY <1>4, <1>7, AtUnlock
    <2> QED
      BY <1>2, <1>3, <1>4, <1>7, <2>1, <2>2 DEF KeyDuty, Size, KeyRequests, Unanswered
  <1>8. CASE Running(w, q) /\ q.req = "logout" /\ Jumped(q, s)
    BY <1>2, <1>8, JumpedIs DEF KeyDuty, KeyRequests
  <1>9. CASE s # Idler /\ Running(w, q) /\ Advanced(q, s) /\ s.req \in KeyRequests
    <2>1. /\ LeftOf(s) = LeftOf(q) - 1 /\ s.req = q.req /\ s.arg = q.arg
          /\ LeftOf(q) \in 1 .. 12 /\ q.req \in KeyRequests /\ q.arg \in Keys
      BY <1>4, <1>9, AdvancedIs, KeysOpOf DEF ArgOK
    <2>2. /\ LeftOf(q) = 11 => AtOp(q, "read")
          /\ LeftOf(q) = 10 => AtOp(q, "edit_keys")
          /\ LeftOf(q) \in {9, 5} => AtOp(q, "write")
          /\ LeftOf(q) \in {8, 4} => AtOp(q, "fsync")
          /\ LeftOf(q) \in {7, 3} => AtOp(q, "rename")
          /\ LeftOf(q) \in {6, 2} => AtOp(q, "sync_dir")
      BY <1>9, <2>1, KeysOpOf
    <2>3. LeftOf(q) # 1 => ghost'.in \subseteq ghost.in /\ ghost'.out \subseteq ghost.out
      BY <1>3, <1>4, <2>1, AtUnlock DEF KeyRequests
    <2>4. Unanswered(q, ghost.in, ghost.out)
      BY <1>4, <2>1 DEF KeyDuty
    <2>5. LeftOf(s) # 0 => Unanswered(s, ghost'.in, ghost'.out)
      BY <2>1, <2>3, <2>4 DEF Unanswered
    <2>6. \A op : AtOp(q, op) => AtStep(w, op) /\ WorkerStep(w) /\ ~GiveUp(w)
      BY <1>2, <1>9, Stepping
    <2>7. \A op \in {"write", "fsync", "create", "copy", "rename", "sync_dir", "sync", "mine", "serve"} :
             AtOp(q, op) => DiskDoes(w, q, op) /\ s.copy = q.copy
      BY <1>2, <1>9, FileSteps
    <2>8. LeftOf(q) \in 2 .. 9 => s.copy = q.copy
      BY <2>2, <2>7
    <2>9. CASE LeftOf(q) = 12 \/ LeftOf(q) = 1
      BY <1>2, <2>1, <2>5, <2>9 DEF KeyDuty
    <2>10. CASE LeftOf(q) = 11
      <3>1. Read(w) /\ Head(q.todo)[2] = KeyFile
        BY <1>4, <2>1, <2>2, <2>6, <2>10, ActionOf, ReadNames DEF ReadTarget
      <3>2. s.copy = file[KeyFile]
        <4>1. Goto(w, Tail(q.todo), file[KeyFile])
          BY <2>2, <2>6, <2>10, <3>1 DEF Read, Step
        <4> QED
          BY <1>2, <4>1, GotoIs, BecomesIs, RecFields
      <3>3. KeysFit(s.copy, ghost'.in, ghost'.out)
        BY <1>4, <2>3, <2>10, <3>2, FitWeaker DEF KeyInstalled
      <3> QED
        BY <1>2, <2>1, <2>5, <2>10, <3>3 DEF KeyDuty
    <2>11. CASE LeftOf(q) = 10
      <3>1. Edit(w) /\ ~GiveUp(w)
        BY <2>2, <2>6, <2>11, ActionOf
      <3>2. PICK c \in EditedKeys(q) : Goto(w, Tail(q.todo), c)
        BY <2>1, <3>1 DEF Edit, Edited, KeyRequests
      <3>3. s.copy = c
        BY <3>2, <1>2, GotoIs, BecomesIs, RecFields
      <3>4. KeysFit(q.copy, ghost.in, ghost.out)
        BY <1>4, <2>1, <2>11 DEF KeyDuty
      <3>5. KeysFit(c, ghost.in, ghost.out) /\ HandledBy(q, c)
        BY <2>1, <2>4, <3>2, <3>4, EditedFits
      <3>6. KeysFit(s.copy, ghost'.in, ghost'.out) /\ HandledBy(s, s.copy)
        <4>1. KeysFit(c, ghost'.in, ghost'.out)
          BY <2>3, <2>11, <3>5, FitWeaker
        <4>2. HandledBy(s, c)
          BY <2>1, <3>5 DEF HandledBy
        <4> QED
          BY <3>3, <4>1, <4>2
      <3> QED
        BY <1>2, <2>1, <2>5, <2>11, <3>6 DEF KeyDuty
    <2>12. CASE LeftOf(q) \in 2 .. 9
      <3>1. KeysFit(s.copy, ghost'.in, ghost'.out) /\ HandledBy(s, s.copy)
        <4>1. KeysFit(q.copy, ghost.in, ghost.out) /\ HandledBy(q, q.copy)
          BY <1>4, <2>1, <2>12 DEF KeyDuty
        <4> QED
          BY <2>1, <2>3, <2>8, <2>12, <4>1, FitWeaker DEF HandledBy
      <3>2. LeftOf(q) \in 8 .. 9 => file'[Temp(w)] = q.copy
        <4>1. q.req # "upgrade" /\ Temp(w) \in Files
          BY <2>1, FileNames DEF KeyRequests
        <4>2. CASE LeftOf(q) = 9
          <5>1. SetFile(Temp(w), q.copy, {Absent, Torn})
            BY <2>2, <2>7, <4>1, <4>2, NamedAll DEF DiskDoes, DiskWrite
          <5> QED
            BY <4>1, <5>1, PutIs
        <4>3. CASE LeftOf(q) = 8
          <5>1. \E left : SetFile(Temp(w), file[Temp(w)], left)
            BY <2>2, <2>7, <4>1, <4>3, NamedAll DEF DiskDoes, DiskFsync
          <5>2. file'[Temp(w)] = file[Temp(w)] /\ file[Temp(w)] = q.copy
            BY <1>4, <2>1, <4>1, <4>3, <5>1, PutIs DEF KeyDuty
          <5> QED
            BY <5>2
        <4> QED
          BY <4>2, <4>3
      <3>3. LeftOf(q) \in 2 .. 7 => file'[KeyFile] = q.copy
        <4>1. CASE LeftOf(q) = 7
          <5>1. Renames(Temp(w), KeyFile)
            BY <2>1, <2>2, <2>7, <4>1 DEF DiskDoes, RenameTarget, KeyRequests
          <5>2. file[Temp(w)] = q.copy
            BY <1>4, <2>1, <4>1 DEF KeyDuty
          <5> QED
            BY <5>1, <5>2, FileNames, TempNames, RenamesIs
        <4>2. CASE LeftOf(q) \in 2 .. 6
          <5>1. file[KeyFile] = q.copy
            BY <1>4, <2>1, <4>2 DEF KeyDuty
          <5>2. file'[KeyFile] = file[KeyFile]
            <6>1. Quiet(KeyFile) \/ Disturbed(w, q, KeyFile)
              BY Disturbs, FileNames
            <6>2. CASE AtOp(q, "sync_dir") /\ KeyFile = SyncTarget(q)
              <7>1. \E left : SetFile(KeyFile, file[KeyFile], left)
                BY <2>7, <6>2 DEF DiskDoes, DiskSyncDir
              <7> QED
                BY <7>1, FileNames, PutIs
            <6>3. ~(AtOp(q, "rename") /\ KeyFile = RenameTarget(q))
              BY <4>2, <2>1, FixedNames DEF RenameTarget, KeyRequests
            <6> QED
              BY <6>1, <6>2, <6>3, TempNames, ImageNames, CardNames DEF Quiet, Disturbed, ImageFiles
          <5> QED
            BY <5>1, <5>2
        <4> QED
          BY <4>1, <4>2
      <3>4. LeftOf(q) \in 2 .. 6 => after'[KeyFile] = {q.copy}
        <4>1. CASE LeftOf(q) = 6
          <5>1. SetFile(KeyFile, file[KeyFile], {c \in after[KeyFile] : c = Torn \/ c = file[KeyFile]})
            BY <2>1, <2>2, <2>7, <4>1 DEF DiskDoes, DiskSyncDir, SyncTarget, KeyRequests
          <5>2. after'[KeyFile] = {c \in after[KeyFile] : c = Torn \/ c = file[KeyFile]}
            BY <5>1, FileNames, PutIs
          <5>3. file[KeyFile] = q.copy
            BY <1>4, <2>1, <4>1 DEF KeyDuty
          <5>4. \A c \in after[KeyFile] : c # Torn
            BY <1>4, FitWhole DEF KeyInstalled
          <5> QED
            BY <1>4, <5>2, <5>3, <5>4 DEF KeyInstalled
        <4>2. CASE LeftOf(q) \in 2 .. 5
          <5>1. after[KeyFile] = {q.copy} /\ file[KeyFile] = q.copy
            BY <1>4, <2>1, <4>2 DEF KeyDuty
          <5>2. Quiet(KeyFile)
            <6>1. ~(AtOp(q, "rename") /\ KeyFile = RenameTarget(q))
              BY <4>2, <2>1, FixedNames DEF RenameTarget, KeyRequests
            <6>2. ~(AtOp(q, "sync_dir") /\ KeyFile = SyncTarget(q))
              BY <4>2, <2>1, FixedNames DEF SyncTarget, KeyRequests
            <6> QED
              BY <6>1, <6>2, Disturbs, FileNames, TempNames, ImageNames, CardNames DEF Disturbed, ImageFiles
          <5> QED
            BY <5>1, <5>2 DEF Quiet
        <4> QED
          BY <4>1, <4>2
      <3> QED
        BY <1>2, <2>1, <2>5, <2>8, <2>12, <3>1, <3>2, <3>3, <3>4 DEF KeyDuty
    <2> QED
      BY <2>1, <2>9, <2>10, <2>11, <2>12
  <1>10. CASE s.req \notin KeyRequests
    BY <1>2, <1>10 DEF KeyDuty
  <1> QED
    BY <1>1, <1>5, <1>6, <1>7, <1>8, <1>9, <1>10 DEF Moves
LEMMA OtherKeys ==
    ASSUME NEW w \in Workers, WorkersOK, LocksOK, FilesOK, ArgsOK, GhostOK, KeysOK, NEW v \in Workers \ {w},
           Connect(w) \/ (WorkerStep(w) /\ ~Reboot(w)) \/ Fail(w)
    PROVE  KeyDuty(v, worker'[v], file', after', ghost'.in, ghost'.out)
  <1> DEFINE q == worker[w]  r == worker[v]
  <1>1. worker'[v] = r
    BY StepMoves, BecomesIs DEF MovedOn
  <1>2. KeyDuty(v, r, file, after, ghost.in, ghost.out) /\ OnProgram(w, q) /\ ArgOK(q)
    BY DEF KeysOK, WorkersOK, ArgsOK
  <1> SUFFICES ASSUME r.req \in KeyRequests
               PROVE  KeyDuty(v, r, file', after', ghost'.in, ghost'.out)
    BY <1>1 DEF KeyDuty
  <1>3. Quiet(Temp(v))
    BY <1>2, Disturbs, FileNames, TempNames, RenameTo, SyncTo, CardNames DEF Disturbed, ImageFiles
  <1>4. LeftOf(r) \in 1 .. 11 => ~HoldsLock(q, "users")
    <2>1. LeftOf(r) \in 1 .. 11 => HoldsLock(r, "users")
      BY DEF HoldsLock
    <2> QED
      BY <2>1 DEF LocksOK, LockNames
  <1>5. LeftOf(r) \in 1 .. 11 => Quiet(KeyFile)
    <2> SUFFICES ASSUME Disturbed(w, q, KeyFile) PROVE HoldsLock(q, "users")
      BY <1>4, Disturbs, FileNames
    <2>1. CASE AtOp(q, "rename") /\ KeyFile = RenameTarget(q)
      BY <1>2, <2>1, AtRename, FixedNames DEF RenameTarget, HoldsLock
    <2>2. CASE AtOp(q, "sync_dir") /\ KeyFile = SyncTarget(q)
      BY <1>2, <2>2, AtSyncDir, FixedNames, ImageNames DEF SyncTarget, HoldsLock
    <2> QED
      BY <2>1, <2>2, TempNames, ImageNames, CardNames DEF Disturbed, ImageFiles
  <1>6. CASE ghost'.in \subseteq ghost.in /\ ghost'.out \subseteq ghost.out
    <2>1. LeftOf(r) # 0 => Unanswered(r, ghost'.in, ghost'.out)
      BY <1>2, <1>6, FitWeaker DEF KeyDuty
    <2>2. LeftOf(r) \in 1 .. 10 => KeysFit(r.copy, ghost'.in, ghost'.out)
      BY <1>2, <1>6, FitWeaker DEF KeyDuty
    <2>3. /\ LeftOf(r) \in 7 .. 8 => file'[Temp(v)] = r.copy
          /\ LeftOf(r) \in 1 .. 6 => file'[KeyFile] = r.copy
          /\ LeftOf(r) \in 1 .. 5 => after'[KeyFile] = {r.copy}
      BY <1>2, <1>3, <1>5 DEF KeyDuty, Quiet
    <2>4. LeftOf(r) \in 1 .. 9 => HandledBy(r, r.copy)
      BY <1>2 DEF KeyDuty
    <2> QED
      BY <2>1, <2>2, <2>3, <2>4 DEF KeyDuty
  <1>7. CASE Answers(w)
    <2>1. Running(w, q) /\ LeftOf(q) = 1 /\ q.req \in KeyRequests
      BY <1>2, <1>7, AtStepIs, AtUnlock DEF Answers, Unlock
    <2>2. HoldsLock(q, "users")
      BY <2>1 DEF HoldsLock
    <2>3. LeftOf(r) \notin 1 .. 11
      BY <1>4, <2>2
    <2>4. LeftOf(r) # 0 => Unanswered(r, ghost'.in, ghost'.out)
      <3> SUFFICES ASSUME LeftOf(r) # 0 PROVE Unanswered(r, ghost'.in, ghost'.out)
        OBVIOUS
      <3>1. ~Spare(v)
        BY AuthFacts DEF Spare, LeftOf
      <3>2. r.arg # q.arg
        BY <1>7, <3>1 DEF Answers, Contested, KeyRequests
      <3>3. Unanswered(r, ghost.in, ghost.out)
        BY <1>2 DEF KeyDuty
      <3> QED
        BY <1>7, <3>2, <3>3 DEF Answers, Unanswered
    <2> QED
      BY <2>3, <2>4 DEF KeyDuty
  <1> QED
    BY <1>6, <1>7, GhostKeys

LEMMA InstalledKeys ==
    ASSUME NEW w \in Workers, WorkersOK, FilesOK, ArgsOK, SavesOK, GhostOK, KeysOK,
           Connect(w) \/ (WorkerStep(w) /\ ~Reboot(w)) \/ Fail(w)
    PROVE  KeyInstalled(file', after', ghost'.in, ghost'.out)
  <1> DEFINE q == worker[w]
  <1>1. /\ KeyInstalled(file, after, ghost.in, ghost.out) /\ KeyDuty(w, q, file, after, ghost.in, ghost.out)
        /\ OnProgram(w, q) /\ ArgOK(q) /\ SaveOK(w, q, file, after)
    BY DEF KeysOK, WorkersOK, ArgsOK, SavesOK
  <1>2. KeyFile \in Files /\ KeyFile # Temp(w) /\ \A i : KeyFile \notin ImageFiles(i)
    BY FileNames, TempNames, ImageNames DEF ImageFiles
  <1>3. CASE Answers(w)
    <2>1. Running(w, q) /\ LeftOf(q) = 1 /\ q.req \in KeyRequests /\ UNCHANGED disk
      BY <1>1, <1>3, AtStepIs, AtUnlock DEF Answers, Unlock
    <2>2. KeysFit(q.copy, ghost.in, ghost.out) /\ HandledBy(q, q.copy) /\ file[KeyFile] = q.copy /\ after[KeyFile] = {q.copy}
      BY <1>1, <2>1 DEF KeyDuty
    <2>3. KeysFit(q.copy, ghost'.in, ghost'.out)
      BY <1>3, <2>2 DEF Answers, KeysFit, HandledBy
    <2> QED
      BY <2>1, <2>2, <2>3 DEF KeyInstalled, disk
  <1>4. CASE ghost'.in \subseteq ghost.in /\ ghost'.out \subseteq ghost.out
    <2>1. \A c : KeysFit(c, ghost.in, ghost.out) => KeysFit(c, ghost'.in, ghost'.out)
      BY <1>4, FitWeaker
    <2> SUFFICES KeyInstalled(file', after', ghost.in, ghost.out)
      BY <2>1 DEF KeyInstalled
    <2>2. CASE Quiet(KeyFile)
      BY <1>1, <2>2 DEF KeyInstalled, Quiet
    <2>3. WorkerStep(w) \/ (\A op : ~AtStep(w, op)) \/ Fail(w)
      BY DEF Connect, Accept, AtStep
    <2>4. CASE Fail(w)
      <3>1. Quiet(KeyFile)
        BY <1>2, <2>4, GiveUpFiles DEF Fail, Quiet, ImageFiles
      <3> QED
        BY <2>2, <3>1
    <2>5. CASE ~Fail(w) /\ AtOp(q, "rename") /\ KeyFile = RenameTarget(q)
      <3>1. Renames(Temp(w), KeyFile)
        BY <2>3, <2>5, AtStepIs, DiskIs DEF DiskDoes
      <3>2. q.req \in KeyRequests /\ LeftOf(q) = 7
        BY <1>1, <2>5, AtRename, FixedNames DEF RenameTarget
      <3>3. file[Temp(w)] = q.copy /\ KeysFit(q.copy, ghost.in, ghost.out)
        BY <1>1, <3>2 DEF KeyDuty
      <3>4. Synced(Temp(w), file, after)
        BY <1>1, <3>2 DEF SaveOK, TempSynced
      <3>5. file'[KeyFile] = file[Temp(w)] /\ after'[KeyFile] = after[KeyFile] \cup (after[Temp(w)] \ {Absent})
        BY <1>2, <3>1, FileNames, RenamesIs
      <3>6. q.copy # Absent
        BY <3>3, FitWhole
      <3> QED
        BY <1>1, <3>3, <3>4, <3>5, <3>6 DEF KeyInstalled, Synced, Holds
    <2>6. CASE ~Fail(w) /\ AtOp(q, "sync_dir") /\ KeyFile = SyncTarget(q)
      <3>1. DiskSyncDir(w, q)
        BY <2>3, <2>6, AtStepIs, DiskIs DEF DiskDoes
      <3>2. file'[KeyFile] = file[KeyFile] /\ after'[KeyFile] = {c \in after[KeyFile] : c = Torn \/ c = file[KeyFile]}
        BY <1>2, <2>6, <3>1, PutIs DEF DiskSyncDir
      <3> QED
        BY <1>1, <3>2 DEF KeyInstalled
    <2> QED
      BY <1>2, <2>2, <2>4, <2>5, <2>6, Disturbs, CardNames DEF Disturbed
  <1> QED
    BY <1>3, <1>4, GhostKeys

KeysSafe == GhostOK /\ KeysOK
LEMMA KeysAreSafe == AccessSpec => []KeysSafe
  <1>1. AccessInit => KeysSafe
    <2> SUFFICES ASSUME AccessInit PROVE KeysSafe
      OBVIOUS
    <2>1. ghost = Gh(sessions, {0}, {}, {}, {Root}, {}, FALSE)
      BY DEF AccessInit, Gh
    <2>2. GhostOK
      BY <2>1, Zenon DEF GhostOK
    <2>3. ghost.in = {Root} /\ ghost.out = {}
      BY DEF AccessInit
    <2>4. Fresh(KeyFile) = {Root} /\ Root \in Keys
      BY WebAccessAssumption DEF Fresh
    <2>5. KeyInstalled(file, after, ghost.in, ghost.out)
      BY <2>3, <2>4, InitFiles, FileNames DEF KeyInstalled, KeysFit
    <2>6. \A v, fl, af, i, o : KeyDuty(v, Idler, fl, af, i, o)
      BY IdlerIs DEF KeyDuty, KeyRequests
    <2> QED
      BY <2>2, <2>5, <2>6, InitWorkers DEF KeysSafe, KeysOK
  <1>2. KeysSafe /\ SafeFiles /\ WorkersOK /\ LocksOK /\ [AccessNext]_accessVars => KeysSafe'
    <2> SUFFICES ASSUME GhostOK, KeysOK, FilesOK, ArgsOK, SavesOK, WorkersOK, LocksOK, [AccessNext]_accessVars
                 PROVE  (GhostOK /\ KeysOK)'
      BY DEF SafeFiles, KeysSafe
    <2>1. CASE UNCHANGED <<worker, file, after, ghost>>
      BY <2>1 DEF GhostOK, KeysOK
    <2>2. CASE PowerCut \/ \E w \in Workers : Reboot(w)
      <3>1. PICK left : Restarted(left)
        BY <2>2, RestartFiles
      <3>2. GhostOK' /\ ghost'.in = ghost.in /\ ghost'.out = ghost.out
        BY <3>1, RestartGhost
      <3>3. \A v \in Workers : worker'[v] = Idler
        BY <3>1, RestartIdles
      <3>4. \A v, fl, af, i, o : KeyDuty(v, Idler, fl, af, i, o)
        BY IdlerIs DEF KeyDuty, KeyRequests
      <3>5. KeyFile \in Files \ {Runtime} /\ KeyInstalled(file, after, ghost.in, ghost.out)
        BY FileNames, FixedNames DEF KeysOK
      <3>6. after'[KeyFile] = {file'[KeyFile]} /\ file'[KeyFile] \in after[KeyFile]
        BY <2>2, <3>5, RestartFiles DEF KeyInstalled
      <3>7. KeyInstalled(file', after', ghost'.in, ghost'.out)
        BY <3>2, <3>5, <3>6 DEF KeyInstalled
      <3> QED
        BY <3>2, <3>3, <3>4, <3>7 DEF KeysOK
    <2>3. ASSUME NEW w \in Workers, Connect(w) \/ (WorkerStep(w) /\ ~Reboot(w)) \/ Fail(w)
          PROVE  (GhostOK /\ KeysOK)'
      <3>1. GhostOK'
        BY <2>3, GhostKeys
      <3>2. KeyInstalled(file', after', ghost'.in, ghost'.out)
        BY <2>3, InstalledKeys
      <3>3. \A v \in Workers : KeyDuty(v, worker'[v], file', after', ghost'.in, ghost'.out)
        BY <2>3, OwnKeys, OtherKeys
      <3> QED
        BY <3>1, <3>2, <3>3 DEF KeysOK
    <2> QED
      BY <2>1, <2>2, <2>3, NextIs DEF Tick, accessVars, disk
  <1> QED
    BY <1>1, <1>2, WorkersAndLocks, FilesAreSaved, PTL DEF AccessSpec

\* Nobody is locked out of the camera by its own key file, and an answer about a
\* key is never undone, whatever other requests, failures and power cuts do.
THEOREM KeysStayHonest == AccessSpec => []KeysHonest
  <1>1. KeysSafe => KeysHonest
    BY FitWhole DEF KeysSafe, KeysOK, KeyInstalled, KeysHonest, KeysFit
  <1> QED
    BY <1>1, KeysAreSafe, PTL
-----------------------------------------------------------------------------
(* Firmware images *)

ImageDuty(q, fl, af) ==
    q.req = "upgrade" =>
        /\ LeftOf(q) \in 4 .. 8 => \A i \in Images : fl[Image(i)] = Absent
        /\ LeftOf(q) = 4 => \A i \in Images : af[Image(i)] = {Absent}
        /\ LeftOf(q) \in 4 .. 6 => fl[ImageTemp(q.arg)] \in {Absent, {q.arg}}
        /\ LeftOf(q) = 4 /\ fl[ImageTemp(q.arg)] # Absent =>
             {q.arg} \in af[ImageTemp(q.arg)] /\ af[ImageTemp(q.arg)] \subseteq {Absent, {q.arg}}
ImageWhole(i, fl, af) == fl[Image(i)] \in af[Image(i)] /\ af[Image(i)] \subseteq {Absent, {i}}
ImagesOK ==
    /\ \A i \in Images : ImageWhole(i, file, after)
    /\ \A i, j \in Images : {i} \in after[Image(i)] /\ {j} \in after[Image(j)] => i = j
    /\ \A v \in Workers : ImageDuty(worker[v], file, after)

\* What may happen to an image, and to its temporary file.
GoneFor(f) == file'[f] = Absent /\ after'[f] = after[f] \cup {Absent}
Publishes(q, i) ==
    /\ AtOp(q, "publish") /\ i = q.arg /\ Renames(ImageTemp(i), Image(i))
    /\ file[Image(i)] = Absent /\ file[ImageTemp(i)] # Absent
Settles(q, i) ==
    /\ AtOp(q, "sync_dir")
    /\ file'[Image(i)] = file[Image(i)] /\ after'[Image(i)] = {c \in after[Image(i)] : c = Torn \/ c = file[Image(i)]}
ImageMoves(q, i) == Quiet(Image(i)) \/ GoneFor(Image(i)) \/ Publishes(q, i) \/ Settles(q, i)
TempMoves(q, i) ==
    \/ Quiet(ImageTemp(i))
    \/ file'[ImageTemp(i)] = Absent
    \/ AtOp(q, "create")
    \/ q.req = "upgrade" /\ (AtOp(q, "write") \/ AtOp(q, "fsync"))

LEMMA ImagesMove ==
    ASSUME NEW w \in Workers, WorkersOK, FilesOK, ArgsOK, Connect(w) \/ (WorkerStep(w) /\ ~Reboot(w)) \/ Fail(w),
           NEW i \in Images
    PROVE  ImageMoves(worker[w], i) /\ TempMoves(worker[w], i)
  <1> DEFINE q == worker[w]
  <1>1. OnProgram(w, q) /\ ArgOK(q)
    BY DEF WorkersOK, ArgsOK
  <1>2. /\ Image(i) \in Files /\ ImageTemp(i) \in Files /\ Image(i) # ImageTemp(i)
        /\ Image(i) # Temp(w) /\ ImageTemp(i) # Temp(w)
        /\ \A j : ImageTemp(j) # Image(i)
        /\ \A j : Image(j) = Image(i) => j = i
        /\ \A j : ImageTemp(j) = ImageTemp(i) => j = i
    BY FileNames, TempNames, ImageNames
  <1>3. CASE UNCHANGED disk
    BY <1>3 DEF disk, Quiet, ImageMoves, TempMoves
  <1>4. CASE GiveUp(w)
    <2>1. Quiet(Image(i)) /\ (Quiet(ImageTemp(i)) \/ file'[ImageTemp(i)] = Absent)
      BY <1>2, <1>4, GiveUpFiles DEF Quiet
    <2> QED
      BY <2>1 DEF ImageMoves, TempMoves
  <1>5. CASE \E op : Calls(w, op)
    <2>1. PICK op \in FileCalls : AtOp(q, op) /\ DiskDoes(w, q, op)
      BY <1>5 DEF Calls
    <2>2. Quiet(Image(i)) \/ (op = "sync_dir" /\ Image(i) = SyncTarget(q)) \/ op \in {"create", "write", "fsync"}
      <3> SUFFICES ASSUME op \in {"rename", "copy", "sync", "sync_dir"}
                   PROVE  Quiet(Image(i)) \/ (op = "sync_dir" /\ Image(i) = SyncTarget(q))
        BY <2>1 DEF FileCalls
      <3>1. CASE op = "copy"
        <4>1. SetFile(Temp(w), file[Config], {Absent, Torn})
          BY <2>1, <3>1 DEF DiskDoes
        <4> QED
          BY <1>2, <4>1, FileNames, PutIs DEF Quiet, Untouched
      <3>2. CASE op = "rename"
        <4>1. Renames(Temp(w), RenameTarget(q))
          BY <2>1, <3>2 DEF DiskDoes
        <4>2. RenameTarget(q) \in Files /\ RenameTarget(q) # Temp(w) /\ RenameTarget(q) # Image(i)
          BY <1>1, <2>1, <3>2, RenameTo, FileNames, TempNames, ImageNames
        <4> QED
          BY <1>2, <4>1, <4>2, FileNames, RenamesIs DEF Quiet, Untouched
      <3>3. CASE op = "sync"
        BY <1>2, <2>1, <3>3 DEF DiskDoes, Quiet
      <3>4. CASE op = "sync_dir"
        <4>1. \E c, left : SetFile(SyncTarget(q), c, left)
          BY <2>1, <3>4, Zenon DEF DiskDoes, DiskSyncDir
        <4>2. SyncTarget(q) \in Files
          BY <1>1, <2>1, <3>4, SyncTo
        <4> QED
          BY <1>2, <3>4, <4>1, <4>2, PutIs DEF Quiet, Untouched
      <3> QED
        BY <3>1, <3>2, <3>3, <3>4
    <2>3. ImageMoves(q, i)
      <3>1. CASE op = "sync_dir" /\ Image(i) = SyncTarget(q)
        <4>1. SetFile(Image(i), file[Image(i)], {c \in after[Image(i)] : c = Torn \/ c = file[Image(i)]})
          BY <2>1, <3>1 DEF DiskDoes, DiskSyncDir
        <4>2. Settles(q, i)
          BY <1>2, <2>1, <3>1, <4>1, PutIs DEF Settles
        <4> QED
          BY <4>2 DEF ImageMoves
      <3>2. CASE op = "create"
        <4>1. \E c, left : SetFile(ImageTemp(q.arg), c, left)
          BY <2>1, <3>2, Zenon DEF DiskDoes
        <4>2. ImageTemp(q.arg) \in Files
          BY <1>1, <2>1, <3>2, AtCreate, FileNames DEF ArgOK
        <4> QED
          BY <1>2, <4>1, <4>2, PutIs DEF Quiet, Untouched, ImageMoves
      <3>3. CASE op = "write" \/ op = "fsync"
        <4>1. UNCHANGED disk \/ \E c, left : SetFile(WriteTarget(w, q), c, left)
          BY <2>1, <3>3, Zenon DEF DiskDoes, DiskWrite, DiskFsync
        <4>2. WriteTarget(w, q) \in Files /\ WriteTarget(w, q) # Image(i)
          BY <1>1, <1>2, <2>1, <3>3, WriteTo
        <4> QED
          BY <1>2, <1>3, <4>1, <4>2, PutIs DEF Quiet, Untouched, ImageMoves
      <3> QED
        BY <2>2, <3>1, <3>2, <3>3 DEF ImageMoves
    <2>4. TempMoves(q, i)
      <3>1. Quiet(ImageTemp(i)) \/ Disturbed(w, q, ImageTemp(i))
        BY <1>2, Disturbs
      <3>2. ~(AtOp(q, "rename") /\ ImageTemp(i) = RenameTarget(q)) /\ ~(AtOp(q, "sync_dir") /\ ImageTemp(i) = SyncTarget(q))
        BY <1>1, RenameTo, SyncTo, ImageNames
      <3>3. CASE op = "create" \/ (q.req = "upgrade" /\ op \in {"write", "fsync"})
        BY <2>1, <3>3 DEF TempMoves
      <3>4. CASE q.req # "upgrade" /\ op \in {"write", "fsync"}
        <4>1. UNCHANGED disk \/ \E c, left : SetFile(WriteTarget(w, q), c, left)
          BY <2>1, <3>4, Zenon DEF DiskDoes, DiskWrite, DiskFsync
        <4>2. WriteTarget(w, q) \in Files /\ WriteTarget(w, q) # ImageTemp(i)
          BY <1>1, <1>2, <2>1, <3>4, WriteTo
        <4> QED
          BY <1>2, <1>3, <4>1, <4>2, PutIs DEF Quiet, Untouched, TempMoves
      <3>5. CASE op = "copy"
        <4>1. SetFile(Temp(w), file[Config], {Absent, Torn})
          BY <2>1, <3>5 DEF DiskDoes
        <4> QED
          BY <1>2, <4>1, FileNames, PutIs DEF Quiet, Untouched, TempMoves
      <3>6. CASE op = "rename"
        <4>1. Renames(Temp(w), RenameTarget(q))
          BY <2>1, <3>6 DEF DiskDoes
        <4>2. RenameTarget(q) \in Files /\ RenameTarget(q) # Temp(w) /\ RenameTarget(q) # ImageTemp(i)
          BY <1>1, <2>1, <3>6, RenameTo, FileNames, TempNames, ImageNames
        <4> QED
          BY <1>2, <4>1, <4>2, FileNames, RenamesIs DEF Quiet, Untouched, TempMoves
      <3>7. CASE op = "sync"
        BY <1>2, <2>1, <3>7 DEF DiskDoes, Quiet, TempMoves
      <3>8. CASE op = "sync_dir"
        <4>1. \E c, left : SetFile(SyncTarget(q), c, left)
          BY <2>1, <3>8, Zenon DEF DiskDoes, DiskSyncDir
        <4>2. SyncTarget(q) \in Files /\ SyncTarget(q) # ImageTemp(i)
          BY <1>1, <2>1, <3>8, SyncTo, ImageNames
        <4> QED
          BY <1>2, <4>1, <4>2, PutIs DEF Quiet, Untouched, TempMoves
      <3> QED
        BY <2>1, <3>3, <3>4, <3>5, <3>6, <3>7, <3>8 DEF FileCalls
    <2> QED
      BY <2>3, <2>4
  <1>6. CASE (Publish(w) /\ ~GiveUp(w)) \/ Delete(w)
    <2>1. AtOp(q, "publish") \/ AtOp(q, "delete")
      BY <1>6, AtStepIs DEF Publish, Delete
    <2>2. /\ Step(w)[2] = q.arg /\ q.arg \in Images
      BY <1>1, <2>1, AtPublish, AtDelete, PublishNames, DeleteNames DEF Step, ArgOK
    <2>3. CASE Publish(w) /\ ~GiveUp(w)
      <3>1. /\ file[Image(q.arg)] = Absent /\ file[ImageTemp(q.arg)] # Absent /\ Renames(ImageTemp(q.arg), Image(q.arg))
            /\ AtOp(q, "publish")
        BY <2>2, <2>3, AtStepIs DEF Publish, Renames
      <3>2. CASE i = q.arg
        <4>1. Publishes(q, i)
          BY <3>1, <3>2 DEF Publishes
        <4>2. file'[ImageTemp(i)] = Absent
          BY <1>2, <3>1, <3>2, RenamesIs
        <4> QED
          BY <4>1, <4>2 DEF ImageMoves, TempMoves
      <3>3. CASE i # q.arg
        BY <1>2, <2>2, <3>1, <3>3, FileNames, ImageNames, RenamesIs DEF Quiet, Untouched, ImageMoves, TempMoves
      <3> QED
        BY <3>2, <3>3
    <2>4. CASE Delete(w)
      <3>1. PICK gone : Deleted(gone)
        BY <2>4, DeleteIs
      <3> QED
        BY <1>2, <3>1, DeletedIs DEF Quiet, GoneFor, ImageMoves, TempMoves
    <2> QED
      BY <1>6, <2>3, <2>4
  <1> QED
    BY <1>3, <1>4, <1>5, <1>6, DiskKinds
LEMMA UpgradeOpOf ==
    ASSUME NEW w, NEW q, Running(w, q), q.req = "upgrade"
    PROVE  /\ LeftOf(q) \in 1 .. 10
           /\ LeftOf(q) = 9 => AtOp(q, "check_image")
           /\ LeftOf(q) = 8 => AtOp(q, "create")
           /\ LeftOf(q) = 7 => AtOp(q, "write")
           /\ LeftOf(q) = 6 => AtOp(q, "fsync")
           /\ LeftOf(q) = 5 => AtOp(q, "sync")
  <1>1. UpgradeOps(q) /\ LeftOf(q) \in 1 .. 10
    BY UpgradeOpsAre, UpgradeSteps DEF UpgradeStep
  <1>2. \A op : AtOp(q, op) <=> Op(q) = op
    BY NextStep DEF AtOp, StepFacts
  <1> QED
    BY <1>1, <1>2 DEF UpgradeOps

LEMMA PublishDuty ==
    ASSUME NEW w \in Workers, WorkersOK, ArgsOK, ImagesOK, NEW i \in Images, Publishes(worker[w], i)
    PROVE  /\ \A j \in Images : after[Image(j)] = {Absent}
           /\ file[ImageTemp(i)] = {i} /\ {i} \in after[ImageTemp(i)] /\ after[ImageTemp(i)] \subseteq {Absent, {i}}
  <1> DEFINE q == worker[w]
  <1>1. AtOp(q, "publish") /\ i = q.arg /\ file[ImageTemp(i)] # Absent
    BY DEF Publishes
  <1>2. q.req = "upgrade" /\ LeftOf(q) = 4
    BY <1>1, AtPublish DEF WorkersOK
  <1>3. ImageDuty(q, file, after)
    BY DEF ImagesOK
  <1> QED
    BY <1>1, <1>2, <1>3 DEF ImageDuty

LEMMA ImageAfter ==
    ASSUME NEW w \in Workers, WorkersOK, FilesOK, ArgsOK, ImagesOK,
           Connect(w) \/ (WorkerStep(w) /\ ~Reboot(w)) \/ Fail(w), NEW i \in Images
    PROVE  /\ ImageWhole(i, file', after')
           /\ {i} \in after'[Image(i)] => {i} \in after[Image(i)] \/ Publishes(worker[w], i)
  <1> DEFINE q == worker[w]
  <1>1. ImageMoves(q, i) /\ ImageWhole(i, file, after)
    BY ImagesMove DEF ImagesOK
  <1>2. {i} # Absent /\ {i} # Torn
    BY Contents
  <1>3. CASE Quiet(Image(i))
    BY <1>1, <1>3 DEF Quiet, ImageWhole
  <1>4. CASE GoneFor(Image(i))
    BY <1>1, <1>2, <1>4 DEF GoneFor, ImageWhole
  <1>5. CASE Publishes(q, i)
    <2>1. after[Image(i)] = {Absent} /\ file[ImageTemp(i)] = {i}
          /\ {i} \in after[ImageTemp(i)] /\ after[ImageTemp(i)] \subseteq {Absent, {i}}
      BY <1>5, PublishDuty
    <2>2. file'[Image(i)] = file[ImageTemp(i)] /\ after'[Image(i)] = after[Image(i)] \cup (after[ImageTemp(i)] \ {Absent})
      BY <1>5, FileNames, ImageNames, RenamesIs DEF Publishes
    <2> QED
      BY <1>2, <1>5, <2>1, <2>2 DEF ImageWhole
  <1>6. CASE Settles(q, i)
    BY <1>1, <1>6 DEF Settles, ImageWhole
  <1> QED
    BY <1>1, <1>3, <1>4, <1>5, <1>6 DEF ImageMoves

\* A worker that is uploading holds the lock, so that the others only delete.
LEMMA OtherImages ==
    ASSUME NEW w \in Workers, WorkersOK, LocksOK, FilesOK, ArgsOK, ImagesOK, NEW v \in Workers \ {w},
           Connect(w) \/ (WorkerStep(w) /\ ~Reboot(w)) \/ Fail(w)
    PROVE  ImageDuty(worker'[v], file', after')
  <1> DEFINE q == worker[w]  r == worker[v]
  <1>1. worker'[v] = r
    BY StepMoves, BecomesIs DEF MovedOn
  <1> SUFFICES ASSUME r.req = "upgrade", LeftOf(r) \in 4 .. 8
               PROVE  ImageDuty(r, file', after')
    BY <1>1 DEF ImageDuty
  <1>2. ImageDuty(r, file, after) /\ OnProgram(w, q) /\ ArgOK(r) /\ \A i \in Images : ImageWhole(i, file, after)
    BY DEF ImagesOK, WorkersOK, ArgsOK
  <1>3. ~HoldsLock(q, "upgrade")
    <2>1. HoldsLock(r, "upgrade")
      BY DEF HoldsLock
    <2> QED
      BY <2>1 DEF LocksOK, LockNames
  <1>4. ~AtOp(q, "publish") /\ ~AtOp(q, "create") /\ (q.req = "upgrade" => ~AtOp(q, "write") /\ ~AtOp(q, "fsync"))
    BY <1>2, <1>3, AtPublish, AtCreate, AtWrite, AtFsync DEF HoldsLock, KeyRequests
  <1>5. \A i \in Images : Quiet(Image(i)) \/ GoneFor(Image(i)) \/ Settles(q, i)
    BY <1>4, ImagesMove DEF ImageMoves, Publishes
  <1>6. r.arg \in Images
    BY <1>2 DEF ArgOK
  <1>7. Quiet(ImageTemp(r.arg)) \/ file'[ImageTemp(r.arg)] = Absent
    BY <1>4, <1>6, ImagesMove DEF TempMoves
  <1>8. ASSUME NEW i \in Images
        PROVE  file'[Image(i)] = Absent /\ (LeftOf(r) = 4 => after'[Image(i)] = {Absent})
    <2>1. file[Image(i)] = Absent /\ (LeftOf(r) = 4 => after[Image(i)] = {Absent})
      BY <1>2 DEF ImageDuty
    <2> QED
      BY <1>5, <2>1 DEF Quiet, GoneFor, Settles
  <1>9. /\ LeftOf(r) \in 4 .. 6 => file[ImageTemp(r.arg)] \in {Absent, {r.arg}}
        /\ LeftOf(r) = 4 /\ file[ImageTemp(r.arg)] # Absent =>
             {r.arg} \in after[ImageTemp(r.arg)] /\ after[ImageTemp(r.arg)] \subseteq {Absent, {r.arg}}
    BY <1>2 DEF ImageDuty
  <1>10. /\ LeftOf(r) \in 4 .. 6 => file'[ImageTemp(r.arg)] \in {Absent, {r.arg}}
         /\ LeftOf(r) = 4 /\ file'[ImageTemp(r.arg)] # Absent =>
             {r.arg} \in after'[ImageTemp(r.arg)] /\ after'[ImageTemp(r.arg)] \subseteq {Absent, {r.arg}}
    <2> DEFINE t == ImageTemp(r.arg)
    <2>1. CASE file'[t] = Absent
      <3>1. LeftOf(r) \in 4 .. 6 => file'[t] \in {Absent, {r.arg}}
        BY <2>1, Zenon
      <3> QED
        BY <3>1, <2>1
    <2>2. CASE file'[t] = file[t] /\ after'[t] = after[t]
      BY <1>9, <2>2
    <2>3. CASE file'[t] = file[t] /\ after'[t] = {file[t]}
      <3>1. LeftOf(r) = 4 => LeftOf(r) \in 4 .. 6
        OBVIOUS
      <3>2. LeftOf(r) = 4 /\ file[t] # Absent => file[t] = {r.arg}
        BY <3>1, <1>9
      <3> QED
        BY <1>9, <2>3, <3>2
    <2> QED
      BY <1>7, <2>1, <2>2, <2>3 DEF Quiet
  <1> QED
    BY <1>8, <1>10 DEF ImageDuty

LEMMA OwnImages ==
    ASSUME NEW w \in Workers, WorkersOK, FilesOK, ArgsOK, ImagesOK,
           Connect(w) \/ (WorkerStep(w) /\ ~Reboot(w)) \/ Fail(w)
    PROVE  ImageDuty(worker'[w], file', after')
  <1> DEFINE q == worker[w]
  <1>1. PICK s : TurnsTo(w, s) /\ Moves(w, q, s)
    BY StepMoves DEF MovedOn
  <1>2. worker'[w] = s
    BY <1>1, BecomesIs
  <1>3. /\ ImageDuty(q, file, after) /\ OnProgram(w, q) /\ ArgOK(q)
        /\ \A i \in Images : ImageWhole(i, file, after)
    BY DEF ImagesOK, WorkersOK, ArgsOK
  <1>4. CASE s = Idler \/ Accepted(s)
    <2>1. LeftOf(s) = 0 \/ LeftOf(s) = -1
      BY <1>4, IdlerIs, AcceptedIs
    <2> QED
      BY <1>2, <2>1 DEF ImageDuty
  <1>5. CASE q.req \in WebRequests /\ Routed(w, q, s)
    BY <1>2, <1>5, RoutedIs DEF ImageDuty, Size
  <1>6. CASE Running(w, q) /\ q.req = "logout" /\ Jumped(q, s)
    BY <1>2, <1>6, JumpedIs DEF ImageDuty
  <1>7. CASE s # Idler /\ Running(w, q) /\ Advanced(q, s) /\ q.req = "upgrade"
    <2>1. LeftOf(s) = LeftOf(q) - 1 /\ s.req = q.req /\ s.arg = q.arg /\ LeftOf(q) \in 1 .. 10 /\ q.arg \in Images
      BY <1>3, <1>7, AdvancedIs, UpgradeOpOf DEF ArgOK
    <2>2. /\ LeftOf(q) = 9 => AtOp(q, "check_image")
          /\ LeftOf(q) = 8 => AtOp(q, "create")
          /\ LeftOf(q) = 7 => AtOp(q, "write")
          /\ LeftOf(q) = 6 => AtOp(q, "fsync")
          /\ LeftOf(q) = 5 => AtOp(q, "sync")
      BY <1>7, UpgradeOpOf
    <2>3. \A op \in {"write", "fsync", "create", "copy", "rename", "sync_dir", "sync", "mine", "serve"} :
             AtOp(q, op) => DiskDoes(w, q, op)
      BY <1>2, <1>7, FileSteps
    <2>4. WriteTarget(w, q) = ImageTemp(q.arg) /\ ImageTemp(q.arg) \in Files
      BY <1>7, <2>1, FileNames DEF WriteTarget
    <2>5. CASE LeftOf(q) = 9
      <3>1. CheckImage(w) /\ ~Stop(w)
        BY <1>2, <1>7, <2>2, <2>5, Stepping, ActionOf, StopIs, BecomesIs
      <3>2. Published = {} /\ UNCHANGED disk
        BY <3>1 DEF CheckImage
      <3>3. \A i \in Images : file'[Image(i)] = Absent
        BY <3>2 DEF Published, disk
      <3> QED
        BY <1>2, <2>1, <2>5, <3>3 DEF ImageDuty
    <2>6. CASE LeftOf(q) \in 5 .. 8
      <3>1. \A i \in Images : file[Image(i)] = Absent
        BY <1>7, <2>6, <1>3 DEF ImageDuty
      <3>2. ~AtOp(q, "publish") /\ ~AtOp(q, "sync_dir") /\ ~AtOp(q, "delete")
        BY <1>3, <1>7, <2>6, AtPublish, AtSyncDir, AtDelete DEF KeyRequests
      <3>3. \A i \in Images : file'[Image(i)] = Absent
        BY <3>1, <3>2, ImagesMove DEF ImageMoves, Publishes, Settles, Quiet, GoneFor
      <3>4. LeftOf(q) \in 5 .. 7 => file'[ImageTemp(q.arg)] \in {Absent, {q.arg}}
        <4>1. CASE LeftOf(q) = 7
          <5>1. DiskWrite(w, q)
            BY <2>2, <2>3, <4>1 DEF DiskDoes
          <5>2. CASE Nameless(w) /\ UNCHANGED disk
            BY <5>2 DEF Nameless, disk
          <5>3. CASE SetFile(ImageTemp(q.arg), {q.arg}, {Absent, Torn})
            BY <2>4, <5>3, PutIs
          <5> QED
            BY <1>7, <2>4, <5>1, <5>2, <5>3 DEF DiskWrite
        <4>2. CASE LeftOf(q) = 6
          <5>1. DiskFsync(w, q)
            BY <2>2, <2>3, <4>2 DEF DiskDoes
          <5>2. file'[ImageTemp(q.arg)] = file[ImageTemp(q.arg)]
            <6>1. CASE UNCHANGED disk
              BY <6>1 DEF disk
            <6>2. CASE \E left : SetFile(ImageTemp(q.arg), file[ImageTemp(q.arg)], left)
              BY <2>4, <6>2, PutIs
            <6> QED
              BY <2>4, <5>1, <6>1, <6>2 DEF DiskFsync
          <5> QED
            BY <1>3, <1>7, <4>2, <5>2 DEF ImageDuty
        <4>3. CASE LeftOf(q) = 5
          <5>1. UNCHANGED file
            BY <2>2, <2>3, <4>3 DEF DiskDoes
          <5> QED
            BY <1>3, <1>7, <4>3, <5>1 DEF ImageDuty
        <4> QED
          BY <4>1, <4>2, <4>3
      <3>5. CASE LeftOf(q) = 5
        <4>1. after' = [f \in Files |-> {file[f]}] /\ UNCHANGED file
          BY <2>2, <2>3, <3>5 DEF DiskDoes
        <4>2. \A i \in Images : after'[Image(i)] = {Absent}
          BY <3>1, <4>1, FileNames
        <4>3. after'[ImageTemp(q.arg)] = {file'[ImageTemp(q.arg)]}
          BY <2>4, <4>1
        <4> QED
          BY <1>2, <1>7, <2>1, <3>3, <3>4, <3>5, <4>2, <4>3 DEF ImageDuty
      <3>6. CASE LeftOf(q) # 5
        BY <1>2, <1>7, <2>1, <2>6, <3>3, <3>4, <3>6 DEF ImageDuty
      <3> QED
        BY <3>5, <3>6
    <2>7. CASE LeftOf(q) \notin 5 .. 9
      BY <1>2, <2>1, <2>7 DEF ImageDuty
    <2> QED
      BY <2>5, <2>6, <2>7
  <1>8. CASE Running(w, q) /\ Advanced(q, s) /\ q.req # "upgrade"
    BY <1>2, <1>8, AdvancedIs DEF ImageDuty
  <1> QED
    BY <1>1, <1>4, <1>5, <1>6, <1>7, <1>8 DEF Moves
LEMMA StepImages ==
    ASSUME NEW w \in Workers, WorkersOK, LocksOK, FilesOK, ArgsOK, ImagesOK,
           Connect(w) \/ (WorkerStep(w) /\ ~Reboot(w)) \/ Fail(w)
    PROVE  ImagesOK'
  <1> DEFINE q == worker[w]
  <1>1. \A i \in Images : ImageWhole(i, file', after')
    BY ImageAfter
  <1>2. ASSUME NEW i \in Images, NEW j \in Images, {i} \in after'[Image(i)], {j} \in after'[Image(j)]
        PROVE  i = j
    <2>1. ({i} \in after[Image(i)] \/ Publishes(q, i)) /\ ({j} \in after[Image(j)] \/ Publishes(q, j))
      BY <1>2, ImageAfter
    <2>2. {i} # Absent /\ {j} # Absent
      BY Contents
    <2>3. Publishes(q, i) \/ Publishes(q, j) => \A k \in Images : after[Image(k)] = {Absent}
      BY PublishDuty
    <2>4. Publishes(q, i) /\ Publishes(q, j) => i = j
      BY DEF Publishes
    <2> QED
      BY <2>1, <2>2, <2>3, <2>4 DEF ImagesOK
  <1>3. \A v \in Workers : ImageDuty(worker'[v], file', after')
    BY OwnImages, OtherImages
  <1> QED
    BY <1>1, <1>2, <1>3 DEF ImagesOK

LEMMA ImagesAreSafe == AccessSpec => []ImagesOK
  <1>1. AccessInit => ImagesOK
    <2> SUFFICES ASSUME AccessInit PROVE ImagesOK
      OBVIOUS
    <2>1. \A i \in Images : Fresh(Image(i)) = Absent
      BY ImageNames, Zenon DEF Fresh
    <2>2. \A i \in Images : file[Image(i)] = Absent /\ after[Image(i)] = {Absent}
      BY <2>1, InitFiles, FileNames
    <2>3. \A v \in Workers : ImageDuty(worker[v], file, after)
      BY InitWorkers, IdlerIs DEF ImageDuty
    <2> QED
      BY <2>2, <2>3, Contents DEF ImagesOK, ImageWhole
  <1>2. ImagesOK /\ SafeFiles /\ WorkersOK /\ LocksOK /\ [AccessNext]_accessVars => ImagesOK'
    <2> SUFFICES ASSUME ImagesOK, FilesOK, ArgsOK, WorkersOK, LocksOK, [AccessNext]_accessVars
                 PROVE  ImagesOK'
      BY DEF SafeFiles
    <2>1. CASE UNCHANGED <<worker, file, after>>
      BY <2>1 DEF ImagesOK
    <2>2. CASE PowerCut \/ \E w \in Workers : Reboot(w)
      <3>1. ASSUME NEW i \in Images
            PROVE  after'[Image(i)] = {file'[Image(i)]} /\ file'[Image(i)] \in after[Image(i)]
        <4>1. Image(i) \in Files \ {Runtime} /\ ImageWhole(i, file, after)
          BY FileNames, ImageNames DEF ImagesOK
        <4> QED
          BY <2>2, <4>1, RestartFiles DEF ImageWhole
      <3>2. \A v \in Workers : worker'[v] = Idler
        BY <2>2, RestartFiles, RestartIdles
      <3>3. \A v \in Workers : ImageDuty(worker'[v], file', after')
        BY <3>2, IdlerIs DEF ImageDuty
      <3>4. \A i \in Images : ImageWhole(i, file', after')
        BY <3>1 DEF ImagesOK, ImageWhole
      <3>5. \A i, j \in Images : {i} \in after'[Image(i)] /\ {j} \in after'[Image(j)] => i = j
        BY <3>1 DEF ImagesOK
      <3> QED
        BY <3>3, <3>4, <3>5 DEF ImagesOK
    <2>3. CASE \E w \in Workers : Connect(w) \/ (WorkerStep(w) /\ ~Reboot(w)) \/ Fail(w)
      BY <2>3, StepImages
    <2> QED
      BY <2>1, <2>2, <2>3, NextIs DEF Tick, accessVars, disk
  <1> QED
    BY <1>1, <1>2, WorkersAndLocks, FilesAreSaved, PTL DEF AccessSpec

\* No file is ever seen half written or left so by a power cut, and there is at
\* most one image for the boot loader, however uploads, deletions, configuration
\* changes and failures overlap.  What is kept off the card, CardFiles = {} on
\* all cameras but the ZR10, is never missing either.
THEOREM FilesStayWhole == AccessSpec => []NeverTorn
  <1>1. SafeFiles /\ ImagesOK => NeverTorn
    <2> SUFFICES ASSUME SavesOK, ImagesOK PROVE NeverTorn
      BY DEF SafeFiles
    <2>1. \A f \in {Password, Config, Backup} : \A c \in {file[f]} \cup after[f] : Sound(f, c)
      BY DEF SavesOK, WholeAt
    <2>2. \A i \in Images : \A c \in {file[Image(i)]} \cup after[Image(i)] : c \in {Absent, {i}}
      BY DEF ImagesOK, ImageWhole
    <2>3. Cardinality(Published) <= 1
      <3>1. \A i, j \in Published : i = j
        BY DEF Published, ImagesOK, ImageWhole
      <3>2. CASE Published = {}
        <4>1. Cardinality(Published) = 0
          BY <3>2, FS_EmptySet
        <4> QED
          BY <4>1
      <3>3. CASE Published # {}
        <4>1. PICK i : Published = {i}
          BY <3>1, <3>3
        <4>2. Cardinality({i}) = 1
          BY FS_Singleton, Zenon
        <4> QED
          BY <4>1, <4>2
      <3> QED
        BY <3>2, <3>3
    <2> QED
      BY <2>1, <2>2, <2>3 DEF NeverTorn
  <1> QED
    BY <1>1, FilesAreSaved, ImagesAreSafe, PTL
-----------------------------------------------------------------------------
(* The entries of a list that are kept *)

AmongStep(s, keep, n, x) == IF s[n] \in keep THEN Append(x, s[n]) ELSE x
AmongUpTo(s, keep, m, g) == g = [n \in 0 .. m |-> IF n = 0 THEN <<>> ELSE AmongStep(s, keep, n, g[n - 1])]

\* The places in s, in order, of the entries of x.
Places(x, s, n, f) ==
    /\ f \in [DOMAIN x -> 1 .. n]
    /\ \A a \in DOMAIN x : x[a] = s[f[a]]
    /\ \A a, b \in DOMAIN x : a < b => f[a] < f[b]
Within(x, s) == \E f : Places(x, s, Len(s), f)

\* What the list holds of the first n entries.
Keeps(s, keep, n, x, S) ==
    /\ x \in Seq(S) /\ \E f : Places(x, s, n, f)
    /\ \A a \in DOMAIN x : x[a] \in keep
    /\ \A i \in 1 .. n : s[i] \in keep => \E a \in DOMAIN x : x[a] = s[i]

\* An entry of s that comes after those in x is put at the end of x.
LEMMA PlacesAppend ==
    ASSUME NEW x, NEW S, x \in Seq(S), NEW e \in S, NEW s, NEW n \in Nat, NEW k \in Nat, k < n,
           NEW f, Places(x, s, k, f), s[n] = e
    PROVE  \E g : Places(Append(x, e), s, n, g)
  <1> DEFINE y == Append(x, e)  m == Len(x)
  <1>1. /\ m \in Nat /\ DOMAIN y = 1 .. m + 1 /\ DOMAIN x = 1 .. m
        /\ y[m + 1] = e /\ \A a \in 1 .. m : y[a] = x[a]
    OBVIOUS
  <1> HIDE DEF y, m
  <1>2. /\ f \in [1 .. m -> 1 .. k]
        /\ \A a \in 1 .. m : x[a] = s[f[a]]
        /\ \A a, b \in 1 .. m : a < b => f[a] < f[b]
    BY <1>1 DEF Places
  <1>3. \A a \in 1 .. m : f[a] \in 1 .. k
    BY <1>2
  <1> DEFINE g == [a \in 1 .. m + 1 |-> IF a = m + 1 THEN n ELSE f[a]]
  <1>4. g[m + 1] = n /\ \A a \in 1 .. m : g[a] = f[a]
    BY <1>1
  <1>5. ASSUME NEW a \in 1 .. m + 1
        PROVE  g[a] \in 1 .. n /\ y[a] = s[g[a]]
    <2>1. CASE a = m + 1
      BY <1>1, <1>4, <2>1
    <2>2. CASE a # m + 1
      <3>1. a \in 1 .. m
        BY <1>1, <2>2
      <3>2. f[a] \in 1 .. n
        BY <1>3, <3>1
      <3> QED
        BY <1>1, <1>2, <1>4, <3>1, <3>2
    <2> QED
      BY <2>1, <2>2
  <1>6. ASSUME NEW a \in 1 .. m + 1, NEW b \in 1 .. m + 1, a < b
        PROVE  g[a] < g[b]
    <2>1. a \in 1 .. m /\ g[a] = f[a]
      BY <1>1, <1>4, <1>6
    <2>2. CASE b = m + 1
      <3>1. f[a] \in 1 .. k
        BY <1>3, <2>1
      <3> QED
        BY <1>4, <2>1, <2>2, <3>1
    <2>3. CASE b # m + 1
      <3>1. b \in 1 .. m /\ g[b] = f[b]
        BY <1>1, <1>4, <2>3
      <3> QED
        BY <1>2, <1>6, <2>1, <3>1
    <2> QED
      BY <2>2, <2>3
  <1>7. g \in [1 .. m + 1 -> 1 .. n]
    BY <1>5
  <1> HIDE DEF g
  <1>8. Places(y, s, n, g)
    BY <1>1, <1>5, <1>6, <1>7 DEF Places
  <1> QED
    BY <1>8 DEF y

LEMMA AmongExists ==
    ASSUME NEW S, NEW s \in Seq(S), NEW keep
    PROVE  \A m \in 0 .. Len(s) : \E g : AmongUpTo(s, keep, m, g)
  <1> DEFINE Bad == {m \in 0 .. Len(s) : ~\E g : AmongUpTo(s, keep, m, g)}
  <1> SUFFICES ASSUME Bad # {} PROVE FALSE
    OBVIOUS
  <1>1. Bad \subseteq Nat
    OBVIOUS
  <1>2. PICK m \in Bad : \A k \in Bad : m <= k
    BY <1>1, LeastNumber
  <1>3. m \in Nat /\ m <= Len(s)
    OBVIOUS
  <1>4. CASE m = 0
    <2> DEFINE g == [n \in 0 .. 0 |-> <<>>]
    <2>1. AmongUpTo(s, keep, 0, g)
      BY DEF AmongUpTo
    <2> QED
      BY <1>4, <2>1
  <1>5. CASE m # 0
    <2>1. m - 1 \in 0 .. Len(s) /\ m - 1 \notin Bad
      BY <1>2, <1>3, <1>5
    <2>2. PICK g : AmongUpTo(s, keep, m - 1, g)
      BY <2>1
    <2> DEFINE last == AmongStep(s, keep, m, g[m - 1])
    <2> DEFINE h == [n \in 0 .. m |-> IF n = m THEN last ELSE g[n]]
    <2> HIDE DEF last
    <2>3. \A n \in 0 .. m - 1 : h[n] = g[n]
      BY <1>3
    <2>4. \A n \in 0 .. m - 1 : g[n] = IF n = 0 THEN <<>> ELSE AmongStep(s, keep, n, g[n - 1])
      BY <2>2, Zenon DEF AmongUpTo
    <2>5. ASSUME NEW n \in 0 .. m
          PROVE  h[n] = IF n = 0 THEN <<>> ELSE AmongStep(s, keep, n, h[n - 1])
      <3>1. CASE n = m
        <4>1. n - 1 \in 0 .. m - 1 /\ n # 0
          BY <1>3, <1>5, <3>1
        <4>2. h[n] = last /\ h[n - 1] = g[n - 1]
          BY <2>3, <3>1, <4>1
        <4> QED
          BY <3>1, <4>1, <4>2 DEF last
      <3>2. CASE n # m
        <4>1. n \in 0 .. m - 1 /\ (n # 0 => n - 1 \in 0 .. m - 1)
          BY <1>3, <3>2
        <4> HIDE DEF h
        <4>2. h[n] = g[n] /\ (n # 0 => h[n - 1] = g[n - 1])
          BY <2>3, <4>1
        <4> QED
          BY <2>4, <4>1, <4>2
      <3> QED
        BY <3>1, <3>2
    <2>6. h = [n \in 0 .. m |-> h[n]]
      OBVIOUS
    <2> HIDE DEF h
    <2>7. AmongUpTo(s, keep, m, h)
      BY <2>5, <2>6, Zenon DEF AmongUpTo
    <2> QED
      BY <2>7
  <1> QED
    BY <1>4, <1>5

LEMMA AmongIs ==
    ASSUME NEW S, NEW s \in Seq(S), NEW keep
    PROVE  \E g : AmongUpTo(s, keep, Len(s), g) /\ Among(s, keep) = g[Len(s)]
  <1> DEFINE f == CHOOSE g : g = [n \in 0 .. Len(s) |->
                        IF n = 0 THEN <<>> ELSE IF s[n] \in keep THEN Append(g[n - 1], s[n]) ELSE g[n - 1]]
  <1>1. Among(s, keep) = f[Len(s)]
    BY DEF Among
  <1>2. \A g : AmongUpTo(s, keep, Len(s), g) <=> g = [n \in 0 .. Len(s) |->
                        IF n = 0 THEN <<>> ELSE IF s[n] \in keep THEN Append(g[n - 1], s[n]) ELSE g[n - 1]]
    BY Zenon DEF AmongUpTo, AmongStep
  <1>3. Len(s) \in 0 .. Len(s)
    OBVIOUS
  <1>4. \E g : AmongUpTo(s, keep, Len(s), g)
    BY <1>3, AmongExists
  <1>5. AmongUpTo(s, keep, Len(s), f)
    BY <1>2, <1>4, Zenon
  <1> QED
    BY <1>1, <1>5

LEMMA KeepsStep ==
    ASSUME NEW S, NEW s \in Seq(S), NEW keep, NEW n \in 1 .. Len(s), NEW x, Keeps(s, keep, n - 1, x, S)
    PROVE  Keeps(s, keep, n, AmongStep(s, keep, n, x), S)
  <1>1. s[n] \in S /\ n \in Nat /\ n - 1 \in Nat /\ n - 1 < n /\ x \in Seq(S)
    BY DEF Keeps
  <1>2. PICK f : Places(x, s, n - 1, f)
    BY DEF Keeps
  <1>3. CASE s[n] \notin keep
    <2>1. AmongStep(s, keep, n, x) = x
      BY <1>3 DEF AmongStep
    <2>2. ASSUME NEW i \in 1 .. n, s[i] \in keep
          PROVE  \E a \in DOMAIN x : x[a] = s[i]
      <3>1. i \in 1 .. n - 1
        BY <1>1, <1>3, <2>2
      <3> QED
        BY <2>2, <3>1 DEF Keeps
    <2>3. f \in [DOMAIN x -> 1 .. n - 1]
      BY <1>2 DEF Places
    <2>4. 1 .. n - 1 \subseteq 1 .. n
      BY <1>1
    <2>5. f \in [DOMAIN x -> 1 .. n]
      BY <2>3, <2>4, Zenon
    <2>6. Places(x, s, n, f)
      BY <1>2, <2>5 DEF Places
    <2> QED
      BY <1>1, <2>1, <2>2, <2>6 DEF Keeps
  <1>4. CASE s[n] \in keep
    <2> DEFINE y == Append(x, s[n])  m == Len(x)
    <2>1. AmongStep(s, keep, n, x) = y
      BY <1>4 DEF AmongStep
    <2>2. \E g : Places(y, s, n, g)
      BY <1>1, <1>2, PlacesAppend
    <2>3. /\ y \in Seq(S) /\ m \in Nat /\ DOMAIN y = 1 .. m + 1 /\ DOMAIN x = 1 .. m
          /\ y[m + 1] = s[n] /\ \A a \in 1 .. m : y[a] = x[a]
      BY <1>1
    <2> HIDE DEF y, m
    <2>4. ASSUME NEW a \in DOMAIN y
          PROVE  y[a] \in keep
      <3>1. a = m + 1 \/ a \in DOMAIN x
        BY <2>3
      <3> QED
        BY <1>4, <2>3, <3>1 DEF Keeps
    <2>5. ASSUME NEW i \in 1 .. n, s[i] \in keep
          PROVE  \E a \in DOMAIN y : y[a] = s[i]
      <3>1. CASE i = n
        <4>1. m + 1 \in DOMAIN y
          BY <2>3
        <4> QED
          BY <2>3, <3>1, <4>1
      <3>2. CASE i # n
        <4>1. i \in 1 .. n - 1
          BY <1>1, <3>2
        <4>2. PICK a \in DOMAIN x : x[a] = s[i]
          BY <2>5, <4>1 DEF Keeps
        <4> QED
          BY <2>3, <4>2
      <3> QED
        BY <3>1, <3>2
    <2> QED
      BY <2>1, <2>2, <2>3, <2>4, <2>5 DEF Keeps
  <1> QED
    BY <1>3, <1>4

LEMMA AmongKeeps ==
    ASSUME NEW S, NEW s \in Seq(S), NEW keep
    PROVE  Keeps(s, keep, Len(s), Among(s, keep), S)
  <1>1. PICK g : AmongUpTo(s, keep, Len(s), g) /\ Among(s, keep) = g[Len(s)]
    BY AmongIs
  <1>2. \A n \in 0 .. Len(s) : g[n] = IF n = 0 THEN <<>> ELSE AmongStep(s, keep, n, g[n - 1])
    BY <1>1, Zenon DEF AmongUpTo
  <1> DEFINE Bad == {n \in 0 .. Len(s) : ~Keeps(s, keep, n, g[n], S)}
  <1>3. ASSUME Bad # {}
        PROVE  FALSE
    <2>1. Bad \subseteq Nat
      OBVIOUS
    <2>2. PICK n \in Bad : \A k \in Bad : n <= k
      BY <1>3, <2>1, LeastNumber
    <2>3. n \in 0 .. Len(s) /\ Len(s) \in Nat /\ ~Keeps(s, keep, n, g[n], S)
      OBVIOUS
    <2>4. CASE n = 0
      <3>1. g[n] = <<>>
        BY <1>2, <2>3, <2>4
      <3>2. Places(<<>>, s, 0, [a \in {} |-> 0])
        BY DEF Places
      <3>3. Keeps(s, keep, 0, <<>>, S)
        BY <3>2 DEF Keeps
      <3> QED
        BY <2>3, <2>4, <3>1, <3>3
    <2>5. CASE n # 0
      <3>1. n - 1 \in 0 .. Len(s) /\ n \in 1 .. Len(s) /\ ~(n <= n - 1)
        BY <2>3, <2>5
      <3>2. Keeps(s, keep, n - 1, g[n - 1], S)
        BY <2>2, <3>1
      <3>3. Keeps(s, keep, n, AmongStep(s, keep, n, g[n - 1]), S)
        BY <3>1, <3>2, KeepsStep
      <3> QED
        BY <1>2, <2>3, <2>5, <3>3
    <2> QED
      BY <2>4, <2>5
  <1>4. Len(s) \in 0 .. Len(s)
    OBVIOUS
  <1> QED
    BY <1>1, <1>3, <1>4

LEMMA WithinTrans ==
    ASSUME NEW x, NEW y, NEW S, y \in Seq(S), NEW s, NEW T, s \in Seq(T), Within(x, y), Within(y, s)
    PROVE  Within(x, s)
  <1>1. PICK f : Places(x, y, Len(y), f)
    BY DEF Within
  <1>2. PICK g : Places(y, s, Len(s), g)
    BY DEF Within
  <1>3. DOMAIN y = 1 .. Len(y)
    OBVIOUS
  <1> DEFINE D == DOMAIN x  n == Len(s)  h == [a \in D |-> g[f[a]]]
  <1>4. \A a \in D : f[a] \in DOMAIN y
    BY <1>1, <1>3 DEF Places
  <1>5. \A a \in D : g[f[a]] \in 1 .. n
    BY <1>2, <1>4 DEF Places
  <1>6. h \in [D -> 1 .. n] /\ \A a \in D : h[a] = g[f[a]]
    BY <1>5
  <1>7. \A a \in D : x[a] = s[h[a]]
    BY <1>1, <1>2, <1>4, <1>6 DEF Places
  <1>8. \A a, b \in D : a < b => h[a] < h[b]
    <2>1. \A a, b \in D : a < b => f[a] < f[b]
      BY <1>1 DEF Places
    <2>2. \A a, b \in DOMAIN y : a < b => g[a] < g[b]
      BY <1>2 DEF Places
    <2> QED
      BY <1>4, <1>6, <2>1, <2>2
  <1> HIDE DEF h
  <1> QED
    BY <1>6, <1>7, <1>8 DEF Places, Within

LEMMA WithinAppend ==
    ASSUME NEW S, NEW x \in Seq(S), NEW s \in Seq(S), NEW e \in S, Within(x, s)
    PROVE  Within(Append(x, e), Append(s, e))
  <1> DEFINE z == Append(s, e)  k == Len(s)
  <1>1. k \in Nat /\ Len(z) = k + 1 /\ k + 1 \in Nat /\ k < k + 1 /\ z[k + 1] = e /\ \A i \in 1 .. k : z[i] = s[i]
    OBVIOUS
  <1>2. PICK f : Places(x, s, k, f)
    BY DEF Within
  <1> HIDE DEF z, k
  <1>3. Places(x, z, k, f)
    BY <1>1, <1>2 DEF Places
  <1>4. \E g : Places(Append(x, e), z, k + 1, g)
    BY <1>1, <1>3, PlacesAppend
  <1> QED
    BY <1>1, <1>4 DEF Within, z

LEMMA WithinTail ==
    ASSUME NEW S, NEW x \in Seq(S), x # <<>>
    PROVE  Within(Tail(x), x) /\ Tail(x) \in Seq(S)
  <1> DEFINE m == Len(x)  f == [a \in 1 .. m - 1 |-> a + 1]
  <1>1. /\ m \in Nat \ {0} /\ Tail(x) \in Seq(S) /\ DOMAIN Tail(x) = 1 .. m - 1
        /\ \A a \in 1 .. m - 1 : Tail(x)[a] = x[a + 1]
    OBVIOUS
  <1>2. f \in [1 .. m - 1 -> 1 .. m] /\ \A a \in 1 .. m - 1 : f[a] = a + 1
    BY <1>1
  <1> HIDE DEF f
  <1>3. \A a, b \in 1 .. m - 1 : a < b => f[a] < f[b]
    BY <1>1, <1>2
  <1>4. Places(Tail(x), x, m, f)
    BY <1>1, <1>2, <1>3 DEF Places
  <1> QED
    BY <1>1, <1>4 DEF Within

LEMMA WithinEmpty ==
    ASSUME NEW s
    PROVE  Within(<<>>, s)
  <1>1. Places(<<>>, s, Len(s), [a \in {} |-> 0])
    BY DEF Places
  <1> QED
    BY <1>1 DEF Within

LEMMA WithinGrows ==
    ASSUME NEW x, NEW S, NEW s \in Seq(S), NEW e, Within(x, s)
    PROVE  Within(x, Append(s, e))
  <1> DEFINE z == Append(s, e)  k == Len(s)
  <1>1. k \in Nat /\ Len(z) = k + 1 /\ \A i \in 1 .. k : z[i] = s[i]
    OBVIOUS
  <1>2. PICK f : Places(x, s, k, f)
    BY DEF Within
  <1> HIDE DEF z, k
  <1>3. f \in [DOMAIN x -> 1 .. k + 1]
    <2>1. 1 .. k \subseteq 1 .. k + 1
      BY <1>1
    <2> QED
      BY <1>2, <2>1, Zenon DEF Places
  <1>4. Places(x, z, k + 1, f)
    BY <1>1, <1>2, <1>3 DEF Places
  <1> QED
    BY <1>1, <1>4 DEF Within, z

-----------------------------------------------------------------------------
(* Logins that are pushed out *)

Entries == [token : Nat, expiry : Nat]
HasToken(t, s) == \E a \in DOMAIN s : s[a].token = t
Live(t, s, n) == \E a \in DOMAIN s : s[a].token = t /\ s[a].expiry > n
LaterThan(t, lg) == {i \in DOMAIN lg : \E j \in 1 .. i - 1 : lg[j].token = t}
ExpiredIn(t, lg, n) == \E i \in DOMAIN lg : lg[i].token = t /\ ~(lg[i].expiry > n)
\* A session is stored, or pushed out by newer ones, or expired.
Good(t, s, lg, n) == HasToken(t, s) \/ Cardinality(LaterThan(t, lg)) >= MaxSessions \/ ExpiredIn(t, lg, n)

LEMMA LaterFinite ==
    ASSUME NEW t, NEW S, NEW s \in Seq(S)
    PROVE  IsFiniteSet(LaterThan(t, s)) /\ Cardinality(LaterThan(t, s)) \in Nat
  <1>1. Len(s) \in Nat /\ DOMAIN s = 1 .. Len(s)
    OBVIOUS
  <1>2. IsFiniteSet(1 .. Len(s))
    BY <1>1, FS_Interval
  <1>3. LaterThan(t, s) \subseteq 1 .. Len(s)
    BY <1>1 DEF LaterThan
  <1>4. IsFiniteSet(LaterThan(t, s))
    BY <1>2, <1>3, FS_Subset
  <1> QED
    BY <1>4, FS_CardinalityType

LEMMA GoodGrows ==
    ASSUME NEW t, NEW x, NEW n, NEW S, NEW s \in Seq(S), NEW e \in S, Good(t, x, s, n)
    PROVE  HasToken(t, x) \/ \A y : Good(t, y, Append(s, e), n)
  <1> DEFINE z == Append(s, e)  k == Len(s)
  <1>1. /\ k \in Nat /\ DOMAIN z = 1 .. k + 1 /\ DOMAIN s = 1 .. k /\ z \in Seq(S)
        /\ \A i \in 1 .. k : z[i] = s[i]
    OBVIOUS
  <1> HIDE DEF z, k
  <1>2. LaterThan(t, s) \subseteq LaterThan(t, z)
    <2> SUFFICES ASSUME NEW i \in 1 .. k, NEW j \in 1 .. i - 1, s[j].token = t
                 PROVE  i \in LaterThan(t, z)
      BY <1>1 DEF LaterThan
    <2>1. i \in 1 .. k + 1 /\ j \in 1 .. k
      BY <1>1
    <2> QED
      BY <1>1, <2>1 DEF LaterThan
  <1>3. Cardinality(LaterThan(t, s)) <= Cardinality(LaterThan(t, z))
    <2>1. IsFiniteSet(LaterThan(t, z))
      BY <1>1, LaterFinite
    <2> QED
      BY <1>2, <2>1, FS_Subset
  <1>4. Cardinality(LaterThan(t, s)) \in Nat /\ Cardinality(LaterThan(t, z)) \in Nat /\ MaxSessions \in Nat
    BY <1>1, LaterFinite, WebAccessAssumption
  <1>5. Cardinality(LaterThan(t, s)) >= MaxSessions => Cardinality(LaterThan(t, z)) >= MaxSessions
    <2>1. \A a, b, c \in Nat : a <= b /\ a >= c => b >= c
      OBVIOUS
    <2> QED
      BY <1>3, <1>4, <2>1
  <1>6. ExpiredIn(t, s, n) => ExpiredIn(t, z, n)
    BY <1>1 DEF ExpiredIn
  <1> QED
    BY <1>5, <1>6 DEF Good, z

\* A full list gives up its first entry for a new login: what it gives up has
\* been followed by MAX_SESSIONS logins.
LEMMA Evicted ==
    ASSUME NEW S, NEW x \in Seq(S), NEW s \in Seq(S), NEW e \in S, Within(x, s), Len(x) = MaxSessions
    PROVE  Cardinality(LaterThan(x[1].token, Append(s, e))) >= MaxSessions
  <1> DEFINE z == Append(s, e)  k == Len(s)  m == Len(x)  t == x[1].token  L == LaterThan(t, z)
  <1>1. /\ k \in Nat /\ DOMAIN z = 1 .. k + 1 /\ DOMAIN x = 1 .. m /\ z \in Seq(S)
        /\ \A i \in 1 .. k : z[i] = s[i]
    OBVIOUS
  <1>2. m \in Nat \ {0} /\ m = MaxSessions
    BY WebAccessAssumption
  <1>3. PICK f : Places(x, s, k, f)
    BY DEF Within
  <1> HIDE DEF z, k, m
  <1>4. /\ f \in [1 .. m -> 1 .. k]
        /\ \A a \in 1 .. m : x[a] = s[f[a]]
        /\ \A a, b \in 1 .. m : a < b => f[a] < f[b]
    BY <1>1, <1>3 DEF Places
  <1>5. 1 \in 1 .. m /\ \A a \in 1 .. m : f[a] \in 1 .. k
    BY <1>2, <1>4
  <1>6. z[f[1]].token = t
    BY <1>1, <1>4, <1>5
  <1>7. \A i \in 1 .. k + 1 : f[1] < i => i \in L
    <2> SUFFICES ASSUME NEW i \in 1 .. k + 1, f[1] < i PROVE i \in L
      OBVIOUS
    <2>1. f[1] \in 1 .. i - 1
      BY <1>1, <1>5
    <2> QED
      BY <1>1, <1>6, <2>1 DEF LaterThan
  <1> DEFINE g == [a \in 1 .. m |-> IF a = m THEN k + 1 ELSE f[a + 1]]
  <1>8. \A a \in 1 .. m : a # m => a + 1 \in 1 .. m /\ 1 < a + 1
    BY <1>2
  <1>9. \A a \in 1 .. m : g[a] \in L
    <2> SUFFICES ASSUME NEW a \in 1 .. m PROVE g[a] \in L
      OBVIOUS
    <2>1. CASE a = m
      <3>1. g[a] = k + 1 /\ k + 1 \in 1 .. k + 1 /\ f[1] < k + 1
        BY <1>1, <1>5, <2>1
      <3> QED
        BY <1>7, <3>1
    <2>2. CASE a # m
      <3>1. g[a] = f[a + 1] /\ f[a + 1] \in 1 .. k /\ f[1] < f[a + 1]
        BY <1>4, <1>5, <1>8, <2>2
      <3>2. f[a + 1] \in 1 .. k + 1
        BY <1>1, <3>1
      <3> QED
        BY <1>7, <3>1, <3>2
    <2> QED
      BY <2>1, <2>2
  <1>10. \A a, b \in 1 .. m : a < b => g[a] < g[b]
    <2> SUFFICES ASSUME NEW a \in 1 .. m, NEW b \in 1 .. m, a < b PROVE g[a] < g[b]
      OBVIOUS
    <2>1. a # m /\ g[a] = f[a + 1] /\ f[a + 1] \in 1 .. k
      BY <1>2, <1>5, <1>8
    <2>2. CASE b = m
      BY <1>1, <2>1, <2>2
    <2>3. CASE b # m
      <3>1. g[b] = f[b + 1] /\ a + 1 < b + 1
        BY <1>2, <2>3
      <3> QED
        BY <1>4, <1>8, <2>1, <2>3, <3>1
    <2> QED
      BY <2>2, <2>3
  <1>11. \A a, b \in 1 .. m : g[a] = g[b] => a = b
    <2> SUFFICES ASSUME NEW a \in 1 .. m, NEW b \in 1 .. m, a # b PROVE g[a] # g[b]
      OBVIOUS
    <2>1. a < b \/ b < a
      BY <1>2
    <2>2. \A i, j \in L : i < j => i # j
      BY <1>1 DEF LaterThan
    <2> QED
      BY <1>9, <1>10, <2>1, <2>2
  <1>12. g \in Injection(1 .. m, L)
    <2>1. g \in [1 .. m -> L]
      BY <1>9
    <2> HIDE DEF g
    <2> QED
      BY <1>11, <2>1 DEF Injection, IsInjective
  <1>13. IsFiniteSet(L) /\ Cardinality(L) \in Nat
    BY <1>1, LaterFinite
  <1>14. Cardinality(1 .. m) = m
    BY <1>2, FS_Interval
  <1>15. Cardinality(1 .. m) <= Cardinality(L)
    BY <1>12, <1>13, FS_Injection
  <1> QED
    BY <1>2, <1>13, <1>14, <1>15 DEF z

-----------------------------------------------------------------------------
(* What the edits make of a session list *)

LEMMA LiveHas == \A t, s, n : Live(t, s, n) => HasToken(t, s)
  BY DEF Live, HasToken

LEMMA ListPoints ==
    ASSUME NEW S, NEW s \in Seq(S)
    PROVE  /\ DOMAIN s = 1 .. Len(s) /\ \A a \in DOMAIN s : s[a] \in S
           /\ \A e : e \in ToSet(s) <=> \E a \in DOMAIN s : s[a] = e
  BY DEF ToSet

Loaded(s, x, n) == \A a \in DOMAIN s : s[a].expiry > n => \E b \in DOMAIN x : x[b] = s[a]
LoadKeeps(s, x, lg, n) ==
    /\ x \in Seq(Entries) /\ Within(x, lg) /\ Loaded(s, x, n)
    /\ \A t : Live(t, x, n) => Live(t, s, n)
    /\ \A t : Good(t, s, lg, n) => Good(t, x, lg, n)
LEMMA LoadedList ==
    ASSUME NEW s \in Seq(Entries), NEW lg \in Seq(Entries), NEW n, Within(s, lg),
           NEW x, x = Among(s, {e \in ToSet(s) : e.expiry > n})
    PROVE  LoadKeeps(s, x, lg, n)
  <1> DEFINE keep == {e \in ToSet(s) : e.expiry > n}
  <1>1. Keeps(s, keep, Len(s), x, Entries)
    BY AmongKeeps
  <1>2. x \in Seq(Entries) /\ Within(x, s)
    BY <1>1 DEF Keeps, Within
  <1>3. Within(x, lg)
    BY <1>2, WithinTrans
  <1>4. \A a \in DOMAIN s : s[a].expiry > n => \E b \in DOMAIN x : x[b] = s[a]
    BY <1>1, ListPoints DEF Keeps
  <1>5. \A b \in DOMAIN x : \E a \in DOMAIN s : s[a] = x[b]
    <2>1. \A b \in DOMAIN x : x[b] \in ToSet(s)
      BY <1>1 DEF Keeps
    <2>2. \A e \in ToSet(s) : \E a \in DOMAIN s : s[a] = e
      BY ListPoints
    <2> QED
      BY <2>1, <2>2
  <1>6. \A t : Live(t, x, n) => Live(t, s, n)
    <2> SUFFICES ASSUME NEW t, NEW b \in DOMAIN x, x[b].token = t, x[b].expiry > n PROVE Live(t, s, n)
      BY DEF Live
    <2>1. PICK a \in DOMAIN s : s[a] = x[b]
      BY <1>5
    <2> QED
      BY <2>1 DEF Live
  <1>7. ASSUME NEW t, HasToken(t, s)
        PROVE  HasToken(t, x) \/ ExpiredIn(t, lg, n)
    <2>1. PICK a \in DOMAIN s : s[a].token = t
      BY <1>7 DEF HasToken
    <2>2. CASE s[a].expiry > n
      BY <1>4, <2>1, <2>2 DEF HasToken
    <2>3. CASE ~(s[a].expiry > n)
      <3>1. \E i \in 1 .. Len(lg) : s[a] = lg[i]
        BY DEF Within, Places
      <3> QED
        BY <2>1, <2>3, <3>1, ListPoints DEF ExpiredIn
    <2> QED
      BY <2>2, <2>3
  <1>8. \A t : Good(t, s, lg, n) => Good(t, x, lg, n)
    BY <1>7 DEF Good
  <1> QED
    BY <1>2, <1>3, <1>4, <1>6, <1>8 DEF LoadKeeps, Loaded

DropKeeps(c, x, t0, lg) ==
    /\ x \in Seq(Entries) /\ Within(x, lg) /\ ~HasToken(t0, x)
    /\ \A t, n : Live(t, x, n) => Live(t, c, n)
    /\ \A t, n : t # t0 /\ Good(t, c, lg, n) => Good(t, x, lg, n)
LEMMA DroppedList ==
    ASSUME NEW c \in Seq(Entries), NEW lg \in Seq(Entries), Within(c, lg), NEW t0,
           NEW x, x = Among(c, {e \in ToSet(c) : e.token # t0})
    PROVE  DropKeeps(c, x, t0, lg)
  <1> DEFINE keep == {e \in ToSet(c) : e.token # t0}
  <1>1. Keeps(c, keep, Len(c), x, Entries)
    BY AmongKeeps
  <1>2. x \in Seq(Entries) /\ Within(x, c)
    BY <1>1 DEF Keeps, Within
  <1>3. Within(x, lg)
    BY <1>2, WithinTrans
  <1>4. \A a \in DOMAIN c : c[a].token # t0 => \E b \in DOMAIN x : x[b] = c[a]
    BY <1>1, ListPoints DEF Keeps
  <1>5. \A b \in DOMAIN x : x[b].token # t0 /\ \E a \in DOMAIN c : c[a] = x[b]
    <2>1. \A b \in DOMAIN x : x[b] \in ToSet(c) /\ x[b].token # t0
      BY <1>1 DEF Keeps
    <2>2. \A e \in ToSet(c) : \E a \in DOMAIN c : c[a] = e
      BY ListPoints
    <2> QED
      BY <2>1, <2>2
  <1>6. \A t, n : Live(t, x, n) => Live(t, c, n)
    BY <1>5 DEF Live
  <1>7. ~HasToken(t0, x) /\ \A t : t # t0 /\ HasToken(t, c) => HasToken(t, x)
    <2>1. ~HasToken(t0, x)
      BY <1>5 DEF HasToken
    <2>2. ASSUME NEW t, t # t0, NEW a \in DOMAIN c, c[a].token = t
          PROVE  HasToken(t, x)
      <3>1. PICK b \in DOMAIN x : x[b] = c[a]
        BY <1>4, <2>2
      <3> QED
        BY <2>2, <3>1 DEF HasToken
    <2> QED
      BY <2>1, <2>2 DEF HasToken
  <1>8. \A t, n : t # t0 /\ Good(t, c, lg, n) => Good(t, x, lg, n)
    BY <1>7 DEF Good
  <1> QED
    BY <1>2, <1>3, <1>6, <1>7, <1>8 DEF DropKeeps

AddKeeps(c, x, e, lg) ==
    /\ x \in Seq(Entries) /\ Within(x, Append(lg, e)) /\ x # <<>> /\ x[Len(x)] = e
    /\ \A t, n : Live(t, x, n) => Live(t, c, n) \/ t = e.token
    /\ \A t, n : Good(t, c, lg, n) => Good(t, x, Append(lg, e), n)
LEMMA AddedList ==
    ASSUME NEW c \in Seq(Entries), NEW lg \in Seq(Entries), Within(c, lg), NEW e \in Entries,
           NEW x, x = Append(IF Len(c) = MaxSessions THEN Tail(c) ELSE c, e)
    PROVE  AddKeeps(c, x, e, lg)
  <1> DEFINE d == IF Len(c) = MaxSessions THEN Tail(c) ELSE c
  <1>1. Len(c) = MaxSessions => c # <<>>
    BY WebAccessAssumption
  <1>2. d \in Seq(Entries) /\ Within(d, lg)
    <2>1. CASE Len(c) = MaxSessions
      <3>1. Within(Tail(c), c) /\ Tail(c) \in Seq(Entries)
        BY <1>1, <2>1, WithinTail
      <3> QED
        BY <2>1, <3>1, WithinTrans
    <2>2. CASE Len(c) # MaxSessions
      BY <2>2
    <2> QED
      BY <2>1, <2>2
  <1>3. \A t, n : Live(t, d, n) => Live(t, c, n)
    <2>1. CASE Len(c) = MaxSessions
      <3>1. d = Tail(c) /\ \A a \in DOMAIN d : a + 1 \in DOMAIN c /\ d[a] = c[a + 1]
        BY <1>1, <2>1
      <3> QED
        BY <3>1 DEF Live
    <2>2. CASE Len(c) # MaxSessions
      BY <2>2
    <2> QED
      BY <2>1, <2>2
  <1>4. ASSUME NEW t, HasToken(t, c)
        PROVE  HasToken(t, d) \/ Cardinality(LaterThan(t, Append(lg, e))) >= MaxSessions
    <2>1. CASE Len(c) = MaxSessions
      <3>1. PICK a \in DOMAIN c : c[a].token = t
        BY <1>4 DEF HasToken
      <3>2. CASE a = 1
        BY <2>1, <3>1, <3>2, Evicted
      <3>3. CASE a # 1
        <4>1. a - 1 \in DOMAIN Tail(c) /\ Tail(c)[a - 1] = c[a]
          BY <1>1, <2>1, <3>3
        <4> QED
          BY <2>1, <3>1, <4>1 DEF HasToken
      <3> QED
        BY <3>2, <3>3
    <2>2. CASE Len(c) # MaxSessions
      BY <1>4, <2>2
    <2> QED
      BY <2>1, <2>2
  <1> HIDE DEF d
  <1>5. /\ x = Append(d, e) /\ x \in Seq(Entries) /\ x # <<>> /\ x[Len(x)] = e
        /\ DOMAIN d \subseteq DOMAIN x /\ \A a \in DOMAIN d : x[a] = d[a]
        /\ \A a \in DOMAIN x : a \in DOMAIN d \/ x[a] = e
    BY <1>2 DEF d
  <1>6. Within(x, Append(lg, e))
    BY <1>2, <1>5, WithinAppend
  <1>7. \A t, n : Live(t, x, n) => Live(t, d, n) \/ t = e.token
    BY <1>5 DEF Live
  <1>8. \A t : HasToken(t, d) => HasToken(t, x)
    BY <1>5 DEF HasToken
  <1>9. ASSUME NEW t, NEW n, Good(t, c, lg, n)
        PROVE  Good(t, x, Append(lg, e), n)
    <2>1. CASE HasToken(t, c)
      BY <1>4, <1>8, <2>1 DEF Good
    <2>2. CASE ~HasToken(t, c)
      BY <1>9, <2>2, GoodGrows
    <2> QED
      BY <2>1, <2>2
  <1> QED
    BY <1>3, <1>5, <1>6, <1>7, <1>9 DEF AddKeeps

LEMMA TimePasses ==
    ASSUME NEW n \in Nat, NEW m \in Nat, n <= m, NEW s \in Seq(Entries), NEW lg \in Seq(Entries), NEW x
    PROVE  /\ \A t : Live(t, s, m) => Live(t, s, n)
           /\ \A t : Good(t, x, lg, n) => Good(t, x, lg, m)
           /\ Loaded(s, x, n) => Loaded(s, x, m)
  <1>1. /\ \A a \in DOMAIN s : s[a].expiry \in Nat
        /\ \A a \in DOMAIN lg : lg[a].expiry \in Nat
    <2>1. /\ \A a \in DOMAIN s : s[a] \in Entries
          /\ \A a \in DOMAIN lg : lg[a] \in Entries
      BY ListPoints
    <2> QED
      BY <2>1 DEF Entries
  <1>2. \A t : Live(t, s, m) => Live(t, s, n)
    BY <1>1 DEF Live
  <1>3. \A t : ExpiredIn(t, lg, n) => ExpiredIn(t, lg, m)
    BY <1>1 DEF ExpiredIn
  <1>4. Loaded(s, x, n) => Loaded(s, x, m)
    BY <1>1 DEF Loaded
  <1> QED
    BY <1>2, <1>3, <1>4 DEF Good

-----------------------------------------------------------------------------
(* The session file and the lists that workers make of it *)

\* A list that may stand in the session file after the logins lg.
ListFits(s, lg, g, n) ==
    /\ Within(s, lg)
    /\ \A t \in g.revoked : ~Live(t, s, n)
    /\ ~g.unsure => \A t \in g.granted \ g.leaving : Good(t, s, lg, n)
LoadDuty(q, ss, g, n) == LeftOf(q) = 4 => ListFits(q.list, g.logins, g, n) /\ Loaded(ss, q.list, n)
LogoutDuty(q, ss, g, n) ==
    /\ LeftOf(q) \in 2 .. 3 => ListFits(q.list, g.logins, g, n) /\ ~Live(q.arg, q.list, n)
    /\ LeftOf(q) = 1 => ~Live(q.arg, ss, n)
LoginDuty(q, ss, g, n) ==
    /\ LeftOf(q) \in 2 .. 3 =>
         /\ q.list # <<>> /\ q.list[Len(q.list)].token = q.arg
         /\ ListFits(q.list, Append(g.logins, q.list[Len(q.list)]), g, n)
    /\ LeftOf(q) = 1 => HasToken(q.arg, ss)
ListDuty(q, ss, g, n) ==
    /\ q.list \in Seq(Entries)
    /\ q.req \in SessionRequests => LoadDuty(q, ss, g, n)
    /\ q.req = "login" => LoginDuty(q, ss, g, n)
    /\ q.req = "logout" => LogoutDuty(q, ss, g, n)
TokenDuty(q, g, k) ==
    /\ q.req = "login" /\ LeftOf(q) # 0 => /\ q.arg \in 1 .. k /\ (LeftOf(q) # 1 => ~HasToken(q.arg, g.logins))
    /\ q.req = "logout" /\ LeftOf(q) # 0 => HasToken(q.arg, g.logins) /\ q.arg \in g.leaving
FileFits(ss, tt, g, n, k) ==
    /\ ss \in Seq(Entries) /\ g.logins \in Seq(Entries) /\ n \in Nat /\ k \in Nat
    /\ tt => ss = <<>>
    /\ ~tt => ListFits(ss, g.logins, g, n)
    /\ \A i \in DOMAIN g.logins : g.logins[i].token <= k
    /\ \A t \in g.revoked : HasToken(t, g.logins)
Rewriting(q) == q.req \in SessionRequests /\ LeftOf(q) = 2
LoggingIn(q) == q.req = "login" /\ LeftOf(q) # 0
SessionsOK ==
    /\ FileFits(sessions, torn, ghost, now, requests)
    /\ torn /\ ~ghost.unsure => \E v \in Workers : Rewriting(worker[v])
    /\ \A v \in Workers : ListDuty(worker[v], sessions, ghost, now) /\ TokenDuty(worker[v], ghost, requests)
    /\ \A v, u \in Workers : LoggingIn(worker[v]) /\ LoggingIn(worker[u]) /\ worker[v].arg = worker[u].arg => v = u

\* What an edit beside it leaves of a worker's duties.
Leaves(g, h) ==
    /\ h.logins = g.logins /\ h.granted = g.granted /\ h.revoked = g.revoked /\ (h.unsure <=> g.unsure)
    /\ g.leaving \subseteq h.leaving
LEMMA FitsLater ==
    ASSUME NEW g, NEW h, Leaves(g, h), NEW n \in Nat, NEW m \in Nat, n <= m,
           NEW s \in Seq(Entries), NEW lg \in Seq(Entries), ListFits(s, lg, g, n)
    PROVE  ListFits(s, lg, h, m)
  <1>1. /\ \A t : Live(t, s, m) => Live(t, s, n)
        /\ \A t : Good(t, s, lg, n) => Good(t, s, lg, m)
    BY TimePasses
  <1>2. \A t \in h.revoked : ~Live(t, s, m)
    BY <1>1 DEF ListFits, Leaves
  <1>3. ~h.unsure => \A t \in h.granted \ h.leaving : Good(t, s, lg, m)
    BY <1>1 DEF ListFits, Leaves
  <1> QED
    BY <1>2, <1>3 DEF ListFits

LEMMA DutyLater ==
    ASSUME NEW g, NEW h, Leaves(g, h), NEW n \in Nat, NEW m \in Nat, n <= m, NEW k \in Nat, NEW l \in Nat, k <= l,
           NEW ss \in Seq(Entries), g.logins \in Seq(Entries), NEW q, ListDuty(q, ss, g, n), TokenDuty(q, g, k)
    PROVE  ListDuty(q, ss, h, m) /\ TokenDuty(q, h, l)
  <1>1. q.list \in Seq(Entries) /\ h.logins = g.logins
    BY DEF ListDuty, Leaves
  <1>2. q.req \in SessionRequests => LoadDuty(q, ss, h, m)
    <2>1. ListFits(q.list, g.logins, g, n) => ListFits(q.list, g.logins, h, m)
      BY <1>1, FitsLater
    <2>2. Loaded(ss, q.list, n) => Loaded(ss, q.list, m)
      BY <1>1, TimePasses
    <2> QED
      BY <1>1, <2>1, <2>2 DEF ListDuty, LoadDuty
  <1>3. q.req = "login" => LoginDuty(q, ss, h, m)
    <2>1. CASE q.req = "login" /\ LeftOf(q) \in 2 .. 3
      <3> DEFINE e == q.list[Len(q.list)]
      <3>1. q.list # <<>> /\ e.token = q.arg /\ ListFits(q.list, Append(g.logins, e), g, n)
        BY <2>1 DEF ListDuty, LoginDuty
      <3>2. e \in Entries
        BY <1>1, <3>1
      <3> HIDE DEF e
      <3>3. Append(g.logins, e) \in Seq(Entries)
        BY <3>2
      <3>4. ListFits(q.list, Append(g.logins, e), h, m)
        BY <1>1, <3>1, <3>3, FitsLater
      <3> QED
        BY <1>1, <2>1, <3>1, <3>4 DEF LoginDuty, e
    <2>2. CASE ~(LeftOf(q) \in 2 .. 3)
      BY <2>2 DEF ListDuty, LoginDuty
    <2> QED
      BY <2>1, <2>2
  <1>4. q.req = "logout" => LogoutDuty(q, ss, h, m)
    <2>1. ListFits(q.list, g.logins, g, n) => ListFits(q.list, g.logins, h, m)
      BY <1>1, FitsLater
    <2>2. /\ \A t : Live(t, ss, m) => Live(t, ss, n)
          /\ \A t : Live(t, q.list, m) => Live(t, q.list, n)
      BY <1>1, TimePasses
    <2> QED
      BY <1>1, <2>1, <2>2 DEF ListDuty, LogoutDuty
  <1>5. TokenDuty(q, h, l)
    <2>1. 1 .. k \subseteq 1 .. l
      OBVIOUS
    <2> QED
      BY <2>1 DEF TokenDuty, Leaves
  <1> QED
    BY <1>1, <1>2, <1>3, <1>4, <1>5 DEF ListDuty

LEMMA DutyElsewhere ==
    ASSUME NEW q, ~HoldsLock(q, "sessions"), NEW g, NEW h, NEW ss, NEW s2, NEW n, NEW m, NEW k \in Nat, NEW l \in Nat, k <= l,
           ListDuty(q, ss, g, n), TokenDuty(q, g, k), g.leaving \subseteq h.leaving,
           \A t : HasToken(t, g.logins) => HasToken(t, h.logins), LoggingIn(q) => ~HasToken(q.arg, h.logins)
    PROVE  ListDuty(q, s2, h, m) /\ TokenDuty(q, h, l)
  <1>1. q.req \in SessionRequests => LeftOf(q) \notin 1 .. 5
    BY DEF HoldsLock
  <1>2. q.req \in SessionRequests <=> q.req = "login" \/ q.req = "logout"
    BY DEF SessionRequests
  <1>3. ListDuty(q, s2, h, m)
    BY <1>1, <1>2 DEF ListDuty, LoadDuty, LoginDuty, LogoutDuty
  <1>4. 1 .. k \subseteq 1 .. l
    OBVIOUS
  <1> QED
    BY <1>3, <1>4 DEF TokenDuty, LoggingIn

LEMMA IdleDuty ==
    ASSUME NEW q, q.list \in Seq(Entries), LeftOf(q) \in {0, -1, 5, 6} \/ q.req \notin SessionRequests, NEW ss, NEW g, NEW n
    PROVE  ListDuty(q, ss, g, n)
  <1>1. LeftOf(q) \in {0, -1, 5, 6} => LeftOf(q) # 4 /\ LeftOf(q) # 1 /\ LeftOf(q) \notin 2 .. 3
    OBVIOUS
  <1> QED
    BY <1>1 DEF ListDuty, LoadDuty, LoginDuty, LogoutDuty, SessionRequests

-----------------------------------------------------------------------------
(* The other workers, beside a step of one *)

LEMMA Alone ==
    ASSUME LocksOK, NEW w \in Workers, NEW v \in Workers \ {w}, HoldsLock(worker[w], "sessions")
    PROVE  ~HoldsLock(worker[v], "sessions")
  BY DEF LocksOK, LockNames

LEMMA TokensGrow ==
    ASSUME NEW lg \in Seq(Entries), NEW e \in Entries, NEW t
    PROVE  HasToken(t, Append(lg, e)) <=> HasToken(t, lg) \/ t = e.token
  <1> DEFINE z == Append(lg, e)  k == Len(lg)
  <1>1. /\ k \in Nat /\ DOMAIN z = 1 .. k + 1 /\ DOMAIN lg = 1 .. k /\ z[k + 1] = e
        /\ \A i \in 1 .. k : z[i] = lg[i]
    OBVIOUS
  <1> HIDE DEF z, k
  <1>2. \A i \in 1 .. k + 1 : i \in 1 .. k \/ i = k + 1
    BY <1>1
  <1>3. HasToken(t, lg) => HasToken(t, z)
    BY <1>1 DEF HasToken
  <1>4. t = e.token => HasToken(t, z)
    <2>1. k + 1 \in DOMAIN z
      BY <1>1
    <2> QED
      BY <1>1, <2>1 DEF HasToken
  <1>5. HasToken(t, z) => HasToken(t, lg) \/ t = e.token
    BY <1>1, <1>2 DEF HasToken
  <1> QED
    BY <1>3, <1>4, <1>5 DEF z

\* Either the step leaves what the others rely on, or its worker has the lock.
Gentle == UNCHANGED <<sessions, now>> /\ Leaves(ghost, ghost') /\ requests' \in Nat /\ requests <= requests'
Locked(w) ==
    /\ HoldsLock(worker[w], "sessions")
    /\ UNCHANGED requests /\ ghost.leaving \subseteq ghost'.leaving
    /\ \/ ghost'.logins = ghost.logins
       \/ LoggingIn(worker[w]) /\ \E e \in Entries : e.token = worker[w].arg /\ ghost'.logins = Append(ghost.logins, e)

LEMMA OthersDuty ==
    ASSUME NEW w \in Workers, SessionsOK, LocksOK, Gentle \/ Locked(w), NEW v \in Workers \ {w}
    PROVE  ListDuty(worker[v], sessions', ghost', now') /\ TokenDuty(worker[v], ghost', requests')
  <1> DEFINE p == worker[v]
  <1>1. /\ sessions \in Seq(Entries) /\ ghost.logins \in Seq(Entries) /\ now \in Nat /\ requests \in Nat
        /\ ListDuty(p, sessions, ghost, now) /\ TokenDuty(p, ghost, requests)
    BY DEF SessionsOK, FileFits
  <1>2. CASE Gentle
    <2>1. sessions' = sessions /\ now' = now
      BY <1>2 DEF Gentle
    <2>2. now <= now
      BY <1>1
    <2>3. ListDuty(p, sessions, ghost', now) /\ TokenDuty(p, ghost', requests')
      BY <1>1, <1>2, <2>2, DutyLater DEF Gentle
    <2> QED
      BY <2>1, <2>3
  <1>3. CASE Locked(w)
    <2>1. ~HoldsLock(p, "sessions")
      BY <1>3, Alone DEF Locked
    <2>2. \A t : HasToken(t, ghost.logins) => HasToken(t, ghost'.logins)
      <3>1. CASE ghost'.logins = ghost.logins
        BY <3>1
      <3>2. CASE ghost'.logins # ghost.logins
        <4>1. PICK e \in Entries : ghost'.logins = Append(ghost.logins, e)
          BY <1>3, <3>2 DEF Locked
        <4>2. \A t : HasToken(t, ghost.logins) => HasToken(t, Append(ghost.logins, e))
          BY <1>1, TokensGrow
        <4> QED
          BY <4>1, <4>2
      <3> QED
        BY <3>1, <3>2
    <2>3. ASSUME LoggingIn(p)
          PROVE  ~HasToken(p.arg, ghost'.logins)
      <3>1. ~HasToken(p.arg, ghost.logins)
        BY <1>1, <2>1, <2>3 DEF TokenDuty, LoggingIn, HoldsLock, SessionRequests
      <3>2. LoggingIn(worker[w]) => p.arg # worker[w].arg
        BY <2>3 DEF SessionsOK
      <3>3. CASE ghost'.logins = ghost.logins
        BY <3>1, <3>3
      <3>4. CASE ghost'.logins # ghost.logins
        <4>1. PICK e \in Entries : e.token = worker[w].arg /\ ghost'.logins = Append(ghost.logins, e)
          BY <1>3, <3>4 DEF Locked
        <4>2. p.arg # e.token
          BY <1>3, <3>2, <3>4, <4>1 DEF Locked
        <4>3. HasToken(p.arg, Append(ghost.logins, e)) <=> HasToken(p.arg, ghost.logins) \/ p.arg = e.token
          BY <1>1, TokensGrow
        <4> QED
          BY <3>1, <4>1, <4>2, <4>3
      <3> QED
        BY <3>3, <3>4
    <2>4. requests' = requests /\ requests <= requests /\ ghost.leaving \subseteq ghost'.leaving
      BY <1>1, <1>3 DEF Locked
    <2> QED
      BY <1>1, <2>1, <2>2, <2>3, <2>4, DutyElsewhere
  <1> QED
    BY <1>2, <1>3

LEMMA SessionsAfter ==
    ASSUME NEW w \in Workers, SessionsOK, LocksOK, Gentle \/ Locked(w), NEW s, worker'[w] = s,
           \A v \in Workers \ {w} : worker'[v] = worker[v],
           FileFits(sessions', torn', ghost', now', requests'),
           torn' /\ ~ghost'.unsure => \E v \in Workers : Rewriting(worker'[v]),
           ListDuty(s, sessions', ghost', now'), TokenDuty(s, ghost', requests'),
           LoggingIn(s) => (LoggingIn(worker[w]) /\ s.arg = worker[w].arg) \/ s.arg = requests + 1
    PROVE  SessionsOK'
  <1>1. \A v \in Workers : ListDuty(worker'[v], sessions', ghost', now') /\ TokenDuty(worker'[v], ghost', requests')
    BY OthersDuty
  <1>2. \A v \in Workers : LoggingIn(worker[v]) => worker[v].arg # requests + 1
    <2>1. \A v \in Workers : LoggingIn(worker[v]) => worker[v].arg \in 1 .. requests /\ requests \in Nat
      BY DEF SessionsOK, TokenDuty, LoggingIn, FileFits
    <2> QED
      BY <2>1
  <1>3. \A v, u \in Workers : LoggingIn(worker'[v]) /\ LoggingIn(worker'[u]) /\ worker'[v].arg = worker'[u].arg => v = u
    <2>1. \A v, u \in Workers : LoggingIn(worker[v]) /\ LoggingIn(worker[u]) /\ worker[v].arg = worker[u].arg => v = u
      BY DEF SessionsOK
    <2>2. \A v \in Workers \ {w} : LoggingIn(s) /\ LoggingIn(worker[v]) => s.arg # worker[v].arg
      BY <1>2, <2>1
    <2> SUFFICES ASSUME NEW v \in Workers, NEW u \in Workers, v # u, LoggingIn(worker'[v]), LoggingIn(worker'[u])
                 PROVE  worker'[v].arg # worker'[u].arg
      OBVIOUS
    <2>3. CASE v = w
      BY <2>2, <2>3
    <2>4. CASE u = w
      BY <2>2, <2>4
    <2>5. CASE v # w /\ u # w
      BY <2>1, <2>5
    <2> QED
      BY <2>3, <2>4, <2>5
  <1> QED
    BY <1>1, <1>3 DEF SessionsOK

-----------------------------------------------------------------------------
(* Steps that leave the session file and its lists alone *)

LEMMA FitsBeside ==
    ASSUME SessionsOK, UNCHANGED <<sessions, torn, now>>, Leaves(ghost, ghost'), requests' \in Nat, requests <= requests'
    PROVE  FileFits(sessions', torn', ghost', now', requests')
  <1>1. FileFits(sessions, torn, ghost, now, requests)
    BY DEF SessionsOK
  <1>2. sessions \in Seq(Entries) /\ ghost.logins \in Seq(Entries) /\ now \in Nat /\ requests \in Nat /\ now <= now
    BY <1>1 DEF FileFits
  <1>3. ~torn => ListFits(sessions, ghost.logins, ghost', now)
    BY <1>1, <1>2, FitsLater DEF FileFits
  <1>4. ghost'.logins = ghost.logins /\ ghost'.revoked = ghost.revoked
    BY DEF Leaves
  <1>5. \A i \in DOMAIN ghost.logins : ghost.logins[i].token <= requests'
    <2>1. \A i \in DOMAIN ghost.logins : ghost.logins[i].token \in Nat /\ ghost.logins[i].token <= requests
      <3>1. \A i \in DOMAIN ghost.logins : ghost.logins[i] \in Entries
        BY <1>2, ListPoints
      <3> QED
        BY <1>1, <3>1 DEF FileFits, Entries
    <2> QED
      BY <1>2, <2>1
  <1> QED
    BY <1>1, <1>2, <1>3, <1>4, <1>5 DEF FileFits

LEMMA StillRewriting ==
    ASSUME NEW w \in Workers, SessionsOK, ~Rewriting(worker[w]), \A v \in Workers \ {w} : worker'[v] = worker[v],
           UNCHANGED torn, ghost'.unsure <=> ghost.unsure
    PROVE  torn' /\ ~ghost'.unsure => \E v \in Workers : Rewriting(worker'[v])
  <1> SUFFICES ASSUME torn, ~ghost.unsure PROVE \E v \in Workers : Rewriting(worker'[v])
    OBVIOUS
  <1>1. PICK v \in Workers : Rewriting(worker[v])
    BY DEF SessionsOK
  <1>2. v \in Workers \ {w}
    BY <1>1
  <1> QED
    BY <1>1, <1>2

LEMMA SameToken ==
    ASSUME NEW q, NEW s, s.req = q.req, s.arg = q.arg, LeftOf(q) \notin {0, 1}, NEW g, NEW k, TokenDuty(q, g, k)
    PROVE  TokenDuty(s, g, k)
  BY DEF TokenDuty

LEMMA ConnectSessions ==
    ASSUME NEW w \in Workers, WorkersOK, LocksOK, SessionsOK, GhostOK, Connect(w)
    PROVE  SessionsOK'
  <1>0. PICK r \in WebRequests : \E a :
          /\ Accept(w, r, a) /\ ArgOf(r, a, ghost.logins, requests)
          /\ TurnsTo(w, Rec(r, a, Auth, {}, <<>>)) /\ LeftOf(worker[w]) = 0
          /\ requests' = requests + 1
    BY ConnectIs
  <1>1. PICK a :
          /\ Accept(w, r, a) /\ ArgOf(r, a, ghost.logins, requests)
          /\ TurnsTo(w, Rec(r, a, Auth, {}, <<>>)) /\ LeftOf(worker[w]) = 0
          /\ requests' = requests + 1
    BY <1>0
  <1> DEFINE s == Rec(r, a, Auth, {}, <<>>)
  <1>2. s.req = r /\ s.arg = a /\ s.list = <<>> /\ LeftOf(s) = -1
    BY RecFields DEF LeftOf
  <1>3. worker'[w] = s /\ \A v \in Workers \ {w} : worker'[v] = worker[v]
    BY <1>1, BecomesIs
  <1> HIDE DEF s
  <1>4. AcceptGives(r, a)
    BY <1>1, AcceptGhost
  <1>5. Leaves(ghost, ghost') /\ ghost'.logins = ghost.logins /\ ghost'.unsure = ghost.unsure
        /\ (r = "logout" => a \in ghost'.leaving)
    BY <1>4, Zenon DEF AcceptGives, Leaves
  <1>6. UNCHANGED <<sessions, torn, now>>
    BY <1>1 DEF Accept
  <1>7. requests \in Nat /\ requests' \in Nat /\ requests <= requests' /\ requests' = requests + 1
    BY <1>1 DEF SessionsOK, FileFits
  <1>8. Gentle
    BY <1>5, <1>6, <1>7 DEF Gentle
  <1>9. FileFits(sessions', torn', ghost', now', requests')
    BY <1>5, <1>6, <1>7, FitsBeside
  <1>10. torn' /\ ~ghost'.unsure => \E v \in Workers : Rewriting(worker'[v])
    <2>1. ~Rewriting(worker[w])
      BY <1>1 DEF Rewriting
    <2> QED
      BY <1>3, <1>5, <1>6, <2>1, StillRewriting
  <1>11. ListDuty(s, sessions', ghost', now')
    <2>1. s.list \in Seq(Entries)
      BY <1>2
    <2> QED
      BY <1>2, <2>1, IdleDuty
  <1>12. TokenDuty(s, ghost', requests')
    <2>1. r = "login" => a = requests + 1 /\ ~HasToken(a, ghost.logins)
      <3> SUFFICES ASSUME r = "login" PROVE a = requests + 1 /\ ~HasToken(a, ghost.logins)
        OBVIOUS
      <3>1. a = requests + 1
        BY <1>1 DEF ArgOf
      <3>2. \A i \in DOMAIN ghost.logins : ghost.logins[i].token <= requests
        BY DEF SessionsOK, FileFits
      <3>3. \A x \in Nat : ~(x + 1 <= x)
        OBVIOUS
      <3> QED
        BY <1>7, <3>1, <3>2, <3>3 DEF HasToken
    <2>2. r = "logout" => HasToken(a, ghost.logins)
      BY <1>1 DEF ArgOf, HasToken
    <2>3. requests + 1 \in 1 .. requests + 1
      BY <1>7
    <2> QED
      BY <1>2, <1>5, <1>7, <2>1, <2>2, <2>3 DEF TokenDuty
  <1>13. LoggingIn(s) => s.arg = requests + 1
    BY <1>1, <1>2 DEF LoggingIn, ArgOf
  <1> QED
    BY <1>3, <1>8, <1>9, <1>10, <1>11, <1>12, <1>13, SessionsAfter

\* A step of a request that is not about sessions, or not yet.
Still(w) ==
    /\ UNCHANGED <<sessions, torn, now, requests>> /\ Leaves(ghost, ghost') /\ ~Rewriting(worker[w])
    /\ \A v \in Workers \ {w} : worker'[v] = worker[v]
    /\ \/ worker'[w] = Idler
       \/ /\ worker'[w].list = worker[w].list /\ worker'[w].req = worker[w].req /\ worker'[w].arg = worker[w].arg
          /\ worker[w].req \in SessionRequests => LeftOf(worker[w]) \in {-1, 6} /\ LeftOf(worker'[w]) \in {5, 6}
LEMMA StillSessions ==
    ASSUME NEW w \in Workers, LocksOK, SessionsOK, Still(w)
    PROVE  SessionsOK'
  <1> DEFINE q == worker[w]  s == worker'[w]
  <1>1. requests \in Nat /\ requests' = requests /\ requests' \in Nat /\ requests <= requests'
    BY DEF SessionsOK, FileFits, Still
  <1>2. Gentle
    BY <1>1 DEF Gentle, Still
  <1>3. FileFits(sessions', torn', ghost', now', requests')
    BY <1>1, FitsBeside DEF Still
  <1>4. torn' /\ ~ghost'.unsure => \E v \in Workers : Rewriting(worker'[v])
    BY StillRewriting DEF Still, Leaves
  <1>5. ListDuty(q, sessions, ghost, now) /\ TokenDuty(q, ghost, requests)
    BY DEF SessionsOK
  <1>6. CASE s = Idler
    <2>1. LeftOf(s) = 0 /\ s.list = <<>> /\ s.req = "none"
      BY <1>6, IdlerIs
    <2>2. s.list \in Seq(Entries)
      BY <2>1
    <2>3. ListDuty(s, sessions', ghost', now')
      BY <2>1, <2>2, IdleDuty
    <2>4. TokenDuty(s, ghost', requests') /\ ~LoggingIn(s)
      BY <2>1 DEF TokenDuty, LoggingIn
    <2> QED
      BY <1>2, <1>3, <1>4, <2>3, <2>4, SessionsAfter DEF Still
  <1>7. CASE s # Idler
    <2>1. /\ s.list = q.list /\ s.req = q.req /\ s.arg = q.arg
          /\ q.req \in SessionRequests => LeftOf(q) \in {-1, 6} /\ LeftOf(s) \in {5, 6}
      BY <1>7 DEF Still
    <2>2. ListDuty(s, sessions', ghost', now')
      <3>1. s.list \in Seq(Entries)
        BY <1>5, <2>1 DEF ListDuty
      <3> QED
        BY <2>1, <3>1, IdleDuty
    <2>3. TokenDuty(s, ghost', requests')
      <3>1. ghost'.logins = ghost.logins /\ ghost.leaving \subseteq ghost'.leaving
        BY DEF Still, Leaves
      <3> QED
        BY <1>1, <1>5, <2>1, <3>1 DEF TokenDuty, SessionRequests
    <2>4. LoggingIn(s) => LoggingIn(q) /\ s.arg = q.arg
      BY <2>1 DEF LoggingIn, SessionRequests
    <2> QED
      BY <1>2, <1>3, <1>4, <2>2, <2>3, <2>4, SessionsAfter DEF Still
  <1> QED
    BY <1>6, <1>7

-----------------------------------------------------------------------------
(* The steps of a login and of a logout *)

\* The request goes one step on, with the list x.
OneOn(w, x) == TurnsTo(w, Rec(worker[w].req, worker[w].arg, Tail(worker[w].todo), worker[w].copy, x))
LEMMA OneOnIs ==
    ASSUME NEW w \in Workers, WorkersOK, Running(w, worker[w]), NEW x, OneOn(w, x), NEW s, s = worker'[w]
    PROVE  /\ s.req = worker[w].req /\ s.arg = worker[w].arg /\ s.list = x /\ LeftOf(s) = LeftOf(worker[w]) - 1
           /\ \A v \in Workers \ {w} : worker'[v] = worker[v]
  <1> DEFINE r == Rec(worker[w].req, worker[w].arg, Tail(worker[w].todo), worker[w].copy, x)
  <1>1. Advanced(worker[w], r) /\ r.list = x
    BY RecFields DEF Advanced
  <1>2. worker'[w] = r /\ \A v \in Workers \ {w} : worker'[v] = worker[v]
    BY BecomesIs DEF OneOn
  <1> QED
    BY <1>1, <1>2, AdvancedIs

SameSessions == UNCHANGED <<sessions, torn, now, requests, ghost>>
LEMMA SameLeaves == SameSessions /\ SessionsOK => /\ Gentle /\ FileFits(sessions', torn', ghost', now', requests')
  <1> SUFFICES ASSUME SameSessions, SessionsOK PROVE Gentle /\ FileFits(sessions', torn', ghost', now', requests')
    OBVIOUS
  <1>1. requests \in Nat /\ requests' = requests /\ requests <= requests
    BY DEF SameSessions, SessionsOK, FileFits
  <1>2. Leaves(ghost, ghost')
    BY DEF SameSessions, Leaves
  <1>3. Gentle
    BY <1>1, <1>2 DEF Gentle, SameSessions
  <1> QED
    BY <1>1, <1>2, <1>3, FitsBeside DEF SameSessions

\* What may be loaded: the file is torn under the lock only after a failure.
LEMMA LoadFits ==
    ASSUME NEW w \in Workers, LocksOK, SessionsOK, HoldsLock(worker[w], "sessions"), LeftOf(worker[w]) # 2
    PROVE  ListFits(sessions, ghost.logins, ghost, now)
  <1>1. CASE ~torn
    BY <1>1 DEF SessionsOK, FileFits
  <1>2. CASE torn
    <2>1. sessions = <<>>
      BY <1>2 DEF SessionsOK, FileFits
    <2>2. ghost.unsure
      <3> SUFFICES ASSUME ~ghost.unsure PROVE FALSE
        OBVIOUS
      <3>1. PICK v \in Workers : Rewriting(worker[v])
        BY <1>2 DEF SessionsOK
      <3>2. HoldsLock(worker[v], "sessions") /\ v # w
        BY <3>1 DEF Rewriting, HoldsLock
      <3> QED
        BY <3>2, Alone
    <2>3. \A t, n : ~Live(t, <<>>, n)
      BY DEF Live
    <2> QED
      BY <2>1, <2>2, <2>3, WithinEmpty DEF ListFits
  <1> QED
    BY <1>1, <1>2

LEMMA LoadSessions ==
    ASSUME NEW w \in Workers, WorkersOK, LocksOK, SessionsOK, load_sessions(w)
    PROVE  SessionsOK'
  <1> DEFINE q == worker[w]  s == worker'[w]  x == Among(sessions, {e \in ToSet(sessions) : e.expiry > now})
  <1>1. Running(w, q) /\ q.req \in SessionRequests /\ LeftOf(q) = 5
    BY AtStepIs, AtLoad DEF load_sessions, WorkersOK, SessionRequests
  <1>2. OneOn(w, x) /\ SameSessions
    BY WithListIs DEF load_sessions, Valid, OneOn, SameSessions
  <1>3. /\ s.req = q.req /\ s.arg = q.arg /\ s.list = x /\ LeftOf(s) = 4
        /\ \A v \in Workers \ {w} : worker'[v] = worker[v]
    <2> HIDE DEF x
    <2> QED
      BY <1>1, <1>2, OneOnIs
  <1>4. Gentle /\ FileFits(sessions', torn', ghost', now', requests')
    BY <1>2, SameLeaves
  <1>5. sessions \in Seq(Entries) /\ ghost.logins \in Seq(Entries) /\ TokenDuty(q, ghost, requests)
    BY DEF SessionsOK, FileFits
  <1>6. ListFits(sessions, ghost.logins, ghost, now)
    BY <1>1, LoadFits DEF HoldsLock
  <1>7. LoadKeeps(sessions, x, ghost.logins, now)
    BY <1>5, <1>6, LoadedList DEF ListFits
  <1> HIDE DEF x
  <1>8. ListFits(x, ghost.logins, ghost, now)
    BY <1>6, <1>7 DEF ListFits, LoadKeeps
  <1>9. ListDuty(s, sessions, ghost, now)
    BY <1>3, <1>7, <1>8 DEF ListDuty, LoadDuty, LoginDuty, LogoutDuty, LoadKeeps
  <1>10. TokenDuty(s, ghost, requests)
    BY <1>1, <1>3, <1>5, SameToken
  <1>11. torn' /\ ~ghost'.unsure => \E v \in Workers : Rewriting(worker'[v])
    BY <1>1, <1>2, <1>3, StillRewriting DEF Rewriting, SameSessions
  <1>12. ListDuty(s, sessions', ghost', now') /\ TokenDuty(s, ghost', requests')
    BY <1>2, <1>9, <1>10 DEF SameSessions
  <1>13. LoggingIn(s) => LoggingIn(q) /\ s.arg = q.arg
    BY <1>1, <1>3 DEF LoggingIn
  <1> QED
    BY <1>3, <1>4, <1>11, <1>12, <1>13, SessionsAfter

LEMMA AddSession ==
    ASSUME NEW w \in Workers, WorkersOK, LocksOK, SessionsOK, EditSessions(w), AtStep(w, "add")
    PROVE  SessionsOK'
  <1> DEFINE q == worker[w]  s == worker'[w]  c == q.list
             e == [token |-> q.arg, expiry |-> now + Lifetime]
             x == Append(IF Len(c) = MaxSessions THEN Tail(c) ELSE c, e)
  <1>1. Running(w, q) /\ q.req = "login" /\ q.req \in SessionRequests /\ LeftOf(q) = 4
    BY AtStepIs, AtAdd DEF WorkersOK, SessionRequests
  <1>2. OneOn(w, x) /\ SameSessions
    <2>1. ~AtStep(w, "drop")
      BY OneOp
    <2> QED
      BY <2>1, WithListIs DEF EditSessions, OneOn, SameSessions
  <1>3. /\ s.req = q.req /\ s.arg = q.arg /\ s.list = x /\ LeftOf(s) = 3
        /\ \A v \in Workers \ {w} : worker'[v] = worker[v]
    <2> HIDE DEF x
    <2> QED
      BY <1>1, <1>2, OneOnIs
  <1>4. Gentle /\ FileFits(sessions', torn', ghost', now', requests')
    BY <1>2, SameLeaves
  <1>5. /\ ghost.logins \in Seq(Entries) /\ TokenDuty(q, ghost, requests) /\ now \in Nat /\ requests \in Nat
        /\ c \in Seq(Entries) /\ ListFits(c, ghost.logins, ghost, now)
        /\ \A t \in ghost.revoked : HasToken(t, ghost.logins)
    BY <1>1 DEF SessionsOK, FileFits, ListDuty, LoadDuty
  <1>6. q.arg \in Nat /\ ~HasToken(q.arg, ghost.logins)
    BY <1>1, <1>5 DEF TokenDuty
  <1>7. e \in Entries /\ e.token = q.arg
    <2>1. Lifetime \in Nat
      BY WebAccessAssumption, Zenon
    <2> QED
      BY <1>5, <1>6, <2>1 DEF Entries
  <1> HIDE DEF e
  <1>8. AddKeeps(c, x, e, ghost.logins)
    BY <1>5, <1>7, AddedList DEF ListFits
  <1> HIDE DEF x
  <1>9. ListFits(x, Append(ghost.logins, e), ghost, now)
    BY <1>5, <1>6, <1>7, <1>8 DEF ListFits, AddKeeps
  <1>10. ListDuty(s, sessions, ghost, now)
    BY <1>1, <1>3, <1>7, <1>8, <1>9 DEF ListDuty, LoadDuty, LoginDuty, AddKeeps
  <1>11. TokenDuty(s, ghost, requests)
    BY <1>1, <1>3, <1>5, SameToken
  <1>12. torn' /\ ~ghost'.unsure => \E v \in Workers : Rewriting(worker'[v])
    BY <1>1, <1>2, <1>3, StillRewriting DEF Rewriting, SameSessions
  <1>13. ListDuty(s, sessions', ghost', now') /\ TokenDuty(s, ghost', requests')
    BY <1>2, <1>10, <1>11 DEF SameSessions
  <1>14. LoggingIn(s) => LoggingIn(q) /\ s.arg = q.arg
    BY <1>1, <1>3 DEF LoggingIn
  <1> QED
    BY <1>3, <1>4, <1>12, <1>13, <1>14, SessionsAfter

LEMMA DropSession ==
    ASSUME NEW w \in Workers, WorkersOK, LocksOK, SessionsOK, EditSessions(w), AtStep(w, "drop")
    PROVE  SessionsOK'
  <1> DEFINE q == worker[w]  s == worker'[w]  c == q.list
             x == Among(c, {e \in ToSet(c) : e.token # q.arg})
  <1>1. Running(w, q) /\ q.req = "logout" /\ q.req \in SessionRequests /\ LeftOf(q) = 4
    BY AtStepIs, AtDrop DEF WorkersOK, SessionRequests
  <1>2. /\ SameSessions
        /\ IF x = c THEN Goto(w, <<Last(q.todo)>>, q.copy) ELSE WithList(w, x)
    <2>1. ~AtStep(w, "add")
      BY OneOp
    <2> QED
      BY <2>1 DEF EditSessions, SameSessions
  <1>3. Gentle /\ FileFits(sessions', torn', ghost', now', requests')
    BY <1>2, SameLeaves
  <1>4. /\ ghost.logins \in Seq(Entries) /\ TokenDuty(q, ghost, requests)
        /\ c \in Seq(Entries) /\ ListFits(c, ghost.logins, ghost, now) /\ Loaded(sessions, c, now)
    BY <1>1 DEF SessionsOK, FileFits, ListDuty, LoadDuty
  <1>5. q.arg \in ghost.leaving
    BY <1>1, <1>4 DEF TokenDuty
  <1>6. DropKeeps(c, x, q.arg, ghost.logins)
    BY <1>4, DroppedList DEF ListFits
  <1> HIDE DEF x
  <1>7. /\ s.req = q.req /\ s.arg = q.arg /\ LeftOf(s) \in {1, 3} /\ ListDuty(s, sessions, ghost, now)
        /\ \A v \in Workers \ {w} : worker'[v] = worker[v]
    <2>1. CASE x = c
      <3> DEFINE r == Rec(q.req, q.arg, <<Last(q.todo)>>, q.copy, c)
      <3>1. TurnsTo(w, r) /\ Jumped(q, r) /\ r.list = c
        BY <1>2, <2>1, GotoIs, RecFields DEF Jumped
      <3>2. s = r /\ \A v \in Workers \ {w} : worker'[v] = worker[v]
        BY <3>1, BecomesIs
      <3> HIDE DEF r
      <3>3. s.req = q.req /\ s.arg = q.arg /\ LeftOf(s) = 1 /\ s.list = c
        BY <1>1, <3>1, <3>2, JumpedIs
      <3>4. ~Live(q.arg, sessions, now)
        <4>1. ~HasToken(q.arg, c)
          BY <1>6, <2>1 DEF DropKeeps
        <4> QED
          BY <1>4, <4>1 DEF Loaded, Live, HasToken
      <3> QED
        BY <1>1, <1>4, <3>2, <3>3, <3>4 DEF ListDuty, LoadDuty, LogoutDuty
    <2>2. CASE x # c
      <3>1. OneOn(w, x)
        BY <1>2, <2>2, WithListIs DEF OneOn
      <3>2. /\ s.req = q.req /\ s.arg = q.arg /\ s.list = x /\ LeftOf(s) = 3
            /\ \A v \in Workers \ {w} : worker'[v] = worker[v]
        BY <1>1, <3>1, OneOnIs
      <3>3. ListFits(x, ghost.logins, ghost, now)
        BY <1>4, <1>5, <1>6 DEF ListFits, DropKeeps
      <3>4. ~Live(q.arg, x, now) /\ x \in Seq(Entries)
        BY <1>6, LiveHas DEF DropKeeps
      <3> QED
        BY <1>1, <3>2, <3>3, <3>4 DEF ListDuty, LoadDuty, LogoutDuty
    <2> QED
      BY <2>1, <2>2
  <1>8. TokenDuty(s, ghost, requests)
    BY <1>1, <1>4, <1>7, SameToken
  <1>9. torn' /\ ~ghost'.unsure => \E v \in Workers : Rewriting(worker'[v])
    BY <1>1, <1>2, <1>7, StillRewriting DEF Rewriting, SameSessions
  <1>10. ListDuty(s, sessions', ghost', now') /\ TokenDuty(s, ghost', requests')
    BY <1>2, <1>7, <1>8 DEF SameSessions
  <1>11. ~LoggingIn(s)
    BY <1>1, <1>7 DEF LoggingIn
  <1> QED
    BY <1>3, <1>7, <1>9, <1>10, <1>11, SessionsAfter

LEMMA TruncateSessions ==
    ASSUME NEW w \in Workers, WorkersOK, LocksOK, SessionsOK, Truncate(w)
    PROVE  SessionsOK'
  <1> DEFINE q == worker[w]  s == worker'[w]
  <1>1. Running(w, q) /\ q.req \in SessionRequests /\ LeftOf(q) = 3
    BY AtStepIs, AtTruncate DEF Truncate, WorkersOK, SessionRequests
  <1>2. sessions' = <<>> /\ torn' /\ UNCHANGED <<now, ghost, requests>> /\ OneOn(w, q.list)
    BY ContinueIs DEF Truncate, OneOn
  <1>3. /\ s.req = q.req /\ s.arg = q.arg /\ s.list = q.list /\ LeftOf(s) = 2
        /\ \A v \in Workers \ {w} : worker'[v] = worker[v]
    BY <1>1, <1>2, OneOnIs
  <1>4. Locked(w)
    BY <1>1, <1>2 DEF Locked, HoldsLock
  <1>5. FileFits(<<>>, torn', ghost, now, requests)
    BY <1>2 DEF SessionsOK, FileFits
  <1>6. ListDuty(q, sessions, ghost, now) /\ TokenDuty(q, ghost, requests)
    BY DEF SessionsOK
  <1>7. ListDuty(s, <<>>, ghost, now)
    BY <1>1, <1>3, <1>6 DEF ListDuty, LoadDuty, LoginDuty, LogoutDuty
  <1>8. TokenDuty(s, ghost, requests)
    BY <1>1, <1>3, <1>6, SameToken
  <1>9. \E v \in Workers : Rewriting(worker'[v])
    BY <1>1, <1>3 DEF Rewriting
  <1>10. LoggingIn(s) => LoggingIn(q) /\ s.arg = q.arg
    BY <1>1, <1>3 DEF LoggingIn
  <1>11. /\ FileFits(sessions', torn', ghost', now', requests')
         /\ ListDuty(s, sessions', ghost', now') /\ TokenDuty(s, ghost', requests')
    BY <1>2, <1>5, <1>7, <1>8
  <1> QED
    BY <1>3, <1>4, <1>9, <1>10, <1>11, SessionsAfter

LEMMA StoreSessions ==
    ASSUME NEW w \in Workers, WorkersOK, LocksOK, SessionsOK, GhostOK, Store(w)
    PROVE  SessionsOK'
  <1> DEFINE q == worker[w]  s == worker'[w]  c == q.list  e == c[Len(c)]
             lg == IF q.req = "login" THEN Append(ghost.logins, e) ELSE ghost.logins
  <1>1. Running(w, q) /\ q.req \in SessionRequests /\ LeftOf(q) = 2
    BY AtStepIs, AtStore DEF Store, WorkersOK, SessionRequests
  <1>2. sessions' = c /\ ~torn' /\ UNCHANGED <<now, requests>> /\ OneOn(w, c)
    BY ContinueIs DEF Store, OneOn
  <1>3. /\ s.req = q.req /\ s.arg = q.arg /\ s.list = c /\ LeftOf(s) = 1
        /\ \A v \in Workers \ {w} : worker'[v] = worker[v]
    BY <1>1, <1>2, OneOnIs
  <1>4. /\ ghost'.granted = ghost.granted /\ ghost'.revoked = ghost.revoked
        /\ ghost'.leaving = ghost.leaving /\ ghost'.unsure = ghost.unsure
        /\ ghost'.logins = lg
    <2>1. Last(c) = e
      BY DEF Last
    <2> QED
      BY <2>1, StoreGhost
  <1>5. /\ ghost.logins \in Seq(Entries) /\ now \in Nat /\ requests \in Nat /\ c \in Seq(Entries)
        /\ ListDuty(q, sessions, ghost, now) /\ TokenDuty(q, ghost, requests)
        /\ \A i \in DOMAIN ghost.logins : ghost.logins[i].token <= requests
        /\ \A t \in ghost.revoked : HasToken(t, ghost.logins)
    BY DEF SessionsOK, FileFits, ListDuty
  <1>6. q.req = "login" => c # <<>> /\ e \in Entries /\ e.token = q.arg /\ HasToken(q.arg, c) /\ q.arg \in 1 .. requests
    <2> SUFFICES ASSUME q.req = "login"
                 PROVE  c # <<>> /\ e \in Entries /\ e.token = q.arg /\ HasToken(q.arg, c) /\ q.arg \in 1 .. requests
      OBVIOUS
    <2>1. c # <<>> /\ e.token = q.arg
      BY <1>1, <1>5 DEF ListDuty, LoginDuty
    <2>2. Len(c) \in DOMAIN c /\ e \in Entries
      BY <1>5, <2>1
    <2> QED
      BY <1>1, <1>5, <2>1, <2>2 DEF HasToken, TokenDuty
  <1>7. ListFits(c, lg, ghost, now)
    BY <1>1, <1>5 DEF ListDuty, LoginDuty, LogoutDuty, SessionRequests
  <1> HIDE DEF e
  <1>8. /\ lg \in Seq(Entries)
        /\ \A i \in DOMAIN lg : lg[i].token <= requests
        /\ \A t \in ghost.revoked : HasToken(t, lg)
    <2>1. CASE q.req = "login"
      <3>1. lg = Append(ghost.logins, e) /\ lg \in Seq(Entries)
        BY <1>5, <1>6, <2>1
      <3>2. \A i \in DOMAIN lg : (i \in DOMAIN ghost.logins /\ lg[i] = ghost.logins[i]) \/ lg[i] = e
        BY <1>5, <1>6, <2>1, <3>1
      <3>3. e.token <= requests
        BY <1>5, <1>6, <2>1
      <3>4. \A t \in ghost.revoked : HasToken(t, Append(ghost.logins, e))
        BY <1>5, <1>6, <2>1, TokensGrow
      <3>5. \A i \in DOMAIN lg : lg[i].token <= requests
        <4> HIDE DEF lg
        <4> QED
          BY <1>5, <3>2, <3>3
      <3> QED
        BY <3>1, <3>4, <3>5
    <2>2. CASE q.req # "login"
      BY <1>5, <2>2
    <2> QED
      BY <2>1, <2>2
  <1>9. Locked(w)
    <2>1. ghost'.logins = ghost.logins \/ (LoggingIn(q) /\ \E d \in Entries : d.token = q.arg /\ ghost'.logins = Append(ghost.logins, d))
      <3>1. CASE q.req = "login"
        BY <1>1, <1>4, <1>6, <3>1 DEF LoggingIn
      <3>2. CASE q.req # "login"
        BY <1>4, <3>2
      <3> QED
        BY <3>1, <3>2
    <2> QED
      BY <1>1, <1>2, <1>4, <2>1 DEF Locked, HoldsLock
  <1> HIDE DEF lg
  <1>10. FileFits(c, torn', ghost', now, requests)
    <2>1. ListFits(c, lg, ghost', now)
      BY <1>4, <1>7 DEF ListFits
    <2> QED
      BY <1>2, <1>4, <1>5, <1>8, <2>1 DEF FileFits
  <1>11. ListDuty(s, c, ghost', now)
    <2>1. q.req = "logout" => ~Live(q.arg, c, now)
      BY <1>1, <1>5 DEF ListDuty, LogoutDuty
    <2> QED
      BY <1>3, <1>5, <1>6, <2>1 DEF ListDuty, LoadDuty, LoginDuty, LogoutDuty
  <1>12. TokenDuty(s, ghost', requests)
    BY <1>1, <1>3, <1>4, <1>5 DEF TokenDuty, lg
  <1>13. LoggingIn(s) => LoggingIn(q) /\ s.arg = q.arg
    BY <1>1, <1>3 DEF LoggingIn
  <1>14. /\ FileFits(sessions', torn', ghost', now', requests')
         /\ ListDuty(s, sessions', ghost', now') /\ TokenDuty(s, ghost', requests')
    BY <1>2, <1>10, <1>11, <1>12
  <1> QED
    BY <1>2, <1>3, <1>9, <1>13, <1>14, SessionsAfter

LEMMA UnlockSessions ==
    ASSUME NEW w \in Workers, WorkersOK, LocksOK, SessionsOK, GhostOK, Unlock(w), worker[w].req \in SessionRequests
    PROVE  SessionsOK'
  <1> DEFINE q == worker[w]  s == worker'[w]
  <1>1. Running(w, q) /\ LeftOf(q) = 1
    BY AtStepIs, AtUnlock DEF Unlock, WorkersOK, SessionRequests, KeyRequests
  <1>2. UNCHANGED <<sessions, torn, now, requests>> /\ OneOn(w, q.list) /\ ghost' = Answered(w)
    BY ContinueIs DEF Unlock, OneOn
  <1>3. /\ s.req = q.req /\ s.arg = q.arg /\ s.list = q.list /\ LeftOf(s) = 0
        /\ \A v \in Workers \ {w} : worker'[v] = worker[v]
    BY <1>1, <1>2, OneOnIs
  <1>4. /\ ghost'.logins = ghost.logins /\ ghost'.leaving = ghost.leaving /\ ghost'.unsure = ghost.unsure
        /\ ghost'.granted = (IF q.req = "login" THEN ghost.granted \cup {q.arg} ELSE ghost.granted)
        /\ ghost'.revoked = (IF q.req = "logout" THEN ghost.revoked \cup {q.arg} ELSE ghost.revoked)
    BY <1>2, AnsweredGhost
  <1>5. /\ FileFits(sessions, torn, ghost, now, requests) /\ ListDuty(q, sessions, ghost, now) /\ TokenDuty(q, ghost, requests)
    BY DEF SessionsOK
  <1>6. q.req = "login" => HasToken(q.arg, sessions)
    BY <1>1, <1>5 DEF ListDuty, LoginDuty
  <1>7. q.req = "logout" => ~Live(q.arg, sessions, now) /\ HasToken(q.arg, ghost.logins)
    BY <1>1, <1>5 DEF ListDuty, LogoutDuty, TokenDuty
  <1>8. ~torn => ListFits(sessions, ghost.logins, ghost', now)
    <2> SUFFICES ASSUME ~torn PROVE ListFits(sessions, ghost.logins, ghost', now)
      OBVIOUS
    <2>1. ListFits(sessions, ghost.logins, ghost, now)
      BY <1>5 DEF FileFits
    <2>2. \A t \in ghost'.revoked : ~Live(t, sessions, now)
      BY <1>4, <1>7, <2>1 DEF ListFits
    <2>3. ~ghost'.unsure => \A t \in ghost'.granted \ ghost'.leaving : Good(t, sessions, ghost.logins, now)
      BY <1>4, <1>6, <2>1 DEF ListFits, Good
    <2> QED
      BY <2>1, <2>2, <2>3 DEF ListFits
  <1>9. \A t \in ghost'.revoked : HasToken(t, ghost.logins)
    BY <1>4, <1>5, <1>7 DEF FileFits
  <1>10. FileFits(sessions, torn, ghost', now, requests)
    BY <1>4, <1>5, <1>8, <1>9 DEF FileFits
  <1>11. Locked(w)
    BY <1>1, <1>2, <1>4 DEF Locked, HoldsLock
  <1>12. ListDuty(s, sessions, ghost', now)
    <2>1. s.list \in Seq(Entries)
      BY <1>3, <1>5 DEF ListDuty
    <2> QED
      BY <1>3, <2>1, IdleDuty
  <1>13. TokenDuty(s, ghost', requests) /\ ~LoggingIn(s)
    BY <1>3 DEF TokenDuty, LoggingIn
  <1>14. torn' /\ ~ghost'.unsure => \E v \in Workers : Rewriting(worker'[v])
    <2>1. ~Rewriting(q)
      BY <1>1 DEF Rewriting
    <2> QED
      BY <1>2, <1>3, <1>4, <2>1, StillRewriting
  <1>15. /\ FileFits(sessions', torn', ghost', now', requests')
         /\ ListDuty(s, sessions', ghost', now') /\ TokenDuty(s, ghost', requests')
    BY <1>2, <1>10, <1>12, <1>13
  <1> QED
    BY <1>3, <1>11, <1>13, <1>14, <1>15, SessionsAfter

LEMMA FailSessions ==
    ASSUME NEW w \in Workers, WorkersOK, LocksOK, SessionsOK, GhostOK, Fail(w), AtStep(w, "store")
    PROVE  SessionsOK'
  <1> DEFINE q == worker[w]  s == worker'[w]
  <1>1. q.req \in SessionRequests /\ LeftOf(q) = 2
    BY AtStepIs, AtStore DEF WorkersOK, SessionRequests
  <1>2. UNCHANGED <<sessions, torn, now, requests>> /\ s = Idler /\ \A v \in Workers \ {w} : worker'[v] = worker[v]
    BY StopIs, BecomesIs DEF Fail, GiveUp
  <1>3. /\ ghost'.granted = ghost.granted /\ ghost'.revoked = ghost.revoked
        /\ ghost'.leaving = ghost.leaving /\ ghost'.logins = ghost.logins /\ ghost'.unsure
    <2>1. ghost'.unsure = (ghost.unsure \/ AtStep(w, "store"))
      BY FailGhost
    <2>2. ghost'.unsure
      BY <2>1
    <2> QED
      BY <2>2, FailGhost
  <1>4. Locked(w)
    BY <1>1, <1>2, <1>3 DEF Locked, HoldsLock
  <1>5. FileFits(sessions, torn, ghost, now, requests)
    BY DEF SessionsOK
  <1>6. FileFits(sessions, torn, ghost', now, requests)
    BY <1>3, <1>5 DEF FileFits, ListFits
  <1>7. ListDuty(s, sessions, ghost', now)
    <2>1. s.list \in Seq(Entries)
      BY <1>2, IdlerIs
    <2> QED
      BY <1>2, <2>1, IdleDuty, IdlerIs
  <1>8. TokenDuty(s, ghost', requests) /\ ~LoggingIn(s)
    BY <1>2, IdlerIs DEF TokenDuty, LoggingIn
  <1>9. /\ FileFits(sessions', torn', ghost', now', requests')
        /\ ListDuty(s, sessions', ghost', now') /\ TokenDuty(s, ghost', requests')
    BY <1>2, <1>6, <1>7, <1>8
  <1> QED
    BY <1>2, <1>3, <1>4, <1>8, <1>9, SessionsAfter

-----------------------------------------------------------------------------
(* Every step of the service keeps the sessions *)

SessionCalls == {"load", "add", "drop", "truncate", "store", "unlock"}
LEMMA SessionOps ==
    ASSUME NEW w, NEW q, OnProgram(w, q), q.req \in SessionRequests, LeftOf(q) \in 1 .. 5
    PROVE  /\ \E op \in SessionCalls : AtOp(q, op)
           /\ LeftOf(q) = 2 => AtOp(q, "store")
  <1>1. LeftOf(<<>>) = LeftOf(<<>>) /\ (q.todo = <<>> => LeftOf(q) = 0) /\ (q.todo = Auth => LeftOf(q) = -1)
    BY AuthFacts DEF LeftOf
  <1>2. Running(w, q) /\ q.todo # <<>>
    BY <1>1 DEF OnProgram
  <1>3. \A op : AtOp(q, op) <=> Op(q) = op
    BY <1>2 DEF AtOp
  <1>4. CASE q.req = "login"
    <2>1. LoginOps(q)
      BY <1>2, <1>4, LoginOpsAre
    <2>2. Op(q) \in SessionCalls /\ (LeftOf(q) = 2 => Op(q) = "store")
      BY <2>1 DEF LoginOps, SessionCalls
    <2> QED
      BY <1>3, <2>2
  <1>5. CASE q.req = "logout"
    <2>1. LogoutOps(q)
      BY <1>2, <1>5, LogoutOpsAre
    <2>2. Op(q) \in SessionCalls /\ (LeftOf(q) = 2 => Op(q) = "store")
      BY <2>1 DEF LogoutOps, SessionCalls
    <2> QED
      BY <1>3, <2>2
  <1> QED
    BY <1>4, <1>5 DEF SessionRequests

Plain(w) == authenticate(w) \/ Lock(w) \/ Read(w) \/ Edit(w) \/ FileStep(w) \/ CheckImage(w) \/ Publish(w) \/ Delete(w)
Elsewhere(w) ==
    \/ Plain(w)
    \/ Unlock(w) /\ worker[w].req \notin SessionRequests
    \/ Fail(w) /\ ~AtStep(w, "store")
LEMMA ElsewhereChanges ==
    ASSUME NEW w \in Workers, GhostOK, Elsewhere(w)
    PROVE  UNCHANGED <<sessions, torn, now, requests>> /\ Leaves(ghost, ghost')
  <1>1. CASE Unlock(w) /\ worker[w].req \notin SessionRequests
    <2>1. UNCHANGED <<sessions, torn, now, requests>> /\ ghost' = Answered(w)
      BY <1>1 DEF Unlock
    <2>2. worker[w].req # "login" /\ worker[w].req # "logout"
      BY <1>1 DEF SessionRequests
    <2>3. /\ ghost'.logins = ghost.logins /\ ghost'.leaving = ghost.leaving /\ ghost'.unsure = ghost.unsure
          /\ ghost'.granted = ghost.granted /\ ghost'.revoked = ghost.revoked
      BY <2>1, <2>2, AnsweredGhost
    <2> QED
      BY <2>1, <2>3 DEF Leaves
  <1>2. CASE Fail(w) /\ ~AtStep(w, "store")
    <2>1. UNCHANGED <<sessions, torn, now, requests>>
      BY <1>2 DEF Fail
    <2>2. /\ ghost'.granted = ghost.granted /\ ghost'.revoked = ghost.revoked
          /\ ghost'.leaving = ghost.leaving /\ ghost'.logins = ghost.logins
          /\ ghost'.unsure = (ghost.unsure \/ AtStep(w, "store"))
      BY <1>2, FailGhost
    <2>3. ghost'.unsure <=> ghost.unsure
      BY <1>2, <2>2
    <2> QED
      BY <2>1, <2>2, <2>3 DEF Leaves
  <1>3. CASE Plain(w)
    <2>1. UNCHANGED <<sessions, torn, now, ghost, requests>>
      BY <1>3 DEF Plain, authenticate, Lock, Read, Edit, FileStep, CheckImage, Publish, Delete
    <2> QED
      BY <2>1 DEF Leaves
  <1> QED
    BY <1>1, <1>2, <1>3 DEF Elsewhere

LEMMA ElsewhereMoves ==
    ASSUME NEW w \in Workers, Elsewhere(w)
    PROVE  /\ ~Spare(w) /\ ((\E t, c : Goto(w, t, c)) \/ Stop(w))
           /\ \A op \in SessionCalls : AtStep(w, op) => Stop(w) \/ worker[w].req \notin SessionRequests
           /\ AtStep(w, "store") => worker[w].req \notin SessionRequests
  <1>1. CASE Unlock(w) /\ worker[w].req \notin SessionRequests
    BY <1>1 DEF Unlock, Continue, AtStep
  <1>2. CASE Fail(w) /\ ~AtStep(w, "store")
    BY <1>2 DEF Fail, GiveUp
  <1>3. CASE Plain(w)
    <2>1. PICK op : AtStep(w, op) /\ op \in {"auth", "lock", "read", "edit_keys", "edit_config", "new_config", "new_password",
                     "write", "fsync", "create", "copy", "rename", "sync_dir", "sync", "mine", "serve", "check_image", "publish", "delete"}
      BY <1>3, FileStepOp DEF Plain, authenticate, Lock, Read, Edit, CheckImage, Publish, Delete
    <2>2. (\E t, c : Goto(w, t, c)) \/ Stop(w)
      BY <1>3 DEF Plain, authenticate, Lock, Read, Edit, FileStep, CheckImage, Publish, Delete, Continue, GiveUp
    <2>3. ~Spare(w)
      BY <2>1 DEF AtStep
    <2>4. \A o \in SessionCalls : ~AtStep(w, o)
      BY <2>1, OneOp DEF SessionCalls
    <2> QED
      BY <2>2, <2>3, <2>4 DEF SessionCalls
  <1> QED
    BY <1>1, <1>2, <1>3 DEF Elsewhere

LEMMA ElsewhereStill ==
    ASSUME NEW w \in Workers, WorkersOK, GhostOK, Elsewhere(w), Connect(w) \/ (WorkerStep(w) /\ ~Reboot(w)) \/ Fail(w)
    PROVE  Still(w)
  <1> DEFINE q == worker[w]
  <1>1. PICK s : TurnsTo(w, s) /\ Moves(w, q, s)
    BY StepMoves DEF MovedOn
  <1>2. worker'[w] = s /\ \A v \in Workers \ {w} : worker'[v] = worker[v]
    BY <1>1, BecomesIs
  <1>3. OnProgram(w, q) /\ (LeftOf(q) = 0 => q.todo = <<>>) /\ q.todo # <<>>
    BY ElsewhereMoves, EveryProgram DEF WorkersOK, Spare, OnProgram, Running, LeftOf
  <1>4. ~Rewriting(q)
    BY <1>3, SessionOps, AtStepIs, ElsewhereMoves DEF Rewriting
  <1>5. CASE s = Idler
    BY <1>2, <1>4, <1>5, ElsewhereChanges DEF Still
  <1>6. CASE s # Idler
    <2>1. ~Stop(w)
      BY <1>2, <1>6, StopIs, BecomesIs
    <2>2. PICK t, c : Goto(w, t, c)
      BY <2>1, ElsewhereMoves
    <2>3. s = Rec(q.req, q.arg, t, c, q.list)
      BY <1>2, <2>2, GotoIs, BecomesIs
    <2>4. s.list = q.list /\ s.req = q.req /\ s.arg = q.arg
      BY <2>3, RecFields
    <2>5. ASSUME q.req \in SessionRequests
          PROVE  LeftOf(q) \in {-1, 6} /\ LeftOf(s) \in {5, 6}
      <3>1. LeftOf(q) \notin 1 .. 5
        BY <1>3, <2>1, <2>5, SessionOps, AtStepIs, ElsewhereMoves
      <3>2. Size(q.req) = 6
        BY <2>5, Zenon DEF SessionRequests, Size
      <3>3. CASE LeftOf(q) = -1 /\ q.req \in WebRequests /\ Routed(w, q, s)
        BY <3>2, <3>3, RoutedIs
      <3>4. CASE Running(w, q) /\ Advanced(q, s)
        <4>1. LeftOf(q) = 6
          BY <3>1, <3>2, <3>4 DEF Running
        <4> QED
          BY <3>4, <4>1, AdvancedIs
      <3> QED
        BY <1>1, <1>3, <1>6, <3>1, <3>3, <3>4 DEF Moves
    <2> QED
      BY <1>2, <1>4, <2>4, <2>5, ElsewhereChanges DEF Still
  <1> QED
    BY <1>5, <1>6

LEMMA StepSessions ==
    ASSUME NEW w \in Workers, WorkersOK, LocksOK, SessionsOK, GhostOK, Connect(w) \/ (WorkerStep(w) /\ ~Reboot(w)) \/ Fail(w)
    PROVE  SessionsOK'
  <1>1. CASE Connect(w)
    BY <1>1, ConnectSessions
  <1>2. CASE Elsewhere(w)
    BY <1>2, ElsewhereStill, StillSessions
  <1>3. CASE load_sessions(w)
    BY <1>3, LoadSessions
  <1>4. CASE EditSessions(w)
    BY <1>4, AddSession, DropSession DEF EditSessions
  <1>5. CASE Truncate(w)
    BY <1>5, TruncateSessions
  <1>6. CASE Store(w)
    BY <1>6, StoreSessions
  <1>7. CASE Unlock(w) /\ worker[w].req \in SessionRequests
    BY <1>7, UnlockSessions
  <1>8. CASE Fail(w) /\ AtStep(w, "store")
    BY <1>8, FailSessions
  <1> QED
    BY <1>1, <1>2, <1>3, <1>4, <1>5, <1>6, <1>7, <1>8 DEF WorkerStep, Elsewhere, Plain

LEMMA TickSessions ==
    ASSUME SessionsOK, Tick
    PROVE  SessionsOK'
  <1>1. UNCHANGED <<worker, sessions, torn, ghost, requests>> /\ now' = now + 1
    BY DEF Tick
  <1>2. /\ sessions \in Seq(Entries) /\ ghost.logins \in Seq(Entries) /\ requests \in Nat /\ now \in Nat
        /\ FileFits(sessions, torn, ghost, now, requests)
        /\ \A v \in Workers : ListDuty(worker[v], sessions, ghost, now) /\ TokenDuty(worker[v], ghost, requests)
    BY DEF SessionsOK, FileFits
  <1>3. now + 1 \in Nat /\ now <= now + 1 /\ requests <= requests
    BY <1>2
  <1>4. Leaves(ghost, ghost)
    BY DEF Leaves
  <1>5. ~torn => ListFits(sessions, ghost.logins, ghost, now + 1)
    BY <1>2, <1>3, <1>4, FitsLater DEF FileFits
  <1>6. FileFits(sessions, torn, ghost, now + 1, requests)
    BY <1>2, <1>3, <1>5 DEF FileFits
  <1>7. \A v \in Workers : ListDuty(worker[v], sessions, ghost, now + 1) /\ TokenDuty(worker[v], ghost, requests)
    BY <1>2, <1>3, <1>4, DutyLater
  <1> QED
    BY <1>1, <1>6, <1>7 DEF SessionsOK

LEMMA RestartSessions ==
    ASSUME SessionsOK, GhostOK, NEW left, Restarted(left)
    PROVE  SessionsOK'
  <1>1. sessions' = <<>> /\ ~torn' /\ UNCHANGED <<now, requests>>
    BY DEF Restarted
  <1>2. \A v \in Workers : worker'[v] = Idler
    BY RestartIdles
  <1>3. /\ ghost'.granted = {} /\ ghost'.revoked = ghost.revoked
        /\ ghost'.leaving = ghost.leaving /\ ghost'.logins = ghost.logins
    BY RestartGhost
  <1>4. FileFits(sessions, torn, ghost, now, requests)
    BY DEF SessionsOK
  <1>5. ListFits(<<>>, ghost.logins, ghost', now)
    BY <1>3, WithinEmpty DEF ListFits, Live
  <1>6. FileFits(<<>>, torn', ghost', now, requests)
    BY <1>1, <1>3, <1>4, <1>5 DEF FileFits
  <1>7. /\ ListDuty(Idler, <<>>, ghost', now) /\ TokenDuty(Idler, ghost', requests) /\ ~LoggingIn(Idler)
    <2>1. Idler.list \in Seq(Entries)
      BY IdlerIs
    <2>2. ListDuty(Idler, <<>>, ghost', now)
      BY <2>1, IdleDuty, IdlerIs
    <2> QED
      BY <2>2, IdlerIs DEF TokenDuty, LoggingIn
  <1> QED
    BY <1>1, <1>2, <1>6, <1>7 DEF SessionsOK

LEMMA WithinSelf ==
    ASSUME NEW S, NEW s \in Seq(S)
    PROVE  Within(s, s)
  <1> DEFINE f == [a \in 1 .. Len(s) |-> a]
  <1>1. DOMAIN s = 1 .. Len(s)
    OBVIOUS
  <1>2. f \in [1 .. Len(s) -> 1 .. Len(s)] /\ \A a \in 1 .. Len(s) : f[a] = a
    OBVIOUS
  <1> HIDE DEF f
  <1>3. Places(s, s, Len(s), f)
    BY <1>1, <1>2 DEF Places
  <1> QED
    BY <1>3 DEF Within

LEMMA InitSessions ==
    ASSUME AccessInit
    PROVE  SessionsOK
  <1> DEFINE e == [token |-> 0, expiry |-> Lifetime]
  <1>1. sessions = <<e>> /\ ~torn /\ now = 0 /\ requests = 0
    BY DEF AccessInit
  <1>2. /\ ghost.logins = sessions /\ ghost.granted = {0} /\ ghost.revoked = {} /\ ghost.leaving = {}
    BY DEF AccessInit
  <1>3. e \in Entries /\ e.token = 0
    BY WebAccessAssumption DEF Entries
  <1> HIDE DEF e
  <1>4. sessions \in Seq(Entries) /\ DOMAIN sessions = {1} /\ sessions[1] = e
    BY <1>1, <1>3
  <1>5. HasToken(0, sessions)
    BY <1>3, <1>4 DEF HasToken
  <1>6. ListFits(sessions, ghost.logins, ghost, now)
    BY <1>2, <1>4, <1>5, WithinSelf DEF ListFits, Good
  <1>7. FileFits(sessions, torn, ghost, now, requests)
    <2>1. now \in Nat /\ requests \in Nat
      BY <1>1
    <2>2. \A i \in DOMAIN ghost.logins : ghost.logins[i].token <= requests
      BY <1>1, <1>2, <1>3, <1>4
    <2>3. \A t \in ghost.revoked : HasToken(t, ghost.logins)
      BY <1>2
    <2>4. ghost.logins \in Seq(Entries)
      BY <1>2, <1>4
    <2> QED
      BY <1>1, <1>4, <1>6, <2>1, <2>2, <2>3, <2>4 DEF FileFits
  <1>8. /\ ListDuty(Idler, sessions, ghost, now) /\ TokenDuty(Idler, ghost, requests) /\ ~LoggingIn(Idler)
    <2>1. Idler.list \in Seq(Entries)
      BY IdlerIs
    <2>2. ListDuty(Idler, sessions, ghost, now)
      BY <2>1, IdleDuty, IdlerIs
    <2> QED
      BY <2>2, IdlerIs DEF TokenDuty, LoggingIn
  <1> QED
    BY <1>1, <1>7, <1>8, InitWorkers DEF SessionsOK

LEMMA SessionsAreSafe == AccessSpec => []SessionsOK
  <1>1. AccessInit => SessionsOK
    BY InitSessions
  <1>2. SessionsOK /\ KeysSafe /\ SafeFiles /\ WorkersOK /\ LocksOK /\ [AccessNext]_accessVars => SessionsOK'
    <2> SUFFICES ASSUME SessionsOK, GhostOK, FilesOK, WorkersOK, LocksOK, [AccessNext]_accessVars
                 PROVE  SessionsOK'
      BY DEF KeysSafe, SafeFiles
    <2>1. CASE UNCHANGED accessVars
      BY <2>1 DEF SessionsOK, accessVars
    <2>2. CASE Tick
      BY <2>2, TickSessions
    <2>3. CASE PowerCut \/ \E w \in Workers : Reboot(w)
      BY <2>3, RestartFiles, RestartSessions
    <2>4. CASE \E w \in Workers : Connect(w) \/ (WorkerStep(w) /\ ~Reboot(w)) \/ Fail(w)
      BY <2>4, StepSessions
    <2> QED
      BY <2>1, <2>2, <2>3, <2>4, NextIs
  <1> QED
    BY <1>1, <1>2, WorkersAndLocks, FilesAreSaved, KeysAreSafe, PTL DEF AccessSpec

\* What a worker has answered stays true: a token whose logout was answered is
\* gone, and one whose login was answered is good until it expires, is logged
\* out or is pushed out by MAX_SESSIONS newer logins, unless a write of the
\* session file failed halfway; and the keys and the files stay as above.  The
\* list that the holder of the lock works on stands for the file while it does.
THEOREM AccessStaysHonest == AccessSpec => []AccessHonest
  <1>1. SessionsOK => SessionsHonest
    <2> SUFFICES ASSUME SessionsOK PROVE SessionsHonest
      OBVIOUS
    <2>1. /\ sessions \in Seq(Entries) /\ ghost.logins \in Seq(Entries) /\ (torn => sessions = <<>>)
          /\ (~torn => ListFits(sessions, ghost.logins, ghost, now))
      BY DEF SessionsOK, FileFits
    <2>2. \A t : t \in ValidTokens <=> Live(t, sessions, now)
      BY DEF ValidTokens, Valid, Live
    <2>3. \A t \in ghost.revoked : ~Live(t, sessions, now)
      <3>1. CASE torn
        BY <2>1, <3>1 DEF Live
      <3>2. CASE ~torn
        BY <2>1, <3>2 DEF ListFits
      <3> QED
        BY <3>1, <3>2
    <2>4. ASSUME ~torn, NEW t \in ghost.granted \ ghost.leaving, ~ghost.unsure
          PROVE  t \in ValidTokens \/ Newer(t) >= MaxSessions \/ Expired(t)
      <3>1. Good(t, sessions, ghost.logins, now) /\ Within(sessions, ghost.logins)
        BY <2>1, <2>4 DEF ListFits
      <3>2. HasToken(t, sessions) => Live(t, sessions, now) \/ ExpiredIn(t, ghost.logins, now)
        <4> SUFFICES ASSUME NEW a \in DOMAIN sessions, sessions[a].token = t, ~(sessions[a].expiry > now)
                     PROVE  ExpiredIn(t, ghost.logins, now)
          BY DEF HasToken, Live
        <4>1. \E i \in 1 .. Len(ghost.logins) : sessions[a] = ghost.logins[i]
          BY <3>1 DEF Within, Places
        <4> QED
          BY <2>1, <4>1, ListPoints DEF ExpiredIn
      <3>3. ExpiredIn(t, ghost.logins, now) <=> Expired(t)
        BY DEF ExpiredIn, Expired, Valid
      <3>4. Newer(t) = Cardinality(LaterThan(t, ghost.logins))
        BY DEF Newer, LaterThan
      <3> QED
        BY <2>2, <3>1, <3>2, <3>3, <3>4 DEF Good
    <2> QED
      BY <2>2, <2>3, <2>4 DEF SessionsHonest
  <1>2. SessionsHonest /\ KeysHonest /\ NeverTorn => AccessHonest
    BY DEF AccessHonest
  <1> QED
    BY <1>1, <1>2, SessionsAreSafe, KeysStayHonest, FilesStayWhole, PTL
=============================================================================
