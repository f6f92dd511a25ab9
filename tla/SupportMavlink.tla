---------------------------- MODULE SupportMavlink ----------------------------
(***************************************************************************)
(* The MAVLink link to the SupportProxy server (protocol/support_mavlink.c): *)
(* a relay thread between the event loop and a UDP socket, with one ring   *)
(* buffer each way.  The mutex covers one push or pop, which is one step.  *)
(* Messages are numbered in the order in which they are pushed.            *)
(***************************************************************************)
EXTENDS Integers

CONSTANTS
    QUEUE_SIZE,
    Retries,        \* sleeps of 50 ms between two attempts to connect
    MaxGiven,       \* bound: messages each way
    MaxLinkFaults,  \* bound: failures of the socket
    MaxClock        \* bound: values of the real-time clock

ASSUME SupportMavlinkAssumption ==
    {QUEUE_SIZE, Retries, MaxClock} \subseteq Nat \ {0} /\ {MaxGiven, MaxLinkFaults} \subseteq Nat

VARIABLES
    outgoing, incoming, \* [messages, first, count]: the rings
    relay,      \* [pc, open, retry, tries, msg, left]: the thread
    stopping,   \* proxy->stop
    owner,      \* the event loop: "open", "joining", "closed"
    signing,    \* proxy->signing.timestamp
    clock,      \* CLOCK_REALTIME, in units of the timestamp
    outTaken, inTaken, outGiven, inGiven, \* numbers of messages pushed and popped
    stamps,     \* ghost: [last, fresh]: of the packets sent, the last timestamp,
                \* and whether each was above the one before
    linkFaults

linkVars == <<outgoing, incoming, relay, stopping, owner, signing, clock, outTaken, inTaken, outGiven, inGiven, stamps, linkFaults>>

Empty == [messages |-> [i \in 0 .. QUEUE_SIZE - 1 |-> 0], first |-> 0, count |-> 0]
Idle == [pc |-> "top", open |-> FALSE, retry |-> 0, tries |-> 0, msg |-> 0, left |-> 0]

\* ca_support_mavlink_open.
LinkInit ==
    /\ outgoing = Empty /\ incoming = Empty
    /\ relay = Idle
    /\ stopping = FALSE /\ owner = "open"
    /\ clock \in 1 .. MaxClock /\ signing = clock
    /\ outTaken = 0 /\ inTaken = 0 /\ outGiven = 0 /\ inGiven = 0
    /\ stamps = [last |-> 0, fresh |-> TRUE] /\ linkFaults = 0

-----------------------------------------------------------------------------
\* The rings.

Next1(i) == (i + 1) % QUEUE_SIZE
FrontOf(q) == q.messages[q.first]
pop(q) == [q EXCEPT !.first = Next1(q.first), !.count = @ - 1]
Put(q, m) == [q EXCEPT !.messages[(q.first + q.count) % QUEUE_SIZE] = m, !.count = @ + 1]
\* A full ring loses its oldest message.  In mutant_push it loses the newest.
mutant_push(q, m) == IF q.count = QUEUE_SIZE THEN q ELSE Put(q, m)
push(q, m) == Put(IF q.count = QUEUE_SIZE THEN pop(q) ELSE q, m)

ca_support_mavlink_send ==
    /\ owner = "open" /\ outGiven < MaxGiven
    /\ outgoing' = push(outgoing, outGiven + 1) /\ outGiven' = outGiven + 1
    /\ UNCHANGED <<incoming, relay, stopping, owner, signing, clock, outTaken, inTaken, inGiven, stamps, linkFaults>>
ca_support_mavlink_receive ==
    /\ owner = "open" /\ incoming.count > 0
    /\ inTaken' = FrontOf(incoming) /\ incoming' = pop(incoming)
    /\ UNCHANGED <<outgoing, relay, stopping, owner, signing, clock, outTaken, outGiven, inGiven, stamps, linkFaults>>
ca_support_mavlink_close ==
    /\ owner = "open"
    /\ owner' = "joining" /\ stopping' = TRUE
    /\ UNCHANGED <<outgoing, incoming, relay, signing, clock, outTaken, inTaken, outGiven, inGiven, stamps, linkFaults>>
Join ==
    /\ owner = "joining" /\ relay.pc = "done"
    /\ owner' = "closed"
    /\ UNCHANGED <<outgoing, incoming, relay, stopping, signing, clock, outTaken, inTaken, outGiven, inGiven, stamps, linkFaults>>

-----------------------------------------------------------------------------
\* relay.

relayRest == <<outgoing, incoming, stopping, owner, signing, clock, outTaken, inTaken, outGiven, inGiven, stamps>>
At(pc) == relay.pc = pc
Stopped == stopping
Top ==
    /\ At("top")
    /\ \/ Stopped /\ relay' = [Idle EXCEPT !.pc = "done"]
       \/ ~Stopped /\ ~relay.open /\ relay.retry > 0 /\ relay' = [relay EXCEPT !.retry = @ - 1]
       \/ ~Stopped /\ relay.open /\ relay' = [relay EXCEPT !.pc = "batch", !.tries = 0]
    /\ UNCHANGED <<relayRest, linkFaults>>
Fault == linkFaults < MaxLinkFaults /\ linkFaults' = linkFaults + 1
Lost == relay' = [Idle EXCEPT !.retry = Retries]
connect_proxy ==
    /\ At("top") /\ ~Stopped /\ ~relay.open /\ relay.retry = 0
    /\ \/ relay' = [relay EXCEPT !.open = TRUE, !.pc = "batch", !.tries = 0] /\ UNCHANGED linkFaults
       \/ Fault /\ Lost
    /\ UNCHANGED relayRest
\* At most QUEUE_SIZE messages, then the socket is read.
Batch ==
    /\ At("batch")
    /\ IF relay.tries < QUEUE_SIZE /\ outgoing.count > 0
       THEN /\ relay' = [relay EXCEPT !.pc = "send", !.msg = FrontOf(outgoing)]
            /\ outTaken' = FrontOf(outgoing) /\ outgoing' = pop(outgoing)
       ELSE relay' = [relay EXCEPT !.pc = "poll"] /\ UNCHANGED <<outTaken, outgoing>>
    /\ UNCHANGED <<incoming, stopping, owner, signing, clock, inTaken, outGiven, inGiven, stamps, linkFaults>>
\* The real-time clock may be set back; the timestamp is not.
\* mavlink_sign_packet counts it up.  A full socket buffer loses the packet.
\* In mutant_Stamp it follows the clock.
mutant_Stamp == clock
Stamp == IF clock > signing THEN clock ELSE signing
Send ==
    /\ At("send")
    /\ signing' = Stamp + 1
    /\ stamps' = [last |-> Stamp, fresh |-> stamps.fresh /\ Stamp > stamps.last]
    /\ \/ relay' = [relay EXCEPT !.pc = "batch", !.tries = @ + 1, !.msg = 0] /\ UNCHANGED linkFaults
       \/ Fault /\ Lost
    /\ UNCHANGED <<outgoing, incoming, stopping, owner, clock, outTaken, inTaken, outGiven, inGiven>>
\* A datagram holds one message or more.
Poll ==
    /\ At("poll")
    /\ \/ relay' = [relay EXCEPT !.pc = "top"] /\ UNCHANGED linkFaults
       \/ \E n \in 1 .. 2 : relay' = [relay EXCEPT !.pc = "parse", !.left = n] /\ UNCHANGED linkFaults
       \/ Fault /\ Lost
    /\ UNCHANGED relayRest
Parse ==
    /\ At("parse")
    /\ IF relay.left = 0 \/ inGiven = MaxGiven THEN relay' = [relay EXCEPT !.pc = "top", !.left = 0] /\ UNCHANGED <<incoming, inGiven>>
       ELSE /\ incoming' = push(incoming, inGiven + 1) /\ inGiven' = inGiven + 1
            /\ relay' = [relay EXCEPT !.left = @ - 1]
    /\ UNCHANGED <<outgoing, stopping, owner, signing, clock, outTaken, inTaken, outGiven, stamps, linkFaults>>
\* handle_system_time, or the system.
SetClock ==
    /\ clock' \in 1 .. MaxClock
    /\ UNCHANGED <<outgoing, incoming, relay, stopping, owner, signing, outTaken, inTaken, outGiven, inGiven, stamps, linkFaults>>

RelayStep == Top \/ connect_proxy \/ Batch \/ Send \/ Poll \/ Parse
LinkNext ==
    \/ RelayStep \/ ca_support_mavlink_send \/ ca_support_mavlink_receive \/ ca_support_mavlink_close \/ Join \/ SetClock
LinkSpec == LinkInit /\ [][LinkNext]_linkVars

-----------------------------------------------------------------------------
\* Each ring, with its wrapping indices and its full state, does what
\* NewestQueue promises: push and pop of support_mavlink.c.
Out == INSTANCE NewestQueue WITH Size <- QUEUE_SIZE, given <- outGiven, taken <- outTaken
In == INSTANCE NewestQueue WITH Size <- QUEUE_SIZE, given <- inGiven, taken <- inTaken
KeepsNewest == Out!Spec /\ In!Spec

\* The proxy accepts a signed packet only when its timestamp is above every
\* earlier one; each one sent is, although the clock may be set back.
SignedInOrder == stamps.fresh

=============================================================================
