----------------------------- MODULE MavlinkUart ------------------------------
(***************************************************************************)
(* The output buffer of the MAVLink UART (queue_uart, flush_uart and       *)
(* disable_uart of protocol/mavlink_server.c): whole messages are appended *)
(* behind the bytes that wait, the driver takes as many bytes as it likes, *)
(* and the bytes move to the front when the end of the buffer is reached.  *)
(***************************************************************************)
EXTENDS Integers, Sequences

CONSTANTS
    UartOutput,     \* CA_MAVLINK_UART_OUTPUT, in bytes
    MessageSizes,   \* lengths of messages
    MaxQueued       \* bound: messages

ASSUME MavlinkUartAssumption == UartOutput \in Nat \ {0} /\ MessageSizes \subseteq Nat \ {0} /\ MaxQueued \in Nat

VARIABLES
    output,     \* [open, data, offset, length, armed]; armed: CA_POLL_OUT is asked for
    written,    \* ghost: bytes the driver took
    accepted,   \* ghost: bytes of the messages accepted
    queued

uartVars == <<output, written, accepted, queued>>

Byte(m, i) == <<m, i>>
UartInit ==
    /\ output = [open |-> TRUE, data |-> [i \in 0 .. UartOutput - 1 |-> Byte(0, 0)], offset |-> 0, length |-> 0, armed |-> FALSE]
    /\ written = <<>> /\ accepted = <<>> /\ queued = 0

Waiting(o) == [i \in 1 .. o.length |-> o.data[o.offset + i - 1]]
Message(n) == [i \in 1 .. n |-> Byte(queued + 1, i)]

\* In mutant_Compacted the offset is reset and the bytes are not moved.
mutant_Compacted(o, n) == IF o.offset + o.length + n > UartOutput THEN [o EXCEPT !.offset = 0] ELSE o
Compacted(o, n) ==
    IF o.offset # 0 /\ o.offset + o.length + n > UartOutput
    THEN [o EXCEPT !.offset = 0,
                   !.data = [i \in DOMAIN o.data |-> IF i < o.length THEN o.data[o.offset + i] ELSE o.data[i]]]
    ELSE o
Appended(o, n) ==
    [o EXCEPT !.length = @ + n,
              !.data = [i \in DOMAIN o.data |->
                  LET k == i - o.offset - o.length + 1 IN IF k \in 1 .. n THEN Message(n)[k] ELSE o.data[i]]]

\* flush_uart and update_uart_events, after which k bytes were taken and the
\* driver's buffer was full, or all was.
Flushed(o, k) ==
    [o EXCEPT !.length = @ - k, !.offset = IF o.length = k THEN 0 ELSE @ + k, !.armed = o.length # k]
Flush(o) == \E k \in 0 .. o.length : output' = Flushed(o, k) /\ written' = written \o SubSeq(Waiting(o), 1, k)
\* An error of the driver, in the middle of a message too, closes the UART
\* for good and drops what waits.
Disabled(o) == output' = [o EXCEPT !.open = FALSE, !.offset = 0, !.length = 0] /\ UNCHANGED written

queue_uart(n) ==
    /\ output.open /\ queued < MaxQueued /\ queued' = queued + 1
    /\ IF n > UartOutput - output.length THEN UNCHANGED <<output, written, accepted>>
       ELSE LET o == Appended(Compacted(output, n), n) IN
            /\ accepted' = accepted \o Message(n)
            /\ Flush(o) \/ Disabled(o)
flush_uart == output.open /\ output.armed /\ Flush(output) /\ UNCHANGED <<accepted, queued>>
UartFails == output.open /\ Disabled(output) /\ UNCHANGED <<accepted, queued>>

UartNext == (\E n \in MessageSizes : queue_uart(n)) \/ flush_uart \/ UartFails
UartSpec == UartInit /\ [][UartNext]_uartVars

-----------------------------------------------------------------------------
\* While the UART works, what was written and what waits are the accepted
\* messages, whole and in order, inside the buffer, and when something waits
\* the driver's readiness is waited for (queue_uart, flush_uart).
StreamWhole ==
    output.open =>
        /\ output.offset + output.length <= UartOutput
        /\ written \o Waiting(output) = accepted
        /\ output.length > 0 => output.armed
=============================================================================
