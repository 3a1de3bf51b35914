---------------------------- MODULE ClientDataPath ----------------------------
(***************************************************************************)
(* The client-to-device path of RFC2217Proxy (src/pi/serial_proxy.py):    *)
(* a connected client (esptool, pyserial's rfc2217:// transport) writes    *)
(* frames into the TCP connection; each time select() reports the client  *)
(* socket readable the proxy takes what recv(4096) returns, runs           *)
(* handle_rfc2217 over it (line changes and replies happen as control      *)
(* events are met) and then writes the application bytes to the serial    *)
(* port.  TCP may hand the proxy the bytes of several frames in one recv, *)
(* and, when Segmented, may cut a frame anywhere.                          *)
(*                                                                         *)
(* serialLog is what the serial port sees, in order: application bytes    *)
(* and the line settings after each COM-PORT subnegotiation.  consumed is  *)
(* every byte the proxy has received; it is history, read only by the     *)
(* properties.                                                             *)
(***************************************************************************)
EXTENDS Naturals, Sequences, Rfc2217Codec

CONSTANTS
    Frames,     \* the messages a client writes, each as one send()
    MaxFrames,  \* bound on the number of messages a client writes
    Baud,       \* the proxy's -b argument
    Segmented   \* may a recv() end inside a message?

VARIABLES
    sentCount,  \* messages the client has written
    unread,     \* bytes in the connection, not yet received
    consumed,   \* bytes received so far
    line,       \* the serial port's settings
    serialLog,  \* what the serial port has seen
    toClient    \* bytes the proxy has sent to the client

vars == <<sentCount, unread, consumed, line, serialLog, toClient>>

Bytes == 0..255

LineSettings ==
    [baudrate : Nat, bytesize : 5..8, parity : {"N", "O", "E", "M", "S"},
     stopbits : {"1", "1.5", "2"}, dtr : BOOLEAN, rts : BOOLEAN]

TypeOK ==
    /\ sentCount \in 0..MaxFrames
    /\ unread \in Seq(Bytes)
    /\ consumed \in Seq(Bytes)
    /\ line \in LineSettings
    /\ serialLog \in Seq([kind : {"data"}, byte : Bytes] \cup
                         [kind : {"line"}, line : LineSettings])
    /\ toClient \in Seq(Bytes)

\* A sequence of sequences joined end to end.
RECURSIVE Flatten(_)
Flatten(ss) == IF ss = << >> THEN << >> ELSE Head(ss) \o Flatten(Tail(ss))

(***************************************************************************)
(* The control events of one recv, handled in order (_send_telnet and      *)
(* _handle_com_port_option).  Returns the line, the line-change entries of *)
(* serialLog and the reply bytes.                                          *)
(***************************************************************************)
RECURSIVE HandleEvents(_, _)
HandleEvents(st, evs) ==
    IF evs = << >> THEN st
    ELSE LET e == Head(evs) IN
         IF e.kind = "opt"
            THEN HandleEvents([st EXCEPT !.replies = @ \o Flatten(OptionReplies(e))],
                              Tail(evs))
            ELSE LET r == ComPortOption(st.line, e.subcmd, e.data) IN
                 HandleEvents([st EXCEPT !.line = r.line,
                                         !.log = Append(@, [kind |-> "line", line |-> r.line]),
                                         !.replies = @ \o Flatten(r.replies)],
                              Tail(evs))

Init ==
    /\ sentCount = 0
    /\ unread = << >>
    /\ consumed = << >>
    /\ line = InitLine(Baud)
    /\ serialLog = << >>
    /\ toClient = << >>

\* The client writes one message.
ClientSend(f) ==
    /\ sentCount < MaxFrames
    /\ sentCount' = sentCount + 1
    /\ unread' = unread \o f
    /\ UNCHANGED <<consumed, line, serialLog, toClient>>

(***************************************************************************)
(* The client branch of the main loop: recv() returns n bytes, which are   *)
(* parsed; control events act as they are met, and the application bytes  *)
(* that remain are written to the serial port (if any) after the pass.    *)
(***************************************************************************)
ClientReadable(n) ==
    LET data == SubSeq(unread, 1, n)
        r == HandleRfc2217(data)
        st == HandleEvents([line |-> line, log |-> << >>, replies |-> << >>], r.events)
    IN
    /\ unread # << >>
    /\ line' = st.line
    /\ serialLog' = serialLog \o st.log
                    \o [i \in DOMAIN r.out |-> [kind |-> "data", byte |-> r.out[i]]]
    /\ toClient' = toClient \o st.replies
    /\ unread' = SubSeq(unread, n + 1, Len(unread))
    /\ consumed' = consumed \o data
    /\ UNCHANGED sentCount

\* What one recv may return: everything queued, or, when Segmented, any
\* non-empty prefix of it.
ReadSizes == IF Segmented THEN 1..Len(unread) ELSE {Len(unread)}

Next ==
    \/ \E f \in Frames : ClientSend(f)
    \/ \E n \in ReadSizes : ClientReadable(n)

Spec == Init /\ [][Next]_vars

-----------------------------------------------------------------------------
(***************************************************************************)
(* Properties, against the meaning spec.md section 4.1 gives the stream    *)
(* (module Rfc2217Spec).  They are stated at the moments when the proxy    *)
(* has received everything the client wrote.                               *)
(***************************************************************************)
Ref == INSTANCE Rfc2217Spec

Expected == Ref!RefRun(InitLine(Baud), consumed)
DataOf(log) == SelectSeq(log, LAMBDA e : e.kind = "data")

\* Application data integrity: the bytes written to the serial port are
\* exactly the application bytes of the client's stream (escaped 0xFF
\* unescaped, no byte of a negotiation or COM-PORT subnegotiation among
\* them), over any interleaving of client writes and proxy reads.
SerialDataMatches ==
    unread = << >> => DataOf(serialLog) = DataOf(Expected.log)

\* Line control: after any sequence of reads, the serial port's baud rate,
\* framing, DTR and RTS are what the client's subnegotiations asked for.
SerialLineMatches ==
    unread = << >> => line = Expected.line

\* Stream order across data and control (spec 4.3: "bytes from a single
\* direction are delivered in order"): the serial port sees application
\* bytes and line changes in the order the client sent them.
SerialEffectOrder ==
    unread = << >> => serialLog = Expected.log

\* Replies: the client receives exactly the negotiation replies and
\* COM-PORT acknowledgements section 4.1 prescribes, in order.
RepliesMatch ==
    unread = << >> => toClient = Flatten(Expected.replies)

=============================================================================
