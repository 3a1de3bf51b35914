----------------------------- MODULE Rfc2217Spec -----------------------------
(***************************************************************************)
(* What the codec promises, from spec.md section 4.1 (not from the code):  *)
(* the meaning of a complete client byte stream as the ordered effects it  *)
(* has on the serial port (application bytes and line-setting changes)     *)
(* and the replies it earns.  Subnegotiation payloads are unescaped, a     *)
(* subnegotiation of another option is ignored up to its IAC SE, reply     *)
(* payloads are escaped, and SET_STOPSIZE answers with the inverse map of  *)
(* the current setting.  Used as the reference the code is checked        *)
(* against.                                                                *)
(***************************************************************************)
EXTENDS Naturals, Sequences, Rfc2217Codec

\* Doubling of 0xFF inside a payload.
RECURSIVE Escape(_)
Escape(s) ==
    IF s = << >> THEN << >>
    ELSE (IF Head(s) = IAC THEN <<IAC, IAC>> ELSE <<Head(s)>>) \o Escape(Tail(s))

Drop(s, n) == SubSeq(s, n + 1, Len(s))

\* The unescaped body of a subnegotiation that starts at s[k] (after SB),
\* and the index just past its IAC SE.
RECURSIVE SbBody(_, _)
SbBody(s, k) ==
    IF k + 1 > Len(s) THEN [body |-> SubSeq(s, k, Len(s)), next |-> Len(s) + 1]
    ELSE IF s[k] = IAC /\ s[k + 1] = SE THEN [body |-> << >>, next |-> k + 2]
    ELSE IF s[k] = IAC /\ s[k + 1] = IAC
        THEN LET r == SbBody(s, k + 2) IN [r EXCEPT !.body = <<IAC>> \o @]
    ELSE LET r == SbBody(s, k + 1) IN [r EXCEPT !.body = <<s[k]>> \o @]

\* The decoded events of a complete stream, in stream order.
RECURSIVE RefEvents(_)
RefEvents(s) ==
    IF s = << >> THEN << >>
    ELSE IF s[1] # IAC \/ Len(s) = 1
        THEN <<[kind |-> "data", byte |-> s[1]]>> \o RefEvents(Tail(s))
    ELSE IF s[2] = IAC
        THEN <<[kind |-> "data", byte |-> IAC]>> \o RefEvents(Drop(s, 2))
    ELSE IF s[2] \in {DO, DONT, WILL, WONT} /\ Len(s) >= 3
        THEN <<[kind |-> "opt", cmd |-> s[2], opt |-> s[3]]>> \o RefEvents(Drop(s, 3))
    ELSE IF s[2] = SB
        THEN LET r == SbBody(s, 3)
                 b == r.body
             IN IF Len(b) >= 1 /\ b[1] = COM_PORT_OPTION
                 THEN <<[kind |-> "sub",
                         subcmd |-> IF Len(b) >= 2 THEN b[2] ELSE 0,
                         data |-> Drop(b, 2)]>> \o RefEvents(Drop(s, r.next - 1))
                 ELSE RefEvents(Drop(s, r.next - 1))
    ELSE RefEvents(Drop(s, 2))

\* The table of section 4.1: the new line settings and the reply payload.
\* A payload too short for its subcommand is skipped without a reply.
RefOption(line, subcmd, data) ==
    LET Ack(l, payload) == [line |-> l, ack |-> <<payload>>]
        parity == [p \in 1..5 |-> <<"N", "O", "E", "M", "S">>[p]]
        stop == <<"1", "2", "1.5">>
        Inv(f, v) == CHOOSE k \in DOMAIN f : f[k] = v
    IN
    CASE subcmd = SET_BAUDRATE ->
            IF Len(data) < 4 THEN [line |-> line, ack |-> << >>]
            ELSE LET v == FromBytes(data)
                     l == IF v > 0 THEN [line EXCEPT !.baudrate = v] ELSE line
                 IN Ack(l, ToBytes4(l.baudrate))
      [] subcmd \in {SET_DATASIZE, SET_PARITY, SET_STOPSIZE, SET_CONTROL}
         /\ data = << >> -> [line |-> line, ack |-> << >>]
      [] subcmd = SET_DATASIZE ->
            LET l == IF data[1] \in 5..8 THEN [line EXCEPT !.bytesize = data[1]]
                                        ELSE line
            IN Ack(l, <<l.bytesize>>)
      [] subcmd = SET_PARITY ->
            LET l == IF data[1] \in 1..5 THEN [line EXCEPT !.parity = parity[data[1]]]
                                        ELSE line
            IN Ack(l, <<Inv(parity, l.parity)>>)
      [] subcmd = SET_STOPSIZE ->
            LET l == IF data[1] \in 1..3 THEN [line EXCEPT !.stopbits = stop[data[1]]]
                                        ELSE line
            IN Ack(l, <<Inv(stop, l.stopbits)>>)
      [] subcmd = SET_CONTROL ->
            LET c == data[1]
                l == IF c \in {8, 9} THEN [line EXCEPT !.dtr = (c = 8)]
                     ELSE IF c \in {11, 12} THEN [line EXCEPT !.rts = (c = 11)]
                     ELSE line
            IN Ack(l, <<c>>)
      [] OTHER -> Ack(line, IF data = << >> THEN <<0>> ELSE data)

RefComPortOption(line, subcmd, data) ==
    LET r == RefOption(line, subcmd, data) IN
    [line |-> r.line,
     replies |-> [i \in DOMAIN r.ack |->
                    <<IAC, SB, COM_PORT_OPTION, subcmd + 100>> \o Escape(r.ack[i])
                    \o <<IAC, SE>>]]

\* The option policy: DO COM-PORT earns WILL, WILL COM-PORT earns DO.
RefNegotiation(e) ==
    IF e.opt = COM_PORT_OPTION /\ e.cmd \in {DO, WILL}
        THEN << <<IAC, IF e.cmd = DO THEN WILL ELSE DO, COM_PORT_OPTION>> >>
        ELSE << >>

\* The effects of a complete stream on the serial port and the client.
RECURSIVE RefApply(_, _)
RefApply(st, evs) ==
    IF evs = << >> THEN st
    ELSE LET e == Head(evs) IN
         IF e.kind = "data"
            THEN RefApply([st EXCEPT !.log = Append(@, [kind |-> "data", byte |-> e.byte])],
                          Tail(evs))
         ELSE IF e.kind = "opt"
            THEN RefApply([st EXCEPT !.replies = @ \o RefNegotiation(e)], Tail(evs))
         ELSE LET r == RefComPortOption(st.line, e.subcmd, e.data) IN
              RefApply([st EXCEPT !.line = r.line,
                                  !.log = Append(@, [kind |-> "line", line |-> r.line]),
                                  !.replies = @ \o r.replies], Tail(evs))

RefRun(line0, s) ==
    RefApply([line |-> line0, log |-> << >>, replies |-> << >>], RefEvents(s))

=============================================================================
