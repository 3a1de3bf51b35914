---------------------------- MODULE Rfc2217Codec ----------------------------
(***************************************************************************)
(* The Telnet / RFC 2217 codec of src/pi/serial_proxy.py as operators:     *)
(* RFC2217Proxy.handle_rfc2217 (Scan), _handle_com_port_option             *)
(* (ComPortOption), _send_telnet and _send_com_port_option (the reply      *)
(* frames).  Bytes are integers 0..255; the serial port's line settings    *)
(* are a record.  The operators return what the code does to the serial   *)
(* port and the client, in the order it does it.                           *)
(***************************************************************************)
EXTENDS Naturals, Sequences, TLC

IAC == 255
DONT == 254
DO == 253
WONT == 252
WILL == 251
SB == 250
SE == 240
COM_PORT_OPTION == 44

SET_BAUDRATE == 1
SET_DATASIZE == 2
SET_PARITY == 3
SET_STOPSIZE == 4
SET_CONTROL == 5
SET_LINESTATE_MASK == 10
SET_MODEMSTATE_MASK == 11

\* Mutant of ToBytes4: the low bytes are not reduced modulo 256.
ToBytes4NoMod(n) == << n \div 16777216, n \div 65536, n \div 256, n >>

\* Big-endian conversions of int.from_bytes / int.to_bytes(4, 'big').
FromBytes(b) == ((b[1] * 256 + b[2]) * 256 + b[3]) * 256 + b[4]
ToBytes4(n) == << (n \div 16777216) % 256, (n \div 65536) % 256,
                  (n \div 256) % 256, n % 256 >>

(***************************************************************************)
(* The serial port's settings as pyserial holds them.  stopbits is one of  *)
(* the strings "1", "1.5", "2"; the open port starts at the proxy's baud   *)
(* rate with 8N1 and DTR and RTS asserted (pyserial's defaults).           *)
(***************************************************************************)
InitLine(baud) ==
    [baudrate |-> baud, bytesize |-> 8, parity |-> "N", stopbits |-> "1",
     dtr |-> TRUE, rts |-> TRUE]

ParityMap == (1 :> "N") @@ (2 :> "O") @@ (3 :> "E") @@ (4 :> "M") @@ (5 :> "S")
ParityRMap == [v \in {"N", "O", "E", "M", "S"} |-> CHOOSE k \in 1..5 : ParityMap[k] = v]
StopbitsMap == (1 :> "1") @@ (2 :> "2") @@ (3 :> "1.5")

\* dict.get(key, default)
Get(map, key, default) == IF key \in DOMAIN map THEN map[key] ELSE default

\* stopbits_rmap.get(int(self.serial.stopbits), 1): int() truncates 1.5 to 1.
StopbitsReply(sb) == IF sb = "2" THEN 2 ELSE 1

\* _send_com_port_option(subcmd, data): the frame, unless bytes() raises
\* ValueError for a value above 255, which the bare except swallows.
ComPortReply(resp, data) ==
    IF resp <= 255
        THEN << <<IAC, SB, COM_PORT_OPTION, resp>> \o data \o <<IAC, SE>> >>
        ELSE << >>

\* Mutant of ControlLine: the DTR codes read the wrong way round.
ControlLineSwapped(line, c) ==
    CASE c = 8 -> [line EXCEPT !.dtr = FALSE]
      [] c = 9 -> [line EXCEPT !.dtr = TRUE]
      [] c = 11 -> [line EXCEPT !.rts = TRUE]
      [] c = 12 -> [line EXCEPT !.rts = FALSE]
      [] OTHER -> line

\* The SET_CONTROL branch: 8/9 switch DTR, 11/12 switch RTS, others no-op.
ControlLine(line, c) ==
    CASE c = 8 -> [line EXCEPT !.dtr = TRUE]
      [] c = 9 -> [line EXCEPT !.dtr = FALSE]
      [] c = 11 -> [line EXCEPT !.rts = TRUE]
      [] c = 12 -> [line EXCEPT !.rts = FALSE]
      [] OTHER -> line

(***************************************************************************)
(* _handle_com_port_option(subcmd, data): the new line settings and the    *)
(* reply frames (zero or one) it sends.                                    *)
(***************************************************************************)
ComPortOption(line, subcmd, data) ==
    LET resp == subcmd + 100
        echo == IF data = << >> THEN <<0>> ELSE data
        Result(l, payload) == [line |-> l, replies |-> ComPortReply(resp, payload)]
    IN
    CASE subcmd = SET_BAUDRATE /\ Len(data) >= 4 ->
            LET baud == FromBytes(SubSeq(data, 1, 4))
                l == IF baud > 0 THEN [line EXCEPT !.baudrate = baud] ELSE line
            IN Result(l, ToBytes4(l.baudrate))
      [] subcmd = SET_DATASIZE /\ Len(data) >= 1 ->
            LET l == IF data[1] \in 5..8 THEN [line EXCEPT !.bytesize = data[1]]
                                        ELSE line
            IN Result(l, <<l.bytesize>>)
      [] subcmd = SET_PARITY /\ Len(data) >= 1 ->
            LET l == [line EXCEPT !.parity = Get(ParityMap, data[1], "N")]
            IN Result(l, <<ParityRMap[l.parity]>>)
      [] subcmd = SET_STOPSIZE /\ Len(data) >= 1 ->
            LET l == [line EXCEPT !.stopbits = Get(StopbitsMap, data[1], "1")]
            IN Result(l, <<StopbitsReply(l.stopbits)>>)
      [] subcmd = SET_CONTROL /\ Len(data) >= 1 ->
            Result(ControlLine(line, data[1]), <<data[1]>>)
      [] OTHER -> Result(line, echo)

(***************************************************************************)
(* handle_rfc2217(data): one pass over the bytes of one recv().  Returns   *)
(* the application bytes (written to the serial port after the pass) and  *)
(* the control events met on the way, each handled as it is met:          *)
(*   [kind |-> "opt", cmd, opt]            IAC DO/DONT/WILL/WONT opt       *)
(*   [kind |-> "sub", subcmd, data]        IAC SB 44 subcmd data IAC SE    *)
(* Index k is the Python index i plus one.                                 *)
(***************************************************************************)

\* data.find(bytes([IAC, SE]), from): the index of the IAC, or 0.
RECURSIVE FindIacSe(_, _)
FindIacSe(data, from) ==
    IF from + 1 > Len(data) THEN 0
    ELSE IF data[from] = IAC /\ data[from + 1] = SE THEN from
    ELSE FindIacSe(data, from + 1)

RECURSIVE Scan(_, _)

\* Mutant of Scan: an escaped IAC advances by one byte instead of two.
ScanEscapeOffByOne(data, k) ==
    LET Emit(byte, rest) == [rest EXCEPT !.out = <<byte>> \o @]
        Event(e, rest) == [rest EXCEPT !.events = <<e>> \o @]
    IN
    IF k > Len(data) THEN [out |-> << >>, events |-> << >>]
    ELSE IF data[k] = IAC /\ k + 1 <= Len(data) THEN
        LET cmd == data[k + 1] IN
        IF cmd = IAC THEN Emit(IAC, Scan(data, k + 1))
        ELSE IF cmd = SB /\ k + 2 <= Len(data) THEN
            LET se == FindIacSe(data, k + 3) IN
            IF data[k + 2] = COM_PORT_OPTION /\ se # 0
                THEN Event([kind |-> "sub",
                            subcmd |-> IF k + 3 < se THEN data[k + 3] ELSE 0,
                            data |-> SubSeq(data, k + 4, se - 1)],
                           Scan(data, se + 2))
                ELSE Scan(data, k + 2)
        ELSE IF cmd \in {DO, DONT, WILL, WONT} /\ k + 2 <= Len(data) THEN
            Event([kind |-> "opt", cmd |-> cmd, opt |-> data[k + 2]],
                  Scan(data, k + 3))
        ELSE Scan(data, k + 2)
    ELSE Emit(data[k], Scan(data, k + 1))

Scan(data, k) ==
    LET Emit(byte, rest) == [rest EXCEPT !.out = <<byte>> \o @]
        Event(e, rest) == [rest EXCEPT !.events = <<e>> \o @]
    IN
    IF k > Len(data) THEN [out |-> << >>, events |-> << >>]
    ELSE IF data[k] = IAC /\ k + 1 <= Len(data) THEN
        LET cmd == data[k + 1] IN
        IF cmd = IAC THEN Emit(IAC, Scan(data, k + 2))
        ELSE IF cmd = SB /\ k + 2 <= Len(data) THEN
            LET se == FindIacSe(data, k + 3) IN
            IF data[k + 2] = COM_PORT_OPTION /\ se # 0
                THEN Event([kind |-> "sub",
                            subcmd |-> IF k + 3 < se THEN data[k + 3] ELSE 0,
                            data |-> SubSeq(data, k + 4, se - 1)],
                           Scan(data, se + 2))
                ELSE Scan(data, k + 2)
        ELSE IF cmd \in {DO, DONT, WILL, WONT} /\ k + 2 <= Len(data) THEN
            Event([kind |-> "opt", cmd |-> cmd, opt |-> data[k + 2]],
                  Scan(data, k + 3))
        ELSE Scan(data, k + 2)
    ELSE Emit(data[k], Scan(data, k + 1))

HandleRfc2217(data) == Scan(data, 1)

\* The reply to an option negotiation (_send_telnet).
OptionReplies(e) ==
    CASE e.cmd = DO /\ e.opt = COM_PORT_OPTION -> << <<IAC, WILL, COM_PORT_OPTION>> >>
      [] e.cmd = WILL /\ e.opt = COM_PORT_OPTION -> << <<IAC, DO, COM_PORT_OPTION>> >>
      [] OTHER -> << >>

=============================================================================
