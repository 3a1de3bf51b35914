-------------------------- MODULE MCClientDataPath --------------------------
(***************************************************************************)
(* Instantiates ClientDataPath with the messages an esptool / pyserial     *)
(* rfc2217:// client writes: plain and escaped application bytes, the      *)
(* option negotiation, and one COM-PORT subnegotiation of each kind the    *)
(* proxy handles (with an escaped payload byte and a rejected baud rate).  *)
(***************************************************************************)
EXTENDS ClientDataPath

Data1       == <<65>>
DataIac     == <<IAC, IAC>>
DoCom       == <<IAC, DO, COM_PORT_OPTION>>
WillCom     == <<IAC, WILL, COM_PORT_OPTION>>
DoEcho      == <<IAC, DO, 1>>
Sub(cmd, payload) == <<IAC, SB, COM_PORT_OPTION, cmd>> \o payload \o <<IAC, SE>>
Baud921600  == Sub(SET_BAUDRATE, <<0, 14, 16, 0>>)
Baud0       == Sub(SET_BAUDRATE, <<0, 0, 0, 0>>)
DtrOff      == Sub(SET_CONTROL, <<9>>)
DtrOn       == Sub(SET_CONTROL, <<8>>)
RtsOff      == Sub(SET_CONTROL, <<12>>)
Stop15      == Sub(SET_STOPSIZE, <<3>>)
ParityEven  == Sub(SET_PARITY, <<3>>)
Size7       == Sub(SET_DATASIZE, <<7>>)
MaskEscaped == Sub(SET_MODEMSTATE_MASK, <<IAC, IAC>>)

\* Everything a client may send: data, negotiation, line control.
MCFrames == {Data1, DataIac, DoCom, WillCom, DoEcho, Baud921600, Baud0,
             DtrOff, DtrOn, RtsOff, ParityEven, Size7, MaskEscaped}

\* The reset sequence esptool drives (DTR/RTS toggles) around data.
MCResetFrames == {Data1, DataIac, DtrOff, RtsOff}

\* A client asking for 1.5 stop bits.
MCStopFrames == {DoCom, Stop15}
=============================================================================
