---------------------------- MODULE ProxySession ----------------------------
(***************************************************************************)
(* The session handling of RFC2217Proxy.run (src/pi/serial_proxy.py): the  *)
(* select() loop over the listening socket, the current client socket and  *)
(* the serial port; the accept branch that closes the previous client and  *)
(* accepts the next; the client branch's end of stream and the serial      *)
(* write that may raise; the serial branch that forwards what it reads; and *)
(* stop() on SIGTERM.  What the client's bytes do to the serial port is    *)
(* ClientDataPath's subject; here a client is a connection with a state.   *)
(*                                                                         *)
(* conn[c] is the state of client connection c as the proxy sees it:       *)
(* "none" (not yet made), "pending" (in the listen backlog), "open"        *)
(* (accepted), "eof" (the peer closed it; recv() will return b''),          *)
(* "closed" (closed by the proxy, or refused when the proxy exited).       *)
(* cs is self.client_socket: the connection it names, possibly closed.     *)
(***************************************************************************)
EXTENDS Naturals, Sequences, FiniteSets

CONSTANTS
    Conns,          \* client connections, each made at most once
    MaxRx,          \* bound on the bytes read from the serial port
    MaxAcceptFail,  \* bound on accept() calls that raise
    None            \* client_socket = None

VARIABLES
    conn,        \* [Conns -> connection state]
    cs,          \* self.client_socket
    alive,       \* the proxy process has not exited
    rxCount,     \* bytes read from the serial port so far
    got,         \* [Conns -> serial bytes the client received]
    acceptFails  \* accept() calls that raised so far

vars == <<conn, cs, alive, rxCount, got, acceptFails>>

ConnStates == {"none", "pending", "open", "eof", "closed"}

TypeOK ==
    /\ conn \in [Conns -> ConnStates]
    /\ cs \in Conns \cup {None}
    /\ alive \in BOOLEAN
    /\ rxCount \in 0..MaxRx
    /\ got \in [Conns -> Seq(1..MaxRx)]
    /\ acceptFails \in 0..MaxAcceptFail

Init ==
    /\ conn = [c \in Conns |-> "none"]
    /\ cs = None
    /\ alive = TRUE
    /\ rxCount = 0
    /\ got = [c \in Conns |-> << >>]
    /\ acceptFails = 0

\* select.select(read_list, ...) does not raise: a closed client socket in
\* read_list (fileno() = -1) makes it raise ValueError, and the loop
\* "continue"s without handling anything.
Selectable == alive /\ ~(cs # None /\ conn[cs] = "closed")

\* Closing the current client socket, if there is one.
CloseCurrent(cn) == IF cs # None THEN [cn EXCEPT ![cs] = "closed"] ELSE cn

-----------------------------------------------------------------------------
\* A client connects to the listening port.
ClientConnect(c) ==
    /\ alive
    /\ conn[c] = "none"
    /\ conn' = [conn EXCEPT ![c] = "pending"]
    /\ UNCHANGED <<cs, alive, rxCount, got, acceptFails>>

\* The client closes its end (or resets it).
ClientHangup(c) ==
    /\ conn[c] = "open"
    /\ conn' = [conn EXCEPT ![c] = "eof"]
    /\ UNCHANGED <<cs, alive, rxCount, got, acceptFails>>

(***************************************************************************)
(* The listening socket is readable: close the previous client, then       *)
(* accept.  If accept() raises, the bare except passes, and client_socket  *)
(* still names the socket just closed.                                     *)
(***************************************************************************)
\* Mutant of Accept: the previous client is not closed.
AcceptNoClose(c) ==
    /\ Selectable
    /\ conn[c] = "pending"
    /\ conn' = [conn EXCEPT ![c] = "open"]
    /\ cs' = c
    /\ UNCHANGED <<alive, rxCount, got, acceptFails>>

Accept(c) ==
    /\ Selectable
    /\ conn[c] = "pending"
    /\ conn' = [CloseCurrent(conn) EXCEPT ![c] = "open"]
    /\ cs' = c
    /\ UNCHANGED <<alive, rxCount, got, acceptFails>>

AcceptFails ==
    /\ Selectable
    /\ \E c \in Conns : conn[c] = "pending"
    /\ acceptFails < MaxAcceptFail
    /\ acceptFails' = acceptFails + 1
    /\ conn' = CloseCurrent(conn)
    /\ UNCHANGED <<cs, alive, rxCount, got>>

\* Mutant of ClientEof: client_socket is dropped without being closed.
ClientEofNoClose ==
    /\ Selectable
    /\ cs # None /\ conn[cs] = "eof"
    /\ cs' = None
    /\ UNCHANGED <<conn, alive, rxCount, got, acceptFails>>

\* The client socket is readable and recv() returns b'' (or raises
\* ConnectionResetError): close it and forget it.
ClientEof ==
    /\ Selectable
    /\ cs # None /\ conn[cs] = "eof"
    /\ conn' = [conn EXCEPT ![cs] = "closed"]
    /\ cs' = None
    /\ UNCHANGED <<alive, rxCount, got, acceptFails>>

\* stop(): close the client and the listening socket (refusing what is in
\* the backlog) and the serial port; the process then exits.
Stopped(cn) ==
    [c \in Conns |-> IF cn[c] \in {"pending", "open", "eof"} THEN "closed" ELSE cn[c]]

\* The client sent data and serial.write raises (SerialException or
\* SerialTimeoutException): no handler catches it; finally calls stop().
SerialWriteFails ==
    /\ Selectable
    /\ cs # None /\ conn[cs] = "open"
    /\ conn' = Stopped(conn)
    /\ alive' = FALSE
    /\ UNCHANGED <<cs, rxCount, got, acceptFails>>

\* SIGTERM from the portal: signal_handler calls stop() and exits.
Terminate ==
    /\ alive
    /\ conn' = Stopped(conn)
    /\ alive' = FALSE
    /\ UNCHANGED <<cs, rxCount, got, acceptFails>>

(***************************************************************************)
(* The serial port has bytes (the select branch or the in_waiting drain):   *)
(* read them and send() them to client_socket if there is one.  send() on  *)
(* the non-blocking socket may take only part of them or raise; the return *)
(* value is ignored and errors are swallowed, so a byte reaches the client *)
(* or is lost.                                                              *)
(***************************************************************************)
\* Mutant of SerialRead: the byte forwarded is the previous one.
SerialReadOffByOne ==
    /\ Selectable
    /\ rxCount < MaxRx
    /\ rxCount' = rxCount + 1
    /\ \/ /\ cs # None /\ conn[cs] = "open"
          /\ got' = [got EXCEPT ![cs] = Append(@, rxCount)]
       \/ UNCHANGED got
    /\ UNCHANGED <<conn, cs, alive, acceptFails>>

SerialRead ==
    /\ Selectable
    /\ rxCount < MaxRx
    /\ rxCount' = rxCount + 1
    /\ \/ /\ cs # None /\ conn[cs] = "open"
          /\ got' = [got EXCEPT ![cs] = Append(@, rxCount + 1)]
       \/ UNCHANGED got
    /\ UNCHANGED <<conn, cs, alive, acceptFails>>

Loop ==
    \/ \E c \in Conns : Accept(c)
    \/ AcceptFails \/ ClientEof \/ SerialRead \/ SerialWriteFails

Next ==
    \/ Loop \/ Terminate
    \/ \E c \in Conns : ClientConnect(c) \/ ClientHangup(c)

(***************************************************************************)
(* Fairness: while the process lives the loop runs every 100 ms, so a      *)
(* readable listening socket or client socket is eventually handled.       *)
(* Clients, the serial device, SIGTERM and write errors owe nothing.       *)
(***************************************************************************)
Fairness ==
    /\ WF_vars(\E c \in Conns : Accept(c))
    /\ WF_vars(ClientEof)

Spec == Init /\ [][Next]_vars /\ Fairness

-----------------------------------------------------------------------------
(***************************************************************************)
(* Refinement: the proxy implements SessionSpec, with the clients it holds *)
(* an open socket to as the attached set.                                  *)
(***************************************************************************)
Abs == INSTANCE SessionSpec
         WITH attached <- {c \in Conns : conn[c] \in {"open", "eof"}}

\* Sessions as the spec promises them (section 4.3, scenario S4): at most
\* one client holds a session, a new one pre-empts the old, and serial
\* bytes reach only the client attached when they were read, in order.
SessionRefinement == Abs!Spec

\* A client that closes its end is eventually closed by the proxy (the
\* client branch's end-of-stream handling), so the session is released.
EofClosed == \A c \in Conns : conn[c] = "eof" ~> conn[c] = "closed"

\* A client that connects is eventually accepted, or refused because the
\* proxy exited: the accept branch keeps serving the listening socket.
PendingServed == \A c \in Conns : conn[c] = "pending" ~> conn[c] # "pending"

=============================================================================
