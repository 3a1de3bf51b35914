----------------------------- MODULE SessionSpec -----------------------------
(***************************************************************************)
(* What a proxy promises its clients about sessions (spec.md section 4.3   *)
(* and scenario S4), with no sockets, select() or exceptions: at most one  *)
(* client is attached at a time, a new one replaces the old, and every     *)
(* byte read from the serial port goes to the client attached when it is   *)
(* read, or to nobody, so each client receives serial bytes in the order   *)
(* they were read and never a byte read while it was not attached.         *)
(***************************************************************************)
EXTENDS Naturals, Sequences

CONSTANTS Conns, MaxRx

VARIABLES
    attached,   \* the clients the proxy holds a session with
    got,        \* [Conns -> the serial bytes each client received]
    rxCount     \* serial bytes read so far; byte k is the k-th read

svars == <<attached, got, rxCount>>

Init ==
    /\ attached = {}
    /\ got = [c \in Conns |-> << >>]
    /\ rxCount = 0

\* A client is attached, replacing any other.
Attach(c) ==
    /\ c \notin attached
    /\ attached' = {c}
    /\ UNCHANGED <<got, rxCount>>

\* The session ends.
Detach ==
    /\ attached # {}
    /\ attached' = {}
    /\ UNCHANGED <<got, rxCount>>

\* A serial byte is read; it reaches the attached client or is lost.
Read ==
    /\ rxCount < MaxRx
    /\ rxCount' = rxCount + 1
    /\ \/ \E c \in attached : got' = [got EXCEPT ![c] = Append(@, rxCount + 1)]
       \/ UNCHANGED got
    /\ UNCHANGED attached

Next == (\E c \in Conns : Attach(c)) \/ Detach \/ Read

Spec == Init /\ [][Next]_svars

=============================================================================
