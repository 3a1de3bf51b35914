--------------------------- MODULE BleController ---------------------------
(***************************************************************************)
(* src/pi/ble_controller.py: the module globals _client, _address and      *)
(* _state (guarded by _lock), the synchronous API functions scan, connect, *)
(* disconnect, write and shutdown called from several caller threads, the  *)
(* asyncio loops that _ensure_loop creates, and bleak's                     *)
(* disconnected_callback (_on_disconnect) run by a loop.                   *)
(*                                                                         *)
(* Every "with _lock:" block contains no await, so each is one atomic      *)
(* step.  A caller blocks in _run_async while a loop runs its coroutine;   *)
(* the steps of a call are split there.  A bleak client is a number; link  *)
(* is the state of its BLE connection, and cbPending holds the clients     *)
(* whose disconnected_callback is queued.  Loops are numbered in the order *)
(* _ensure_loop creates them; loopGen is the one the global _loop holds.   *)
(* _name is derived from _address and is left out.                         *)
(***************************************************************************)
EXTENDS Naturals, FiniteSets

CONSTANTS
    Callers,     \* threads calling the API (HTTP handlers)
    Addrs,       \* peripheral addresses
    MaxClients,  \* bound on the BleakClient objects created
    MaxStray,    \* bound on discoveries left running by a timed-out scan
    MaxLoops,    \* bound on the event loops _ensure_loop creates
    NoAddr       \* _address = None

NoClient == 0    \* _client = None
NoLoop == 0      \* _loop = None, or a coroutine not yet submitted
Clients == 1..MaxClients
Loops == 1..MaxLoops

\* "starting": its thread has not reached run_forever; "dead": its thread
\* read the global _loop after it was replaced, so it never runs.
LoopStates == {"none", "starting", "running", "stopping", "stopped", "dead"}

VARIABLES
    state,       \* _state
    client,      \* _client
    address,     \* _address
    link,        \* [Clients -> {"none", "up", "down"}]
    cbPending,   \* clients whose _on_disconnect is queued on their loop
    clientLoop,  \* [Clients -> the loop a client was created on]
    nextClient,  \* the next BleakClient to be created
    pc,          \* [Callers -> where the caller is]
    loc,         \* [Callers -> the caller's locals and its future's loop]
    strayScans,  \* discover() coroutines whose caller stopped waiting
    loops,       \* [Loops -> LoopStates]
    loopGen      \* the loop the global _loop refers to

vars == <<state, client, address, link, cbPending, clientLoop, nextClient,
          pc, loc, strayScans, loops, loopGen>>

Idle == "idle"
NoLoc == [client |-> NoClient, addr |-> NoAddr, gen |-> NoLoop]

TypeOK ==
    /\ state \in {"idle", "scanning", "connected"}
    /\ client \in Clients \cup {NoClient}
    /\ address \in Addrs \cup {NoAddr}
    /\ link \in [Clients -> {"none", "up", "down"}]
    /\ cbPending \subseteq Clients
    /\ clientLoop \in [Clients -> Loops \cup {NoLoop}]
    /\ nextClient \in 1..(MaxClients + 1)
    /\ pc \in [Callers -> {Idle, "scan", "connect", "connect_commit",
                           "disconnect", "disconnect_commit", "write", "shutdown"}]
    /\ loc \in [Callers -> [client : Clients \cup {NoClient},
                            addr : Addrs \cup {NoAddr}, gen : Loops \cup {NoLoop}]]
    /\ strayScans \in 0..MaxStray
    /\ loops \in [Loops -> LoopStates]
    /\ loopGen \in Loops \cup {NoLoop}

Init ==
    /\ state = "idle"
    /\ client = NoClient
    /\ address = NoAddr
    /\ link = [c \in Clients |-> "none"]
    /\ cbPending = {}
    /\ clientLoop = [c \in Clients |-> NoLoop]
    /\ nextClient = 1
    /\ pc = [t \in Callers |-> Idle]
    /\ loc = [t \in Callers |-> NoLoc]
    /\ strayScans = 0
    /\ loops = [g \in Loops |-> "none"]
    /\ loopGen = NoLoop

Goto(t, where) == pc' = [pc EXCEPT ![t] = where]

\* The caller returns from the API function; its locals are gone.
Return(t) ==
    /\ Goto(t, Idle)
    /\ loc' = [loc EXCEPT ![t] = NoLoc]

\* The globals cleared together, by _on_disconnect and disconnect().
Cleared ==
    /\ client' = NoClient
    /\ address' = NoAddr
    /\ state' = "idle"

-----------------------------------------------------------------------------
(* The event loops.                                                         *)

\* _loop is not None and _loop.is_running(): a loop whose stop is only
\* scheduled still runs.
LoopIsRunning == loopGen # NoLoop /\ loops[loopGen] \in {"running", "stopping"}

\* The caller's coroutine, submitted with run_coroutine_threadsafe, is
\* being run by its loop.
Ran(t) == loc[t].gen # NoLoop /\ loops[loc[t].gen] = "running"

\* The caller's coroutine will never run: its loop is stopping (the stop
\* callback was queued before it), stopped, or never runs.  The caller's
\* future.result(timeout=30) raises TimeoutError.
\* Mutant of Lost: future.result() without a timeout, so a coroutine that
\* never runs never settles.
LostNoTimeout(t) == loc[t].gen # NoLoop /\ loops[loc[t].gen] \in {}

Lost(t) == loc[t].gen # NoLoop /\ loops[loc[t].gen] \in {"stopping", "stopped", "dead"}

Settles(t) == Ran(t) \/ Lost(t)

Awaiting == {"scan", "connect", "disconnect", "write"}

(* _run_async: _ensure_loop, without the lock, reuses _loop if it is       *)
(* running, else creates a loop, stores it in _loop and starts a thread    *)
(* for it; then the coroutine is submitted to whatever _loop holds.  Two   *)
(* callers can both see a loop that is still "starting" as not running.    *)
Submit(t) ==
    /\ pc[t] \in Awaiting
    /\ loc[t].gen = NoLoop
    /\ IF LoopIsRunning
          THEN /\ loc' = [loc EXCEPT ![t].gen = loopGen]
               /\ UNCHANGED <<loops, loopGen>>
          ELSE /\ loopGen < MaxLoops
               /\ loopGen' = loopGen + 1
               /\ loops' = [loops EXCEPT ![loopGen + 1] = "starting"]
               /\ loc' = [loc EXCEPT ![t].gen = loopGen + 1]
    /\ UNCHANGED <<state, client, address, link, cbPending, clientLoop,
                   nextClient, pc, strayScans>>

(* The thread of loop g runs _run: set_event_loop(_loop);                   *)
(* _loop.run_forever() reads the global.  If g is still _loop, g runs.  If *)
(* g was replaced, the thread either read _loop in time and runs g, or     *)
(* runs the newer loop (whose own thread then fails) and g never runs.     *)
LoopRuns(g) ==
    /\ loops[g] = "starting"
    /\ \/ loops' = [loops EXCEPT ![g] = "running"]
       \/ /\ g # loopGen
          /\ loops' = [loops EXCEPT ![g] = "dead"]
    /\ UNCHANGED <<state, client, address, link, cbPending, clientLoop,
                   nextClient, pc, loc, strayScans, loopGen>>

\* The stop callback queued by shutdown() runs; the loop's pending
\* tasks never step again.
LoopStops(g) ==
    /\ loops[g] = "stopping"
    /\ loops' = [loops EXCEPT ![g] = "stopped"]
    /\ UNCHANGED <<state, client, address, link, cbPending, clientLoop,
                   nextClient, pc, loc, strayScans, loopGen>>

-----------------------------------------------------------------------------
(* scan(): refuse if a scan is in progress, else mark scanning, run        *)
(* BleakScanner.discover, and in finally go back to idle if still scanning. *)
ScanBegin(t) ==
    /\ pc[t] = Idle
    /\ state # "scanning"
    /\ state' = "scanning"
    /\ Goto(t, "scan")
    /\ UNCHANGED <<strayScans, client, address, link, cbPending, clientLoop,
                   nextClient, loc, loops, loopGen>>

\* Mutant of ScanEnd: the finally clause is lost.
ScanEndNoFinally(t) ==
    /\ pc[t] = "scan"
    /\ Settles(t)
    /\ Return(t)
    /\ UNCHANGED <<strayScans, state, client, address, link, cbPending,
                   clientLoop, nextClient, loops, loopGen>>

\* discover returns, or the future times out on a lost coroutine; the
\* finally clause runs either way.
ScanEnd(t) ==
    /\ pc[t] = "scan"
    /\ Settles(t)
    /\ state' = IF state = "scanning" THEN "idle" ELSE state
    /\ Return(t)
    /\ UNCHANGED <<strayScans, client, address, link, cbPending, clientLoop,
                   nextClient, loops, loopGen>>

\* future.result(timeout=30) gives up on a scan whose timeout argument
\* exceeds 30 s: the caller's finally clause runs while discover keeps
\* the radio scanning.
ScanTimeout(t) ==
    /\ pc[t] = "scan"
    /\ Ran(t)
    /\ strayScans < MaxStray
    /\ strayScans' = strayScans + 1
    /\ state' = IF state = "scanning" THEN "idle" ELSE state
    /\ Return(t)
    /\ UNCHANGED <<client, address, link, cbPending, clientLoop, nextClient,
                   loops, loopGen>>

(* connect(address): refuse if connected, else (lock released) create a     *)
(* BleakClient and connect it on the loop, then record it under the lock.  *)
(* Only calls for which a BleakClient remains within the bound are taken.  *)
ConnectBegin(t, a) ==
    /\ pc[t] = Idle
    /\ ~(state = "connected" /\ address # NoAddr)
    /\ nextClient + Cardinality({u \in Callers : pc[u] = "connect"}) <= MaxClients
    /\ Goto(t, "connect")
    /\ loc' = [loc EXCEPT ![t].addr = a]
    /\ UNCHANGED <<strayScans, state, client, address, link, cbPending,
                   clientLoop, nextClient, loops, loopGen>>

\* The _connect coroutine on its loop: client.connect() succeeds or
\* raises.  If the coroutine never runs, no client is created and the
\* caller gets "connect failed" from the timeout.
ConnectAwait(t) ==
    LET c == nextClient IN
    /\ pc[t] = "connect"
    /\ \/ /\ Ran(t)
          /\ nextClient' = nextClient + 1
          /\ clientLoop' = [clientLoop EXCEPT ![c] = loc[t].gen]
          /\ \/ /\ link' = [link EXCEPT ![c] = "up"]
                /\ loc' = [loc EXCEPT ![t].client = c]
                /\ Goto(t, "connect_commit")
             \/ /\ Return(t)
                /\ UNCHANGED link
       \/ /\ Lost(t)
          /\ Return(t)
          /\ UNCHANGED <<link, nextClient, clientLoop>>
    /\ UNCHANGED <<strayScans, state, client, address, cbPending, loops, loopGen>>

\* Mutant of ConnectCommit: client and address assigned the wrong way round.
ConnectCommitSwapped(t) ==
    /\ pc[t] = "connect_commit"
    /\ client' = loc[t].addr
    /\ address' = loc[t].client
    /\ state' = "connected"
    /\ Return(t)
    /\ UNCHANGED <<strayScans, link, cbPending, clientLoop, nextClient, loops, loopGen>>

ConnectCommit(t) ==
    /\ pc[t] = "connect_commit"
    /\ client' = loc[t].client
    /\ address' = loc[t].addr
    /\ state' = "connected"
    /\ Return(t)
    /\ UNCHANGED <<strayScans, link, cbPending, clientLoop, nextClient, loops, loopGen>>

(* disconnect(): take _client under the lock (if None, just set idle),     *)
(* disconnect it on the loop, then clear the globals under the lock.       *)
(* Also the second half of shutdown().                                     *)
DisconnectBegin(t) ==
    /\ pc[t] \in {Idle, "shutdown"}
    /\ IF client = NoClient
          THEN /\ state' = "idle"
               /\ Return(t)
          ELSE /\ Goto(t, "disconnect")
               /\ loc' = [loc EXCEPT ![t].client = client]
               /\ UNCHANGED state
    /\ UNCHANGED <<strayScans, client, address, link, cbPending, clientLoop,
                   nextClient, loops, loopGen>>

\* The _disconnect coroutine: only a connected client is disconnected;
\* bleak then queues its disconnected_callback.  Errors, the timeout of
\* a coroutine that never runs included, are swallowed.
DisconnectAwait(t) ==
    LET c == loc[t].client IN
    /\ pc[t] = "disconnect"
    /\ \/ /\ Ran(t)
          /\ IF link[c] = "up"
                THEN /\ link' = [link EXCEPT ![c] = "down"]
                     /\ cbPending' = cbPending \cup {c}
                ELSE UNCHANGED <<link, cbPending>>
       \/ /\ Lost(t)
          /\ UNCHANGED <<link, cbPending>>
    /\ Goto(t, "disconnect_commit")
    /\ UNCHANGED <<strayScans, state, client, address, clientLoop, nextClient,
                   loc, loops, loopGen>>

DisconnectCommit(t) ==
    /\ pc[t] = "disconnect_commit"
    /\ Cleared
    /\ Return(t)
    /\ UNCHANGED <<strayScans, link, cbPending, clientLoop, nextClient, loops, loopGen>>

(* write(): take _client under the lock, refuse unless connected, write on *)
(* the loop; the result (ok, an error on a lost link, or a timeout) changes *)
(* nothing.                                                                 *)
WriteBegin(t) ==
    /\ pc[t] = Idle
    /\ client # NoClient /\ state = "connected"
    /\ Goto(t, "write")
    /\ loc' = [loc EXCEPT ![t].client = client]
    /\ UNCHANGED <<strayScans, state, client, address, link, cbPending,
                   clientLoop, nextClient, loops, loopGen>>

WriteEnd(t) ==
    /\ pc[t] = "write"
    /\ Settles(t)
    /\ Return(t)
    /\ UNCHANGED <<strayScans, state, client, address, link, cbPending,
                   clientLoop, nextClient, loops, loopGen>>

(* shutdown(): if _loop is running, queue its stop; then disconnect().    *)
(* The stop is not waited for, and _loop keeps the stopping loop.  A loop  *)
(* is left for a later _ensure_loop to create.                             *)
Shutdown(t) ==
    /\ pc[t] = Idle
    /\ loopGen < MaxLoops
    /\ loops' = IF LoopIsRunning THEN [loops EXCEPT ![loopGen] = "stopping"]
                                 ELSE loops
    /\ Goto(t, "shutdown")
    /\ UNCHANGED <<state, client, address, link, cbPending, clientLoop,
                   nextClient, loc, strayScans, loopGen>>

-----------------------------------------------------------------------------
(* The radio and the peripherals.                                          *)

\* _on_disconnect(client) runs on the loop the client was created on: it
\* clears the globals whatever client they hold.
OnDisconnect(c) ==
    /\ c \in cbPending
    /\ loops[clientLoop[c]] = "running"
    /\ cbPending' = cbPending \ {c}
    /\ Cleared
    /\ UNCHANGED <<strayScans, link, clientLoop, nextClient, pc, loc, loops, loopGen>>

\* An abandoned discover reaches its own timeout.
StrayScanEnds ==
    /\ strayScans > 0
    /\ strayScans' = strayScans - 1
    /\ UNCHANGED <<state, client, address, link, cbPending, clientLoop,
                   nextClient, pc, loc, loops, loopGen>>

\* The peripheral goes away or the link drops.
LinkLost(c) ==
    /\ link[c] = "up"
    /\ link' = [link EXCEPT ![c] = "down"]
    /\ cbPending' = cbPending \cup {c}
    /\ UNCHANGED <<strayScans, state, client, address, clientLoop, nextClient,
                   pc, loc, loops, loopGen>>

CallerStep(t) ==
    \/ ScanBegin(t) \/ ScanEnd(t) \/ ScanTimeout(t)
    \/ \E a \in Addrs : ConnectBegin(t, a)
    \/ ConnectAwait(t) \/ ConnectCommit(t)
    \/ DisconnectBegin(t) \/ DisconnectAwait(t) \/ DisconnectCommit(t)
    \/ WriteBegin(t) \/ WriteEnd(t)
    \/ Shutdown(t) \/ Submit(t)

Next ==
    \/ \E t \in Callers : CallerStep(t)
    \/ \E g \in Loops : LoopRuns(g) \/ LoopStops(g)
    \/ \E c \in Clients : OnDisconnect(c) \/ LinkLost(c)
    \/ StrayScanEnds

(***************************************************************************)
(* Fairness: a started loop thread reaches run_forever, a queued stop      *)
(* callback runs, and a running loop runs what is queued on it.  A caller  *)
(* inside _run_async submits its coroutine and resumes when it completes   *)
(* or, if it never runs, when future.result gives up after 30 s.  A        *)
(* discovery ends at its timeout.  Nothing obliges a caller to start a     *)
(* call.                                                                   *)
(***************************************************************************)
Fairness ==
    /\ \A t \in Callers :
          /\ WF_vars(Submit(t)) /\ WF_vars(ScanEnd(t))
          /\ WF_vars(ConnectAwait(t)) /\ WF_vars(ConnectCommit(t))
          /\ WF_vars(DisconnectBegin(t) /\ pc[t] = "shutdown")
          /\ WF_vars(DisconnectAwait(t)) /\ WF_vars(DisconnectCommit(t))
          /\ WF_vars(WriteEnd(t))
    /\ \A g \in Loops : WF_vars(LoopRuns(g)) /\ WF_vars(LoopStops(g))
    /\ \A c \in Clients : WF_vars(OnDisconnect(c))
    /\ WF_vars(StrayScanEnds)

Spec == Init /\ [][Next]_vars /\ Fairness

-----------------------------------------------------------------------------
Quiescent == \A t \in Callers : pc[t] = Idle

\* status(): what the API reports of the connection.
Status ==
    IF state = "connected" THEN [state |-> state, address |-> address]
                           ELSE [state |-> state]

\* The "scan already in progress" guard cannot stick: whenever _state is
\* "scanning", it eventually is not, through the finally clause of the
\* scan that set it (or a connect or disconnect overwriting it).
ScanStateReleased == state = "scanning" ~> state # "scanning"

\* Every API call returns (the contract of _run_async: "block the caller
\* until completion with a 30 s ceiling").  A coroutine put on a loop that
\* never runs it, by shutdown() or by the unlocked _ensure_loop, must not
\* hang its caller.
CallsReturn == \A t \in Callers : pc[t] # Idle ~> pc[t] = Idle

\* Discoveries the radio is running: the one of each caller inside
\* scan() whose coroutine a loop runs, and those abandoned by a timeout.
RadioScans == Cardinality({t \in Callers : pc[t] = "scan" /\ Ran(t)}) + strayScans

\* What status() and the "scan already in progress" check say matches the
\* radio: at most one discovery runs at a time, and once no call is in
\* flight, a BLE link that is up belongs to the recorded _client and
\* status() reports it connected, and the recorded connected client's
\* link is up or its disconnect callback is still queued.  Broken by
\* disconnect() or a scan timeout clearing "scanning" under a running
\* discovery, by scan() while connected, by two connect() calls passing
\* the check together, by a late _on_disconnect or a link lost before
\* connect() records its client, and by a disconnect() whose coroutine
\* was put on a loop that never runs it (shutdown(), _ensure_loop race).
StatusMatchesRadio ==
    /\ RadioScans <= 1
    /\ Quiescent =>
        \A c \in Clients :
            /\ link[c] = "up" => (client = c /\ Status.state = "connected")
            /\ (client = c /\ Status.state = "connected")
                   => (link[c] = "up" \/ c \in cbPending)

=============================================================================
