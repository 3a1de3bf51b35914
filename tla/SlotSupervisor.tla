--------------------------- MODULE SlotSupervisor ---------------------------
(***************************************************************************)
(* The slot supervisor of src/pi/portal_v2.py (class Portal) together with *)
(* the part of the operating system it depends on: the process table of   *)
(* its serial_proxy children, the TCP ports they listen on and the device *)
(* nodes that come and go with USB hot-plug.                               *)
(*                                                                         *)
(* The portal is served by http.server.HTTPServer (portal_v2.py:608),      *)
(* which handles one request at a time, so at most one request is in      *)
(* flight (variable req).  A request is not atomic with respect to the    *)
(* environment: Portal.start polls the device, spawns a child, sleeps and *)
(* probes the port, and children start, crash and devices vanish in       *)
(* between.  Those waits are the steps of a start request.                 *)
(*                                                                         *)
(* A child that has terminated but has not been waited for is a zombie    *)
(* ("exited"): os.kill(pid, 0) still succeeds on it.  Python's subprocess *)
(* module waits for it when its Popen object is dropped after it exited,   *)
(* when proc.poll() sees it, or, for children still running when their    *)
(* Popen object was dropped, at the next subprocess.Popen() call           *)
(* (subprocess._cleanup).                                                  *)
(***************************************************************************)
EXTENDS Naturals, FiniteSets

CONSTANTS
    Slots,      \* the configured slot_keys (self.slots)
    TcpPort,    \* [Slots -> port]: slot_cfg['tcp_port']
    Devnodes,   \* device node paths the OS may create
    MaxPid,     \* bound: process ids are handed out 1, 2, ... MaxPid
    MaxGen,     \* bound on last_gen
    NoPid,      \* slot.pid = None
    NoDev       \* slot.devnode = None

Pids == 1..MaxPid
Ports == {TcpPort[s] : s \in Slots}

\* Values of slot.last_error: None and the reasons the code records.
Errors == {"none", "not_ready", "exited_early", "not_listening", "died"}

\* Process table entries: never used or reaped, spawned and not yet
\* bound, serving on its port, terminated but not waited for.
ProcStates == {"none", "starting", "listening", "exited"}
Live == {"starting", "listening"}

VARIABLES
    running, pid, devnode, last_gen, last_error,  \* SlotState fields
    req,        \* the request HTTPServer is serving
    proc,       \* [Pids -> ProcStates]
    childPort,  \* [Pids -> port]: the child's "-p" argument
    childDev,   \* [Pids -> devnode]: the child's device argument
    nextPid,    \* the pid the next fork gets
    present     \* device nodes that exist and can be opened

slotVars == <<running, pid, devnode, last_gen, last_error>>
osVars == <<proc, childPort, childDev, nextPid, present>>
vars == <<slotVars, req, osVars>>

NoReq == [op |-> "none", slot |-> NoDev, dev |-> NoDev, pc |-> "none", child |-> NoPid]

TypeOK ==
    /\ running \in [Slots -> BOOLEAN]
    /\ pid \in [Slots -> Pids \cup {NoPid}]
    /\ devnode \in [Slots -> Devnodes \cup {NoDev}]
    /\ last_gen \in [Slots -> 0..MaxGen]
    /\ last_error \in [Slots -> Errors]
    /\ req \in {NoReq}
              \cup [op : {"start"}, slot : Slots, dev : Devnodes,
                    pc : {"settle"}, child : {NoPid}]
              \cup [op : {"start"}, slot : Slots, dev : Devnodes,
                    pc : {"poll", "probe"}, child : Pids]
    /\ proc \in [Pids -> ProcStates]
    /\ childPort \in [Pids -> Ports \cup {0}]
    /\ childDev \in [Pids -> Devnodes \cup {NoDev}]
    /\ nextPid \in 1..(MaxPid + 1)
    /\ present \in SUBSET Devnodes

-----------------------------------------------------------------------------
(* Helpers of class Portal, as functions of the process table.            *)

\* _is_process_alive: os.kill(pid, 0) succeeds for any process in the
\* table, zombies included.
IsProcessAlive(p) == p # NoPid /\ proc[p] # "none"

\* _is_port_listening: a connect() to 127.0.0.1:port succeeds.
IsPortListening(port) ==
    \E p \in Pids : proc[p] = "listening" /\ childPort[p] = port

\* _stop_process: SIGTERM, wait, SIGKILL.  A live child ends up
\* terminated; a pid already gone raises OSError and is success.  The
\* child is not waited for, so it stays a zombie.
StopProcess(tbl, p) ==
    [tbl EXCEPT ![p] = IF @ \in Live THEN "exited" ELSE @]

\* subprocess._cleanup at the start of Popen(): every terminated child
\* whose Popen object was dropped while it still ran is waited for.
ReapActive(tbl) ==
    [q \in Pids |-> IF tbl[q] = "exited" THEN "none" ELSE tbl[q]]

\* Popen.__del__ when _start_proxy returns: the child is waited for if it
\* has already terminated.
DropPopen(tbl, p) ==
    [tbl EXCEPT ![p] = IF @ = "exited" THEN "none" ELSE @]

\* The condition of Portal.start for answering "Already running".
Healthy(s, d) ==
    /\ running[s] /\ pid[s] # NoPid /\ devnode[s] = d
    /\ IsProcessAlive(pid[s]) /\ IsPortListening(TcpPort[s])

\* The failure branch of Portal.start after _start_proxy returned False.
StartFails(s, err) ==
    /\ running' = [running EXCEPT ![s] = FALSE]
    /\ pid' = [pid EXCEPT ![s] = NoPid]
    /\ devnode' = [devnode EXCEPT ![s] = NoDev]
    /\ last_error' = [last_error EXCEPT ![s] = err]
    /\ req' = NoReq

-----------------------------------------------------------------------------
Init ==
    /\ running = [s \in Slots |-> FALSE]
    /\ pid = [s \in Slots |-> NoPid]
    /\ devnode = [s \in Slots |-> NoDev]
    /\ last_gen = [s \in Slots |-> 0]
    /\ last_error = [s \in Slots |-> "none"]
    /\ req = NoReq
    /\ proc = [p \in Pids |-> "none"]
    /\ childPort = [p \in Pids |-> 0]
    /\ childDev = [p \in Pids |-> NoDev]
    /\ nextPid = 1
    /\ present \in SUBSET Devnodes

(***************************************************************************)
(* Portal.start(slot_key, devnode), from /api/start or a hot-plug "add":   *)
(* bump the generation; answer "Already running" if the slot is healthy on *)
(* the same devnode; otherwise stop the current child (clearing running   *)
(* and pid but not devnode) and go on with _start_proxy.  Only starts for  *)
(* which a fresh pid remains are taken (bound MaxPid).                     *)
(***************************************************************************)
\* Mutant of StartRequest: the running child is not stopped before a new
\* one is spawned for the slot.
StartRequestKeepOld(s, d) ==
    /\ req = NoReq
    /\ last_gen[s] < MaxGen
    /\ nextPid <= MaxPid
    /\ last_gen' = [last_gen EXCEPT ![s] = @ + 1]
    /\ \/ /\ Healthy(s, d)
          /\ UNCHANGED <<running, pid, devnode, last_error, req, proc>>
       \/ /\ ~Healthy(s, d)
          /\ req' = [op |-> "start", slot |-> s, dev |-> d, pc |-> "settle",
                     child |-> NoPid]
          /\ UNCHANGED <<running, pid, proc, devnode, last_error>>
    /\ UNCHANGED <<childPort, childDev, nextPid, present>>

StartRequest(s, d) ==
    /\ req = NoReq
    /\ last_gen[s] < MaxGen
    /\ nextPid <= MaxPid
    /\ last_gen' = [last_gen EXCEPT ![s] = @ + 1]
    /\ \/ /\ Healthy(s, d)
          /\ UNCHANGED <<running, pid, devnode, last_error, req, proc>>
       \/ /\ ~Healthy(s, d)
          /\ IF running[s] /\ pid[s] # NoPid
                THEN /\ proc' = StopProcess(proc, pid[s])
                     /\ running' = [running EXCEPT ![s] = FALSE]
                     /\ pid' = [pid EXCEPT ![s] = NoPid]
                ELSE UNCHANGED <<proc, running, pid>>
          /\ req' = [op |-> "start", slot |-> s, dev |-> d, pc |-> "settle",
                     child |-> NoPid]
          /\ UNCHANGED <<devnode, last_error>>
    /\ UNCHANGED <<childPort, childDev, nextPid, present>>

\* Mutant of SettleAndSpawn: the Popen handle of the child is not kept.
SettleAndSpawnLosesChild ==
    /\ req.pc = "settle"
    /\ req.dev \in present
    /\ proc' = [ReapActive(proc) EXCEPT ![nextPid] = "starting"]
    /\ childPort' = [childPort EXCEPT ![nextPid] = TcpPort[req.slot]]
    /\ childDev' = [childDev EXCEPT ![nextPid] = req.dev]
    /\ nextPid' = nextPid + 1
    /\ req' = [req EXCEPT !.pc = "poll"]
    /\ UNCHANGED <<slotVars, present>>

\* _wait_for_device succeeds: the node opens; the child is spawned with
\* -p tcp_port devnode (Popen reaps terminated children first).
SettleAndSpawn ==
    /\ req.pc = "settle"
    /\ req.dev \in present
    /\ proc' = [ReapActive(proc) EXCEPT ![nextPid] = "starting"]
    /\ childPort' = [childPort EXCEPT ![nextPid] = TcpPort[req.slot]]
    /\ childDev' = [childDev EXCEPT ![nextPid] = req.dev]
    /\ nextPid' = nextPid + 1
    /\ req' = [req EXCEPT !.pc = "poll", !.child = nextPid]
    /\ UNCHANGED <<slotVars, present>>

\* _wait_for_device times out: the node did not open within 5 s.
SettleTimeout ==
    /\ req.pc = "settle"
    /\ req.dev \notin present
    /\ StartFails(req.slot, "not_ready")
    /\ UNCHANGED <<last_gen, osVars>>

\* After the 0.5 s sleep proc.poll() finds the child terminated (and
\* waits for it).
PollExited ==
    /\ req.pc = "poll"
    /\ proc[req.child] = "exited"
    /\ proc' = [proc EXCEPT ![req.child] = "none"]
    /\ StartFails(req.slot, "exited_early")
    /\ UNCHANGED <<last_gen, childPort, childDev, nextPid, present>>

\* Mutant of PollRunning: only a child already serving counts as running.
PollRunningWhenListening ==
    /\ req.pc = "poll"
    /\ proc[req.child] = "listening"
    /\ req' = [req EXCEPT !.pc = "probe"]
    /\ UNCHANGED <<slotVars, osVars>>

\* proc.poll() is None: go on to probe the port.
PollRunning ==
    /\ req.pc = "poll"
    /\ proc[req.child] # "exited"
    /\ req' = [req EXCEPT !.pc = "probe"]
    /\ UNCHANGED <<slotVars, osVars>>

\* A connect to the slot's port succeeds: commit running, pid, devnode.
\* Mutant of ProbeOk: the result of _is_port_listening is ignored.
ProbeOkUnchecked ==
    /\ req.pc = "probe"
    /\ running' = [running EXCEPT ![req.slot] = TRUE]
    /\ pid' = [pid EXCEPT ![req.slot] = req.child]
    /\ devnode' = [devnode EXCEPT ![req.slot] = req.dev]
    /\ last_error' = [last_error EXCEPT ![req.slot] = "none"]
    /\ proc' = DropPopen(proc, req.child)
    /\ req' = NoReq
    /\ UNCHANGED <<last_gen, childPort, childDev, nextPid, present>>

ProbeOk ==
    /\ req.pc = "probe"
    /\ IsPortListening(TcpPort[req.slot])
    /\ running' = [running EXCEPT ![req.slot] = TRUE]
    /\ pid' = [pid EXCEPT ![req.slot] = req.child]
    /\ devnode' = [devnode EXCEPT ![req.slot] = req.dev]
    /\ last_error' = [last_error EXCEPT ![req.slot] = "none"]
    /\ proc' = DropPopen(proc, req.child)
    /\ req' = NoReq
    /\ UNCHANGED <<last_gen, childPort, childDev, nextPid, present>>

\* Twenty probes failed: stop the child, which Popen.__del__ then reaps.
\* Mutant of ProbeTimeout: the child is not stopped on the way out.
ProbeTimeoutKeepChild ==
    /\ req.pc = "probe"
    /\ ~IsPortListening(TcpPort[req.slot])
    /\ proc' = DropPopen(proc, req.child)
    /\ StartFails(req.slot, "not_listening")
    /\ UNCHANGED <<last_gen, childPort, childDev, nextPid, present>>

ProbeTimeout ==
    /\ req.pc = "probe"
    /\ ~IsPortListening(TcpPort[req.slot])
    /\ proc' = DropPopen(StopProcess(proc, req.child), req.child)
    /\ StartFails(req.slot, "not_listening")
    /\ UNCHANGED <<last_gen, childPort, childDev, nextPid, present>>

(***************************************************************************)
(* Portal.stop(slot_key), from /api/stop or a hot-plug "remove".           *)
(***************************************************************************)
StopRequest(s) ==
    /\ req = NoReq
    /\ last_gen[s] < MaxGen
    /\ last_gen' = [last_gen EXCEPT ![s] = @ + 1]
    /\ \/ /\ ~(running[s] /\ pid[s] # NoPid)
          /\ UNCHANGED <<running, pid, devnode, last_error, proc>>
       \/ /\ running[s] /\ pid[s] # NoPid
          /\ proc' = StopProcess(proc, pid[s])
          /\ running' = [running EXCEPT ![s] = FALSE]
          /\ pid' = [pid EXCEPT ![s] = NoPid]
          /\ devnode' = [devnode EXCEPT ![s] = NoDev]
          /\ last_error' = [last_error EXCEPT ![s] = "none"]
    /\ UNCHANGED <<req, childPort, childDev, nextPid, present>>

(***************************************************************************)
(* Portal.get_devices: the health refresh of every slot; the snapshot it  *)
(* returns is not state.                                                   *)
(***************************************************************************)
Died(s) == running[s] /\ pid[s] # NoPid /\ ~IsProcessAlive(pid[s])

GetDevices ==
    /\ req = NoReq
    /\ running' = [s \in Slots |-> IF Died(s) THEN FALSE ELSE running[s]]
    /\ pid' = [s \in Slots |-> IF Died(s) THEN NoPid ELSE pid[s]]
    /\ last_error' = [s \in Slots |-> IF Died(s) THEN "died" ELSE last_error[s]]
    /\ UNCHANGED <<devnode, last_gen, req, osVars>>

-----------------------------------------------------------------------------
(***************************************************************************)
(* The environment: serial_proxy children and USB hot-plug.               *)
(***************************************************************************)

\* RFC2217Proxy.run: open_serial() then start_server() succeed.
ProxyListens(p) ==
    /\ proc[p] = "starting"
    /\ childDev[p] \in present
    /\ ~IsPortListening(childPort[p])
    /\ proc' = [proc EXCEPT ![p] = "listening"]
    /\ UNCHANGED <<slotVars, req, childPort, childDev, nextPid, present>>

\* open_serial() or bind() raises: the child exits with status 1.
ProxyStartFails(p) ==
    /\ proc[p] = "starting"
    /\ \/ childDev[p] \notin present
       \/ IsPortListening(childPort[p])
    /\ proc' = [proc EXCEPT ![p] = "exited"]
    /\ UNCHANGED <<slotVars, req, childPort, childDev, nextPid, present>>

\* An exception escapes the main loop (e.g. serial.write raising) or the
\* child is killed from outside: it terminates.
ProxyCrash(p) ==
    /\ proc[p] = "listening"
    /\ proc' = [proc EXCEPT ![p] = "exited"]
    /\ UNCHANGED <<slotVars, req, childPort, childDev, nextPid, present>>

Unplug(d) ==
    /\ d \in present
    /\ present' = present \ {d}
    /\ UNCHANGED <<slotVars, req, proc, childPort, childDev, nextPid>>

Plug(d) ==
    /\ d \notin present
    /\ present' = present \cup {d}
    /\ UNCHANGED <<slotVars, req, proc, childPort, childDev, nextPid>>

-----------------------------------------------------------------------------
(***************************************************************************)
(* Fairness: HTTPServer's thread runs the request it is serving to its    *)
(* end, and every wait in it is bounded (settle 5 s, 0.5 s, 20 probes,    *)
(* the stop grace), so a step of the in-flight start is eventually taken. *)
(* Clients, children and devices owe nothing.                             *)
(***************************************************************************)
RequestStep ==
    \/ SettleAndSpawn \/ SettleTimeout \/ PollExited \/ PollRunning
    \/ ProbeOk \/ ProbeTimeout

Fairness == WF_vars(RequestStep)

Portal ==
    \/ \E s \in Slots, d \in Devnodes : StartRequest(s, d)
    \/ \E s \in Slots : StopRequest(s)
    \/ RequestStep
    \/ GetDevices

Environment ==
    \/ \E p \in Pids : ProxyListens(p) \/ ProxyStartFails(p) \/ ProxyCrash(p)
    \/ \E d \in Devnodes : Unplug(d) \/ Plug(d)

Next == Portal \/ Environment


Spec == Init /\ [][Next]_vars /\ Fairness

-----------------------------------------------------------------------------
(***************************************************************************)
(* Properties.                                                             *)
(***************************************************************************)

\* No orphan proxy: every serial_proxy child that is still alive (starting
\* or serving) is either the one the in-flight Portal.start is spawning or
\* the recorded pid of a running slot.  Breaking it takes a start whose
\* failure path (port never listening) or restart path forgets to stop a
\* child, which would then hold the device and the port unseen.
NoOrphanProxy ==
    \A p \in Pids :
        proc[p] \in Live =>
            \/ p = req.child
            \/ \E s \in Slots : running[s] /\ pid[s] = p

\* One proxy per slot (spec section 5, "device nodes are owned by at most
\* one proxy at a time, enforced because the supervisor stops the previous
\* child before starting a new one"): no two live children were given the
\* same TCP port, in any state, including while a start is in flight.
OneProxyPerSlot ==
    \A p, q \in Pids :
        (p # q /\ proc[p] \in Live /\ proc[q] \in Live)
            => childPort[p] # childPort[q]

\* A start that commits running = TRUE with a new pid does so only while
\* that very child is serving the port: the connect probe of
\* _is_port_listening, which tests the port and not the child, is a sound
\* test of the child.
StartCommitsListeningChild ==
    [][\A s \in Slots :
         (running'[s] /\ pid'[s] # pid[s]) => proc[pid'[s]] = "listening"]_vars

\* The health refresh of get_devices (spec 4.6: "if running and pid and the
\* process is no longer alive, clear running/pid/devnode") leaves no slot
\* marked running whose proxy has terminated.
HealthRefreshDetectsDeath ==
    [][GetDevices => \A s \in Slots : running'[s] => proc[pid'[s]] \in Live]_vars

\* A start request always ends, and ends decided: every interleaving of
\* children exiting, binding and devices vanishing lets Portal.start reach
\* its commit or its failure branch, so the single-threaded server is
\* never left holding a start (which would block every other slot), and
\* the slot is then running or records why it is not.
StartCompletes ==
    \A s \in Slots :
        (req.op = "start" /\ req.slot = s)
            ~> (req = NoReq /\ (running[s] \/ last_error[s] # "none"))

=============================================================================
