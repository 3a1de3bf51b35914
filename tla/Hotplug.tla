------------------------------ MODULE Hotplug ------------------------------
(***************************************************************************)
(* SlotSupervisor driven by USB hot-plug.  A device plugged into the       *)
(* physical port of slot s gets a device node; udev then POSTs             *)
(* /api/hotplug {action: "add", id_path: s, devnode}, and on removal        *)
(* {action: "remove", id_path: s}.  The udev rules are outside src/ (spec  *)
(* section 1 treats udev as a caller of the endpoint): each event is a     *)
(* separate HTTP client, so requests reach the single-threaded server in   *)
(* any order.  In flight they are a set, as in a network that reorders.    *)
(* RequestHandler.do_POST dispatches an add to Portal.start and a remove  *)
(* to Portal.stop, which then run as in SlotSupervisor.                    *)
(***************************************************************************)
EXTENDS SlotSupervisor

CONSTANT MaxEvents   \* bound on the hot-plug events udev sends

VARIABLES
    attached,   \* [Slots -> the device node of the device in the port]
    inflight,   \* hot-plug requests sent and not yet served
    nextEv      \* identifier of the next event

hvars == <<vars, attached, inflight, nextEv>>

Events == [id : 1..MaxEvents, action : {"add", "remove"},
           slot : Slots, dev : Devnodes \cup {NoDev}]

HTypeOK ==
    /\ TypeOK
    /\ attached \in [Slots -> Devnodes \cup {NoDev}]
    /\ inflight \subseteq Events
    /\ nextEv \in 1..(MaxEvents + 1)

\* The portal starts with its configured slots and no device plugged in.
HInit ==
    /\ Init
    /\ present = {}
    /\ attached = [s \in Slots |-> NoDev]
    /\ inflight = {}
    /\ nextEv = 1

Send(action, s, d) ==
    /\ nextEv <= MaxEvents
    /\ inflight' = inflight \cup {[id |-> nextEv, action |-> action, slot |-> s, dev |-> d]}
    /\ nextEv' = nextEv + 1

\* A device is plugged into an empty port; the kernel gives it a free
\* node, and udev sends "add".
PlugIn(s, d) ==
    /\ attached[s] = NoDev
    /\ d \notin present
    /\ attached' = [attached EXCEPT ![s] = d]
    /\ present' = present \cup {d}
    /\ Send("add", s, d)
    /\ UNCHANGED <<slotVars, req, proc, childPort, childDev, nextPid>>

\* The device is pulled out; udev sends "remove".
PullOut(s) ==
    /\ attached[s] # NoDev
    /\ attached' = [attached EXCEPT ![s] = NoDev]
    /\ present' = present \ {attached[s]}
    /\ Send("remove", s, NoDev)
    /\ UNCHANGED <<slotVars, req, proc, childPort, childDev, nextPid>>

\* do_POST on /api/hotplug: "add" is Portal.start(id_path, devnode),
\* "remove" is Portal.stop(id_path).  No generation is carried or
\* compared.
Deliver(e) ==
    /\ inflight' = inflight \ {e}
    /\ IF e.action = "add" THEN StartRequest(e.slot, e.dev)
                           ELSE StopRequest(e.slot)
    /\ UNCHANGED <<attached, nextEv>>

HNext ==
    \/ \E e \in inflight : Deliver(e)
    \/ /\ \/ SettleAndSpawn \/ SettleTimeout \/ PollExited \/ PollRunning
          \/ ProbeOk \/ ProbeTimeout \/ GetDevices
          \/ \E p \in Pids : ProxyListens(p) \/ ProxyStartFails(p) \/ ProxyCrash(p)
       /\ UNCHANGED <<attached, inflight, nextEv>>
    \/ \E s \in Slots : PullOut(s) \/ \E d \in Devnodes : PlugIn(s, d)

HSpec == HInit /\ [][HNext]_hvars

-----------------------------------------------------------------------------
\* Every hot-plug event has been served.
Settled == inflight = {} /\ req = NoReq

\* Race safety of hot-plug (spec section 1: "reacting to hot-plug
\* add/remove events ... with race-safe generation tracking"): once every
\* event has been served, a slot whose port holds a device is running a
\* proxy for that device's node, or records why it is not.  A "remove"
\* of an earlier device served after the "add" of the current one must
\* not leave the slot silently stopped.
SlotFollowsDevice ==
    Settled =>
        \A s \in Slots :
            attached[s] # NoDev =>
                \/ running[s] /\ devnode[s] = attached[s]
                \/ last_error[s] # "none"

=============================================================================
