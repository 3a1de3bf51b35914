-------------------------- MODULE MCSlotSupervisor --------------------------
(* Instances of SlotSupervisor for TLC: two slots, two device nodes.  The *)
(* slots and their ports are what _load_config makes of a slots.json.    *)
EXTENDS SlotSupervisor, PortalConfig, TLC

CONSTANTS s1, s2, ttyUSB0, ttyUSB1

Entry(label, key, port) == [label |-> label, slot_key |-> key, tcp_port |-> port]

\* slots.json with distinct ports, as the spec requires.
SlotsJson == << Entry("A", s1, 4001), Entry("B", s2, 4002) >>

\* slots.json in which two slots name the same port; _load_config
\* accepts it.
SlotsJsonShared == << Entry("A", s1, 4001), Entry("B", s2, 4001) >>

MCTcpPort == LoadConfig(SlotsJson)
MCTcpPortShared == LoadConfig(SlotsJsonShared)
MCSlots == DOMAIN MCTcpPort

\* Every slots.json of up to three entries over two slots, two ports and
\* a malformed entry, and a missing file.
ConfigFiles ==
    {NoFile} \cup
    UNION {[1..n -> {Entry("A", s1, 4001), Entry("B", s2, 4001),
                     Entry("C", s1, 4002), Malformed}] : n \in 0..3}

\* _load_config keeps the entries before the first malformed one, a later
\* entry of a slot_key replacing an earlier one, and a missing or broken
\* file leaves no slots: the recursive loop agrees with that statement on
\* every file of ConfigFiles.  TLC checks it before every run of this
\* module.
ASSUME \A f \in ConfigFiles : LoadConfig(f) = LoadConfigRef(f)

DevSymmetry == Permutations({ttyUSB0, ttyUSB1})
=============================================================================
