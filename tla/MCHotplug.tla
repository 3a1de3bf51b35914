------------------------------ MODULE MCHotplug ------------------------------
(* Hotplug for TLC: two slots, two device nodes, three hot-plug events.    *)
EXTENDS Hotplug, PortalConfig, TLC

CONSTANTS s1, s2, ttyUSB0, ttyUSB1

\* slots.json with distinct ports, loaded by _load_config.
HotplugJson == << [label |-> "A", slot_key |-> s1, tcp_port |-> 4001],
                  [label |-> "B", slot_key |-> s2, tcp_port |-> 4002] >>

MCHotplugPort == LoadConfig(HotplugJson)
MCHotplugSlots == DOMAIN MCHotplugPort

=============================================================================
