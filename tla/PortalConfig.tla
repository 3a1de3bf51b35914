---------------------------- MODULE PortalConfig ----------------------------
(***************************************************************************)
(* Portal._load_config (src/pi/portal_v2.py): the slots.json file read at *)
(* start-up into self.slots, slot_key -> SlotState.  Only slot_key and     *)
(* tcp_port matter to the supervisor; the label only indexes               *)
(* slots_by_label.  An entry is a record, or Malformed when it lacks one  *)
(* of its keys (slot_cfg['label'] raises KeyError).  NoFile is a missing   *)
(* or unparsable file.                                                     *)
(***************************************************************************)
EXTENDS Naturals, Sequences, TLC

CONSTANTS
    Malformed,   \* an entry without label, slot_key or tcp_port
    NoFile       \* FileNotFoundError, or json.load failing

\* The empty self.slots.
NoSlots == [k \in {} |-> 0]

\* The loop over config['slots']: each entry replaces the slot of its
\* slot_key; the first malformed entry raises, the handler only logs, and
\* the slots loaded before it stay.
RECURSIVE LoadSlots(_, _)
LoadSlots(entries, slots) ==
    IF entries = <<>> \/ Head(entries) = Malformed
       THEN slots
       ELSE LoadSlots(Tail(entries),
                      (Head(entries).slot_key :> Head(entries).tcp_port) @@ slots)

\* _load_config: [slot_key -> tcp_port] of the slots the portal serves.
LoadConfig(file) == IF file = NoFile THEN NoSlots ELSE LoadSlots(file, NoSlots)

\* What the loop computes, stated without recursion: the entries before
\* the first malformed one are loaded, and a slot_key's port is that of
\* its last entry among them.
LoadConfigRef(file) ==
    IF file = NoFile THEN NoSlots
    ELSE LET bad  == {i \in 1..Len(file) : file[i] = Malformed}
             stop == IF bad = {} THEN Len(file) + 1
                     ELSE CHOOSE i \in bad : \A j \in bad : i <= j
             read == 1..(stop - 1)
             keys == {file[i].slot_key : i \in read}
             last(k) == CHOOSE i \in read :
                           /\ file[i].slot_key = k
                           /\ \A j \in read : file[j].slot_key = k => j <= i
         IN [k \in keys |-> file[last(k)].tcp_port]

=============================================================================
