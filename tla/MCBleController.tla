--------------------------- MODULE MCBleController ---------------------------
(* Two caller threads, two peripherals, three BleakClient objects.         *)
EXTENDS BleController, TLC

CONSTANTS t1, t2, a1, a2
=============================================================================
