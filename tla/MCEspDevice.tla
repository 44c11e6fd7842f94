----------------------------- MODULE MCEspDevice -----------------------------
(* Instance of the parts of bolty-esp32 around the card for TLC: console,    *)
(* buttons, Bluetooth, what NVS keeps, network and firmware update.  The     *)
(* parts do not touch one another's variables, and a behaviour is one of one *)
(* part.                                                                     *)
EXTENDS EspConsole, EspButtons, EspBle, EspBoot, EspNetwork, OtaUpdate

VARIABLE part

device == <<part, console, buttonVars, bleVars, bootVars, netVars, vars>>

MCInit ==
  /\ part \in {"console", "buttons", "ble", "boot", "network", "ota"}
  /\ ConsoleInit /\ ButtonsInit /\ BleInit /\ BootInit /\ NetInit /\ OtaInit
  /\ part # "ota" => build = [path |-> "http", armed |-> FALSE]

MCNext ==
  /\ UNCHANGED part
  /\ \/ part = "console" /\ ConsoleNext /\ UNCHANGED <<buttonVars, bleVars, bootVars, netVars, vars>>
     \/ part = "buttons" /\ ButtonsNext /\ UNCHANGED <<console, bleVars, bootVars, netVars, vars>>
     \/ part = "ble" /\ BleNext /\ UNCHANGED <<console, buttonVars, bootVars, netVars, vars>>
     \/ part = "boot" /\ BootNext /\ UNCHANGED <<console, buttonVars, bleVars, netVars, vars>>
     \/ part = "network" /\ NetNext /\ UNCHANGED <<console, buttonVars, bleVars, bootVars, vars>>
     \/ part = "ota" /\ OtaNext /\ UNCHANGED <<console, buttonVars, bleVars, bootVars, netVars>>

MCSpec == MCInit /\ [][MCNext]_device

(* Every variable of the six parts keeps its type: buffers, queues, tables   *)
(* and counters of the firmware stay within the sizes that the code gives    *)
(* them.                                                                     *)
DeviceTypeOK ==
  ConsoleTypeOK /\ ButtonsTypeOK /\ BleTypeOK /\ BootTypeOK /\ NetTypeOK /\ OtaTypeOK
=============================================================================
