-------------------------------- MODULE EspBle -------------------------------
(***************************************************************************)
(* The BLE transport of bolty-esp32 (ble.rs): the GATT server is built up  *)
(* in the callbacks of the Bluetooth task, each of which asks the stack    *)
(* for the next piece; clients connect, subscribe and write commands in    *)
(* further callbacks; the main loop waits at boot for the server, then     *)
(* takes commands from the queue, runs them (process_ble_command) and      *)
(* notifies the subscribers.                                               *)
(*                                                                         *)
(* External: the Bluetooth stack.  It may refuse any request; whether it   *)
(* still advertises once a client has connected is left open.              *)
(***************************************************************************)
EXTENDS Naturals, Sequences, Functions

CONSTANTS
  Peers,             \* clients
  MAX_CONNECTIONS,
  CMD_QUEUE_SIZE,
  MaxWrites          \* bound: commands written

ASSUME BleAssumption == {MAX_CONNECTIONS, CMD_QUEUE_SIZE, MaxWrites} \subseteq Nat \ {0}

VARIABLES
  handles,      \* which of State's handles are known
  events,       \* what the stack has still to report
  advertising,
  linked,       \* the clients connected, as the stack sees it
  connections,  \* State.connections: peer, subscribed
  commands,     \* State.cmd_queue: commands by their number
  bleLoop,      \* the main loop: at, the command taken, the peers to notify
  written,      \* history: commands written so far
  run,          \* history: the commands taken, in order
  refused       \* history: the clients that connected to a full table

gatt   == <<handles, events, advertising>>
peers  == <<linked, connections, refused>>
bleVars == <<gatt, peers, commands, bleLoop, written, run>>

Handles == {"if", "service", "cmd", "rsp", "cccd"}
Reports == {"registered", "advConfigured", "serviceCreated", "cmdAdded", "rspAdded",
            "cccdAdded"}

BleTypeOK ==
  /\ handles \subseteq Handles /\ events \in Seq(Reports) /\ advertising \in BOOLEAN
  /\ linked \subseteq Peers /\ refused \subseteq Peers
  /\ connections \in Seq([peer : Peers, subscribed : BOOLEAN])
  /\ Len(connections) <= MAX_CONNECTIONS /\ Len(commands) <= CMD_QUEUE_SIZE
  /\ bleLoop \in [at : {"down", "wait", "loop", "answer"}, to : SUBSET Peers]
  /\ written \in 0..MaxWrites

BleInit ==
  /\ handles = {} /\ events = <<>> /\ advertising = FALSE
  /\ linked = {} /\ connections = <<>> /\ refused = {}
  /\ commands = <<>> /\ bleLoop = [at |-> "down", to |-> {}]
  /\ written = 0 /\ run = <<>>

------------------------------------------------------------------------------
(* The Bluetooth task                                                        *)

(* BleTransport::start: the application is registered; without the driver,   *)
(* or when the registration fails, there is no transport.                    *)
StartBle ==
  /\ bleLoop.at = "down" /\ events = <<>>
  /\ bleLoop' = [bleLoop EXCEPT !.at = "wait"] /\ events' = <<"registered">>
  /\ UNCHANGED <<handles, advertising, peers, commands, written, run>>

(* A callback learns handles and makes requests, which lead to reports, in   *)
(* this order; the first that fails ends it.                                 *)
Learns(new, requests) ==
  /\ handles' = handles \cup new
  /\ \E n \in 0..Len(requests) : events' = Tail(events) \o SubSeq(requests, 1, n)

(* CharacteristicAdded for the response characteristic, of the service that  *)
(* was created.                                                              *)
RspAdded ==
  IF "service" \in handles THEN Learns({"rsp"}, <<"cccdAdded">>) ELSE Learns({}, <<>>)

CmdAdded == Learns(IF "service" \in handles THEN {"cmd"} ELSE {}, <<>>)

(* on_gatts_event, on_gap_event for the reports of the stack; a report may   *)
(* also be of a failure.                                                     *)
OnReport ==
  /\ events # <<>>
  /\ \/ CASE Head(events) = "registered"     -> Learns({"if"}, <<"advConfigured", "serviceCreated">>)
          [] Head(events) = "serviceCreated" -> Learns({"service"}, <<"cmdAdded", "rspAdded">>)
          [] Head(events) = "cmdAdded"       -> CmdAdded
          [] Head(events) = "rspAdded"       -> RspAdded
          [] Head(events) = "cccdAdded"      -> Learns({"cccd"}, <<>>)
          [] OTHER                           -> Learns({}, <<>>)
     \/ Learns({}, <<>>)
  /\ \/ Head(events) = "advConfigured" /\ advertising' = TRUE
     \/ UNCHANGED advertising
  /\ UNCHANGED <<peers, commands, bleLoop, written, run>>

(* Mutant: the table takes one more than it can.                             *)
PeerConnectedOver(p) ==
  /\ advertising /\ p \notin linked /\ linked' = linked \cup {p}
  /\ advertising' \in BOOLEAN
  /\ connections' = Append(connections, [peer |-> p, subscribed |-> FALSE])
  /\ UNCHANGED <<handles, events, refused, commands, bleLoop, written, run>>

(* PeerConnected: a connection beyond the table's capacity is not recorded.  *)
PeerConnected(p) ==
  /\ advertising /\ p \notin linked /\ linked' = linked \cup {p}
  /\ advertising' \in BOOLEAN
  /\ IF Len(connections) < MAX_CONNECTIONS
       THEN /\ connections' = Append(connections, [peer |-> p, subscribed |-> FALSE])
            /\ UNCHANGED refused
       ELSE refused' = refused \cup {p} /\ UNCHANGED connections
  /\ UNCHANGED <<handles, events, commands, bleLoop, written, run>>

(* position: the first entry of the client in the table, or 0.               *)
Index(p) ==
  LET entries == {i \in 1..Len(connections) : connections[i].peer = p}
  IN  IF entries = {} THEN 0 ELSE CHOOSE i \in entries : \A j \in entries : i <= j

(* swap_remove: the last takes the place of the one removed.                 *)
SwapRemove(s, i) == SubSeq([s EXCEPT ![i] = s[Len(s)]], 1, Len(s) - 1)

(* Mutant: the last is removed instead.                                      *)
PeerDisconnectedPops(p) ==
  /\ p \in linked /\ linked' = linked \ {p} /\ refused' = refused \ {p}
  /\ connections' = IF Index(p) = 0 THEN connections ELSE SubSeq(connections, 1, Len(connections) - 1)
  /\ UNCHANGED <<gatt, commands, bleLoop, written, run>>

PeerDisconnected(p) ==
  /\ p \in linked /\ linked' = linked \ {p} /\ refused' = refused \ {p}
  /\ connections' = IF Index(p) = 0 THEN connections ELSE SwapRemove(connections, Index(p))
  /\ UNCHANGED <<gatt, commands, bleLoop, written, run>>

(* Write to the descriptor: subscribes the connection, if it is known.       *)
WriteCccd(p, on) ==
  /\ p \in linked /\ "cccd" \in handles /\ Index(p) # 0
  /\ connections' = [connections EXCEPT ![Index(p)].subscribed = on]
  /\ UNCHANGED <<gatt, linked, refused, commands, bleLoop, written, run>>

(* Write to the command characteristic: queued, or dropped by a full queue;  *)
(* the client is answered Ok either way.                                     *)
WriteCommand(p) ==
  /\ p \in linked /\ "cmd" \in handles /\ written < MaxWrites /\ written' = written + 1
  /\ commands' = IF Len(commands) < CMD_QUEUE_SIZE THEN Append(commands, written')
                 ELSE commands
  /\ UNCHANGED <<gatt, peers, bleLoop, run>>

------------------------------------------------------------------------------
(* The main loop                                                             *)

(* wait_for_ready: until both ends are there, or the time is over.           *)
Ready == {"cmd", "cccd"} \subseteq handles

WaitForReady ==
  /\ bleLoop.at = "wait" /\ bleLoop' = [bleLoop EXCEPT !.at = "loop"]
  /\ UNCHANGED <<gatt, peers, commands, written, run>>

(* Mutant: commands are taken from the back.                                 *)
TakeBack ==
  /\ bleLoop.at = "loop" /\ commands # <<>>
  /\ commands' = SubSeq(commands, 1, Len(commands) - 1)
  /\ run' = Append(run, commands[Len(commands)])
  /\ bleLoop' = [bleLoop EXCEPT !.at = "answer"]
  /\ UNCHANGED <<gatt, peers, written>>

(* poll_command and process_ble_command.                                     *)
TakeCommand ==
  /\ bleLoop.at = "loop" /\ commands # <<>>
  /\ commands' = Tail(commands) /\ run' = Append(run, Head(commands))
  /\ bleLoop' = [bleLoop EXCEPT !.at = "answer"]
  /\ UNCHANGED <<gatt, peers, written>>

Subscribers == {connections[i].peer : i \in {j \in DOMAIN connections : connections[j].subscribed}}

(* send_response: the subscribers are collected, and notified after the lock *)
(* is released; without the handles there is no answer.                      *)
CollectSubscribers ==
  /\ bleLoop.at = "answer" /\ bleLoop.to = {}
  /\ IF {"if", "rsp"} \subseteq handles /\ Subscribers # {}
       THEN bleLoop' = [bleLoop EXCEPT !.to = Subscribers]
       ELSE bleLoop' = [at |-> "loop", to |-> {}]
  /\ UNCHANGED <<gatt, peers, commands, written, run>>

Notify(p) ==
  /\ p \in bleLoop.to
  /\ bleLoop' = IF bleLoop.to = {p} THEN [at |-> "loop", to |-> {}]
                ELSE [bleLoop EXCEPT !.to = @ \ {p}]
  /\ UNCHANGED <<gatt, peers, commands, written, run>>

BleNext ==
  \/ StartBle \/ OnReport \/ WaitForReady \/ TakeCommand \/ CollectSubscribers
  \/ \E p \in Peers :
       \/ PeerConnected(p) \/ PeerDisconnected(p) \/ WriteCommand(p) \/ Notify(p)
       \/ \E on \in BOOLEAN : WriteCccd(p, on)

BleSpec == BleInit /\ [][BleNext]_bleVars
------------------------------------------------------------------------------
(* Properties                                                                *)

(* A server that wait_for_ready finds ready can also answer: the interface   *)
(* and the response characteristic, without which send_response silently     *)
(* returns, are known by then.                                               *)
ReadyCanAnswer == Ready => {"if", "service", "rsp"} \subseteq handles

(* The table of connections has each client that is connected once, and no   *)
(* other, save those that found it full: no answer goes to a client that     *)
(* left, and whoever leaves takes nobody else's entry along.                 *)
ConnectionsAreLinked ==
  /\ \A i, j \in DOMAIN connections : connections[i].peer = connections[j].peer => i = j
  /\ {connections[i].peer : i \in DOMAIN connections} = linked \ refused

(* Commands are run in the order they were written, each once at most, and   *)
(* whatever is dropped, is younger than what was queued at that time.        *)
RunInOrder ==
  LET all == run \o commands IN
  /\ \A i, j \in DOMAIN all : i < j => all[i] < all[j]
  /\ \A n \in 1..written : n <= CMD_QUEUE_SIZE => n \in Range(all)

(* The callbacks keep the server sound in whatever order they come: ready    *)
(* means able to answer, the table is that of the clients, and commands run  *)
(* in the order they were written.                                           *)
ServesClients == ReadyCanAnswer /\ ConnectionsAreLinked /\ RunInOrder
=============================================================================
