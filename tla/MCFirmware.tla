------------------------------ MODULE MCFirmware -----------------------------
(* Instance of the parts whose progress is at stake for TLC: the front ends, *)
(* the board with the PN7160, the ISO 14443-4 session, the NTAG 424 session  *)
(* above it and the two threads of bolty-esp32.  The parts do not touch one  *)
(* another's variables, and a behaviour is one of one part.                  *)
EXTENDS Nucula, Iso14443Session, SecureChannel, EspThreads

VARIABLE part

MCMirror == [c \in Cards |-> c]

all == <<part, nucula, vars, channelVars, threadVars>>

MCInit ==
  /\ NuculaInit /\ SessionInit /\ ChannelInit /\ ThreadsInit
  /\ \/ part \in {"nfc", "network"} /\ chip = "pn7160"
     \/ part = "front" /\ chip # "pn7160"
     \/ part \in {"session", "threads", "channel"} /\ chip = "mfrc522" /\ field = NoCard
  /\ tag.emulated => part = "channel"

MCNext ==
  /\ UNCHANGED part
  /\ \/ /\ part = "nfc" /\ (NfcNext \/ PowerCut)
        /\ UNCHANGED <<vars, channelVars, threadVars>>
     \/ /\ part = "network" /\ (NetworkNext \/ PowerCut)
        /\ UNCHANGED <<vars, channelVars, threadVars>>
     \/ /\ part = "front" /\ FrontNext
        /\ UNCHANGED <<reader, tick, inspect, evidence, activated, network>>
        /\ UNCHANGED <<vars, channelVars, threadVars>>
     \/ part = "session" /\ SessionNext /\ UNCHANGED <<nucula, channelVars, threadVars>>
     \/ part = "channel" /\ ChannelNext /\ UNCHANGED <<nucula, vars, threadVars>>
     \/ part = "threads" /\ ThreadsNext /\ UNCHANGED <<nucula, vars, channelVars>>

MCSpec == MCInit /\ [][MCNext]_all

(* The code runs on: an activation climbs, an exchange goes on, and both     *)
(* threads are scheduled as EspThreads!Fairness says.                        *)
Threads(A) == part = "threads" /\ A

MCFairSpec ==
  /\ MCSpec
  /\ WF_front(part = "front" /\ LadderStep)
  /\ WF_vars(part = "session" /\ SessionStep)
  /\ WF_threadVars(Threads(MainStep)) /\ WF_threadVars(Threads(HttpStep))
  /\ SF_threadVars(Threads(MainConfig)) /\ SF_threadVars(Threads(MainService))
  /\ SF_threadVars(Threads(Authorize)) /\ SF_threadVars(Threads(HttpConfig))
  /\ SF_threadVars(Threads(HttpService)) /\ SF_threadVars(Threads(HttpStatus))

(* Every variable of the parts keeps its type: rounds, block numbers,   *)
(* retries, jobs and locks stay within what the code provides for.           *)
FirmwareTypeOK == NuculaTypeOK /\ SessionTypeOK /\ ChannelTypeOK /\ ThreadsTypeOK

(* The reader comes back to its caller: every activation ends, with a card   *)
(* or without, and every exchange returns, whatever is lost on the way.      *)
ReaderReturns == ActivationEnds /\ ExchangeReturns
=============================================================================
