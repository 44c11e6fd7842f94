---------------------------- MODULE SecureChannel ----------------------------
(***************************************************************************)
(* vendor/ntag424: the session value a caller holds (Unauthenticated or    *)
(* Authenticated, with the command counter and what is selected), and the  *)
(* commands it sends, one APDU exchange per step.  Files are read and      *)
(* written in as many APDUs as their length takes.                         *)
(*                                                                         *)
(* The session is moved into most commands and only comes back with Ok.    *)
(* read_file_plain and write_file_plain borrow it, but their callers in    *)
(* bolty-ntag and bolty-cli leave with `?` and drop it all the same.       *)
(*                                                                         *)
(* The tag is external: it holds the keys of the last handshake, its own   *)
(* counter and selection, and gives up its session on any error.  MACs are *)
(* abstracted to what they are computed over: session keys and counter.    *)
(***************************************************************************)
EXTENDS Naturals, Sequences, FiniteSetsExt

CONSTANTS
  Files,           \* file ids
  NoFile,
  Sizes,           \* lengths that callers transfer
  FileSize,        \* bytes of a file
  MaxCommands,     \* bound: commands
  MaxFaults        \* bound: lost APDUs, refusals and losses of the field

ASSUME ChannelAssumption ==
  /\ NoFile \notin Files /\ Sizes \subseteq Nat /\ FileSize \in 1..256
  /\ {MaxCommands, MaxFaults} \subseteq Nat

VARIABLES
  host,      \* the session: kind, keys (number of the handshake), ctr, app, ef
  tag,       \* the card: keys, ctr, app, ef, pending (handshake begun), emulated
  cmd,       \* the command: op, file, mode, len, done (bytes), src, todo (APDUs)
  returned,  \* of the command
  fresh,     \* history: leading bytes of the file that hold the data written last
  shake,     \* history: number of the last handshake
  cause,     \* history: why a command may fail
  commands, faults

channelVars == <<host, tag, cmd, returned, fresh, shake, cause, commands, faults>>

CommModes == {"plain", "mac", "full"}
SessionOps == {"none", "read_file_unauthenticated", "write_file_unauthenticated",
               "get_file_settings", "authenticate_aes", "authenticate", "query", "update",
               "get_version", "change_master_key", "read_file", "write_file"}
Apdus == {"select", "ef", "settings", "part1", "part2", "query", "update", "version1",
          "version2", "version3", "master", "iso_read", "iso_write", "read", "write"}

SessionValue == [kind : {"gone", "unauthenticated", "authenticated"}, keys : Nat, ctr : Nat,
                 app : BOOLEAN, ef : Files \cup {NoFile}]
Tag == [keys : Nat, ctr : Nat, app : BOOLEAN, ef : Files \cup {NoFile}, pending : BOOLEAN,
        emulated : BOOLEAN]
Command == [op : SessionOps, file : Files \cup {NoFile}, mode : CommModes, len : Nat, done : Nat,
            src : SUBSET (Files \cup {NoFile}), todo : Seq(Apdus)]

ChannelTypeOK ==
  /\ host \in SessionValue /\ tag \in Tag /\ cmd \in Command
  /\ returned \in {"none", "busy", "ok", "err"} /\ cause \in {"none", "fault", "request", "behind"}
  /\ {fresh, shake, commands, faults} \subseteq Nat

(* Session::new                                                              *)
NewSession == [kind |-> "unauthenticated", keys |-> 0, ctr |-> 0, app |-> FALSE, ef |-> NoFile]
NoSession == [NewSession EXCEPT !.kind = "gone"]

PoweredUp(emulated) == [keys |-> 0, ctr |-> 0, app |-> FALSE, ef |-> NoFile, pending |-> FALSE,
                        emulated |-> emulated]

(* set_plain_advance_compat: the host's flag is the tag's kind, as its       *)
(* comment demands.                                                          *)
PLAIN_ADVANCE_COMPAT == tag.emulated

ChannelInit ==
  /\ host = NewSession /\ tag \in {PoweredUp(e) : e \in BOOLEAN}
  /\ cmd = [op |-> "none", file |-> NoFile, mode |-> "plain", len |-> 0, done |-> 0,
            src |-> {}, todo |-> <<>>]
  /\ returned = "none" /\ cause = "none"
  /\ fresh = 0 /\ shake = 0 /\ commands = 0 /\ faults = 0

------------------------------------------------------------------------------
(* How much one APDU carries                                                 *)

MAC_LEN == 8
MAX_APDU_BODY == 255
HEADER == 7

(* ISO/IEC 9797-1 Method 2: one byte at least, to a block of 16.             *)
Padded(n) == ((n + 16) \div 16) * 16

ReadChunk(m) == CASE m = "plain" -> 256 [] m = "mac" -> 248 [] m = "full" -> 239
(* Mutant: the padding of a full block is forgotten.                         *)
UnpaddedWriteChunk(m) == CASE m = "plain" -> 248 [] m = "mac" -> 240 [] m = "full" -> 240

WriteChunk(m) == CASE m = "plain" -> 248 [] m = "mac" -> 240 [] m = "full" -> 239
ISO_READ_BINARY_CHUNK == 256
ISO_UPDATE_BINARY_CHUNK == 255

Apdu == Head(cmd.todo)
Data == {"iso_read", "iso_write", "read", "write"}

Cap ==
  CASE Apdu = "read" -> ReadChunk(cmd.mode)
    [] Apdu = "write" -> WriteChunk(cmd.mode)
    [] Apdu = "iso_read" -> ISO_READ_BINARY_CHUNK
    [] Apdu = "iso_write" -> ISO_UPDATE_BINARY_CHUNK

(* Bytes asked for, or sent.  A plain read of length 0 asks for what there is.*)
ChunkLen == IF cmd.len = 0 THEN Cap ELSE Min({cmd.len - cmd.done, Cap})

Body(m, n) ==
  CASE m = "plain" -> n [] m = "mac" -> n + MAC_LEN [] m = "full" -> Padded(n) + MAC_LEN

(* validate_body_len, and the length the tag can answer with.                *)
FitsApdu ==
  CASE Apdu = "read" -> Body(cmd.mode, ChunkLen) <= 256
    [] Apdu = "write" -> HEADER + Body(cmd.mode, ChunkLen) <= MAX_APDU_BODY
    [] Apdu = "iso_read" -> ChunkLen <= 256
    [] Apdu = "iso_write" -> ChunkLen <= MAX_APDU_BODY

------------------------------------------------------------------------------
(* The tag                                                                   *)

(* A MAC is good when keys and counter agree.                                *)
Agree == tag.keys = host.keys /\ tag.ctr = host.ctr

PlainData == Apdu \in {"read", "write"} /\ cmd.mode = "plain"
SecureData == Apdu \in {"read", "write"} /\ cmd.mode # "plain"
Secure == SecureData
          \/ Apdu \in {"query", "update", "version1", "version2", "version3", "master"}

Accepts ==
  /\ Apdu # "select" => tag.app
  /\ Apdu = "part1" /\ cmd.op = "authenticate" => tag.keys = host.keys
  /\ Apdu = "part2" => tag.pending
  /\ Apdu \in {"iso_read", "iso_write"} => tag.ef # NoFile
  /\ Secure => Agree
  /\ Apdu \in Data => FitsApdu

Advanced(t) == [t EXCEPT !.ctr = @ + 1]

Reaction ==
  CASE Apdu = "select" -> [tag EXCEPT !.keys = 0, !.app = TRUE, !.ef = NoFile, !.pending = FALSE]
    [] Apdu = "ef" -> [tag EXCEPT !.ef = cmd.file]
    [] Apdu = "part1" ->
         [tag EXCEPT !.pending = TRUE, !.keys = IF cmd.op = "authenticate" THEN @ ELSE 0]
    [] Apdu = "part2" ->
         [tag EXCEPT !.pending = FALSE, !.keys = shake,
                     !.ctr = IF cmd.op = "authenticate" THEN @ ELSE 0]
    [] Apdu = "master" -> [tag EXCEPT !.keys = 0]
    [] PlainData ->
         IF tag.keys # 0 /\ ~tag.emulated THEN Advanced(tag) ELSE tag
    [] SecureData \/ Apdu \in {"query", "update", "version3"} -> Advanced(tag)
    [] OTHER -> tag

(* The bytes it returns: fewer than asked for at the end of the file.        *)
Served == Min({ChunkLen, FileSize - cmd.done})

Stores == /\ Apdu \in {"write", "iso_write"} /\ fresh = cmd.done
          /\ Apdu = "iso_write" => tag.ef = cmd.file

------------------------------------------------------------------------------
(* Commands begin.  Most of them need an authenticated session.              *)

Idle == cmd.todo = <<>>

Invoke(op, f, m, n, todo) ==
  /\ Idle /\ commands < MaxCommands /\ commands' = commands + 1
  /\ cmd' = [op |-> op, file |-> f, mode |-> m, len |-> n, done |-> 0, src |-> {}, todo |-> todo]
  /\ returned' = "busy"
  /\ cause' = IF cause = "behind" THEN cause ELSE "none"
  /\ fresh' = IF op \in {"write_file", "write_file_unauthenticated"} THEN 0 ELSE fresh
  /\ UNCHANGED <<host, tag, faults>>

(* select_ndef_application, when it is not selected yet.                     *)
SelectApp == IF host.app THEN <<>> ELSE <<"select">>

(* ef_selected: an EF is selected unless it already is; selecting the        *)
(* application forgets it.                                                   *)
SelectEf(f) == IF host.app /\ host.ef = f THEN <<>> ELSE <<"ef">>

ReadFileUnauthenticated ==
  /\ host.kind = "unauthenticated" /\ UNCHANGED shake
  /\ \E f \in Files, n \in Sizes \ {0} :
       Invoke("read_file_unauthenticated", f, "plain", n,
              SelectApp \o SelectEf(f) \o <<"iso_read">>)

WriteFileUnauthenticated ==
  /\ host.kind = "unauthenticated" /\ UNCHANGED shake
  /\ \E f \in Files, n \in Sizes \cap 1..FileSize :
       Invoke("write_file_unauthenticated", f, "plain", n,
              SelectApp \o SelectEf(f) \o <<"iso_write">>)

GetFileSettings ==
  /\ host.kind = "unauthenticated" /\ UNCHANGED shake
  /\ Invoke("get_file_settings", NoFile, "plain", 0, SelectApp \o <<"settings">>)

(* authenticate_aes: AuthenticateEV2First                                    *)
AuthenticateAes ==
  /\ host.kind = "unauthenticated" /\ shake' = shake + 1
  /\ Invoke("authenticate_aes", NoFile, "plain", 0, SelectApp \o <<"part1", "part2">>)

(* authenticate: AuthenticateEV2NonFirst, inside the session                 *)
Authenticate ==
  /\ host.kind = "authenticated" /\ shake' = shake + 1
  /\ Invoke("authenticate", NoFile, "plain", 0, <<"part1", "part2">>)

(* One MACed or encrypted exchange: a query is answered with data, an update *)
(* (ChangeKey, ChangeFileSettings) with the MAC alone.                       *)
Query ==
  /\ host.kind = "authenticated" /\ UNCHANGED shake
  /\ Invoke("query", NoFile, "mac", 0, <<"query">>)

Update ==
  /\ host.kind = "authenticated" /\ UNCHANGED shake
  /\ Invoke("update", NoFile, "full", 0, <<"update">>)

(* get_version_mac: three frames, and one MAC over all of them               *)
GetVersion ==
  /\ host.kind = "authenticated" /\ UNCHANGED shake
  /\ Invoke("get_version", NoFile, "mac", 0, <<"version1", "version2", "version3">>)

ChangeMasterKey ==
  /\ host.kind = "authenticated" /\ UNCHANGED shake
  /\ Invoke("change_master_key", NoFile, "full", 0, <<"master">>)

(* read_file_with_mode, read_file_plain                                      *)
ReadFile ==
  /\ host.kind = "authenticated" /\ UNCHANGED shake
  /\ \E m \in CommModes, n \in Sizes :
       (n = 0 => m = "plain") /\ Invoke("read_file", NoFile, m, n, <<"read">>)

(* write_file_with_mode, write_file_plain                                    *)
WriteFile ==
  /\ host.kind = "authenticated" /\ UNCHANGED shake
  /\ \E m \in CommModes, n \in Sizes \cap 1..FileSize :
       Invoke("write_file", NoFile, m, n, <<"write">>)

(* An empty write is refused before anything is sent.                        *)
EmptyWrite ==
  /\ host.kind = "authenticated" /\ Idle /\ commands < MaxCommands /\ 0 \in Sizes
  /\ commands' = commands + 1 /\ returned' = "err" /\ cause' = "request" /\ host' = NoSession
  /\ UNCHANGED <<tag, cmd, fresh, shake, faults>>

(* The caller drops what session it has, and starts again.                   *)
StartAgain ==
  /\ Idle /\ host # NewSession
  /\ host' = NewSession /\ cause' = "none" /\ returned' = "none"
  /\ UNCHANGED <<tag, cmd, fresh, shake, commands, faults>>
------------------------------------------------------------------------------
(* An APDU is answered                                                       *)

(* The commands of an unauthenticated session borrow it, the others do not   *)
(* give it back.                                                             *)
Borrowed == {"read_file_unauthenticated", "write_file_unauthenticated", "get_file_settings"}

Abandon(why) ==
  /\ returned' = "err" /\ cmd' = [cmd EXCEPT !.todo = <<>>]
  /\ cause' = IF cause = "none" THEN why ELSE cause
  /\ host' = IF cmd.op \in Borrowed THEN host ELSE NoSession

(* The command goes on with the next APDU, or returns Ok.                    *)
Proceed(c, h) ==
  /\ cmd' = c /\ host' = h
  /\ returned' = IF c.todo = <<>> THEN "ok" ELSE returned
  /\ UNCHANGED cause

Done(c) == [c EXCEPT !.todo = Tail(@)]

(* A u16, which wraps; no caller sends 2^16 commands in one session.         *)
advance_counter(h) == [h EXCEPT !.ctr = @ + 1]

(* verify_response_mac_and_advance: the MAC is over the next counter.  A     *)
(* bare status is taken for one where the flag allows it.                    *)
Verified(bare, c) ==
  IF bare \/ (Reaction.keys = host.keys /\ Reaction.ctr = host.ctr + 1)
    THEN Proceed(c, advance_counter(host))
    ELSE Abandon("none")

OnSelected ==
  \/ Apdu = "select" /\ Proceed(Done(cmd), [host EXCEPT !.app = TRUE, !.ef = NoFile])
  \/ Apdu = "ef" /\ Proceed(Done(cmd), [host EXCEPT !.ef = cmd.file])
  \/ Apdu = "settings" /\ Proceed(Done(cmd), host)

(* with_auth_result, non_first_with_auth_result                              *)
OnAuthenticated ==
  \/ Apdu = "part1" /\ Proceed(Done(cmd), host)
  \/ /\ Apdu = "part2" /\ cmd.op = "authenticate_aes"
     /\ Proceed(Done(cmd), [host EXCEPT !.kind = "authenticated", !.keys = shake, !.ctr = 0,
                                        !.app = TRUE])
  \/ Apdu = "part2" /\ cmd.op = "authenticate" /\ Proceed(Done(cmd), [host EXCEPT !.keys = shake])

(* Frames of a chain and the answer to ChangeKey of the master bear no MAC.  *)
OnCommand(bare) ==
  \/ Apdu \in {"version1", "version2"} /\ ~bare /\ Proceed(Done(cmd), host)
  \/ Apdu = "master" /\ ~bare /\ Proceed(Done(cmd), NewSession)
  \/ Apdu \in {"query", "version3"} /\ ~bare /\ Verified(FALSE, Done(cmd))
  \/ Apdu \in {"query", "version3"} /\ bare /\ Abandon("fault")
  \/ Apdu = "update" /\ Verified(bare, Done(cmd))

(* One chunk is read: a short one is the end of the file.                    *)
Took(n) ==
  LET c == [cmd EXCEPT !.done = @ + n, !.src = @ \cup {tag.ef}]
  IN IF n < ChunkLen \/ cmd.len = 0 \/ c.done = cmd.len THEN Done(c) ELSE c

Put ==
  LET c == [cmd EXCEPT !.done = @ + ChunkLen]
  IN IF c.done = cmd.len THEN Done(c) ELSE c

(* Mutant: the counter stays put on a plain exchange.                        *)
PlainStaysPut == host

(* read_file_plain_chunked, write_file_plain_chunked                         *)
AfterPlain == IF PLAIN_ADVANCE_COMPAT THEN host ELSE advance_counter(host)

(* iso_read_binary, iso_update_binary                                        *)
IsoRead == Apdu = "iso_read" /\ Proceed(Took(Served), host)
IsoWrite == Apdu = "iso_write" /\ Proceed(Put, host)

(* read_data_plain, write_data_plain                                         *)
PlainRead == Apdu = "read" /\ cmd.mode = "plain" /\ Proceed(Took(Served), AfterPlain)
PlainWrite == Apdu = "write" /\ cmd.mode = "plain" /\ Proceed(Put, AfterPlain)

(* read_data_mac: a bare status is an empty answer, and so the end of file.  *)
MacRead(bare) ==
  Apdu = "read" /\ cmd.mode = "mac" /\ Verified(bare, Took(IF bare THEN 0 ELSE Served))

(* read_data_full: the answer must have the length that was asked for.       *)
FullRead(bare) ==
  /\ Apdu = "read" /\ cmd.mode = "full"
  /\ IF bare \/ Served # ChunkLen THEN Abandon("request") ELSE Verified(FALSE, Took(Served))

(* write_data_mac, write_data_full                                           *)
SecureWrite(bare) == Apdu = "write" /\ cmd.mode # "plain" /\ Verified(bare, Put)

OnData(bare) ==
  \/ ~bare /\ (IsoRead \/ IsoWrite \/ PlainRead \/ PlainWrite)
  \/ MacRead(bare) \/ FullRead(bare) \/ SecureWrite(bare)

Write == fresh' = IF Stores THEN cmd.done + ChunkLen ELSE fresh

Replied ==
  /\ ~Idle /\ Accepts
  /\ \/ OnSelected \/ OnAuthenticated
     \/ \E bare \in {FALSE, tag.emulated} : OnCommand(bare) \/ OnData(bare)
  /\ tag' = Reaction /\ Write
  /\ UNCHANGED <<shake, commands, faults>>

(* The tag gives up its session with any error it answers.                   *)
Errs == [tag EXCEPT !.keys = 0, !.pending = FALSE]

(* What the tag cannot accept: nothing but the state of the two decides.     *)
Rejected ==
  /\ ~Idle /\ ~Accepts
  /\ tag' = Errs /\ Abandon("none")
  /\ UNCHANGED <<fresh, shake, commands, faults>>

Fault(why) == /\ ~Idle /\ faults < MaxFaults /\ faults' = faults + 1 /\ Abandon(why)
              /\ UNCHANGED <<shake, commands>>

(* A wrong key, access denied, a parameter out of range                      *)
Refused == Fault("fault") /\ tag' = Errs /\ UNCHANGED fresh

RequestLost == Fault("fault") /\ UNCHANGED <<tag, fresh>>

(* Of an EF whose selection was not answered the session knows nothing: it   *)
(* still holds the one before for selected.                                  *)
ReplyLost ==
  /\ Fault(IF Apdu = "ef" THEN "behind" ELSE "fault")
  /\ Accepts /\ tag' = Reaction /\ Write

(* The tag leaves the field for a moment: only its files survive.            *)
FieldLost ==
  /\ faults < MaxFaults /\ faults' = faults + 1
  /\ tag' = PoweredUp(tag.emulated) /\ cause' = "behind"
  /\ UNCHANGED <<host, cmd, returned, fresh, shake, commands>>

ChannelNext ==
  \/ ReadFileUnauthenticated \/ WriteFileUnauthenticated \/ GetFileSettings \/ AuthenticateAes
  \/ Authenticate \/ Query \/ Update \/ GetVersion \/ ChangeMasterKey \/ ReadFile \/ WriteFile
  \/ EmptyWrite \/ StartAgain
  \/ Replied \/ Rejected \/ Refused \/ RequestLost \/ ReplyLost \/ FieldLost

ChannelSpec == ChannelInit /\ [][ChannelNext]_channelVars
------------------------------------------------------------------------------
(* Properties                                                                *)

(* As long as tag and session hold the keys of the same handshake their      *)
(* counters agree, between any two APDUs: through plain, MACed and encrypted *)
(* exchanges, chains of frames and authentication inside the session.  A     *)
(* command that may or may not have been executed leaves no session.         *)
InStep == host.kind = "authenticated" /\ tag.keys = host.keys => tag.ctr = host.ctr

(* What a session believes to be selected is selected, unless the tag lost   *)
(* its power behind its back or selected an EF without its being told.       *)
SelectionIsTrue ==
  cause # "behind" =>
    /\ host.app => tag.app
    /\ host.ef # NoFile => tag.ef = host.ef

(* A session is good for the next command.                                   *)
ChannelInStep == InStep /\ SelectionIsTrue

(* Ok means that the whole of the data was written, in APDUs that each fit,  *)
(* or that the file asked for was read up to the length asked for or to its  *)
(* end (an emulated tag that answers a MACed read with a bare status         *)
(* excepted); and nothing but a fault or an impossible request makes a       *)
(* command fail.                                                             *)
TransfersAreWhole ==
  /\ returned = "ok" =>
       /\ cmd.op = "write_file" => fresh = cmd.len
       /\ cmd.op = "write_file_unauthenticated" => fresh = cmd.len \/ cause = "behind"
       /\ cmd.op = "read_file_unauthenticated" => cmd.src = {cmd.file} \/ cause = "behind"
       /\ cmd.op \in {"read_file", "read_file_unauthenticated"} =>
            \/ cmd.done = IF cmd.len = 0 THEN FileSize ELSE Min({cmd.len, FileSize})
            \/ tag.emulated /\ cmd.mode = "mac"
  /\ returned = "err" => cause # "none"
==============================================================================
