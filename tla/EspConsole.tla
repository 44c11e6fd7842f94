------------------------------ MODULE EspConsole -----------------------------
(***************************************************************************)
(* The serial console of bolty-esp32, byte by byte: the line assembler     *)
(* (console_framing.rs), the words the main loop takes for itself, and the *)
(* parser of the others (commands.rs).                                     *)
(*                                                                         *)
(* A symbol is a word with the blank that separates it from the next, a    *)
(* blank of its own, or an end of line.  The words stand for classes:      *)
(* "hex" for a key of 32 digits, "text" for any other argument that fits,  *)
(* "long" for one that fits no fixed-size string, "uber" for one with a    *)
(* byte above 0x7F, which takes two bytes of the line.  The commands       *)
(* without arguments are the class "plain"; hwtest and provision-cert are  *)
(* matched as crashlog is, grove as force is.                              *)
(***************************************************************************)
EXTENDS Naturals, Sequences, FiniteSets

CONSTANTS
  MAX_LINE_LEN,   \* capacity of a line, in symbols
  KeyArgs         \* how many keys `keys` takes

ASSUME ConsoleAssumption == MAX_LINE_LEN \in Nat /\ KeyArgs \in 1..MAX_LINE_LEN

VARIABLES
  assembler,   \* LineAssembler: line, discarding, done
  answer,      \* what the last byte led to
  typed,       \* history: the line the host is sending, or that it is overlong
  sent,        \* history: the line the host has just ended
  faults       \* history: "command too long" reported for the line being sent

console == <<assembler, answer, typed, sent, faults>>

PreDispatch == {"crashlog", "force", "provision-ota-key"}
Heads == {"plain", "keys", "issuer", "url", "wifi", "ota", "button-mode", "token"} \cup PreDispatch
Args  == {"hex", "text", "long", "uber", "on", "off", "legacy"}
Words == Heads \cup Args
Blank == " "
Bytes == Words \cup {Blank, "\r", "\n"}

Nothing    == [kind |-> "nothing"]
Fail(err)  == [kind |-> "fail", err |-> err]
Run(line)  == [kind |-> "run", line |-> line]

(* Bytes of the line that the symbols take.                                  *)
Width(s) == Len(s) + Cardinality({i \in DOMAIN s : s[i] = "uber"})

ConsoleTypeOK ==
  /\ assembler.line \in Seq(Words \cup {Blank}) /\ Width(assembler.line) <= MAX_LINE_LEN
  /\ {assembler.discarding, assembler.done} \subseteq BOOLEAN
  /\ answer.kind \in {"nothing", "fail", "run"}
  /\ faults \in Nat

ConsoleInit ==
  /\ assembler = [line |-> <<>>, discarding |-> FALSE, done |-> FALSE]
  /\ answer = Nothing /\ typed = <<>> /\ sent = <<>> /\ faults = 0

------------------------------------------------------------------------------
(* The parsers                                                               *)

Fits(a)  == a # "long"
IsHex(a) == a = "hex"

(* Surplus arguments.                                                        *)
Then(args, n, line) == IF Len(args) > n THEN Fail("InvalidArgs") ELSE Run(line)

ParseToken(line, args) ==
  IF Len(args) > 1 THEN Fail("InvalidArgs")
  ELSE IF args = <<>> THEN Fail("MissingArgs")
  ELSE IF Fits(args[1]) THEN Run(line) ELSE Fail("InvalidArgs")

(* The keys are taken one by one; the first that is missing or malformed     *)
(* decides.                                                                  *)
ParseKeys(line, args) ==
  LET bad == {i \in 1..KeyArgs : i > Len(args) \/ ~IsHex(args[i])}
      first == CHOOSE i \in bad : \A j \in bad : i <= j
  IN IF bad = {} THEN Then(args, KeyArgs, line)
     ELSE Fail(IF first > Len(args) THEN "MissingArgs" ELSE "InvalidArgs")

(* issuer, button-mode: none, to ask, or one of the right kind.              *)
ParseOptional(line, args, good) ==
  IF args = <<>> THEN Run(line)
  ELSE IF args[1] \notin good THEN Fail("InvalidArgs") ELSE Then(args, 1, line)

ParseUrl(line, args) ==
  IF args = <<>> THEN Fail("MissingArgs")
  ELSE IF Len(args) = 1 /\ Fits(args[1]) THEN Run(line) ELSE Fail("InvalidArgs")

(* ota, and wifi with a network.                                             *)
ParseTwo(line, args) ==
  IF Len(args) < 2 THEN Fail("MissingArgs")
  ELSE IF Len(args) = 2 /\ Fits(args[1]) /\ Fits(args[2]) THEN Run(line)
  ELSE Fail("InvalidArgs")

ParseWifi(line, args) ==
  IF args # <<>> /\ args[1] = "off" THEN Then(args, 1, line) ELSE ParseTwo(line, args)

ParseCommand(line) ==
  IF line = <<>> THEN Fail("UnknownCommand")
  ELSE LET args == Tail(line) IN
    CASE line[1] = "plain"       -> Then(args, 0, line)
      [] line[1] = "keys"        -> ParseKeys(line, args)
      [] line[1] = "issuer"      -> ParseOptional(line, args, {"hex"})
      [] line[1] = "url"         -> ParseUrl(line, args)
      [] line[1] = "wifi"        -> ParseWifi(line, args)
      [] line[1] = "ota"         -> ParseTwo(line, args)
      [] line[1] = "button-mode" -> ParseOptional(line, args, {"legacy"})
      [] line[1] = "token"       -> ParseToken(line, args)
      [] OTHER                   -> Fail("UnknownCommand")

(* parse_pre_dispatch_command: the rest of the line is one argument.         *)
ParsePreDispatch(line) ==
  /\ line # <<>>
  /\ \/ line[1] = "crashlog" /\ Len(line) = 1
     \/ line[1] = "provision-ota-key" /\ Len(line) > 1
     \/ line[1] = "force" /\ (Len(line) = 1 \/ Tail(line) \in {<<"on">>, <<"off">>})

(* split_ascii_whitespace                                                    *)
WordsOf(text) ==
  LET of[n \in 0..Len(text)] ==
        IF n = 0 THEN <<>>
        ELSE IF text[n] = Blank THEN of[n - 1] ELSE Append(of[n - 1], text[n])
  IN of[Len(text)]

(* A line of the main loop.                                                  *)
Dispatch(text) ==
  LET line == WordsOf(text)
  IN IF ParsePreDispatch(line) THEN Run(line) ELSE ParseCommand(line)

------------------------------------------------------------------------------
(* LineAssembler::feed.  A line that was handed out is cleared first.        *)

Begun == IF assembler.done THEN <<>> ELSE assembler.line

Set(line, discarding, done) ==
  assembler' = [line |-> line, discarding |-> discarding, done |-> done]

EndOfLine ==
  IF assembler.discarding THEN Set(Begun, FALSE, FALSE) /\ answer' = Nothing
  ELSE IF Begun = <<>> THEN Set(Begun, FALSE, FALSE) /\ answer' = Nothing
  ELSE Set(Begun, FALSE, TRUE) /\ answer' = Dispatch(Begun)

(* Mutant: the excess symbol is dropped, and what follows is a new line.     *)
PushResuming(b) ==
  IF Width(Append(Begun, b)) > MAX_LINE_LEN
    THEN Set(<<>>, FALSE, FALSE) /\ answer' = Fail("too long")
    ELSE Set(Append(Begun, b), FALSE, FALSE) /\ answer' = Nothing

(* Mutant: the line is kept, so that the next byte overflows it again.       *)
PushKeeping(b) ==
  IF assembler.discarding \/ Width(Append(Begun, b)) > MAX_LINE_LEN
    THEN Set(<<>>, TRUE, FALSE) /\ answer' = Fail("too long")
    ELSE Set(Append(Begun, b), FALSE, FALSE) /\ answer' = Nothing

Push(b) ==
  IF assembler.discarding THEN Set(Begun, TRUE, FALSE) /\ answer' = Nothing
  ELSE IF Width(Append(Begun, b)) > MAX_LINE_LEN
    THEN Set(<<>>, TRUE, FALSE) /\ answer' = Fail("too long")
    ELSE Set(Append(Begun, b), FALSE, FALSE) /\ answer' = Nothing

(* Mutant: the line that was handed out is not cleared.                      *)
FeedOn(b) ==
  IF b \in Words \cup {Blank}
    THEN IF Width(Append(assembler.line, b)) > MAX_LINE_LEN
           THEN Set(<<>>, TRUE, FALSE) /\ answer' = Fail("too long")
           ELSE Set(Append(assembler.line, b), assembler.discarding, FALSE) /\ answer' = Nothing
    ELSE IF b = "\n" THEN EndOfLine ELSE UNCHANGED <<assembler, answer>>

Feed(b) ==
  CASE b = "\r" -> Set(Begun, assembler.discarding, FALSE) /\ answer' = Nothing
    [] b = "\n" -> EndOfLine
    [] OTHER    -> Push(b)

Overlong(s) == Width(s) > MAX_LINE_LEN
Excess == [i \in 1..MAX_LINE_LEN + 1 |-> Blank]

Receive(b) ==
  /\ Feed(b)
  /\ sent' = IF b = "\n" THEN typed ELSE <<>>
  /\ typed' = IF b = "\n" THEN <<>>
              ELSE IF b = "\r" THEN typed
              ELSE IF Overlong(Append(typed, b)) THEN Excess ELSE Append(typed, b)
  /\ faults' = (IF typed = <<>> THEN 0 ELSE faults)
               + IF answer' = Fail("too long") THEN 1 ELSE 0

ConsoleNext == \E b \in Bytes : Receive(b)

ConsoleSpec == ConsoleInit /\ [][ConsoleNext]_console

------------------------------------------------------------------------------
(* Properties                                                                *)

(* The command table of docs/serial-host-protocol.md: for each word, the     *)
(* argument lists that it documents.                                         *)
Fitting == Args \ {"long"}
Table ==
  [h \in Heads |->
     CASE h \in {"plain", "crashlog"} -> {<<>>}
       [] h = "keys"                  -> [1..KeyArgs -> {"hex"}]
       [] h = "issuer"                -> {<<>>, <<"hex">>}
       [] h = "url"                   -> {<<a>> : a \in Fitting \cup Heads}
       [] h = "wifi"                  -> {<<a, b>> : a \in (Fitting \cup Heads) \ {"off"},
                                                     b \in Fitting \cup Heads}
                                         \cup {<<"off">>}
       [] h = "ota"                   -> {<<a, b>> : a, b \in Fitting \cup Heads}
       [] h = "button-mode"           -> {<<>>, <<"legacy">>}
       [] h = "token"                 -> {<<a>> : a \in Fitting \cup Heads}
       [] h = "force"                 -> {<<>>, <<"on">>, <<"off">>}
       [] h = "provision-ota-key"     -> {}]

(* The answers the table allows.  A line that is the beginning of a longer   *)
(* one lacks arguments, a longer one has a surplus, and of a line that is    *)
(* both short and malformed the table does not say which comes first.        *)
Documented(line) ==
  LET head == line[1]
      args == Tail(line)
      short == \E form \in Table[head] : Len(args) < Len(form)
      begun == \E form \in Table[head] :
                 Len(args) < Len(form) /\ \A i \in DOMAIN args : args[i] = form[i]
  IN IF head \notin Heads THEN {Fail("UnknownCommand")}
     ELSE IF args \in Table[head] \/ (head = "provision-ota-key" /\ args # <<>>)
       THEN {Run(line)}
     ELSE IF head \in PreDispatch THEN {Fail("UnknownCommand")}
     ELSE IF begun THEN {Fail("MissingArgs")}
     ELSE IF short THEN {Fail("MissingArgs"), Fail("InvalidArgs")}
     ELSE {Fail("InvalidArgs")}

(* The console acts on whole lines only, and on each as its protocol table   *)
(* says: an empty or overlong line does nothing when it ends, whatever it    *)
(* ends with, and no line is mixed with the one before it or acted on with   *)
(* arguments left over (console_framing.rs: "padding can no longer smuggle a *)
(* trailing command into the dispatcher"; commands.rs: "`token X extra` must *)
(* NOT mutate auth config").                                                 *)
ObeysWholeLines ==
  LET line == WordsOf(sent)
  IN IF sent = <<>> \/ Overlong(sent) THEN answer.kind # "run"
     ELSE IF line = <<>> THEN answer = Fail("UnknownCommand")
     ELSE answer \in Documented(line)

(* An overlong line is reported, once, at its first excess byte              *)
(* (docs/serial-host-protocol.md: "exactly once").                           *)
OverlongFailsOnce == typed # <<>> => faults = IF Overlong(typed) THEN 1 ELSE 0

(* From bytes to commands: each line that ends is obeyed whole or not at     *)
(* all, and one that is too long is reported once.                           *)
LinesAreCommands == ObeysWholeLines /\ OverlongFailsOnce
=============================================================================
