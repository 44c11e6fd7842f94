------------------------------ MODULE CliBench -------------------------------
(***************************************************************************)
(* Several bolty-cli processes on one bench: the choice of a reader        *)
(* (transport.rs), the flock that the processes on physical readers take   *)
(* (bench_lock.rs), the exchanges with the card, each logged before and    *)
(* after (audit.rs), and processes that are killed at any step.            *)
(*                                                                         *)
(* External: the harness of another project that holds the same flock and  *)
(* runs bolty-cli with BOLTY_SKIP_BENCH_LOCK as its child; the kernel,     *)
(* which drops the flock of a process that ends; and the counter of wrong  *)
(* keys in the card, which ChangeKey resets (budget.rs).                   *)
(***************************************************************************)
EXTENDS AuditLog, Functions

CONSTANTS
  Readers,       \* the readers pcscd lists, in its order: records of Reader
  Pins,          \* what --reader or BOLTY_READER may say: sets of matching names
  NoPin,
  NoReader,
  Free,          \* nobody holds the flock
  Harness,       \* holder of the flock outside bolty-cli
  MaxExchanges,  \* bound: exchanges of all processes
  MaxFaults      \* bound: answers and lines lost, processes killed

Reader(n, v, p, s) == [name |-> n, virtual |-> v, picc |-> p, sam |-> s]

ASSUME BenchAssumption ==
  /\ Free \notin Procs /\ Harness \notin Procs /\ Free # Harness
  /\ {MaxExchanges, MaxFaults} \subseteq Nat
  /\ Readers \in Seq(Range(Readers)) /\ NoReader \notin Range(Readers)
  /\ \A r \in Range(Readers) : {r.virtual, r.picc, r.sam} \subseteq BOOLEAN

VARIABLES
  flock,      \* who holds the lock on the file
  holder,     \* the text in the file
  proc,       \* per process: at, skip, pin, reader, apdu, covered
  left,       \* exchanges left to the bound
  card,       \* wrong keys the card on the physical readers counted since a reset
  failed,     \* history: wrong keys evaluated, by any card
  missed,     \* history: those whose 91AE never reached the log
  mixed,      \* history: a wipe of another card was logged
  faults

bench == <<flock, holder, proc, left, card, failed, missed, mixed, faults>>
vars == <<audit, bench>>

Stages == {"off", "selected", "flocked", "locked", "ready", "sending", "answered",
           "wiping", "done"}

BenchTypeOK ==
  /\ AuditTypeOK
  /\ flock \in Procs \cup {Free, Harness} /\ holder \in Procs \cup {Free, Harness}
  /\ proc \in [Procs -> [at : Stages, skip : BOOLEAN, pin : Pins \cup {NoPin},
                         reader : Range(Readers) \cup {NoReader},
                         apdu : {"none", "wrong", "reset"},
                         covered : BOOLEAN]]
  /\ \A p \in Procs : proc[p].reader = NoReader => proc[p].at \in {"off", "done"}
  /\ {left, card, failed, missed, faults} \subseteq Nat /\ mixed \in BOOLEAN

BenchInit ==
  /\ AuditInit
  /\ flock = Free /\ holder = Free
  /\ proc = [p \in Procs |-> [at |-> "off", skip |-> FALSE, pin |-> NoPin, reader |-> NoReader,
                              apdu |-> "none", covered |-> FALSE]]
  /\ left = MaxExchanges /\ card = 0 /\ failed = 0 /\ missed = 0 /\ mixed = FALSE /\ faults = 0

Goes(p, to) == proc' = [proc EXCEPT ![p].at = to]

------------------------------------------------------------------------------
(* Choice of the reader.                                                     *)

(* Iterator::find, of the readers with one of these places.                  *)
Find(places) ==
  IF places = {} THEN NoReader
  ELSE Readers[CHOOSE i \in places : \A j \in places : i <= j]

OrElse(found, other) == IF found # NoReader THEN found ELSE other

(* Mutant: virtual readers are candidates as well.                           *)
SelectAnyReader(pin) ==
  LET named == {i \in DOMAIN Readers : Readers[i].name \in pin}
      picc == {i \in DOMAIN Readers : Readers[i].picc}
      other == {i \in DOMAIN Readers : ~Readers[i].sam}
  IN IF pin # NoPin THEN Find(named)
     ELSE OrElse(Find(picc), OrElse(Find(other), Find(DOMAIN Readers)))

(* select_reader: the first one that the pin names; otherwise of those that  *)
(* are not virtual the first PICC interface, the first that is no SAM slot,  *)
(* the first.                                                                *)
SelectReader(pin) ==
  LET named == {i \in DOMAIN Readers : Readers[i].name \in pin}
      candidates == {i \in DOMAIN Readers : ~Readers[i].virtual}
      picc == {i \in candidates : Readers[i].picc}
      other == {i \in candidates : ~Readers[i].sam}
  IN IF pin # NoPin THEN Find(named)
     ELSE OrElse(Find(picc), OrElse(Find(other), Find(candidates)))

(* Mutant: a pin that names no reader is no error.                           *)
LaunchRegardless(p, pin, skip) ==
  /\ proc[p].at = "off"
  /\ skip => flock = Harness /\ \A q \in Procs : proc[q].covered => proc[q].at = "done"
  /\ proc' = [proc EXCEPT ![p].pin = pin, ![p].skip = skip, ![p].covered = skip,
                          ![p].reader = SelectReader(pin), ![p].at = "selected"]
  /\ UNCHANGED <<audit, flock, holder, left, card, failed, missed, mixed, faults>>

(* A command starts; a child of the harness only while that holds the lock   *)
(* and has no other.                                                         *)
Launch(p, pin, skip) ==
  /\ proc[p].at = "off"
  /\ skip => flock = Harness /\ \A q \in Procs : proc[q].covered => proc[q].at = "done"
  /\ proc' = [proc EXCEPT ![p].pin = pin, ![p].skip = skip, ![p].covered = skip,
                          ![p].reader = SelectReader(pin),
                          ![p].at = IF SelectReader(pin) = NoReader THEN "done" ELSE "selected"]
  /\ UNCHANGED <<audit, flock, holder, left, card, failed, missed, mixed, faults>>

------------------------------------------------------------------------------
(* The lock.                                                                 *)

Physical(p) == proc[p].reader # NoReader /\ ~proc[p].reader.virtual

(* Mutant: whoever cannot have the lock goes on without it.                  *)
AcquireAnyway(p) ==
  /\ proc[p].at = "selected"
  /\ \/ /\ Physical(p) /\ ~proc[p].skip /\ flock = Free
        /\ flock' = p /\ Goes(p, "flocked")
     \/ (~Physical(p) \/ proc[p].skip \/ flock # Free) /\ Goes(p, "locked") /\ UNCHANGED flock
  /\ UNCHANGED <<audit, holder, left, card, failed, missed, mixed, faults>>

(* acquire, up to the flock: virtual readers and children do without it; who *)
(* finds it taken, or cannot open the file, does not touch the reader.       *)
Acquire(p) ==
  /\ proc[p].at = "selected"
  /\ \/ /\ Physical(p) /\ ~proc[p].skip /\ flock = Free
        /\ flock' = p /\ Goes(p, "flocked")
     \/ Physical(p) /\ ~proc[p].skip /\ Goes(p, "done") /\ UNCHANGED flock
     \/ (~Physical(p) \/ proc[p].skip) /\ Goes(p, "locked") /\ UNCHANGED flock
  /\ UNCHANGED <<audit, holder, left, card, failed, missed, mixed, faults>>

(* acquire, after the flock: the file is truncated and names the holder; the *)
(* errors of these writes, which the code ignores, are left out.             *)
WriteHolder(p) ==
  /\ proc[p].at = "flocked" /\ Goes(p, "locked") /\ holder' = p
  /\ UNCHANGED <<audit, flock, left, card, failed, missed, mixed, faults>>

(* connect_with, the rest: T=1, raw or T=0 connects, or none does.           *)
Connect(p) ==
  /\ proc[p].at = "locked"
  /\ \/ Goes(p, "ready") /\ UNCHANGED flock
     \/ Goes(p, "done") /\ flock' = IF flock = p THEN Free ELSE flock
  /\ UNCHANGED <<audit, holder, left, card, failed, missed, mixed, faults>>

(* The process ends and the guard is dropped; the text stays.                *)
Exit(p) ==
  /\ proc[p].at = "ready" /\ out[p] = <<>> /\ Goes(p, "done")
  /\ flock' = IF flock = p THEN Free ELSE flock
  /\ UNCHANGED <<audit, holder, left, card, failed, missed, mixed, faults>>

(* A wrong key whose answer is not in the log yet.                           *)
InFlight(p) ==
  IF (proc[p].at = "answered" /\ proc[p].apdu = "wrong")
     \/ \E i \in DOMAIN out[p] : out[p][i].kind = "91AE"
    THEN 1 ELSE 0

(* The process is killed: its lines are lost, its flock is dropped.          *)
Kill(p) ==
  /\ proc[p].at \notin {"off", "done"} /\ faults < MaxFaults /\ faults' = faults + 1
  /\ Goes(p, "done") /\ flock' = IF flock = p THEN Free ELSE flock
  /\ out' = [out EXCEPT ![p] = <<>>]
  /\ missed' = missed + InFlight(p)
  /\ UNCHANGED <<clock, steps, log, writer, holder, left, card, failed, mixed>>

HarnessTakes ==
  /\ flock = Free /\ flock' = Harness /\ holder' = Harness
  /\ UNCHANGED <<audit, proc, left, card, failed, missed, mixed, faults>>

(* It lets go, or dies; a child that still runs is an orphan.                *)
HarnessDrops ==
  /\ flock = Harness /\ flock' = Free
  /\ proc' = [p \in Procs |-> [proc[p] EXCEPT !.covered = FALSE]]
  /\ UNCHANGED <<audit, holder, left, card, failed, missed, mixed, faults>>

------------------------------------------------------------------------------
(* Exchanges: LoggingTransport::transmit around PcscTransport::transmit.     *)

(* The APDU offers a wrong key, is the ChangeKey of a wipe that resets the   *)
(* counter (nothing fails after it: CardOps); the others change nothing here *)
(* and are left out.                                                         *)
LogTx(p, apdu) ==
  /\ proc[p].at = "ready" /\ left > 0 /\ left' = left - 1 /\ out[p] = <<>>
  /\ Stamp(p, "TX")
  /\ proc' = [proc EXCEPT ![p].at = "sending", ![p].apdu = apdu]
  /\ UNCHANGED <<clock, steps, log, flock, holder, card, failed, missed, mixed, faults>>

(* The card acts and its answer arrives; or the exchange fails, before or    *)
(* after the card acted.                                                     *)
Transmit(p, reached, arrives) ==
  /\ proc[p].at = "sending" /\ out[p] = <<>>
  /\ card' = IF proc[p].reader.virtual \/ ~reached THEN card
             ELSE IF proc[p].apdu = "wrong" THEN card + 1 ELSE 0
  /\ failed' = IF reached /\ proc[p].apdu = "wrong" THEN failed + 1 ELSE failed
  /\ IF arrives THEN reached /\ UNCHANGED <<faults, missed>>
     ELSE /\ faults < MaxFaults /\ faults' = faults + 1
          /\ missed' = IF reached /\ proc[p].apdu = "wrong" THEN missed + 1 ELSE missed
  /\ proc' = [proc EXCEPT ![p].at = "answered",
                          ![p].apdu = IF arrives THEN @ ELSE "none"]
  /\ UNCHANGED <<audit, flock, holder, left, mixed>>

(* Mutant: an answer that is an error of the card is not logged.             *)
LogRxOkOnly(p) ==
  /\ proc[p].at = "answered"
  /\ out' = [out EXCEPT ![p] = IF proc[p].apdu = "wrong" THEN <<>>
                                ELSE <<Line(p, "RX", writer[p].last)>>]
  /\ Goes(p, IF proc[p].apdu = "reset" THEN "wiping" ELSE "ready")
  /\ UNCHANGED <<clock, steps, log, writer, flock, holder, left, card, failed, missed, mixed, faults>>

(* RX OK with the status, or RX ERR, under the stamp of the TX line.         *)
LogRx(p) ==
  /\ proc[p].at = "answered"
  /\ out' = [out EXCEPT ![p] =
       <<Line(p, IF proc[p].apdu = "wrong" THEN "91AE" ELSE "RX", writer[p].last)>>]
  /\ Goes(p, IF proc[p].apdu = "reset" THEN "wiping" ELSE "ready")
  /\ UNCHANGED <<clock, steps, log, writer, flock, holder, left, card, failed, missed, mixed, faults>>

(* cmd_wipe logs its success when bolty_ntag::wipe returns.                  *)
LogWiped(p) ==
  /\ proc[p].at = "wiping" /\ out[p] = <<>>
  /\ Stamp(p, "wiped") /\ Goes(p, "ready")
  /\ mixed' = (mixed \/ proc[p].reader.virtual)
  /\ UNCHANGED <<clock, steps, log, flock, holder, left, card, failed, missed, faults>>

Writes(p) ==
  \/ WriteRaw(p, TRUE) /\ UNCHANGED bench
  \/ /\ WriteRaw(p, FALSE) /\ faults < MaxFaults /\ faults' = faults + 1
     /\ missed' = missed + InFlight(p)
     /\ UNCHANGED <<flock, holder, proc, left, card, failed, mixed>>

BenchNext ==
  \/ ClockStep /\ UNCHANGED bench
  \/ HarnessTakes \/ HarnessDrops
  \/ \E p \in Procs :
       \/ \E pin \in Pins \cup {NoPin}, skip \in BOOLEAN : Launch(p, pin, skip)
       \/ Acquire(p) \/ WriteHolder(p) \/ Connect(p) \/ Exit(p) \/ Kill(p)
       \/ \E apdu \in {"wrong", "reset"} : LogTx(p, apdu)
       \/ \E reached, arrives \in BOOLEAN : Transmit(p, reached, arrives)
       \/ LogRx(p) \/ LogWiped(p) \/ Writes(p)

BenchSpec == BenchInit /\ [][BenchNext]_vars
------------------------------------------------------------------------------
(* Properties                                                                *)

Driving(p) == Physical(p) /\ proc[p].at \in {"ready", "sending", "answered", "wiping"}
Orphan(p) == proc[p].skip /\ ~proc[p].covered

(* One process at most drives the physical readers (bench_lock.rs: "a bare   *)
(* CLI must not race other lanes on physical readers"), however many are     *)
(* started, refused or killed.  The exception is a child that outlives the   *)
(* harness whose lock it relied on.                                          *)
OneDriver ==
  \A p, q \in Procs : p # q /\ Driving(p) /\ Driving(q) => Orphan(p) \/ Orphan(q)

(* Whoever is refused reads the name of the process that holds the lock,     *)
(* not of one that ended or was killed with its name in the file; only       *)
(* between the flock and the text is the file out of date.                   *)
HolderIsNamed ==
  flock \in Procs /\ proc[flock].at # "flocked" => holder = flock

(* A process talks to a reader that its pin names (transport.rs: "a typo     *)
(* must not retarget it").  Without a pin it never talks to a virtual        *)
(* reader, to one that is no PICC interface only if no real reader is one,   *)
(* and to a SAM slot only if there is no other real reader.                  *)
NeverRetargeted ==
  \A p \in Procs : proc[p].at \notin {"off", "done"} =>
    LET r == proc[p].reader IN
    IF proc[p].pin # NoPin THEN r.name \in proc[p].pin
    ELSE /\ ~r.virtual
         /\ ~r.picc => \A o \in Range(Readers) : ~o.virtual => ~o.picc /\ (r.sam => o.sam)

(* Every wrong key that a card evaluated is in the log, on its way there, or *)
(* was lost with an answer, a line or a killed process: no line is written   *)
(* twice or for nothing.                                                     *)
FailuresAccounted ==
  failed = Count(log, "91AE") + missed
           + Cardinality({p \in Procs : InFlight(p) = 1})

(* What budget reports covers what the card has counted (budget.rs: "count   *)
(* what WE spent"), up to what was lost and is on its way: no wrong key is   *)
(* put before the wipe that it came after.  That rests on the lock, and on   *)
(* the log speaking of one card: the wipe of a virtual card in between, or   *)
(* an orphan, would make the report too low.                                 *)
BudgetCoversCard ==
  ~mixed /\ (\A p \in Procs : ~Orphan(p)) =>
    card <= Budget(log) + missed + Cardinality({p \in Procs : InFlight(p) = 1})

(* A time stamp of a process that is earlier than one before it comes after  *)
(* the note of a step of the clock by that process (audit.rs: "interleave    *)
(* pre-step and post-step timestamps from THIS pid with no marker").         *)
StepsAreMarked ==
  faults = 0 =>
    \A i, j \in DOMAIN log :
      (/\ i < j /\ log[i].by = log[j].by /\ log[j].ts < log[i].ts
       /\ log[i].kind # "banner")
      => \E k \in 1..j : log[k].by = log[j].by /\ log[k].kind = "step"

(* The first line of a process is its banner, and it has one.                *)
BannerFirst ==
  faults = 0 =>
    \A i \in DOMAIN log :
      (log[i].kind = "banner") <=> (\A j \in 1..(i - 1) : log[j].by # log[i].by)

(* The bench as a whole: one driver at a time, and whoever is refused is     *)
(* told who it is (bench_lock.rs: "a loud, holder-named error when another   *)
(* session holds it").                                                       *)
BenchIsExclusive == OneDriver /\ HolderIsNamed

(* The audit file tells what happened: no wrong key is missing from it, each *)
(* process begins with its banner, and says so where its clock went back.    *)
LogIsTrue == FailuresAccounted /\ BannerFirst /\ StepsAreMarked
=============================================================================
