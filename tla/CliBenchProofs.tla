--------------------------- MODULE CliBenchProofs ----------------------------
(***************************************************************************)
(* CliBench for any number of processes, any readers, pins, exchanges and  *)
(* faults: the lock keeps the bench, a pin is never answered with another  *)
(* reader, and the log accounts for what was done.                         *)
(***************************************************************************)
EXTENDS CliBench, FiniteSetTheorems, WellFoundedInduction, TLAPS

Selectable == {SelectReader(pin) : pin \in Pins \cup {NoPin}} \cup {NoReader}

Process ==
  [at : Stages, skip : BOOLEAN, pin : Pins \cup {NoPin}, reader : Selectable,
   apdu : {"none", "wrong", "reset"}, covered : BOOLEAN]

Processes == [Procs -> Process]

(* The stages of a process that is past the lock.                            *)
Past == {"locked", "ready", "sending", "answered", "wiping"}

(* Who holds the flock, and who relies on it: a process that went past it on *)
(* a physical reader has it, and whoever has it is past it; a child that is  *)
(* not an orphan runs while the harness has it, one at a time.               *)
LockInv ==
  /\ proc \in Processes
  /\ flock \in Procs \cup {Free, Harness}
  /\ \A p \in Procs :
       /\ proc[p].at = "flocked" => flock = p
       /\ Physical(p) /\ ~proc[p].skip /\ proc[p].at \in Past => flock = p
       /\ flock = p => proc[p].at \in Past \cup {"flocked"}
       /\ proc[p].covered => proc[p].skip /\ flock = Harness /\ proc[p].at # "off"
  /\ \A p, q \in Procs :
       p # q /\ proc[p].covered /\ proc[q].covered => "done" \in {proc[p].at, proc[q].at}
  /\ HolderIsNamed

LEMMA LockInvInit == BenchInit => LockInv
BY BenchAssumption
   DEF BenchInit, LockInv, Processes, Process, Selectable, Stages, Past, Physical, HolderIsNamed

(* A process goes to a stage; of all the others, and of its own reader and   *)
(* parent, nothing changes.                                                  *)
Moves(p, to) ==
  /\ proc' \in Processes
  /\ \A q \in Procs :
       /\ proc'[q].skip = proc[q].skip /\ proc'[q].reader = proc[q].reader
       /\ proc'[q].covered = proc[q].covered /\ proc'[q].pin = proc[q].pin
       /\ proc'[q].at = IF q = p THEN to ELSE proc[q].at

LEMMA GoesMoves ==
  ASSUME proc \in Processes, NEW p \in Procs, NEW to \in Stages, Goes(p, to)
  PROVE  Moves(p, to)
BY DEF Goes, Moves, Processes, Process

LEMMA SendsMoves ==
  ASSUME proc \in Processes, NEW p \in Procs, NEW to \in Stages,
         NEW apdu \in {"none", "wrong", "reset"},
         proc' = [proc EXCEPT ![p].at = to, ![p].apdu = apdu]
  PROVE  Moves(p, to)
BY Zenon DEF Moves, Processes, Process

(* From one stage past the lock to another.                                  *)
LEMMA StaysPast ==
  ASSUME LockInv, NEW p \in Procs, NEW to \in Past, Moves(p, to),
         proc[p].at \in Past, UNCHANGED <<flock, holder>>
  PROVE  LockInv'
BY DEF LockInv, Moves, Past, Physical, HolderIsNamed

(* A process that ends drops the flock if it has it.                         *)
LEMMA Ends ==
  ASSUME LockInv, NEW p \in Procs, Moves(p, "done"), holder' = holder,
         proc[p].at # "off", flock' = IF flock = p THEN Free ELSE flock
  PROVE  LockInv'
<1>1. flock' # p
  BY BenchAssumption
<1> QED BY <1>1, BenchAssumption DEF LockInv, Moves, Past, Physical, HolderIsNamed

LEMMA LaunchStep ==
  ASSUME LockInv, NEW p \in Procs, NEW pin \in Pins \cup {NoPin}, NEW skip \in BOOLEAN,
         Launch(p, pin, skip)
  PROVE  LockInv'
<1>1. PICK to \in {"done", "selected"} :
        proc' = [proc EXCEPT ![p].pin = pin, ![p].skip = skip, ![p].covered = skip,
                             ![p].reader = SelectReader(pin), ![p].at = to]
  BY Zenon DEF Launch
<1>2. SelectReader(pin) \in Selectable
  BY DEF Selectable
<1>3. proc' \in Processes
  <2>1. [at |-> to, skip |-> skip, pin |-> pin, reader |-> SelectReader(pin),
         apdu |-> proc[p].apdu, covered |-> skip] \in Process
    BY <1>2 DEF LockInv, Processes, Process, Stages
  <2>2. proc'[p] = [at |-> to, skip |-> skip, pin |-> pin, reader |-> SelectReader(pin),
                    apdu |-> proc[p].apdu, covered |-> skip]
    <3>1. proc[p] \in Process /\ p \in DOMAIN proc
      BY DEF LockInv, Processes
    <3>2. proc'[p] = [proc[p] EXCEPT !.pin = pin, !.skip = skip, !.covered = skip,
                                     !.reader = SelectReader(pin), !.at = to]
      BY <1>1, <3>1
    <3> QED BY <3>1, <3>2, Zenon DEF Process
  <2> QED BY <1>1, <2>1, <2>2 DEF LockInv, Processes
<1>4. /\ \A q \in Procs : q # p => proc'[q] = proc[q]
      /\ proc'[p].at = to /\ proc'[p].skip = skip /\ proc'[p].covered = skip
  BY <1>1 DEF LockInv, Processes, Process
<1>5. /\ proc[p].at = "off" /\ UNCHANGED <<flock, holder>>
      /\ skip => flock = Harness /\ \A q \in Procs : proc[q].covered => proc[q].at = "done"
  BY DEF Launch
<1>6. flock # p
  BY <1>5 DEF LockInv, Past
<1> QED BY <1>3, <1>4, <1>5, <1>6 DEF LockInv, Past, Physical, HolderIsNamed

LEMMA AcquireStep == ASSUME LockInv, NEW p \in Procs, Acquire(p) PROVE LockInv'
<1>0. /\ proc \in Processes /\ {"flocked", "locked", "done"} \subseteq Stages
      /\ flock # p /\ proc[p].at = "selected" /\ holder' = holder
  BY DEF Acquire, LockInv, Past, Stages
<1>1. CASE Physical(p) /\ ~proc[p].skip /\ flock = Free /\ flock' = p /\ Goes(p, "flocked")
  <2>1. Moves(p, "flocked")
    BY <1>0, <1>1, GoesMoves
  <2> QED BY <1>0, <1>1, <2>1, BenchAssumption DEF LockInv, Moves, Past, Physical, HolderIsNamed
<1>2. CASE Goes(p, "done") /\ UNCHANGED flock
  <2>1. Moves(p, "done")
    BY <1>0, <1>2, GoesMoves
  <2> QED BY <1>0, <1>2, <2>1, Ends
<1>3. CASE (~Physical(p) \/ proc[p].skip) /\ Goes(p, "locked") /\ UNCHANGED flock
  <2>1. Moves(p, "locked")
    BY <1>0, <1>3, GoesMoves
  <2> QED BY <1>0, <1>3, <2>1 DEF LockInv, Moves, Past, Physical, HolderIsNamed
<1> QED BY <1>1, <1>2, <1>3 DEF Acquire

LEMMA WriteHolderStep == ASSUME LockInv, NEW p \in Procs, WriteHolder(p) PROVE LockInv'
<1>1. Moves(p, "locked")
  BY GoesMoves DEF WriteHolder, LockInv, Stages
<1>2. flock = p /\ flock' = flock /\ holder' = p /\ proc[p].at = "flocked"
  BY DEF WriteHolder, LockInv
<1> QED BY <1>1, <1>2 DEF LockInv, Moves, Past, Physical, HolderIsNamed

LEMMA HarnessStep == ASSUME LockInv, HarnessTakes \/ HarnessDrops PROVE LockInv'
<1>1. CASE HarnessTakes
  BY <1>1, BenchAssumption DEF HarnessTakes, LockInv, Past, Physical, HolderIsNamed
<1>2. CASE HarnessDrops
  <2>1. proc' \in Processes
    <3>1. ASSUME NEW q \in Procs PROVE [proc[q] EXCEPT !.covered = FALSE] \in Process
      <4>1. proc[q] \in Process
        BY DEF LockInv, Processes
      <4> QED BY <4>1, Zenon DEF Process
    <3> QED BY <1>2, <3>1 DEF HarnessDrops, Processes
  <2>2. \A q \in Procs :
          /\ proc'[q].skip = proc[q].skip /\ proc'[q].reader = proc[q].reader
          /\ proc'[q].covered = FALSE /\ proc'[q].at = proc[q].at
    BY <1>2 DEF HarnessDrops, LockInv, Processes, Process
  <2> QED BY <1>2, <2>1, <2>2, BenchAssumption
          DEF HarnessDrops, LockInv, Past, Physical, HolderIsNamed
<1> QED BY <1>1, <1>2

LEMMA ConnectStep == ASSUME LockInv, NEW p \in Procs, Connect(p) PROVE LockInv'
<1>0. proc \in Processes /\ proc[p].at = "locked" /\ holder' = holder
  BY DEF Connect, LockInv
<1>1. CASE Goes(p, "ready") /\ UNCHANGED flock
  <2>1. Moves(p, "ready")
    BY <1>0, <1>1, GoesMoves DEF Stages
  <2> QED BY <1>0, <1>1, <2>1, StaysPast DEF Past
<1>2. CASE Goes(p, "done") /\ flock' = IF flock = p THEN Free ELSE flock
  <2>1. Moves(p, "done")
    BY <1>0, <1>2, GoesMoves DEF Stages
  <2> QED BY <1>0, <1>2, <2>1, Ends
<1> QED BY <1>1, <1>2 DEF Connect

LEMMA EndStep == ASSUME LockInv, NEW p \in Procs, Exit(p) \/ Kill(p) PROVE LockInv'
<1>1. /\ Goes(p, "done") /\ flock' = IF flock = p THEN Free ELSE flock
      /\ proc[p].at # "off" /\ holder' = holder
  BY DEF Exit, Kill
<1>2. Moves(p, "done")
  BY <1>1, GoesMoves DEF LockInv, Stages
<1> QED BY <1>1, <1>2, Ends

LEMMA ExchangeStep ==
  ASSUME LockInv, NEW p \in Procs,
         \/ \E apdu \in {"wrong", "reset"} : LogTx(p, apdu)
         \/ \E reached, arrives \in BOOLEAN : Transmit(p, reached, arrives)
         \/ LogRx(p) \/ LogWiped(p)
  PROVE  LockInv'
<1>0. /\ proc \in Processes /\ proc[p].apdu \in {"none", "wrong", "reset"}
      /\ Past \subseteq Stages
  BY DEF LockInv, Processes, Process, Past, Stages
<1>1. ASSUME NEW apdu \in {"wrong", "reset"}, LogTx(p, apdu) PROVE LockInv'
  <2>1. Moves(p, "sending")
    BY <1>0, <1>1, SendsMoves, Zenon DEF LogTx, Past
  <2> QED BY <1>1, <2>1, StaysPast DEF LogTx, Past
<1>2. ASSUME NEW reached \in BOOLEAN, NEW arrives \in BOOLEAN, Transmit(p, reached, arrives)
      PROVE  LockInv'
  <2>1. PICK apdu \in {"none", "wrong", "reset"} :
          proc' = [proc EXCEPT ![p].at = "answered", ![p].apdu = apdu]
    BY <1>0, <1>2, Zenon DEF Transmit
  <2>2. Moves(p, "answered")
    BY <1>0, <2>1, SendsMoves, Zenon DEF Past
  <2> QED BY <1>2, <2>2, StaysPast DEF Transmit, Past
<1>3. ASSUME NEW to \in Past, Goes(p, to), LogRx(p) \/ LogWiped(p) PROVE LockInv'
  <2>1. Moves(p, to)
    BY <1>0, <1>3, GoesMoves
  <2> QED BY <1>3, <2>1, StaysPast DEF LogRx, LogWiped, Past
<1>4. LogRx(p) \/ LogWiped(p) => Goes(p, "ready") \/ Goes(p, "wiping")
  BY DEF LogRx, LogWiped
<1> QED BY <1>1, <1>2, <1>3, <1>4 DEF Past

(* The inductive invariant of the lock.                                      *)
THEOREM LockInvariant == BenchSpec => []LockInv
<1>1. LockInv /\ [BenchNext]_vars => LockInv'
  <2> SUFFICES ASSUME LockInv, [BenchNext]_vars PROVE LockInv'
    OBVIOUS
  <2>1. CASE UNCHANGED <<flock, holder, proc>>
    BY <2>1 DEF LockInv, Past, Physical, HolderIsNamed
  <2>2. UNCHANGED bench => UNCHANGED <<flock, holder, proc>>
    BY DEF bench
  <2>3. ASSUME NEW p \in Procs, Writes(p) PROVE UNCHANGED <<flock, holder, proc>>
    BY <2>3, <2>2, Zenon DEF Writes
  <2>4. UNCHANGED vars => UNCHANGED bench
    BY DEF vars
  <2> QED BY <2>1, <2>2, <2>3, <2>4, LaunchStep, AcquireStep, WriteHolderStep, ConnectStep,
             EndStep, HarnessStep, ExchangeStep DEF BenchNext
<1> QED BY <1>1, LockInvInit, PTL DEF BenchSpec

(* However many processes are started, refused or killed, at most one drives *)
(* the physical readers, orphans of the harness excepted.                    *)
THEOREM DrivesAlone == BenchSpec => []OneDriver
<1>1. LockInv => OneDriver
  <2> SUFFICES ASSUME LockInv, NEW p \in Procs, NEW q \in Procs,
                      p # q, Driving(p), Driving(q), ~Orphan(p), ~Orphan(q)
               PROVE  FALSE
    BY DEF OneDriver
  <2>1. /\ Physical(p) /\ proc[p].at \in Past /\ proc[p].at # "done"
        /\ Physical(q) /\ proc[q].at \in Past /\ proc[q].at # "done"
    BY DEF Driving, Past
  <2>2. (proc[p].skip => proc[p].covered) /\ (proc[q].skip => proc[q].covered)
    BY DEF Orphan
  <2> QED BY <2>1, <2>2, BenchAssumption DEF LockInv
<1> QED BY <1>1, LockInvariant, PTL

(* The file names the process that holds the flock, once it has been written.*)
THEOREM NamesHolder == BenchSpec => []HolderIsNamed
<1>1. LockInv => HolderIsNamed
  BY DEF LockInv
<1> QED BY <1>1, LockInvariant, PTL

(* The lock keeps the bench, and names who has it, for any number of         *)
(* processes.                                                                *)
THEOREM KeepsBench == BenchSpec => []BenchIsExclusive
BY DrivesAlone, NamesHolder, PTL DEF BenchIsExclusive

------------------------------------------------------------------------------
(* The choice of the reader.                                                 *)

(* Any set of numbers has a least element.                                   *)
LEMMA LeastNumber == ASSUME NEW T \in SUBSET Nat, T # {} PROVE \E x \in T : \A y \in T : x <= y
<1> DEFINE R == {ss \in Nat \X Nat : ss[1] < ss[2]}
<1>1. IsWellFoundedOn(R, Nat)
  BY NatLessThanWellFounded DEF OpToRel
<1>2. \A x, y \in Nat : y < x => <<y, x>> \in R
  OBVIOUS
<1> HIDE DEF R
<1>3. PICK x \in T : \A y \in T : ~(<<y, x>> \in R)
  BY <1>1, WFMin, T \subseteq Nat, Zenon
<1>4. ASSUME NEW y \in T PROVE x <= y
  <2>1. x \in Nat /\ y \in Nat /\ ~(y < x)
    BY <1>2, <1>3, Zenon
  <2> QED BY <2>1
<1> QED BY <1>4

LEMMA ReaderPlaces == DOMAIN Readers \subseteq Nat /\ Range(Readers) = {Readers[i] : i \in DOMAIN Readers}
BY BenchAssumption DEF Range

LEMMA Finds ==
  ASSUME NEW places \in SUBSET DOMAIN Readers
  PROVE  /\ Find(places) = NoReader <=> places = {}
         /\ Find(places) # NoReader => \E i \in places : Find(places) = Readers[i]
<1>1. ASSUME places # {} PROVE \E i \in places : Find(places) = Readers[i]
  <2>1. \E x \in places : \A y \in places : x <= y
    BY <1>1, ReaderPlaces, LeastNumber
  <2>2. (CHOOSE i \in places : \A j \in places : i <= j) \in places
    BY <2>1, Zenon
  <2> QED BY <1>1, <2>2, Zenon DEF Find
<1>2. \A i \in DOMAIN Readers : Readers[i] # NoReader
  BY ReaderPlaces, BenchAssumption, Zenon
<1>3. places = {} => Find(places) = NoReader
  BY DEF Find
<1> QED BY <1>1, <1>2, <1>3, Zenon

(* What a process that was started with a pin, or without, may talk to.      *)
MayTalkTo(r, pin) ==
  IF pin # NoPin THEN r.name \in pin
  ELSE /\ ~r.virtual
       /\ ~r.picc => \A o \in Range(Readers) : ~o.virtual => ~o.picc /\ (r.sam => o.sam)

(* select_reader returns such a reader, or none.                             *)
LEMMA Selects ==
  ASSUME NEW pin
  PROVE  \/ SelectReader(pin) = NoReader
         \/ SelectReader(pin) \in Range(Readers) /\ MayTalkTo(SelectReader(pin), pin)
<1> DEFINE named == {i \in DOMAIN Readers : Readers[i].name \in pin}
           candidates == {i \in DOMAIN Readers : ~Readers[i].virtual}
           picc == {i \in candidates : Readers[i].picc}
           other == {i \in candidates : ~Readers[i].sam}
           r == SelectReader(pin)
<1>1. \A i \in DOMAIN Readers : Readers[i] \in Range(Readers)
  BY ReaderPlaces, Zenon
<1>2. CASE pin # NoPin
  <2>1. r = Find(named)
    BY <1>2, Zenon DEF SelectReader
  <2>2. named \in SUBSET DOMAIN Readers
    OBVIOUS
  <2>3. r = NoReader \/ \E i \in named : r = Readers[i]
    BY <2>1, <2>2, Finds, Zenon
  <2> QED BY <1>1, <1>2, <2>3, Zenon DEF MayTalkTo
<1>3. CASE pin = NoPin
  <2>1. r = OrElse(Find(picc), OrElse(Find(other), Find(candidates)))
    BY <1>3, Zenon DEF SelectReader
  <2>2. picc \in SUBSET DOMAIN Readers /\ other \in SUBSET DOMAIN Readers
        /\ candidates \in SUBSET DOMAIN Readers /\ picc \subseteq candidates
        /\ other \subseteq candidates
    OBVIOUS
  <2> HIDE DEF r, picc, other, candidates
  <2>3. \/ r = NoReader
        \/ \E i \in picc : r = Readers[i]
        \/ picc = {} /\ \E i \in other : r = Readers[i]
        \/ picc = {} /\ other = {} /\ \E i \in candidates : r = Readers[i]
    <3>1. CASE Find(picc) # NoReader
      BY <2>1, <2>2, <3>1, Finds, Zenon DEF OrElse
    <3>2. CASE Find(picc) = NoReader /\ Find(other) # NoReader
      BY <2>1, <2>2, <3>2, Finds, Zenon DEF OrElse
    <3>3. CASE Find(picc) = NoReader /\ Find(other) = NoReader
      <4>1. picc = {} /\ other = {} /\ r = Find(candidates)
        BY <2>1, <2>2, <3>3, Finds, Zenon DEF OrElse
      <4> QED BY <2>2, <4>1, Finds, Zenon
    <3> QED BY <3>1, <3>2, <3>3, Zenon
  <2> USE DEF picc, other, candidates
  <2>4. ASSUME NEW i \in picc, r = Readers[i]
        PROVE  r \in Range(Readers) /\ MayTalkTo(r, pin)
    BY <1>1, <1>3, <2>4, Zenon DEF MayTalkTo
  <2>5. ASSUME picc = {}, NEW i \in other, r = Readers[i]
        PROVE  r \in Range(Readers) /\ MayTalkTo(r, pin)
    <3>1. \A o \in Range(Readers) : ~o.virtual => ~o.picc
      BY <2>5, ReaderPlaces, Zenon
    <3> QED BY <1>1, <1>3, <2>5, <3>1, Zenon DEF MayTalkTo
  <2>6. ASSUME picc = {}, other = {}, NEW i \in candidates, r = Readers[i]
        PROVE  r \in Range(Readers) /\ MayTalkTo(r, pin)
    <3>1. \A o \in Range(Readers) : ~o.virtual => ~o.picc /\ o.sam
      BY <2>6, ReaderPlaces, Zenon
    <3> QED BY <1>1, <1>3, <2>6, <3>1, Zenon DEF MayTalkTo
  <2> QED BY <2>3, <2>4, <2>5, <2>6, Zenon DEF r
<1> QED BY <1>2, <1>3, Zenon

(* Who is past the choice has the reader that select_reader chose for its    *)
(* pin.                                                                      *)
TargetInv ==
  \A p \in Procs : proc[p].at \notin {"off", "done"} =>
    proc[p].reader # NoReader /\ proc[p].reader = SelectReader(proc[p].pin)

(* All that can happen to the processes: one of those that run moves, one is *)
(* started, or the harness leaves its children behind.                       *)
LEMMA ProcessesMove ==
  ASSUME LockInv, [BenchNext]_vars
  PROVE  \/ UNCHANGED proc
         \/ \E p \in Procs : proc[p].at \notin {"off", "done"} /\ \E to \in Stages : Moves(p, to)
         \/ \E p \in Procs, pin \in Pins \cup {NoPin}, skip \in BOOLEAN : Launch(p, pin, skip)
         \/ HarnessDrops
<1>0. proc \in Processes /\ \A p \in Procs : proc[p].apdu \in {"none", "wrong", "reset"}
  BY DEF LockInv, Processes, Process
<1> DEFINE Runs(p) == proc[p].at \notin {"off", "done"} /\ \E to \in Stages : Moves(p, to)
<1>1. ASSUME NEW p \in Procs, NEW to \in Stages, Goes(p, to), proc[p].at \notin {"off", "done"}
      PROVE  Runs(p)
  BY <1>0, <1>1, GoesMoves
<1>2. ASSUME NEW p \in Procs,
             Acquire(p) \/ WriteHolder(p) \/ Connect(p) \/ Exit(p) \/ Kill(p) \/ LogRx(p)
             \/ LogWiped(p)
      PROVE  Runs(p)
  <2>1. proc[p].at \notin {"off", "done"}
    BY <1>2 DEF Acquire, WriteHolder, Connect, Exit, Kill, LogRx, LogWiped
  <2>2. \E to \in Stages : Goes(p, to)
    BY <1>2 DEF Acquire, WriteHolder, Connect, Exit, Kill, LogRx, LogWiped, Stages
  <2> QED BY <1>1, <2>1, <2>2
<1>3. ASSUME NEW p \in Procs, NEW apdu \in {"wrong", "reset"}, LogTx(p, apdu) PROVE Runs(p)
  <2>1. Moves(p, "sending")
    BY <1>0, <1>3, SendsMoves, Zenon DEF LogTx, Stages
  <2> QED BY <1>3, <2>1 DEF LogTx, Stages
<1>4. ASSUME NEW p \in Procs, NEW reached \in BOOLEAN, NEW arrives \in BOOLEAN,
             Transmit(p, reached, arrives)
      PROVE  Runs(p)
  <2>1. PICK apdu \in {"none", "wrong", "reset"} :
          proc' = [proc EXCEPT ![p].at = "answered", ![p].apdu = apdu]
    BY <1>0, <1>4, Zenon DEF Transmit
  <2>2. Moves(p, "answered")
    BY <1>0, <2>1, SendsMoves, Zenon DEF Stages
  <2> QED BY <1>4, <2>2 DEF Transmit, Stages
<1>5. ASSUME NEW p \in Procs, Writes(p) PROVE UNCHANGED proc
  BY <1>5, Zenon DEF Writes, bench
<1>6. HarnessTakes \/ UNCHANGED bench \/ UNCHANGED vars => UNCHANGED proc
  BY DEF HarnessTakes, bench, vars
<1> HIDE DEF Runs
<1> QED BY <1>2, <1>3, <1>4, <1>5, <1>6, Zenon DEF BenchNext, Runs

LEMMA TargetStep == ASSUME LockInv, TargetInv, [BenchNext]_vars PROVE TargetInv'
<1>1. CASE UNCHANGED proc
  BY <1>1 DEF TargetInv
<1>2. ASSUME NEW p \in Procs, proc[p].at \notin {"off", "done"}, NEW to \in Stages, Moves(p, to)
      PROVE  TargetInv'
  BY <1>2, Zenon DEF Moves, TargetInv
<1>3. ASSUME NEW p \in Procs, NEW pin \in Pins \cup {NoPin}, NEW skip \in BOOLEAN,
             Launch(p, pin, skip)
      PROVE  TargetInv'
  <2>1. /\ \A q \in Procs : q # p => proc'[q] = proc[q]
        /\ proc'[p].reader = SelectReader(pin) /\ proc'[p].pin = pin
        /\ proc'[p].at # "done" => SelectReader(pin) # NoReader
    BY <1>3 DEF Launch, LockInv, Processes, Process
  <2> QED BY <2>1, Zenon DEF TargetInv
<1>4. CASE HarnessDrops
  <2>1. \A q \in Procs :
          proc'[q].at = proc[q].at /\ proc'[q].reader = proc[q].reader /\ proc'[q].pin = proc[q].pin
    BY <1>4 DEF HarnessDrops, LockInv, Processes, Process
  <2> QED BY <2>1, Zenon DEF TargetInv
<1> QED BY <1>1, <1>2, <1>3, <1>4, ProcessesMove

(* For any readers in any order and any pins, no process is retargeted.      *)
THEOREM KeepsTarget == BenchSpec => []NeverRetargeted
<1>1. BenchInit => TargetInv
  BY DEF BenchInit, TargetInv
<1>2. LockInv /\ TargetInv /\ [BenchNext]_vars => TargetInv'
  BY TargetStep
<1>3. TargetInv => NeverRetargeted
  BY Selects, Zenon DEF TargetInv, NeverRetargeted, MayTalkTo
<1> QED BY <1>1, <1>2, <1>3, LockInvariant, PTL DEF BenchSpec

------------------------------------------------------------------------------
(* The lines a process writes, and the types of the bench.                   *)

Writers == [banner : BOOLEAN, noted : BOOLEAN, start : 0..MaxTime, last : 0..MaxTime]

(* What timestamp and log_entry make of a line: they put the banner before   *)
(* it, or the note of a step.                                                *)
Stamped(s, p, kind, w) ==
  /\ s \in Seq(Lines) /\ s # <<>>
  /\ \A i \in DOMAIN s : s[i].by = p /\ s[i].ts = clock /\ s[i].kind \in {"banner", "step", kind}
  /\ \A i \in DOMAIN s : s[i].kind = "banner" <=> i = 1 /\ ~w.banner
  /\ SteppedBack(w) /\ w.banner => s[1].kind = "step"

LEMMA LineIs ==
  ASSUME NEW p \in Procs, NEW kind \in Kinds, NEW t \in 0..MaxTime
  PROVE  /\ Line(p, kind, t) \in Lines /\ Line(p, kind, t).by = p
         /\ Line(p, kind, t).kind = kind /\ Line(p, kind, t).ts = t
BY DEF Line, Lines

LEMMA OneLine ==
  ASSUME NEW l \in Lines
  PROVE  /\ <<l>> \in Seq(Lines) /\ <<l>> # <<>> /\ Len(<<l>>) = 1 /\ DOMAIN <<l>> = {1}
         /\ <<l>>[1] = l
OBVIOUS

LEMMA NoLine == <<>> \in Seq(Lines) /\ Len(<<>>) = 0 /\ DOMAIN <<>> = {}
OBVIOUS

LEMMA ThreeParts ==
  ASSUME NEW a \in Seq(Lines), NEW b \in Seq(Lines), NEW c \in Lines,
         Len(a) \in 0..1, Len(b) \in 0..1
  PROVE  LET s == a \o b \o <<c>> IN
         /\ s \in Seq(Lines) /\ Len(s) = Len(a) + Len(b) + 1 /\ DOMAIN s = 1..Len(s)
         /\ Len(a) = 1 => s[1] = a[1]
         /\ Len(b) = 1 => s[Len(a) + 1] = b[1]
         /\ s[Len(s)] = c
<1> DEFINE s == a \o b \o <<c>>
<1>1. a \o b \in Seq(Lines) /\ Len(a \o b) = Len(a) + Len(b)
  OBVIOUS
<1>2. s \in Seq(Lines) /\ Len(s) = Len(a \o b) + 1 /\ DOMAIN s = 1..Len(s)
  BY <1>1
<1>3. \A i \in 1..Len(a \o b) : s[i] = (a \o b)[i]
  BY <1>1
<1>4. s[Len(a \o b) + 1] = c
  BY <1>1
<1>5. (Len(a) = 1 => (a \o b)[1] = a[1]) /\ (Len(b) = 1 => (a \o b)[Len(a) + 1] = b[1])
  OBVIOUS
<1> HIDE DEF s
<1>6. Len(a) = 1 => s[1] = a[1]
  BY <1>1, <1>3, <1>5
<1>7. Len(b) = 1 => s[Len(a) + 1] = b[1]
  BY <1>1, <1>3, <1>5
<1>8. Len(s) = Len(a) + Len(b) + 1 /\ s[Len(s)] = c
  BY <1>1, <1>2, <1>4
<1> QED BY <1>2, <1>6, <1>7, <1>8, Zenon DEF s

LEMMA StampedParts ==
  ASSUME NEW p \in Procs, NEW kind \in {"TX", "wiped"}, NEW w \in Writers,
         NEW a \in Seq(Lines), NEW b \in Seq(Lines), NEW c \in Lines,
         Len(a) = IF w.banner THEN 0 ELSE 1, Len(b) = IF SteppedBack(w) THEN 1 ELSE 0,
         ~w.banner => a[1].by = p /\ a[1].kind = "banner" /\ a[1].ts = clock,
         SteppedBack(w) => b[1].by = p /\ b[1].kind = "step" /\ b[1].ts = clock,
         c.by = p /\ c.kind = kind /\ c.ts = clock
  PROVE  Stamped(a \o b \o <<c>>, p, kind, w)
<1>1. Len(a) \in 0..1 /\ Len(b) \in 0..1
  OBVIOUS
<1> DEFINE s == a \o b \o <<c>>
<1>3. /\ s \in Seq(Lines) /\ Len(s) = Len(a) + Len(b) + 1 /\ DOMAIN s = 1..Len(s)
      /\ Len(a) = 1 => s[1] = a[1]
      /\ Len(b) = 1 => s[Len(a) + 1] = b[1]
      /\ s[Len(s)] = c
  BY <1>1, ThreeParts, Zenon
<1> HIDE DEF s
<1>4. ASSUME NEW i \in DOMAIN s
      PROVE  /\ s[i].by = p /\ s[i].ts = clock /\ s[i].kind \in {"banner", "step", kind}
             /\ s[i].kind = "banner" <=> i = 1 /\ ~w.banner
  <2>1. CASE i = Len(s)
    <3>1. i = 1 => w.banner
      BY <1>1, <1>3, <2>1
    <3>2. s[i] = c
      BY <1>3, <2>1, Zenon
    <3>3. kind # "banner"
      OBVIOUS
    <3> QED BY <3>1, <3>2, <3>3, Zenon
  <2>2. CASE i # Len(s) /\ i = 1 /\ ~w.banner
    BY <1>3, <2>2, Zenon
  <2>3. CASE i # Len(s) /\ ~(i = 1 /\ ~w.banner)
    <3>1. SteppedBack(w) /\ i = Len(a) + 1
      BY <1>3, <2>3
    <3>2. s[i] = b[1]
      BY <1>3, <3>1, Zenon
    <3> QED BY <2>3, <3>1, <3>2
  <2> QED BY <2>1, <2>2, <2>3, Zenon
<1>5. ASSUME SteppedBack(w), w.banner PROVE s[1].kind = "step"
  <2>1. Len(a) + 1 = 1 /\ Len(b) = 1
    BY <1>5
  <2> QED BY <1>3, <1>5, <2>1, Zenon
<1>6. s # <<>>
  BY <1>1, <1>3
<1> QED BY <1>3, <1>4, <1>5, <1>6, Zenon DEF Stamped, s

LEMMA StampsLines ==
  ASSUME AuditTypeOK, NEW p \in Procs, NEW kind \in {"TX", "wiped"}, NEW w \in Writers
  PROVE  Stamped(Banner(p, w) \o (IF SteppedBack(w) THEN <<Line(p, "step", clock)>> ELSE <<>>)
                   \o <<Line(p, kind, clock)>>, p, kind, w)
<1> DEFINE a == Banner(p, w)
           b == IF SteppedBack(w) THEN <<Line(p, "step", clock)>> ELSE <<>>
           c == Line(p, kind, clock)
<1>1. clock \in 0..MaxTime /\ kind \in Kinds /\ {"banner", "step"} \subseteq Kinds
  BY AuditAssumption DEF AuditTypeOK, Kinds
<1>2. \A k \in {"banner", "step"} :
        /\ Line(p, k, clock) \in Lines /\ Line(p, k, clock).by = p
        /\ Line(p, k, clock).kind = k /\ Line(p, k, clock).ts = clock
  BY <1>1, LineIs
<1>3. c \in Lines /\ c.by = p /\ c.kind = kind /\ c.ts = clock
  BY <1>1, LineIs
<1>4. /\ a \in Seq(Lines) /\ Len(a) = IF w.banner THEN 0 ELSE 1
      /\ ~w.banner => a[1].by = p /\ a[1].kind = "banner" /\ a[1].ts = clock
  <2>1. CASE w.banner
    <3>1. a = <<>>
      BY <2>1 DEF Banner
    <3> QED BY <2>1, <3>1, NoLine
  <2>2. CASE ~w.banner
    <3>1. a = <<Line(p, "banner", clock)>>
      BY <2>2, Zenon DEF Banner
    <3>2. a \in Seq(Lines) /\ Len(a) = 1 /\ a[1] = Line(p, "banner", clock)
      BY <1>2, <3>1, OneLine
    <3> QED BY <1>2, <2>2, <3>2
  <2> QED BY <2>1, <2>2, Zenon
<1>5. /\ b \in Seq(Lines) /\ Len(b) = IF SteppedBack(w) THEN 1 ELSE 0
      /\ SteppedBack(w) => b[1].by = p /\ b[1].kind = "step" /\ b[1].ts = clock
  <2>1. CASE ~SteppedBack(w)
    <3>1. b = <<>>
      BY <2>1
    <3> QED BY <2>1, <3>1, NoLine
  <2>2. CASE SteppedBack(w)
    <3>1. b = <<Line(p, "step", clock)>>
      BY <2>2, Zenon
    <3>2. b \in Seq(Lines) /\ Len(b) = 1 /\ b[1] = Line(p, "step", clock)
      BY <1>2, <3>1, OneLine
    <3> QED BY <1>2, <2>2, <3>2
  <2> QED BY <2>1, <2>2, Zenon
<1>6. Stamped(a \o b \o <<c>>, p, kind, w)
  <2> HIDE DEF a, b, c
  <2> QED BY <1>3, <1>4, <1>5, StampedParts, Zenon
<1> QED BY <1>6

(* Stamp leaves the other processes alone.                                   *)
LEMMA StampStep ==
  ASSUME AuditTypeOK, NEW p \in Procs, NEW kind \in {"TX", "wiped"}, Stamp(p, kind)
  PROVE  /\ out' \in [Procs -> Seq(Lines)] /\ writer' \in [Procs -> Writers]
         /\ \A q \in Procs : q # p => out'[q] = out[q] /\ writer'[q] = writer[q]
         /\ Stamped(out'[p], p, kind, writer[p])
         /\ writer'[p].banner /\ writer'[p].last = clock
         /\ writer'[p].noted <=> writer[p].noted \/ SteppedBack(writer[p])
<1> DEFINE w == writer[p]
           s == Banner(p, w) \o (IF SteppedBack(w) THEN <<Line(p, "step", clock)>> ELSE <<>>)
                  \o <<Line(p, kind, clock)>>
           v == [banner |-> TRUE, noted |-> w.noted \/ SteppedBack(w),
                 start |-> IF w.start = 0 THEN clock ELSE w.start, last |-> clock]
<1>1. out' = [out EXCEPT ![p] = s] /\ writer' = [writer EXCEPT ![p] = v]
  BY Zenon DEF Stamp
<1>2. writer \in [Procs -> Writers] /\ out \in [Procs -> Seq(Lines)] /\ clock \in 0..MaxTime
  BY AuditAssumption DEF AuditTypeOK, Writers
<1>3. w \in Writers
  BY <1>2
<1>4. Stamped(s, p, kind, w)
  BY <1>3, StampsLines, Zenon
<1>5. s \in Seq(Lines)
  BY <1>4 DEF Stamped
<1>6. v \in Writers
  <2>1. (w.noted \/ SteppedBack(w)) \in BOOLEAN /\ w.start \in 0..MaxTime
    BY <1>3, Zenon DEF Writers
  <2> QED BY <1>2, <2>1, Zenon DEF Writers
<1>7. v.banner /\ v.last = clock /\ (v.noted <=> w.noted \/ SteppedBack(w))
  BY Zenon
<1> HIDE DEF s, v
<1>8. /\ out' \in [Procs -> Seq(Lines)] /\ writer' \in [Procs -> Writers]
      /\ out'[p] = s /\ writer'[p] = v
      /\ \A q \in Procs : q # p => out'[q] = out[q] /\ writer'[q] = writer[q]
  BY <1>1, <1>2, <1>5, <1>6, Zenon
<1> QED BY <1>4, <1>7, <1>8, Zenon

(* What is sent is known.                                                    *)
SendingInv == \A p \in Procs : proc[p].at = "sending" => proc[p].apdu \in {"wrong", "reset"}

LEMMA SendingStep == ASSUME LockInv, SendingInv, [BenchNext]_vars PROVE SendingInv'
<1>0. proc \in [Procs -> Process]
  BY DEF LockInv, Processes
<1>1. CASE UNCHANGED proc
  BY <1>1 DEF SendingInv
<1>2. ASSUME NEW p \in Procs, \A q \in Procs : q # p => proc'[q] = proc[q],
             proc'[p].at # "sending" \/ proc'[p].apdu \in {"wrong", "reset"}
      PROVE  SendingInv'
  BY <1>2, Zenon DEF SendingInv
<1>3. ASSUME NEW p \in Procs, NEW to \in Stages \ {"sending"}, Goes(p, to) PROVE SendingInv'
  <2>1. proc'[p].at = to /\ \A q \in Procs : q # p => proc'[q] = proc[q]
    BY <1>0, <1>3 DEF Goes, Process
  <2> QED BY <1>2, <2>1
<1>4. ASSUME NEW p \in Procs,
             Acquire(p) \/ WriteHolder(p) \/ Connect(p) \/ Exit(p) \/ Kill(p) \/ LogRx(p)
             \/ LogWiped(p)
      PROVE  SendingInv'
  <2>1. \E to \in Stages \ {"sending"} : Goes(p, to)
    BY <1>4 DEF Acquire, WriteHolder, Connect, Exit, Kill, LogRx, LogWiped, Stages
  <2> QED BY <1>3, <2>1
<1>5. ASSUME NEW p \in Procs, NEW pin \in Pins \cup {NoPin}, NEW skip \in BOOLEAN,
             Launch(p, pin, skip)
      PROVE  SendingInv'
  <2>1. proc'[p].at # "sending" /\ \A q \in Procs : q # p => proc'[q] = proc[q]
    BY <1>0, <1>5 DEF Launch, Process
  <2> QED BY <1>2, <2>1
<1>6. ASSUME NEW p \in Procs, NEW apdu \in {"wrong", "reset"}, LogTx(p, apdu) PROVE SendingInv'
  <2>1. proc'[p].apdu = apdu /\ \A q \in Procs : q # p => proc'[q] = proc[q]
    BY <1>0, <1>6 DEF LogTx, Process
  <2> QED BY <1>2, <2>1
<1>7. ASSUME NEW p \in Procs, NEW reached \in BOOLEAN, NEW arrives \in BOOLEAN,
             Transmit(p, reached, arrives)
      PROVE  SendingInv'
  <2>1. proc'[p].at # "sending" /\ \A q \in Procs : q # p => proc'[q] = proc[q]
    BY <1>0, <1>7 DEF Transmit, Process
  <2> QED BY <1>2, <2>1
<1>8. ASSUME HarnessDrops PROVE SendingInv'
  BY <1>0, <1>8 DEF HarnessDrops, SendingInv, Process
<1>9. ASSUME NEW p \in Procs, Writes(p) PROVE UNCHANGED proc
  BY <1>9, Zenon DEF Writes, bench
<1>10. HarnessTakes \/ UNCHANGED bench \/ UNCHANGED vars => UNCHANGED proc
  BY DEF HarnessTakes, bench, vars
<1> QED BY <1>1, <1>4, <1>5, <1>6, <1>7, <1>8, <1>9, <1>10, Zenon DEF BenchNext

TypesInv ==
  /\ AuditTypeOK /\ holder \in Procs \cup {Free, Harness}
  /\ left \in Nat /\ card \in Nat /\ failed \in Nat /\ missed \in Nat /\ faults \in Nat
  /\ mixed \in BOOLEAN

LEMMA AuditTypes ==
  ASSUME AuditTypeOK, clock' = clock, steps' = steps, log' \in Seq(Lines),
         out' \in [Procs -> Seq(Lines)], writer' \in [Procs -> Writers]
  PROVE  AuditTypeOK'
BY Zenon DEF AuditTypeOK, Writers

LEMMA AuditStays == ASSUME AuditTypeOK, UNCHANGED audit PROVE AuditTypeOK'
BY Zenon DEF AuditTypeOK, audit

LEMMA AuditIs ==
  ASSUME AuditTypeOK
  PROVE  log \in Seq(Lines) /\ out \in [Procs -> Seq(Lines)] /\ writer \in [Procs -> Writers]
BY Zenon DEF AuditTypeOK, Writers

(* The steps that neither write, nor exchange, nor lose anything.            *)
Quiet(p) ==
  \/ \E pin \in Pins \cup {NoPin}, skip \in BOOLEAN : Launch(p, pin, skip)
  \/ Acquire(p) \/ WriteHolder(p) \/ Connect(p) \/ Exit(p)

LEMMA QuietTypes ==
  ASSUME TypesInv, NEW p \in Procs, Quiet(p)
  PROVE  TypesInv'
<1>1. UNCHANGED audit /\ UNCHANGED <<left, card, failed, missed, mixed, faults>>
  BY Zenon DEF Quiet, Launch, Acquire, WriteHolder, Connect, Exit
<1>2. holder' \in {holder, p}
  BY Zenon DEF Quiet, Launch, Acquire, WriteHolder, Connect, Exit
<1> QED BY <1>1, <1>2, AuditStays, Zenon DEF TypesInv

LEMMA InFlightIs == \A p \in Procs : InFlight(p) \in {0, 1}
BY DEF InFlight

LEMMA TypesStep == ASSUME LockInv, SendingInv, TypesInv, [BenchNext]_vars PROVE TypesInv'
<1>1. CASE UNCHANGED vars
  BY <1>1 DEF vars, audit, bench, TypesInv, AuditTypeOK
<1>2. CASE ClockStep /\ UNCHANGED bench
  <2>1. clock' \in 1..MaxTime /\ steps' \in 0..MaxSteps /\ UNCHANGED <<log, writer, out>>
    BY <1>2, AuditAssumption DEF ClockStep, TypesInv, AuditTypeOK
  <2> QED BY <1>2, <2>1 DEF TypesInv, AuditTypeOK, bench
<1>3. CASE HarnessTakes \/ HarnessDrops
  BY <1>3 DEF HarnessTakes, HarnessDrops, TypesInv, AuditTypeOK, audit
<1>4. ASSUME NEW p \in Procs, Kill(p) PROVE TypesInv'
  <2>1. out' \in [Procs -> Seq(Lines)]
    BY <1>4, NoLine DEF Kill, TypesInv, AuditTypeOK
  <2>2. missed' \in Nat /\ faults' \in Nat
    BY <1>4, InFlightIs DEF Kill, TypesInv
  <2> QED BY <1>4, <2>1, <2>2 DEF Kill, TypesInv, AuditTypeOK
<1>5. ASSUME NEW p \in Procs, NEW apdu \in {"wrong", "reset"}, LogTx(p, apdu) PROVE TypesInv'
  <2>1. out' \in [Procs -> Seq(Lines)] /\ writer' \in [Procs -> Writers]
    BY <1>5, StampStep, Zenon DEF LogTx, TypesInv
  <2>2. left' \in Nat
    BY <1>5 DEF LogTx, TypesInv
  <2>3. AuditTypeOK'
    BY <1>5, <2>1, AuditTypes, AuditIs, Zenon DEF LogTx, TypesInv
  <2> QED BY <1>5, <2>2, <2>3, Zenon DEF LogTx, TypesInv
<1>6. ASSUME NEW p \in Procs, LogWiped(p) PROVE TypesInv'
  <2>1. out' \in [Procs -> Seq(Lines)] /\ writer' \in [Procs -> Writers]
    BY <1>6, StampStep, Zenon DEF LogWiped, TypesInv
  <2>2. mixed' \in BOOLEAN
    BY <1>6, Zenon DEF LogWiped
  <2>3. AuditTypeOK'
    BY <1>6, <2>1, AuditTypes, AuditIs, Zenon DEF LogWiped, TypesInv
  <2> QED BY <1>6, <2>2, <2>3, Zenon DEF LogWiped, TypesInv
<1>7. ASSUME NEW p \in Procs, LogRx(p) PROVE TypesInv'
  <2>1. PICK l \in Lines : out' = [out EXCEPT ![p] = <<l>>]
    <3>1. writer[p].last \in 0..MaxTime /\ {"91AE", "RX"} \subseteq Kinds
      BY DEF TypesInv, AuditTypeOK, Kinds
    <3>2. PICK k \in {"91AE", "RX"} : out' = [out EXCEPT ![p] = <<Line(p, k, writer[p].last)>>]
      BY <1>7, Zenon DEF LogRx
    <3>3. Line(p, k, writer[p].last) \in Lines
      BY <3>1, LineIs
    <3> QED BY <3>2, <3>3, Zenon
  <2>2. out' \in [Procs -> Seq(Lines)]
    BY <2>1, OneLine, AuditIs, Zenon DEF TypesInv
  <2>3. AuditTypeOK'
    BY <1>7, <2>2, AuditTypes, AuditIs, Zenon DEF LogRx, TypesInv
  <2> QED BY <1>7, <2>3, Zenon DEF LogRx, TypesInv
<1>8. ASSUME NEW p \in Procs, NEW reached \in BOOLEAN, NEW arrives \in BOOLEAN,
             Transmit(p, reached, arrives)
      PROVE  TypesInv'
  <2>1. failed' \in Nat /\ missed' \in Nat /\ faults' \in Nat
    BY <1>8 DEF Transmit, TypesInv
  <2>2. card' \in Nat
    <3>1. proc[p].apdu \in {"wrong", "reset"}
      BY <1>8 DEF Transmit, SendingInv
    <3> QED BY <1>8, <3>1 DEF Transmit, TypesInv
  <2>3. AuditTypeOK'
    BY <1>8, AuditStays, Zenon DEF Transmit, TypesInv
  <2> QED BY <1>8, <2>1, <2>2, <2>3, Zenon DEF Transmit, TypesInv
<1>9. ASSUME NEW p \in Procs, Writes(p) PROVE TypesInv'
  <2>1. /\ out' = [out EXCEPT ![p] = <<>>] /\ (log' = log \/ log' = log \o out[p])
        /\ clock' = clock /\ steps' = steps /\ writer' = writer
    BY <1>9, Zenon DEF Writes, WriteRaw
  <2>2. out' \in [Procs -> Seq(Lines)]
    BY <2>1, NoLine, AuditIs, Zenon DEF TypesInv
  <2>3. log' \in Seq(Lines)
    <3>1. log \in Seq(Lines) /\ out[p] \in Seq(Lines)
      BY AuditIs, Zenon DEF TypesInv
    <3>2. log \o out[p] \in Seq(Lines)
      BY <3>1
    <3> QED BY <2>1, <3>1, <3>2, Zenon
  <2>4. AuditTypeOK'
    BY <2>1, <2>2, <2>3, AuditTypes, AuditIs, Zenon DEF TypesInv
  <2>5. CASE UNCHANGED bench
    BY <2>4, <2>5, Zenon DEF TypesInv, bench
  <2>6. CASE /\ faults' = faults + 1 /\ missed' = missed + InFlight(p)
             /\ UNCHANGED <<flock, holder, proc, left, card, failed, mixed>>
    <3>1. faults' \in Nat /\ missed' \in Nat
      BY <2>6, InFlightIs DEF TypesInv
    <3> QED BY <2>4, <2>6, <3>1, Zenon DEF TypesInv
  <2> QED BY <1>9, <2>5, <2>6, Zenon DEF Writes
<1> QED BY <1>1, <1>2, <1>3, <1>4, <1>5, <1>6, <1>7, <1>8, <1>9, QuietTypes, Zenon
        DEF BenchNext, Quiet

LEMMA TypesInit == BenchInit => SendingInv /\ TypesInv /\ TargetInv
<1> SUFFICES ASSUME BenchInit PROVE SendingInv /\ TypesInv /\ TargetInv
  OBVIOUS
<1>1. /\ clock \in 1..MaxTime /\ steps \in 0..MaxSteps
      /\ 0 \in 0..MaxTime /\ log \in Seq(Lines)
  BY AuditAssumption, NoLine DEF BenchInit, AuditInit
<1>2. out \in [Procs -> Seq(Lines)]
  BY NoLine, Zenon DEF BenchInit, AuditInit
<1>3. writer \in [Procs -> Writers]
  <2>1. FreshWriter \in Writers
    BY <1>1 DEF FreshWriter, Writers
  <2> QED BY <2>1, Zenon DEF BenchInit, AuditInit
<1>4. AuditTypeOK
  BY <1>1, <1>2, <1>3 DEF AuditTypeOK, Writers
<1>5. SendingInv /\ TargetInv
  BY DEF BenchInit, SendingInv, TargetInv
<1>6. /\ left \in Nat /\ card \in Nat /\ failed \in Nat /\ missed \in Nat /\ faults \in Nat
      /\ mixed \in BOOLEAN /\ holder \in Procs \cup {Free, Harness}
  <2>1. MaxExchanges \in Nat /\ 0 \in Nat
    BY BenchAssumption
  <2> QED BY <2>1, Zenon DEF BenchInit
<1> QED BY <1>4, <1>5, <1>6, Zenon DEF TypesInv

LEMMA TypesInvariant == BenchSpec => [](LockInv /\ TargetInv /\ SendingInv /\ TypesInv)
<1>1. LockInv /\ TargetInv /\ SendingInv /\ TypesInv /\ [BenchNext]_vars
        => TargetInv' /\ SendingInv' /\ TypesInv'
  BY TargetStep, SendingStep, TypesStep
<1> QED BY <1>1, LockInvariant, TypesInit, PTL DEF BenchSpec

(* Log, processes and counters keep their types, and only who never got past *)
(* the choice has no reader.                                                 *)
THEOREM BenchTypes == BenchSpec => []BenchTypeOK
<1>1. LockInv /\ TargetInv /\ TypesInv => BenchTypeOK
  <2> SUFFICES ASSUME LockInv, TargetInv, TypesInv PROVE BenchTypeOK
    OBVIOUS
  <2>1. Selectable \subseteq Range(Readers) \cup {NoReader}
    BY Selects, Zenon DEF Selectable
  <2>2. proc \in [Procs -> [at : Stages, skip : BOOLEAN, pin : Pins \cup {NoPin},
                            reader : Range(Readers) \cup {NoReader},
                            apdu : {"none", "wrong", "reset"}, covered : BOOLEAN]]
    BY <2>1 DEF LockInv, Processes, Process
  <2>3. \A p \in Procs : proc[p].reader = NoReader => proc[p].at \in {"off", "done"}
    BY Zenon DEF TargetInv
  <2> QED BY <2>2, <2>3 DEF LockInv, TypesInv, BenchTypeOK
<1> QED BY <1>1, TypesInvariant, PTL

------------------------------------------------------------------------------
(* The lines of the log, counted.                                            *)

Places(s, kind) == {i \in DOMAIN s : s[i].kind = kind}

Has(s, kind) == \E i \in DOMAIN s : s[i].kind = kind

LEMMA Countable ==
  ASSUME NEW s \in Seq(Lines), NEW kind
  PROVE  /\ Places(s, kind) \subseteq 1..Len(s) /\ IsFiniteSet(Places(s, kind))
         /\ Count(s, kind) = Cardinality(Places(s, kind)) /\ Count(s, kind) \in Nat
<1>1. DOMAIN s = 1..Len(s) /\ Len(s) \in Int /\ 1 \in Int
  OBVIOUS
<1>2. Places(s, kind) \in SUBSET (1..Len(s))
  BY <1>1 DEF Places
<1>3. IsFiniteSet(1..Len(s))
  BY <1>1, FS_Interval, Zenon
<1>4. IsFiniteSet(Places(s, kind))
  BY <1>2, <1>3, FS_Subset, Zenon
<1>5. Cardinality(Places(s, kind)) \in Nat
  BY <1>4, FS_CardinalityType, Zenon
<1>6. Count(s, kind) = Cardinality(Places(s, kind))
  BY Zenon DEF Count, Places
<1> QED BY <1>2, <1>4, <1>5, <1>6

(* Counting is blind to where the numbers start.                             *)
LEMMA Shifted ==
  ASSUME NEW A \in SUBSET Nat, IsFiniteSet(A), NEW n \in Nat
  PROVE  /\ IsFiniteSet({n + i : i \in A})
         /\ Cardinality({n + i : i \in A}) = Cardinality(A)
<1> DEFINE B == {n + i : i \in A}
           f == [i \in A |-> n + i]
<1>1. f \in [A -> B] /\ \A b \in B : \E i \in A : f[i] = b
  OBVIOUS
<1>2. \A i, j \in A : f[i] = f[j] => i = j
  <2>1. \A i, j \in A : n + i = n + j => i = j
    OBVIOUS
  <2> QED BY <2>1, Zenon
<1> HIDE DEF f, B
<1>3. f \in Bijection(A, B)
  <2>1. IsInjective(f) /\ DOMAIN f = A
    BY <1>1, <1>2 DEF IsInjective
  <2> QED BY <1>1, <2>1, Zenon DEF Bijection, Injection, Surjection
<1>4. ExistsBijection(A, B)
  BY <1>3, Zenon DEF ExistsBijection
<1> QED BY <1>4, FS_Bijection, Zenon DEF B

LEMMA Joined ==
  ASSUME NEW s \in Seq(Lines), NEW t \in Seq(Lines)
  PROVE  /\ s \o t \in Seq(Lines) /\ Len(s) \in Nat /\ Len(t) \in Nat
         /\ DOMAIN s = 1..Len(s) /\ DOMAIN t = 1..Len(t)
         /\ DOMAIN (s \o t) = 1..(Len(s) + Len(t))
         /\ \A i \in 1..Len(s) : (s \o t)[i] = s[i] /\ i \in 1..(Len(s) + Len(t))
         /\ \A k \in 1..Len(t) : /\ (s \o t)[Len(s) + k] = t[k]
                                 /\ Len(s) + k \in 1..(Len(s) + Len(t))
         /\ \A i \in 1..(Len(s) + Len(t)) :
              i \in 1..Len(s) \/ \E k \in 1..Len(t) : i = Len(s) + k
<1>1. /\ s \o t \in Seq(Lines) /\ Len(s) \in Nat /\ Len(t) \in Nat
      /\ DOMAIN s = 1..Len(s) /\ DOMAIN t = 1..Len(t)
      /\ DOMAIN (s \o t) = 1..(Len(s) + Len(t))
  OBVIOUS
<1>2. /\ \A i \in 1..Len(s) : (s \o t)[i] = s[i]
      /\ \A k \in 1..Len(t) : (s \o t)[Len(s) + k] = t[k]
  OBVIOUS
<1>3. /\ \A i \in 1..Len(s) : i \in 1..(Len(s) + Len(t))
      /\ \A k \in 1..Len(t) : Len(s) + k \in 1..(Len(s) + Len(t))
  BY <1>1
<1>4. ASSUME NEW i \in 1..(Len(s) + Len(t)), i \notin 1..Len(s)
      PROVE  \E k \in 1..Len(t) : i = Len(s) + k
  <2>1. i - Len(s) \in 1..Len(t) /\ i = Len(s) + (i - Len(s))
    BY <1>1, <1>4
  <2> QED BY <2>1, Zenon
<1> QED BY <1>1, <1>2, <1>3, <1>4, Zenon

(* What is appended is counted on top of what is there.                      *)
LEMMA CountsAppended ==
  ASSUME NEW s \in Seq(Lines), NEW t \in Seq(Lines), NEW kind
  PROVE  Count(s \o t, kind) = Count(s, kind) + Count(t, kind)
<1> DEFINE A == Places(s, kind)
           B == Places(t, kind)
           C == {Len(s) + i : i \in B}
<1>1. /\ s \o t \in Seq(Lines) /\ Len(s) \in Nat /\ Len(t) \in Nat
      /\ DOMAIN s = 1..Len(s) /\ DOMAIN t = 1..Len(t)
      /\ DOMAIN (s \o t) = 1..(Len(s) + Len(t))
  BY Joined, Zenon
<1>2. /\ \A i \in 1..Len(s) : (s \o t)[i] = s[i]
      /\ \A k \in 1..Len(t) : (s \o t)[Len(s) + k] = t[k]
  BY Joined, Zenon
<1>3. \A i \in 1..(Len(s) + Len(t)) : i \in 1..Len(s) \/ \E k \in 1..Len(t) : i = Len(s) + k
  BY Joined, Zenon
<1>4. /\ 1..Len(s) \subseteq 1..(Len(s) + Len(t))
      /\ \A k \in 1..Len(t) : Len(s) + k \in 1..(Len(s) + Len(t)) /\ Len(s) + k \notin 1..Len(s)
  BY <1>1
<1>5. Places(s \o t, kind) = A \cup C
  <2>1. ASSUME NEW i \in Places(s \o t, kind) PROVE i \in A \cup C
    <3>1. i \in 1..(Len(s) + Len(t)) /\ (s \o t)[i].kind = kind
      BY <1>1, <2>1, Zenon DEF Places
    <3>2. CASE i \in 1..Len(s)
      BY <1>1, <1>2, <3>1, <3>2, Zenon DEF Places
    <3>3. ASSUME NEW j \in 1..Len(t), i = Len(s) + j PROVE i \in C
      BY <1>1, <1>2, <3>1, <3>3, Zenon DEF Places
    <3> QED BY <1>3, <3>1, <3>2, <3>3, Zenon
  <2>2. ASSUME NEW i \in A PROVE i \in Places(s \o t, kind)
    BY <1>1, <1>2, <1>4, <2>2, Zenon DEF Places
  <2>3. ASSUME NEW j \in B PROVE Len(s) + j \in Places(s \o t, kind)
    BY <1>1, <1>2, <1>4, <2>3, Zenon DEF Places
  <2> QED BY <2>1, <2>2, <2>3, Zenon
<1>6. A \cap C = {}
  <2>1. A \subseteq 1..Len(s) /\ B \subseteq 1..Len(t)
    BY <1>1, Zenon DEF Places
  <2> QED BY <1>4, <2>1, Zenon
<1>7. /\ IsFiniteSet(A) /\ IsFiniteSet(B) /\ Count(s, kind) = Cardinality(A)
      /\ Count(t, kind) = Cardinality(B) /\ B \in SUBSET Nat
      /\ Count(s, kind) \in Nat /\ Count(t, kind) \in Nat
  <2>1. B \subseteq 1..Len(t)
    BY <1>1, Zenon DEF Places
  <2>2. B \in SUBSET Nat
    BY <1>1, <2>1
  <2> QED BY <2>2, Countable, Zenon
<1>8. IsFiniteSet(C) /\ Cardinality(C) = Cardinality(B)
  BY <1>1, <1>7, Shifted, Zenon
<1> HIDE DEF A, B, C
<1>9. Cardinality(A \cup C) = Cardinality(A) + Cardinality(C) - Cardinality(A \cap C)
  BY <1>7, <1>8, FS_Union, Zenon
<1>11. Cardinality(A \cap C) = 0
  BY <1>6, FS_EmptySet, Zenon
<1>10. Count(s \o t, kind) = Cardinality(A \cup C)
  BY <1>1, <1>5, Countable, Zenon
<1> QED BY <1>7, <1>8, <1>9, <1>10, <1>11

LEMMA CountsOne ==
  ASSUME NEW s \in Seq(Lines), NEW kind, Has(s, kind) => Len(s) = 1
  PROVE  Count(s, kind) = IF Has(s, kind) THEN 1 ELSE 0
<1>1. CASE ~Has(s, kind)
  <2>1. Places(s, kind) = {}
    BY <1>1, Zenon DEF Has, Places
  <2> QED BY <1>1, <2>1, Countable, FS_EmptySet, Zenon
<1>2. CASE Has(s, kind)
  <2>1. DOMAIN s = {1}
    BY <1>2
  <2>2. Places(s, kind) = {1}
    BY <1>2, <2>1, Zenon DEF Has, Places
  <2> QED BY <1>2, <2>2, Countable, FS_Singleton, Zenon
<1> QED BY <1>1, <1>2, Zenon

(* Who has a wrong key under way.                                            *)
Pending == {p \in Procs : InFlight(p) = 1}

LEMMA PendingCounts == IsFiniteSet(Pending) /\ Cardinality(Pending) \in Nat
<1>1. Pending \in SUBSET Procs
  BY Zenon DEF Pending
<1>2. IsFiniteSet(Pending)
  BY <1>1, AuditAssumption, FS_Subset, Zenon
<1> QED BY <1>2, FS_CardinalityType, Zenon

LEMMA PendingCountsThen == IsFiniteSet(Pending') /\ Cardinality(Pending') \in Nat
<1>1. Pending' \in SUBSET Procs
  BY Zenon DEF Pending
<1>2. IsFiniteSet(Pending')
  BY <1>1, AuditAssumption, FS_Subset, Zenon
<1> QED BY <1>2, FS_CardinalityType, Zenon

(* A step of one process changes their number by its own.                    *)
LEMMA Conserved ==
  ASSUME NEW p \in Procs, \A q \in Procs : q # p => InFlight(q)' = InFlight(q)
  PROVE  Cardinality(Pending') + InFlight(p) = Cardinality(Pending) + InFlight(p)'
<1>1. Pending \ {p} = Pending' \ {p}
  BY Zenon DEF Pending
<1>2. /\ Cardinality(Pending \ {p}) =
           IF p \in Pending THEN Cardinality(Pending) - 1 ELSE Cardinality(Pending)
      /\ Cardinality(Pending' \ {p}) =
           IF p \in Pending' THEN Cardinality(Pending') - 1 ELSE Cardinality(Pending')
  BY PendingCounts, PendingCountsThen, FS_RemoveElement, Zenon
<1>3. InFlight(p) = IF p \in Pending THEN 1 ELSE 0
  BY DEF Pending, InFlight
<1>4. InFlight(p)' = IF p \in Pending' THEN 1 ELSE 0
  BY DEF Pending, InFlight
<1>5. Cardinality(Pending \ {p}) = Cardinality(Pending' \ {p})
  BY <1>1, Zenon
<1> DEFINE c == Cardinality(Pending)
           d == Cardinality(Pending')
           now == p \in Pending
           then == p \in Pending'
<1>6. (IF now THEN c - 1 ELSE c) = (IF then THEN d - 1 ELSE d)
  BY <1>2, <1>5, Zenon
<1>7. c \in Nat /\ d \in Nat
  BY PendingCounts, PendingCountsThen, Zenon
<1> HIDE DEF c, d, now, then
<1>8. d + (IF now THEN 1 ELSE 0) = c + (IF then THEN 1 ELSE 0)
  BY <1>6, <1>7
<1> QED BY <1>3, <1>4, <1>8, Zenon DEF c, d, now, then

------------------------------------------------------------------------------
(* The steps, told apart by what they do to the log.                         *)

Idle == {"off", "selected", "flocked", "locked", "ready", "done"}

(* The log, the cards and what is under way between them stay as they are.   *)
Calm ==
  /\ UNCHANGED <<log, writer, out, card, failed, missed, mixed, faults>>
  /\ \A q \in Procs :
       /\ \/ proc'[q].at = proc[q].at /\ proc'[q].apdu = proc[q].apdu
          \/ /\ {proc[q].at, proc'[q].at} \subseteq Idle /\ proc'[q].at # "off"
             /\ proc[q].at = "ready" => out[q] = <<>>
       /\ \/ /\ proc'[q].reader = proc[q].reader /\ proc'[q].skip = proc[q].skip
             /\ proc'[q].covered => proc[q].covered
          \/ proc[q].at = "off" /\ proc'[q].at # "off"

(* Only p changes, and only its stage and what it sends.                     *)
Alone(p, to, apdu) ==
  /\ \A q \in Procs : q # p => proc'[q] = proc[q]
  /\ proc'[p].at = to /\ proc'[p].apdu = apdu /\ proc'[p].reader = proc[p].reader
  /\ proc'[p].skip = proc[p].skip /\ proc'[p].covered = proc[p].covered

LEMMA GoesAlone ==
  ASSUME LockInv, NEW p \in Procs, NEW to, Goes(p, to)
  PROVE  Alone(p, to, proc[p].apdu)
BY DEF LockInv, Processes, Process, Goes, Alone

LEMMA SendsAlone ==
  ASSUME LockInv, NEW p \in Procs, NEW to, NEW apdu,
         proc' = [proc EXCEPT ![p].at = to, ![p].apdu = apdu]
  PROVE  Alone(p, to, apdu)
BY DEF LockInv, Processes, Process, Alone

LEMMA GoesCalm ==
  ASSUME LockInv, NEW p \in Procs, NEW to \in Idle, to # "off", Goes(p, to), proc[p].at \in Idle,
         proc[p].at = "ready" => out[p] = <<>>,
         UNCHANGED <<log, writer, out, card, failed, missed, mixed, faults>>
  PROVE  Calm
<1>1. Alone(p, to, proc[p].apdu)
  BY GoesAlone, Zenon
<1>2. \A q \in Procs : q # p => proc'[q] = proc[q]
  BY <1>1, Zenon DEF Alone
<1>3. /\ proc'[p].at = to /\ proc'[p].reader = proc[p].reader /\ proc'[p].skip = proc[p].skip
      /\ proc'[p].covered = proc[p].covered
  BY <1>1, Zenon DEF Alone
<1>4. {proc[p].at, proc'[p].at} \subseteq Idle
  BY <1>3
<1> QED BY <1>2, <1>3, <1>4, Zenon DEF Calm

LEMMA QuietCalm == ASSUME LockInv, NEW p \in Procs, Quiet(p) PROVE Calm
<1>1. UNCHANGED <<log, writer, out, card, failed, missed, mixed, faults>>
  BY Zenon DEF Quiet, Launch, Acquire, WriteHolder, Connect, Exit, audit
<1>2. ASSUME Acquire(p) \/ WriteHolder(p) \/ Connect(p) \/ Exit(p) PROVE Calm
  <2>1. PICK to \in Idle : to # "off" /\ Goes(p, to)
    <3>1. {"flocked", "locked", "ready", "done"} \subseteq {to \in Idle : to # "off"}
      BY DEF Idle
    <3>2. \E to \in {"flocked", "locked", "ready", "done"} : Goes(p, to)
      BY <1>2, Zenon DEF Acquire, WriteHolder, Connect, Exit
    <3> QED BY <3>1, <3>2, Zenon
  <2>2. proc[p].at \in Idle /\ (proc[p].at = "ready" => out[p] = <<>>)
    BY <1>2 DEF Acquire, WriteHolder, Connect, Exit, Idle
  <2> QED BY <1>1, <2>1, <2>2, GoesCalm, Zenon
<1>3. ASSUME NEW pin \in Pins \cup {NoPin}, NEW skip \in BOOLEAN, Launch(p, pin, skip)
      PROVE  Calm
  <2>1. /\ proc[p].at = "off" /\ proc'[p].at \in {"selected", "done"}
        /\ \A q \in Procs : q # p => proc'[q] = proc[q]
    BY <1>3 DEF Launch, LockInv, Processes, Process
  <2>2. {proc[p].at, proc'[p].at} \subseteq Idle /\ proc[p].at # "ready" /\ proc'[p].at # "off"
    BY <2>1 DEF Idle
  <2> QED BY <1>1, <2>1, <2>2, Zenon DEF Calm
<1> QED BY <1>2, <1>3, Zenon DEF Quiet

LEMMA OthersCalm ==
  ASSUME LockInv,
         (ClockStep /\ UNCHANGED bench) \/ HarnessTakes \/ HarnessDrops \/ UNCHANGED vars
  PROVE  Calm
<1>1. UNCHANGED <<log, writer, out, card, failed, missed, mixed, faults>>
  BY Zenon DEF ClockStep, HarnessTakes, HarnessDrops, vars, audit, bench
<1>2. \A q \in Procs : /\ proc'[q].at = proc[q].at /\ proc'[q].apdu = proc[q].apdu
                       /\ proc'[q].reader = proc[q].reader /\ proc'[q].skip = proc[q].skip
                       /\ proc'[q].covered => proc[q].covered
  <2>1. CASE HarnessDrops
    BY <2>1 DEF HarnessDrops, LockInv, Processes, Process
  <2>2. CASE proc' = proc
    BY <2>2
  <2>3. HarnessDrops \/ proc' = proc
    BY Zenon DEF HarnessTakes, vars, bench
  <2> QED BY <2>1, <2>2, <2>3
<1> QED BY <1>1, <1>2, Zenon DEF Calm

(* Who is at the card goes on as it was.                                     *)
LEMMA CalmBusy ==
  ASSUME Calm, NEW q \in Procs,
         \/ proc[q].at \in {"sending", "answered", "wiping"}
         \/ proc'[q].at \in {"sending", "answered", "wiping"}
  PROVE  proc'[q].at = proc[q].at /\ proc'[q].apdu = proc[q].apdu
<1>1. ~({proc[q].at, proc'[q].at} \subseteq Idle)
  BY DEF Idle
<1> QED BY <1>1, Zenon DEF Calm

(* The steps that do change any of it, one after the other.                  *)
Stirs(p) ==
  \/ Kill(p) \/ LogRx(p) \/ LogWiped(p) \/ Writes(p)
  \/ \E apdu \in {"wrong", "reset"} : LogTx(p, apdu)
  \/ \E reached, arrives \in BOOLEAN : Transmit(p, reached, arrives)

LEMMA CalmOrStirs ==
  ASSUME LockInv, [BenchNext]_vars
  PROVE  Calm \/ \E p \in Procs : Stirs(p)
<1>1. CASE (ClockStep /\ UNCHANGED bench) \/ HarnessTakes \/ HarnessDrops \/ UNCHANGED vars
  BY <1>1, OthersCalm, Zenon
<1>2. ASSUME NEW p \in Procs, Quiet(p) \/ Stirs(p) PROVE Calm \/ \E q \in Procs : Stirs(q)
  BY <1>2, QuietCalm, Zenon
<1>3. \/ (ClockStep /\ UNCHANGED bench) \/ HarnessTakes \/ HarnessDrops \/ UNCHANGED vars
      \/ \E p \in Procs : Quiet(p) \/ Stirs(p)
  BY Zenon DEF BenchNext, Quiet, Stirs
<1> QED BY <1>1, <1>2, <1>3, Zenon

(* Of the lines of one process, only those of p change.                      *)
LEMMA OutSet ==
  ASSUME TypesInv, NEW p \in Procs, NEW s, out' = [out EXCEPT ![p] = s]
  PROVE  out'[p] = s /\ \A q \in Procs : q # p => out'[q] = out[q]
BY AuditIs, Zenon DEF TypesInv

------------------------------------------------------------------------------
(* Every wrong key is accounted for.                                         *)

Aloft(at, apdu, s) == IF (at = "answered" /\ apdu = "wrong") \/ Has(s, "91AE") THEN 1 ELSE 0

LEMMA AloftIs ==
  \A p : /\ InFlight(p) = Aloft(proc[p].at, proc[p].apdu, out[p])
         /\ InFlight(p)' = Aloft(proc'[p].at, proc'[p].apdu, out'[p])
BY Zenon DEF InFlight, Aloft, Has

LEMMA NothingHas == \A kind : ~Has(<<>>, kind)
BY NoLine, Zenon DEF Has

LEMMA OneHas ==
  ASSUME NEW l \in Lines, NEW kind
  PROVE  Has(<<l>>, kind) <=> l.kind = kind
BY OneLine, Zenon DEF Has

(* What is left in hand: an answer comes to a process without lines, and the *)
(* line of a wrong key is the only one.                                      *)
LoadInv ==
  \A p \in Procs : /\ proc[p].at = "answered" => out[p] = <<>>
                   /\ Has(out[p], "91AE") => Len(out[p]) = 1

AccountInv == LoadInv /\ FailuresAccounted

LEMMA LoadKept ==
  ASSUME LoadInv, NEW p \in Procs,
         \A q \in Procs : q # p => proc'[q] = proc[q] /\ out'[q] = out[q],
         proc'[p].at = "answered" => out'[p] = <<>>,
         Has(out'[p], "91AE") => Len(out'[p]) = 1
  PROVE  LoadInv'
BY Zenon DEF LoadInv

LEMMA Balance ==
  ASSUME TypesInv, TypesInv', FailuresAccounted, NEW p \in Procs,
         \A q \in Procs : q # p => proc'[q] = proc[q] /\ out'[q] = out[q],
         NEW a \in Nat, NEW b \in Nat, InFlight(p) = a, InFlight(p)' = b,
         failed' + Count(log, "91AE") + missed + a = failed + Count(log', "91AE") + missed' + b
  PROVE  FailuresAccounted'
<1>1. \A q \in Procs : q # p => InFlight(q)' = InFlight(q)
  BY AloftIs, Zenon
<1>2. Cardinality(Pending') + a = Cardinality(Pending) + b
  BY <1>1, Conserved, Zenon
<1>3. Cardinality(Pending) \in Nat /\ Cardinality(Pending') \in Nat
  BY PendingCounts, PendingCountsThen, Zenon
<1>4. Count(log, "91AE") \in Nat /\ Count(log', "91AE") \in Nat
  <2>1. log \in Seq(Lines) /\ log' \in Seq(Lines)
    BY Zenon DEF TypesInv, AuditTypeOK
  <2> QED BY <2>1, Countable, Zenon
<1>5. /\ failed = Count(log, "91AE") + missed + Cardinality(Pending)
      /\ failed \in Nat /\ missed \in Nat /\ failed' \in Nat /\ missed' \in Nat
  BY Zenon DEF FailuresAccounted, Pending, TypesInv
<1>6. failed' = Count(log', "91AE") + missed' + Cardinality(Pending')
  <2> DEFINE c == Count(log, "91AE")
             d == Count(log', "91AE")
             n == Cardinality(Pending)
             o == Cardinality(Pending')
             g == failed'
             k == missed'
  <2>1. g + c + missed + a = failed + d + k + b
    OBVIOUS
  <2>2. failed = c + missed + n /\ o + a = n + b
    BY <1>2, <1>5
  <2>3. {c, d, n, o, g, k, failed, missed} \subseteq Nat
    BY <1>3, <1>4, <1>5
  <2> HIDE DEF c, d, n, o, g, k
  <2>4. g = d + k + o
    BY <2>1, <2>2, <2>3
  <2> QED BY <2>4 DEF d, o, g, k
<1> QED BY <1>6, Zenon DEF FailuresAccounted, Pending

LEMMA PendingCalm == ASSUME Calm PROVE Pending' = Pending
<1>1. out' = out
  BY Zenon DEF Calm
<1>2. ASSUME NEW q \in Procs
      PROVE  /\ proc'[q].at = "answered" <=> proc[q].at = "answered"
             /\ proc[q].at = "answered" => proc'[q].apdu = proc[q].apdu
  BY CalmBusy, Zenon
<1>3. \A q \in Procs : InFlight(q)' = InFlight(q)
  BY <1>1, <1>2, AloftIs, Zenon DEF Aloft
<1> QED BY <1>3, Zenon DEF Pending

LEMMA AccountCalm ==
  ASSUME AccountInv, Calm
  PROVE  AccountInv'
<1>1. out' = out /\ log' = log /\ failed' = failed /\ missed' = missed
  BY Zenon DEF Calm
<1>2. ASSUME NEW q \in Procs
      PROVE  /\ proc'[q].at = "answered" <=> proc[q].at = "answered"
             /\ proc[q].at = "answered" => proc'[q].apdu = proc[q].apdu
  BY CalmBusy, Zenon
<1>4. Pending' = Pending
  BY PendingCalm
<1>5. FailuresAccounted'
  BY <1>1, <1>4, Zenon DEF AccountInv, FailuresAccounted, Pending
<1> QED BY <1>1, <1>2, <1>5, Zenon DEF AccountInv, LoadInv

LEMMA AccountStirs ==
  ASSUME LockInv, SendingInv, TypesInv, TypesInv', AccountInv, NEW p \in Procs, Stirs(p)
  PROVE  AccountInv'
<1> DEFINE Rest == \A q \in Procs : q # p => proc'[q] = proc[q] /\ out'[q] = out[q]
<1>0. /\ log \in Seq(Lines) /\ out[p] \in Seq(Lines) /\ Count(log, "91AE") \in Nat
      /\ failed \in Nat /\ missed \in Nat /\ LoadInv /\ FailuresAccounted
  BY Countable, Zenon DEF TypesInv, AuditTypeOK, AccountInv
<1>1. ASSUME Kill(p) PROVE AccountInv'
  <2>1. Alone(p, "done", proc[p].apdu)
    BY <1>1, GoesAlone, Zenon DEF Kill
  <2>2. out'[p] = <<>> /\ \A q \in Procs : q # p => out'[q] = out[q]
    BY <1>1, OutSet, Zenon DEF Kill
  <2>3. Rest /\ proc'[p].at = "done"
    BY <2>1, <2>2, Zenon DEF Alone
  <2>4. InFlight(p)' = 0
    BY <2>2, <2>3, AloftIs, NothingHas DEF Aloft
  <2>5. failed' = failed /\ log' = log /\ missed' = missed + InFlight(p)
    BY <1>1, Zenon DEF Kill
  <2>6. PICK a \in Nat : InFlight(p) = a
    BY InFlightIs
  <2>7. failed' + Count(log, "91AE") + missed + a = failed + Count(log', "91AE") + missed' + 0
    BY <1>0, <2>5, <2>6
  <2>8. FailuresAccounted'
    BY <1>0, <2>3, <2>4, <2>6, <2>7, 0 \in Nat, Balance, Zenon
  <2>9. LoadInv'
    BY <1>0, <2>2, <2>3, NothingHas, LoadKept
  <2> QED BY <2>8, <2>9, Zenon DEF AccountInv
<1>2. ASSUME NEW kind \in {"TX", "wiped"}, NEW to \in Stages \ {"answered"}, NEW apdu,
             Stamp(p, kind), Alone(p, to, apdu), out[p] = <<>>, proc[p].at # "answered",
             failed' = failed, missed' = missed, log' = log
      PROVE  AccountInv'
  <2>1. Stamped(out'[p], p, kind, writer[p]) /\ \A q \in Procs : q # p => out'[q] = out[q]
    BY <1>2, StampStep, Zenon DEF TypesInv
  <2>2. Rest /\ proc'[p].at = to
    BY <1>2, <2>1, Zenon DEF Alone
  <2>3. ~Has(out'[p], "91AE")
    BY <2>1 DEF Stamped, Has
  <2>4. InFlight(p) = 0
    BY <1>2, AloftIs, NothingHas DEF Aloft
  <2>5. InFlight(p)' = 0
    <3>1. proc'[p].at # "answered"
      BY <2>2
    <3> QED BY <2>3, <3>1, AloftIs, Zenon DEF Aloft
  <2>6. failed' + Count(log, "91AE") + missed + 0 = failed + Count(log', "91AE") + missed' + 0
    BY <1>2, Zenon
  <2>7. FailuresAccounted'
    BY <1>0, <2>2, <2>4, <2>5, <2>6, 0 \in Nat, Balance, Zenon
  <2>8. LoadInv'
    <3>1. proc'[p].at # "answered"
      BY <2>2
    <3> QED BY <1>0, <2>2, <2>3, <3>1, LoadKept, Zenon
  <2> QED BY <2>7, <2>8, Zenon DEF AccountInv
<1>3. ASSUME NEW apdu \in {"wrong", "reset"}, LogTx(p, apdu) PROVE AccountInv'
  <2>1. Alone(p, "sending", apdu)
    BY <1>3, SendsAlone, Zenon DEF LogTx
  <2>2. "sending" \in Stages \ {"answered"} /\ proc[p].at # "answered"
    BY <1>3 DEF Stages, LogTx
  <2> QED BY <1>2, <1>3, <2>1, <2>2, Zenon DEF LogTx
<1>4. ASSUME LogWiped(p) PROVE AccountInv'
  <2>1. Alone(p, "ready", proc[p].apdu)
    BY <1>4, GoesAlone, Zenon DEF LogWiped
  <2>2. "ready" \in Stages \ {"answered"} /\ proc[p].at # "answered"
    BY <1>4 DEF Stages, LogWiped
  <2> QED BY <1>2, <1>4, <2>1, <2>2, Zenon DEF LogWiped
<1>5. ASSUME NEW reached \in BOOLEAN, NEW arrives \in BOOLEAN, Transmit(p, reached, arrives)
      PROVE  AccountInv'
  <2>1. Alone(p, "answered", IF arrives THEN proc[p].apdu ELSE "none")
    <3> DEFINE apdu == IF arrives THEN proc[p].apdu ELSE "none"
    <3>1. proc' = [proc EXCEPT ![p].at = "answered", ![p].apdu = apdu]
      BY <1>5 DEF Transmit, LockInv, Processes, Process
    <3> HIDE DEF apdu
    <3>2. Alone(p, "answered", apdu)
      BY <3>1, SendsAlone, Zenon
    <3> QED BY <3>2 DEF apdu
  <2>2. out' = out /\ log' = log /\ out[p] = <<>> /\ proc[p].at = "sending"
    BY <1>5, Zenon DEF Transmit, audit
  <2>3. /\ Rest /\ proc'[p].at = "answered"
        /\ proc'[p].apdu = IF arrives THEN proc[p].apdu ELSE "none"
    BY <2>1, <2>2, Zenon DEF Alone
  <2>4. InFlight(p) = 0
    BY <2>2, AloftIs, NothingHas DEF Aloft
  <2>5. InFlight(p)' = IF arrives /\ proc[p].apdu = "wrong" THEN 1 ELSE 0
    BY <2>2, <2>3, AloftIs, NothingHas DEF Aloft
  <2>6. PICK b \in Nat : b = IF arrives /\ proc[p].apdu = "wrong" THEN 1 ELSE 0
    OBVIOUS
  <2>7. failed' + Count(log, "91AE") + missed + 0 = failed + Count(log', "91AE") + missed' + b
    BY <1>0, <1>5, <2>2, <2>6 DEF Transmit
  <2>8. FailuresAccounted'
    BY <1>0, <2>3, <2>4, <2>5, <2>6, <2>7, 0 \in Nat, Balance, Zenon
  <2>9. LoadInv'
    BY <1>0, <2>2, <2>3, NothingHas, LoadKept, Zenon
  <2> QED BY <2>8, <2>9, Zenon DEF AccountInv
<1>6. ASSUME LogRx(p) PROVE AccountInv'
  <2>1. PICK to \in {"wiping", "ready"} : Alone(p, to, proc[p].apdu)
    BY <1>6, GoesAlone, Zenon DEF LogRx
  <2>2. PICK l \in Lines : /\ out' = [out EXCEPT ![p] = <<l>>]
                           /\ l.kind = IF proc[p].apdu = "wrong" THEN "91AE" ELSE "RX"
    <3> DEFINE k == IF proc[p].apdu = "wrong" THEN "91AE" ELSE "RX"
    <3>1. writer[p].last \in 0..MaxTime /\ k \in Kinds
      BY DEF TypesInv, AuditTypeOK, Kinds
    <3>2. out' = [out EXCEPT ![p] = <<Line(p, k, writer[p].last)>>]
      BY <1>6, Zenon DEF LogRx
    <3> HIDE DEF k
    <3>3. Line(p, k, writer[p].last) \in Lines /\ Line(p, k, writer[p].last).kind = k
      BY <3>1, LineIs
    <3> QED BY <3>2, <3>3, Zenon DEF k
  <2>3. out'[p] = <<l>> /\ \A q \in Procs : q # p => out'[q] = out[q]
    BY <2>2, OutSet, Zenon
  <2>4. Rest /\ proc'[p].at = to /\ to # "answered"
    BY <2>1, <2>3 DEF Alone
  <2>5. proc[p].at = "answered" /\ out[p] = <<>> /\ failed' = failed /\ missed' = missed /\ log' = log
    BY <1>0, <1>6, Zenon DEF LogRx, LoadInv
  <2>6. Has(out'[p], "91AE") <=> proc[p].apdu = "wrong"
    <3>1. l.kind = "91AE" <=> proc[p].apdu = "wrong"
      BY <2>2
    <3> QED BY <2>3, <3>1, OneHas, Zenon
  <2>7. PICK b \in Nat : b = IF proc[p].apdu = "wrong" THEN 1 ELSE 0
    OBVIOUS
  <2>8. InFlight(p) = b
    BY <2>5, <2>7, AloftIs, NothingHas, Zenon DEF Aloft
  <2>9. InFlight(p)' = b
    BY <2>4, <2>6, <2>7, AloftIs, Zenon DEF Aloft
  <2>10. FailuresAccounted'
    BY <1>0, <2>4, <2>5, <2>8, <2>9, Balance, Zenon
  <2>11. LoadInv'
    <3>1. Len(out'[p]) = 1
      BY <2>3, OneLine, Zenon
    <3> QED BY <1>0, <2>4, <3>1, LoadKept, Zenon
  <2> QED BY <2>10, <2>11, Zenon DEF AccountInv
<1>7. ASSUME Writes(p) PROVE AccountInv'
  <2>1. /\ out[p] # <<>> /\ out' = [out EXCEPT ![p] = <<>>] /\ proc' = proc /\ failed' = failed
        /\ \/ log' = log \o out[p] /\ missed' = missed
           \/ log' = log /\ missed' = missed + InFlight(p)
    BY <1>7, Zenon DEF Writes, WriteRaw, bench
  <2>2. out'[p] = <<>> /\ \A q \in Procs : q # p => out'[q] = out[q]
    BY <2>1, OutSet, Zenon
  <2>3. Rest /\ proc[p].at # "answered" /\ proc'[p].at # "answered"
    BY <1>0, <2>1, <2>2, Zenon DEF LoadInv
  <2>4. InFlight(p)' = 0
    BY <2>2, <2>3, AloftIs, NothingHas, Zenon DEF Aloft
  <2>5. InFlight(p) = Count(out[p], "91AE") /\ Count(out[p], "91AE") \in Nat
    <3>1. Count(out[p], "91AE") = IF Has(out[p], "91AE") THEN 1 ELSE 0
      BY <1>0, CountsOne, Zenon DEF LoadInv
    <3>2. InFlight(p) = IF Has(out[p], "91AE") THEN 1 ELSE 0
      BY <2>3, AloftIs, Zenon DEF Aloft
    <3> QED BY <1>0, <3>1, <3>2, Countable, Zenon
  <2>6. PICK a \in Nat : a = Count(out[p], "91AE")
    BY <2>5
  <2>7. Count(log \o out[p], "91AE") = Count(log, "91AE") + a
    BY <1>0, <2>6, CountsAppended, Zenon
  <2>8. failed' + Count(log, "91AE") + missed + a = failed + Count(log', "91AE") + missed' + 0
    <3>1. CASE log' = log \o out[p] /\ missed' = missed
      <4>1. Count(log', "91AE") = Count(log, "91AE") + a
        BY <2>7, <3>1, Zenon
      <4> QED BY <1>0, <2>1, <3>1, <4>1
    <3>2. CASE log' = log /\ missed' = missed + InFlight(p)
      BY <1>0, <2>1, <2>5, <2>6, <3>2
    <3> QED BY <2>1, <3>1, <3>2, Zenon
  <2>9. FailuresAccounted'
    BY <1>0, <2>3, <2>4, <2>5, <2>6, <2>8, 0 \in Nat, Balance, Zenon
  <2>10. LoadInv'
    BY <1>0, <2>2, <2>3, NothingHas, LoadKept, Zenon
  <2> QED BY <2>9, <2>10, Zenon DEF AccountInv
<1> QED BY <1>1, <1>3, <1>4, <1>5, <1>6, <1>7, Zenon DEF Stirs

LEMMA AccountStep ==
  ASSUME LockInv, SendingInv, TypesInv, TypesInv', AccountInv, [BenchNext]_vars
  PROVE  AccountInv'
BY CalmOrStirs, AccountCalm, AccountStirs, Zenon

LEMMA AccountInit == BenchInit => AccountInv
<1> SUFFICES ASSUME BenchInit PROVE AccountInv
  OBVIOUS
<1>1. /\ \A p \in Procs : proc[p].at = "off" /\ out[p] = <<>>
      /\ log = <<>> /\ failed = 0 /\ missed = 0
  BY Zenon DEF BenchInit, AuditInit
<1>2. \A p \in Procs : InFlight(p) = 0
  BY <1>1, AloftIs, NothingHas DEF Aloft
<1>3. Cardinality(Pending) = 0
  <2>1. Pending = {}
    BY <1>2 DEF Pending
  <2> QED BY <2>1, FS_EmptySet, Zenon
<1>4. Count(log, "91AE") = 0
  <2>1. Count(<<>>, "91AE") = 0
    BY NoLine, NothingHas, CountsOne, Zenon
  <2> QED BY <1>1, <2>1
<1>5. FailuresAccounted
  <2>1. failed = Count(log, "91AE") + missed + Cardinality(Pending)
    BY <1>1, <1>3, <1>4
  <2> QED BY <2>1, Zenon DEF FailuresAccounted, Pending
<1>6. LoadInv
  BY <1>1, NothingHas, Zenon DEF LoadInv
<1> QED BY <1>5, <1>6 DEF AccountInv

------------------------------------------------------------------------------
(* The lines of the file, in order: banners first, steps of the clock noted. *)

By(s, p) == \E i \in DOMAIN s : s[i].by = p

LEMMA JoinedBy ==
  ASSUME NEW s \in Seq(Lines), NEW t \in Seq(Lines), NEW p
  PROVE  By(s \o t, p) <=> By(s, p) \/ By(t, p)
<1> DEFINE n == Len(s)
           l == s \o t
<1>0. /\ DOMAIN s = 1..n /\ DOMAIN t = 1..Len(t) /\ DOMAIN l = 1..(n + Len(t))
      /\ \A i \in 1..n : l[i] = s[i] /\ i \in 1..(n + Len(t))
      /\ \A k \in 1..Len(t) : l[n + k] = t[k] /\ n + k \in 1..(n + Len(t))
      /\ \A i \in 1..(n + Len(t)) : i \in 1..n \/ \E k \in 1..Len(t) : i = n + k
  BY Joined, Zenon
<1> HIDE DEF n, l
<1>1. ASSUME NEW i \in DOMAIN l, l[i].by = p PROVE By(s, p) \/ By(t, p)
  <2>1. i \in 1..n \/ \E k \in 1..Len(t) : i = n + k
    BY <1>0, Zenon
  <2>2. CASE i \in 1..n
    BY <1>0, <1>1, <2>2, Zenon DEF By
  <2>3. ASSUME NEW k \in 1..Len(t), i = n + k PROVE By(t, p)
    BY <1>0, <1>1, <2>3, Zenon DEF By
  <2> QED BY <2>1, <2>2, <2>3, Zenon
<1>2. ASSUME NEW i \in DOMAIN s, s[i].by = p PROVE By(l, p)
  BY <1>0, <1>2, Zenon DEF By
<1>3. ASSUME NEW i \in DOMAIN t, t[i].by = p PROVE By(l, p)
  BY <1>0, <1>3, Zenon DEF By
<1> QED BY <1>1, <1>2, <1>3, Zenon DEF By, l

Banners(s) ==
  \A i \in DOMAIN s : (s[i].kind = "banner") <=> (\A j \in 1..(i - 1) : s[j].by # s[i].by)

(* One process appends lines, with a banner if they are its first.           *)
LEMMA BannersAppended ==
  ASSUME NEW s \in Seq(Lines), NEW t \in Seq(Lines), NEW p, Banners(s),
         \A k \in DOMAIN t : t[k].by = p /\ (t[k].kind = "banner" <=> k = 1 /\ ~By(s, p))
  PROVE  Banners(s \o t)
<1> DEFINE n == Len(s)
           l == s \o t
<1>0. /\ n \in Nat /\ Len(t) \in Nat /\ DOMAIN s = 1..n /\ DOMAIN t = 1..Len(t)
      /\ DOMAIN l = 1..(n + Len(t)) /\ \A i \in 1..n : l[i] = s[i]
      /\ \A k \in 1..Len(t) : l[n + k] = t[k]
      /\ \A i \in 1..(n + Len(t)) : i \in 1..n \/ \E k \in 1..Len(t) : i = n + k
  BY Joined, Zenon
<1> HIDE DEF n, l
<1>1. ASSUME NEW i \in 1..n
      PROVE  l[i].kind = "banner" <=> \A j \in 1..(i - 1) : l[j].by # l[i].by
  <2>1. \A j \in 1..(i - 1) : j \in 1..n
    BY <1>0
  <2>2. \A j \in 1..(i - 1) : l[j] = s[j]
    BY <1>0, <2>1, Zenon
  <2>3. s[i].kind = "banner" <=> \A j \in 1..(i - 1) : s[j].by # s[i].by
    BY <1>0, Zenon DEF Banners
  <2>4. l[i] = s[i]
    BY <1>0, Zenon
  <2> QED BY <2>2, <2>3, <2>4, Zenon
<1>2. ASSUME NEW k \in 1..Len(t), NEW i, i = n + k
      PROVE  l[i].kind = "banner" <=> \A j \in 1..(i - 1) : l[j].by # l[i].by
  <2>1. l[i] = t[k] /\ t[k].by = p /\ (t[k].kind = "banner" <=> k = 1 /\ ~By(s, p))
    BY <1>0, <1>2, Zenon
  <2>2. CASE By(s, p)
    <3>1. PICK j \in 1..n : s[j].by = p
      BY <1>0, <2>2, Zenon DEF By
    <3>2. j \in 1..(i - 1) /\ l[j].by = p
      <4>1. j \in 1..(i - 1)
        BY <1>0, <1>2
      <4> QED BY <1>0, <3>1, <4>1, Zenon
    <3> QED BY <2>1, <2>2, <3>2, Zenon
  <2>3. CASE k # 1
    <3>1. n + 1 \in 1..(i - 1) /\ 1 \in 1..Len(t)
      BY <1>0, <1>2, <2>3
    <3>2. l[n + 1] = t[1] /\ t[1].by = p
      BY <1>0, <3>1, Zenon
    <3> QED BY <2>1, <2>3, <3>1, <3>2, Zenon
  <2>4. CASE k = 1 /\ ~By(s, p)
    <3>1. 1..(i - 1) = 1..n
      BY <1>0, <1>2, <2>4
    <3>2. \A j \in 1..n : l[j].by # p
      BY <1>0, <2>4, Zenon DEF By
    <3> QED BY <2>1, <2>4, <3>1, <3>2, Zenon
  <2> QED BY <2>2, <2>3, <2>4, Zenon
<1>3. ASSUME NEW i \in DOMAIN l
      PROVE  l[i].kind = "banner" <=> \A j \in 1..(i - 1) : l[j].by # l[i].by
  <2>1. i \in 1..n \/ \E k \in 1..Len(t) : i = n + k
    BY <1>0, Zenon
  <2>2. ASSUME NEW k \in 1..Len(t), i = n + k
        PROVE  l[i].kind = "banner" <=> \A j \in 1..(i - 1) : l[j].by # l[i].by
    BY <1>2, <2>2, Zenon
  <2> QED BY <1>1, <2>1, <2>2, Zenon
<1> QED BY <1>3, Zenon DEF Banners, l

Marked(s) ==
  \A i, j \in DOMAIN s :
    (/\ i < j /\ s[i].by = s[j].by /\ s[j].ts < s[i].ts /\ s[i].kind # "banner")
    => \E k \in 1..j : s[k].by = s[j].by /\ s[k].kind = "step"

Stepped(s, p) == \E k \in DOMAIN s : s[k].by = p /\ s[k].kind = "step"

(* One process appends lines with one stamp; if there is a later one of its  *)
(* own before, it has noted a step, or does so in the first.                 *)
LEMMA MarkedAppended ==
  ASSUME NEW s \in Seq(Lines), NEW t \in Seq(Lines), NEW p, NEW ts \in Nat, Marked(s),
         \A k \in DOMAIN t : t[k].by = p /\ t[k].ts = ts,
         \/ Stepped(s, p) \/ (t # <<>> /\ t[1].kind = "step")
         \/ \A i \in DOMAIN s : s[i].by = p => s[i].ts <= ts
  PROVE  Marked(s \o t)
<1> DEFINE n == Len(s)
           l == s \o t
<1>0. /\ n \in Nat /\ Len(t) \in Nat /\ DOMAIN s = 1..n /\ DOMAIN t = 1..Len(t)
      /\ DOMAIN l = 1..(n + Len(t)) /\ \A i \in 1..n : l[i] = s[i]
      /\ \A k \in 1..Len(t) : l[n + k] = t[k]
      /\ \A i \in 1..(n + Len(t)) : i \in 1..n \/ \E k \in 1..Len(t) : i = n + k
  BY Joined, Zenon
<1> HIDE DEF n, l
<1>1. ASSUME NEW i \in 1..(n + Len(t)), NEW j \in 1..n,
             i < j /\ l[i].by = l[j].by /\ l[j].ts < l[i].ts /\ l[i].kind # "banner"
      PROVE  \E k \in 1..j : l[k].by = l[j].by /\ l[k].kind = "step"
  <2>1. i \in 1..n /\ \A k \in 1..j : k \in 1..n
    BY <1>0, <1>1
  <2>2. l[i] = s[i] /\ l[j] = s[j] /\ \A k \in 1..j : l[k] = s[k]
    BY <1>0, <2>1, Zenon
  <2>3. \E k \in 1..j : s[k].by = s[j].by /\ s[k].kind = "step"
    BY <1>0, <1>1, <2>1, <2>2, Zenon DEF Marked
  <2> QED BY <2>2, <2>3, Zenon
<1>2. ASSUME NEW i \in 1..(n + Len(t)), NEW m \in 1..Len(t), l[i].by = l[n + m].by,
             l[n + m].ts < l[i].ts
      PROVE  \E k \in 1..(n + m) : l[k].by = l[n + m].by /\ l[k].kind = "step"
  <2>1. l[n + m] = t[m] /\ t[m].by = p /\ t[m].ts = ts
    BY <1>0, Zenon
  <2>2. i \in 1..n
    <3>1. ASSUME NEW k \in 1..Len(t), i = n + k PROVE FALSE
      <4>1. l[i].ts = ts
        BY <1>0, <3>1, Zenon
      <4>2. ts < ts
        BY <1>2, <2>1, <4>1, Zenon
      <4> QED BY <4>2
    <3> QED BY <1>0, <3>1, Zenon
  <2>3. s[i].by = p /\ ts < s[i].ts
    BY <1>0, <1>2, <2>1, <2>2, Zenon
  <2>4. s[i].ts \in Nat
    <3>1. s[i] \in Lines
      BY <1>0, <2>2
    <3> QED BY <3>1 DEF Lines
  <2>5. ~(s[i].ts <= ts)
    BY <2>3, <2>4
  <2>6. Stepped(s, p) \/ (t # <<>> /\ t[1].kind = "step")
    BY <1>0, <2>2, <2>3, <2>5, Zenon
  <2>7. CASE Stepped(s, p)
    <3>1. PICK k \in 1..n : s[k].by = p /\ s[k].kind = "step"
      BY <1>0, <2>7, Zenon DEF Stepped
    <3>2. k \in 1..(n + m)
      BY <1>0
    <3> QED BY <1>0, <2>1, <3>1, <3>2, Zenon
  <2>8. CASE t[1].kind = "step"
    <3>1. n + 1 \in 1..(n + m) /\ 1 \in 1..Len(t)
      BY <1>0
    <3>2. l[n + 1] = t[1] /\ t[1].by = p
      BY <1>0, <3>1, Zenon
    <3> QED BY <2>1, <2>8, <3>1, <3>2, Zenon
  <2> QED BY <2>6, <2>7, <2>8, Zenon
<1>3. ASSUME NEW i \in DOMAIN l, NEW j \in DOMAIN l,
             i < j /\ l[i].by = l[j].by /\ l[j].ts < l[i].ts /\ l[i].kind # "banner"
      PROVE  \E k \in 1..j : l[k].by = l[j].by /\ l[k].kind = "step"
  <2>1. j \in 1..n \/ \E k \in 1..Len(t) : j = n + k
    BY <1>0, Zenon
  <2>2. i \in 1..(n + Len(t))
    BY <1>0, Zenon
  <2>3. CASE j \in 1..n
    BY <1>1, <1>3, <2>2, <2>3, Zenon
  <2>4. ASSUME NEW m \in 1..Len(t), j = n + m
        PROVE  \E k \in 1..j : l[k].by = l[j].by /\ l[k].kind = "step"
    BY <1>2, <1>3, <2>2, <2>4, Zenon
  <2> QED BY <2>1, <2>3, <2>4, Zenon
<1> QED BY <1>3, Zenon DEF Marked, l

(* A process that has written no banner has written nothing; its lines are   *)
(* its own, all with its last stamp.                                         *)
Author(w, s, at, p) ==
  /\ ~w.banner => w = FreshWriter
  /\ \A i \in DOMAIN s : s[i].by = p /\ s[i].ts = w.last
  /\ at \in {"sending", "answered", "wiping"} => w.banner

WriterInv == \A p \in Procs : Author(writer[p], out[p], proc[p].at, p)

(* What the file l and the lines s in hand say of p: the banner is in one of *)
(* them if it was written, and so is the note of a step; without a note no   *)
(* stamp in the file is later than the last.                                 *)
Own(l, s, w, p) ==
  /\ w.banner /\ s = <<>> => By(l, p)
  /\ ~w.banner => s = <<>> /\ ~By(l, p)
  /\ \A i \in DOMAIN s : s[i].kind = "banner" <=> i = 1 /\ ~By(l, p)
  /\ w.noted => Stepped(l, p) \/ (s # <<>> /\ s[1].kind = "step")
  /\ ~w.noted => \A i \in DOMAIN l : l[i].by = p => l[i].ts <= w.last

FileInv ==
  faults = 0 => /\ Banners(log) /\ Marked(log)
                /\ \A p \in Procs : Own(log, out[p], writer[p], p)

LEMMA OwnStamped ==
  ASSUME AuditTypeOK, NEW p \in Procs, NEW kind, NEW w \in Writers, NEW v, NEW s,
         Own(log, <<>>, w, p), ~w.banner => w = FreshWriter, Stamped(s, p, kind, w),
         v.banner, v.last = clock, v.noted <=> w.noted \/ SteppedBack(w)
  PROVE  Own(log, s, v, p)
<1>1. s # <<>> /\ \A i \in DOMAIN s : s[i].kind = "banner" <=> i = 1 /\ ~w.banner
  BY Zenon DEF Stamped
<1>2. ~w.banner <=> ~By(log, p)
  BY Zenon DEF Own
<1>3. \A i \in DOMAIN s : s[i].kind = "banner" <=> i = 1 /\ ~By(log, p)
  BY <1>1, <1>2, Zenon
<1>4. w.start \in Nat /\ w.last \in Nat /\ clock \in Nat /\ clock # 0
  BY AuditAssumption DEF Writers, AuditTypeOK
<1>5. SteppedBack(w) => w.banner
  BY <1>4 DEF SteppedBack, Reference, FreshWriter
<1>6. SteppedBack(w) => s[1].kind = "step"
  BY <1>5, Zenon DEF Stamped
<1>7. w.noted => Stepped(log, p)
  BY Zenon DEF Own
<1>8. v.noted => Stepped(log, p) \/ (s # <<>> /\ s[1].kind = "step")
  BY <1>1, <1>6, <1>7, Zenon
<1>9. ASSUME ~v.noted, NEW i \in DOMAIN log, log[i].by = p PROVE log[i].ts <= v.last
  <2>1. ~w.noted /\ ~SteppedBack(w)
    BY <1>9, Zenon
  <2>2. ~(clock < Reference(w))
    BY <2>1, Zenon DEF SteppedBack
  <2>3. w.last <= clock
    BY <1>4, <2>2 DEF Reference
  <2>4. log[i].ts <= w.last
    BY <1>9, <2>1, Zenon DEF Own
  <2>5. log[i].ts \in Nat
    <3>1. log[i] \in Lines
      BY DEF AuditTypeOK
    <3> QED BY <3>1 DEF Lines
  <2>6. log[i].ts <= clock
    BY <1>4, <2>3, <2>4, <2>5
  <2> QED BY <2>6, Zenon
<1> QED BY <1>1, <1>3, <1>8, <1>9, Zenon DEF Own

LEMMA OwnAnswered ==
  ASSUME NEW l, NEW w, NEW p, NEW c \in Lines, Own(l, <<>>, w, p), w.banner,
         c.kind # "banner"
  PROVE  Own(l, <<c>>, w, p)
<1>1. By(l, p)
  BY Zenon DEF Own
<1>2. \A i \in DOMAIN <<c>> : <<c>>[i].kind # "banner"
  BY OneLine, Zenon
<1>3. w.noted => Stepped(l, p)
  BY Zenon DEF Own
<1> QED BY <1>1, <1>2, <1>3, Zenon DEF Own

LEMMA SteppedStays ==
  ASSUME NEW l \in Seq(Lines), NEW s \in Seq(Lines), NEW p, Stepped(l, p)
  PROVE  Stepped(l \o s, p)
<1>1. PICK k \in 1..Len(l) : l[k].by = p /\ l[k].kind = "step"
  BY Joined, Zenon DEF Stepped
<1>2. k \in DOMAIN (l \o s)
  <2>1. k \in 1..(Len(l) + Len(s)) /\ DOMAIN (l \o s) = 1..(Len(l) + Len(s))
    BY Joined, Zenon
  <2> QED BY <2>1, Zenon
<1>3. (l \o s)[k] = l[k]
  BY Joined, Zenon
<1> QED BY <1>1, <1>2, <1>3, Zenon DEF Stepped

LEMMA OwnWritten ==
  ASSUME NEW l \in Seq(Lines), NEW s \in Seq(Lines), NEW w, w.last \in Nat, NEW p,
         Own(l, s, w, p), s # <<>>, \A i \in DOMAIN s : s[i].by = p /\ s[i].ts = w.last
  PROVE  Own(l \o s, <<>>, w, p)
<1> DEFINE n == Len(l)
           t == l \o s
<1>0. /\ DOMAIN l = 1..n /\ DOMAIN s = 1..Len(s) /\ DOMAIN t = 1..(n + Len(s))
      /\ \A i \in 1..n : t[i] = l[i]
      /\ \A k \in 1..Len(s) : t[n + k] = s[k] /\ n + k \in 1..(n + Len(s))
      /\ \A i \in 1..(n + Len(s)) : i \in 1..n \/ \E k \in 1..Len(s) : i = n + k
  BY Joined, Zenon
<1>1. 1 \in DOMAIN s /\ 1 \in 1..Len(s)
  OBVIOUS
<1>2. By(s, p)
  BY <1>1, Zenon DEF By
<1>3. By(t, p)
  BY <1>2, JoinedBy, Zenon
<1>4. w.banner
  BY Zenon DEF Own
<1>5. ASSUME w.noted PROVE Stepped(t, p)
  <2>1. CASE Stepped(l, p)
    BY <2>1, SteppedStays, Zenon
  <2>2. CASE s[1].kind = "step"
    <3> HIDE DEF n, t
    <3>1. t[n + 1] = s[1] /\ n + 1 \in DOMAIN t /\ s[1].by = p
      BY <1>0, <1>1, Zenon
    <3> QED BY <2>2, <3>1, Zenon DEF Stepped
  <2> QED BY <1>5, <2>1, <2>2, Zenon DEF Own
<1> HIDE DEF n, t
<1>6. ASSUME ~w.noted, NEW i \in DOMAIN t, t[i].by = p PROVE t[i].ts <= w.last
  <2>1. i \in 1..n \/ \E k \in 1..Len(s) : i = n + k
    BY <1>0, Zenon
  <2>2. CASE i \in 1..n
    BY <1>0, <1>6, <2>2, Zenon DEF Own
  <2>3. ASSUME NEW k \in 1..Len(s), i = n + k PROVE t[i].ts <= w.last
    <3>1. t[i] = s[k] /\ s[k].ts = w.last
      BY <1>0, <2>3, Zenon
    <3>2. w.last <= w.last
      OBVIOUS
    <3> QED BY <3>1, <3>2, Zenon
  <2> QED BY <2>1, <2>2, <2>3, Zenon
<1> QED BY <1>3, <1>4, <1>5, <1>6, NoLine, Zenon DEF Own, t

LEMMA OwnElsewhere ==
  ASSUME NEW l \in Seq(Lines), NEW s \in Seq(Lines), NEW p, NEW q, q # p, NEW w, NEW r,
         Own(l, r, w, q), \A i \in DOMAIN s : s[i].by = p
  PROVE  Own(l \o s, r, w, q)
<1> DEFINE n == Len(l)
           t == l \o s
<1>0. /\ DOMAIN l = 1..n /\ DOMAIN s = 1..Len(s) /\ DOMAIN t = 1..(n + Len(s))
      /\ \A i \in 1..n : t[i] = l[i]
      /\ \A k \in 1..Len(s) : t[n + k] = s[k]
      /\ \A i \in 1..(n + Len(s)) : i \in 1..n \/ \E k \in 1..Len(s) : i = n + k
  BY Joined, Zenon
<1>1. ~By(s, q)
  BY Zenon DEF By
<1>2. By(t, q) <=> By(l, q)
  BY <1>1, JoinedBy, Zenon
<1>3. Stepped(l, q) => Stepped(t, q)
  BY SteppedStays, Zenon
<1> HIDE DEF n, t
<1>4. ASSUME ~w.noted, NEW i \in DOMAIN t, t[i].by = q PROVE t[i].ts <= w.last
  <2>1. i \in 1..n \/ \E k \in 1..Len(s) : i = n + k
    BY <1>0, Zenon
  <2>2. CASE i \in 1..n
    BY <1>0, <1>4, <2>2, Zenon DEF Own
  <2>3. ASSUME NEW k \in 1..Len(s), i = n + k PROVE FALSE
    BY <1>0, <1>4, <2>3, Zenon
  <2> QED BY <2>1, <2>2, <2>3, Zenon
<1> QED BY <1>2, <1>3, <1>4, Zenon DEF Own, t

LEMMA FileKept ==
  ASSUME FileInv, NEW p \in Procs, log' = log, faults' = faults,
         \A q \in Procs : q # p => out'[q] = out[q] /\ writer'[q] = writer[q],
         faults = 0 => Own(log, out'[p], writer'[p], p)
  PROVE  FileInv'
<1>1. ASSUME faults' = 0 PROVE \A q \in Procs : Own(log, out'[q], writer'[q], q)
  BY <1>1, Zenon DEF FileInv
<1> QED BY <1>1, Zenon DEF FileInv

LEMMA FileLost == ASSUME TypesInv, faults' = faults + 1 PROVE FileInv'
<1>1. faults' # 0
  BY DEF TypesInv
<1> QED BY <1>1, Zenon DEF FileInv

LEMMA FileSame ==
  ASSUME FileInv, log' = log, out' = out, writer' = writer, faults' = faults
  PROVE  FileInv'
BY Zenon DEF FileInv

LEMMA WriterKept ==
  ASSUME WriterInv, NEW p \in Procs,
         \A q \in Procs : q # p => /\ out'[q] = out[q] /\ writer'[q] = writer[q]
                                   /\ proc'[q] = proc[q],
         Author(writer'[p], out'[p], proc'[p].at, p)
  PROVE  WriterInv'
<1>1. ASSUME NEW q \in Procs, q # p PROVE Author(writer'[q], out'[q], proc'[q].at, q)
  BY <1>1, Zenon DEF WriterInv
<1> QED BY <1>1, Zenon DEF WriterInv

LEMMA FileCalm ==
  ASSUME WriterInv, FileInv, Calm
  PROVE  WriterInv' /\ FileInv'
<1>1. out' = out /\ log' = log /\ writer' = writer /\ faults' = faults
  BY Zenon DEF Calm
<1>2. \A q \in Procs : proc'[q].at \in {"sending", "answered", "wiping"} => proc'[q].at = proc[q].at
  BY CalmBusy, Zenon
<1>3. FileInv'
  BY <1>1, FileSame, Zenon
<1>4. ASSUME NEW q \in Procs, proc'[q].at \in {"sending", "answered", "wiping"}
      PROVE  writer[q].banner
  BY <1>2, <1>4, Zenon DEF WriterInv, Author
<1>5. ASSUME NEW q \in Procs PROVE Author(writer[q], out[q], proc'[q].at, q)
  BY <1>4, Zenon DEF WriterInv, Author
<1>6. WriterInv'
  BY <1>1, <1>5, Zenon DEF WriterInv
<1> QED BY <1>3, <1>6

LEMMA FileStirs ==
  ASSUME LockInv, TypesInv, LoadInv, WriterInv, FileInv, NEW p \in Procs, Stirs(p)
  PROVE  WriterInv' /\ FileInv'
<1>0. /\ log \in Seq(Lines) /\ out[p] \in Seq(Lines) /\ writer[p] \in Writers
      /\ writer[p].last \in Nat /\ AuditTypeOK
  <2>1. log \in Seq(Lines) /\ out[p] \in Seq(Lines) /\ writer[p] \in Writers /\ AuditTypeOK
    BY AuditIs, Zenon DEF TypesInv
  <2>2. writer[p].last \in Nat
    BY <2>1 DEF Writers
  <2> QED BY <2>1, <2>2
<1>1. ASSUME Kill(p) PROVE WriterInv' /\ FileInv'
  <2>1. Alone(p, "done", proc[p].apdu)
    BY <1>1, GoesAlone, Zenon DEF Kill
  <2>2. out'[p] = <<>> /\ \A q \in Procs : q # p => out'[q] = out[q]
    BY <1>1, OutSet, Zenon DEF Kill
  <2>3. writer' = writer /\ faults' = faults + 1
    BY <1>1, Zenon DEF Kill
  <2>4. proc'[p].at = "done" /\ \A q \in Procs : q # p => proc'[q] = proc[q]
    BY <2>1, Zenon DEF Alone
  <2>5. proc'[p].at \notin {"sending", "answered", "wiping"}
    BY <2>4
  <2>6. WriterInv'
    <3>1. Author(writer'[p], out'[p], proc'[p].at, p)
      BY <2>2, <2>3, <2>5, NoLine, Zenon DEF WriterInv, Author
    <3> QED BY <2>2, <2>3, <2>4, <3>1, WriterKept, Zenon
  <2> QED BY <2>3, <2>6, FileLost, Zenon
<1>2. ASSUME NEW kind \in {"TX", "wiped"}, NEW to, NEW apdu,
             Stamp(p, kind), Alone(p, to, apdu), out[p] = <<>>, faults' = faults, log' = log
      PROVE  WriterInv' /\ FileInv'
  <2>1. /\ \A q \in Procs : q # p => out'[q] = out[q] /\ writer'[q] = writer[q]
        /\ Stamped(out'[p], p, kind, writer[p])
        /\ writer'[p].banner /\ writer'[p].last = clock
        /\ writer'[p].noted <=> writer[p].noted \/ SteppedBack(writer[p])
    BY <1>0, <1>2, StampStep, Zenon
  <2>2. \A i \in DOMAIN out'[p] : out'[p][i].by = p /\ out'[p][i].ts = writer'[p].last
    BY <2>1, Zenon DEF Stamped
  <2>3. \A q \in Procs : q # p => proc'[q] = proc[q]
    BY <1>2, Zenon DEF Alone
  <2>4. WriterInv'
    <3>1. Author(writer'[p], out'[p], proc'[p].at, p)
      BY <2>1, <2>2, Zenon DEF Author
    <3> QED BY <2>1, <2>3, <3>1, WriterKept, Zenon
  <2>5. ASSUME faults = 0 PROVE Own(log, out'[p], writer'[p], p)
    <3>1. Own(log, <<>>, writer[p], p)
      BY <1>2, <2>5, Zenon DEF FileInv
    <3>2. ~writer[p].banner => writer[p] = FreshWriter
      BY Zenon DEF WriterInv, Author
    <3> QED BY <1>0, <2>1, <3>1, <3>2, OwnStamped, Zenon
  <2> QED BY <1>2, <2>1, <2>4, <2>5, FileKept, Zenon
<1>3. ASSUME NEW apdu \in {"wrong", "reset"}, LogTx(p, apdu) PROVE WriterInv' /\ FileInv'
  <2>1. Alone(p, "sending", apdu)
    BY <1>3, SendsAlone, Zenon DEF LogTx
  <2> QED BY <1>2, <1>3, <2>1, Zenon DEF LogTx
<1>4. ASSUME LogWiped(p) PROVE WriterInv' /\ FileInv'
  <2>1. Alone(p, "ready", proc[p].apdu)
    BY <1>4, GoesAlone, Zenon DEF LogWiped
  <2> QED BY <1>2, <1>4, <2>1, Zenon DEF LogWiped
<1>5. ASSUME NEW reached \in BOOLEAN, NEW arrives \in BOOLEAN, Transmit(p, reached, arrives)
      PROVE  WriterInv' /\ FileInv'
  <2>1. \A q \in Procs : q # p => proc'[q] = proc[q]
    BY <1>5 DEF Transmit, LockInv, Processes, Process
  <2>2. out' = out /\ log' = log /\ writer' = writer /\ proc[p].at = "sending"
    BY <1>5, Zenon DEF Transmit, audit
  <2>3. writer[p].banner
    BY <2>2 DEF WriterInv, Author
  <2>4. WriterInv'
    <3>1. Author(writer'[p], out'[p], proc'[p].at, p)
      BY <2>2, <2>3, Zenon DEF WriterInv, Author
    <3> QED BY <2>1, <2>2, <3>1, WriterKept, Zenon
  <2>5. faults' = faults \/ faults' = faults + 1
    BY <1>5, Zenon DEF Transmit
  <2>6. ASSUME faults' = faults PROVE FileInv'
    BY <2>2, <2>6, FileSame, Zenon
  <2> QED BY <2>4, <2>5, <2>6, FileLost, Zenon
<1>6. ASSUME LogRx(p) PROVE WriterInv' /\ FileInv'
  <2>1. PICK to : Alone(p, to, proc[p].apdu)
    BY <1>6, GoesAlone, Zenon DEF LogRx
  <2>2. PICK l \in Lines : /\ out' = [out EXCEPT ![p] = <<l>>]
                           /\ l.kind # "banner" /\ l.by = p /\ l.ts = writer[p].last
    <3>1. writer[p].last \in 0..MaxTime /\ {"91AE", "RX"} \subseteq Kinds
      BY DEF TypesInv, AuditTypeOK, Kinds
    <3>2. PICK k \in {"91AE", "RX"} : out' = [out EXCEPT ![p] = <<Line(p, k, writer[p].last)>>]
      BY <1>6, Zenon DEF LogRx
    <3>3. /\ Line(p, k, writer[p].last) \in Lines /\ Line(p, k, writer[p].last).kind = k
          /\ Line(p, k, writer[p].last).by = p /\ Line(p, k, writer[p].last).ts = writer[p].last
      BY <3>1, LineIs
    <3>4. k # "banner"
      BY <3>2
    <3> QED BY <3>2, <3>3, <3>4, Zenon
  <2>3. out'[p] = <<l>> /\ \A q \in Procs : q # p => out'[q] = out[q]
    BY <2>2, OutSet, Zenon
  <2>4. /\ proc[p].at = "answered" /\ out[p] = <<>> /\ log' = log /\ writer' = writer
        /\ faults' = faults
    BY <1>6, Zenon DEF LogRx, LoadInv
  <2>5. writer[p].banner
    BY <2>4 DEF WriterInv, Author
  <2>6. WriterInv'
    <3>1. Author(writer[p], <<l>>, proc'[p].at, p)
      BY <2>2, <2>5, OneLine, Zenon DEF Author
    <3>2. \A q \in Procs : q # p => proc'[q] = proc[q]
      BY <2>1, Zenon DEF Alone
    <3> QED BY <2>3, <2>4, <3>1, <3>2, WriterKept, Zenon
  <2>7. ASSUME faults = 0 PROVE Own(log, out'[p], writer'[p], p)
    <3>1. Own(log, <<>>, writer[p], p)
      BY <2>4, <2>7, Zenon DEF FileInv
    <3>2. Own(log, <<l>>, writer[p], p)
      BY <2>2, <2>5, <3>1, OwnAnswered, Zenon
    <3> QED BY <2>3, <2>4, <3>2, Zenon
  <2> QED BY <2>3, <2>4, <2>6, <2>7, FileKept, Zenon
<1>7. ASSUME Writes(p) PROVE WriterInv' /\ FileInv'
  <2>1. /\ out[p] # <<>> /\ out' = [out EXCEPT ![p] = <<>>] /\ proc' = proc /\ writer' = writer
        /\ (log' = log \o out[p] /\ faults' = faults) \/ faults' = faults + 1
    BY <1>7, Zenon DEF Writes, WriteRaw, bench
  <2>2. out'[p] = <<>> /\ \A q \in Procs : q # p => out'[q] = out[q]
    BY <2>1, OutSet, Zenon
  <2>3. /\ ~writer[p].banner => writer[p] = FreshWriter
        /\ \A i \in DOMAIN out[p] : out[p][i].by = p /\ out[p][i].ts = writer[p].last
        /\ proc[p].at \in {"sending", "answered", "wiping"} => writer[p].banner
    BY Zenon DEF WriterInv, Author
  <2>4. WriterInv'
    <3>1. Author(writer[p], <<>>, proc[p].at, p)
      BY <2>3, NoLine, Zenon DEF Author
    <3> QED BY <2>1, <2>2, <3>1, WriterKept, Zenon
  <2>5. ASSUME log' = log \o out[p], faults' = faults, faults = 0 PROVE FileInv'
    <3>1. Banners(log) /\ Marked(log) /\ \A q \in Procs : Own(log, out[q], writer[q], q)
      BY <2>5, Zenon DEF FileInv
    <3>2. \A i \in DOMAIN out[p] : out[p][i].kind = "banner" <=> i = 1 /\ ~By(log, p)
      BY <3>1, Zenon DEF Own
    <3>3. Banners(log \o out[p])
      BY <1>0, <2>3, <3>1, <3>2, BannersAppended, Zenon
    <3>4. \/ Stepped(log, p) \/ (out[p] # <<>> /\ out[p][1].kind = "step")
          \/ \A i \in DOMAIN log : log[i].by = p => log[i].ts <= writer[p].last
      BY <3>1, Zenon DEF Own
    <3>5. Marked(log \o out[p])
      BY <1>0, <2>3, <3>1, <3>4, MarkedAppended, Zenon
    <3>6. Own(log \o out[p], <<>>, writer[p], p)
      BY <1>0, <2>1, <2>3, <3>1, OwnWritten, Zenon
    <3>7. ASSUME NEW q \in Procs, q # p PROVE Own(log \o out[p], out[q], writer[q], q)
      BY <1>0, <2>3, <3>1, <3>7, OwnElsewhere, Zenon
    <3>8. \A q \in Procs : Own(log', out'[q], writer'[q], q)
      BY <2>1, <2>2, <2>5, <3>6, <3>7, Zenon
    <3> QED BY <2>5, <3>3, <3>5, <3>8, Zenon DEF FileInv
  <2>6. ASSUME faults' # 0 PROVE FileInv'
    BY <2>6, Zenon DEF FileInv
  <2>7. FileInv'
    BY <2>1, <2>5, <2>6, FileLost, Zenon
  <2> QED BY <2>4, <2>7
<1> QED BY <1>1, <1>3, <1>4, <1>5, <1>6, <1>7, Zenon DEF Stirs

LEMMA FileStep ==
  ASSUME LockInv, TypesInv, LoadInv, WriterInv, FileInv, [BenchNext]_vars
  PROVE  WriterInv' /\ FileInv'
BY CalmOrStirs, FileCalm, FileStirs, Zenon

LEMMA FileInit == BenchInit => WriterInv /\ FileInv
<1> SUFFICES ASSUME BenchInit PROVE WriterInv /\ FileInv
  OBVIOUS
<1>1. /\ \A p \in Procs : proc[p].at = "off" /\ out[p] = <<>> /\ writer[p] = FreshWriter
      /\ log = <<>>
  BY Zenon DEF BenchInit, AuditInit
<1>2. ~FreshWriter.banner /\ ~FreshWriter.noted
  BY DEF FreshWriter
<1>3. \A p : ~By(<<>>, p)
  BY NoLine, Zenon DEF By
<1>4. \A p \in Procs : Own(log, out[p], writer[p], p)
  BY <1>1, <1>2, <1>3, NoLine, Zenon DEF Own
<1>5. Banners(log) /\ Marked(log)
  BY <1>1, NoLine, Zenon DEF Banners, Marked
<1>6. \A p \in Procs : proc[p].at \notin {"sending", "answered", "wiping"}
  BY <1>1
<1>7. WriterInv
  BY <1>1, <1>6, NoLine, Zenon DEF WriterInv, Author
<1> QED BY <1>4, <1>5, <1>7, Zenon DEF FileInv

LEMMA LogInvariant ==
  BenchSpec => [](LockInv /\ SendingInv /\ TypesInv /\ AccountInv /\ WriterInv /\ FileInv)
<1>1. LockInv /\ SendingInv /\ TypesInv /\ TypesInv' /\ AccountInv /\ [BenchNext]_vars
        => AccountInv'
  BY AccountStep
<1>2. LockInv /\ TypesInv /\ AccountInv /\ WriterInv /\ FileInv /\ [BenchNext]_vars
        => WriterInv' /\ FileInv'
  BY FileStep DEF AccountInv
<1> QED BY <1>1, <1>2, TypesInvariant, AccountInit, FileInit, PTL DEF BenchSpec

(* However processes interleave, fail and are killed, and however the clock  *)
(* is set: no wrong key is missing from the audit file without a fault, none *)
(* is there twice; and without a fault each process begins with its banner   *)
(* and notes the step before a stamp that goes back.                         *)
THEOREM TellsTheTruth == BenchSpec => []LogIsTrue
<1>1. AccountInv /\ FileInv => LogIsTrue
  BY Zenon DEF AccountInv, FileInv, LogIsTrue, BannerFirst, StepsAreMarked, Banners, Marked
<1> QED BY <1>1, LogInvariant, PTL

------------------------------------------------------------------------------
(* The report of budget.                                                     *)

LEMMA GreatestNumber ==
  ASSUME NEW n \in Nat, NEW S \in SUBSET (1..n), S # {}
  PROVE  \E m \in S : \A j \in S : m >= j
<1> DEFINE T == {n - i : i \in S}
<1>1. T \in SUBSET Nat /\ T # {}
  <2>1. \A i \in S : n - i \in Nat
    OBVIOUS
  <2> QED BY <2>1, Zenon
<1>2. PICK t \in T : \A u \in T : t <= u
  BY <1>1, LeastNumber, Zenon
<1>3. PICK m \in S : t = n - m
  BY <1>2, Zenon
<1>4. ASSUME NEW j \in S PROVE m >= j
  <2>1. t <= n - j
    BY <1>2, Zenon
  <2> QED BY <1>3, <2>1
<1> QED BY <1>4, Zenon

(* The last wipe stays the last when lines without one follow.               *)
LEMMA Tails ==
  ASSUME NEW s \in Seq(Lines), NEW t \in Seq(Lines), NEW m \in 1..Len(s)
  PROVE  /\ SubSeq(s, m, Len(s)) \in Seq(Lines)
         /\ SubSeq(s \o t, m, Len(s \o t)) = SubSeq(s, m, Len(s)) \o t
<1>1. SubSeq(s, m, Len(s)) \in Seq(Lines) /\ Len(SubSeq(s, m, Len(s))) = Len(s) - m + 1
  OBVIOUS
<1>2. s \o t \in Seq(Lines) /\ Len(s \o t) = Len(s) + Len(t)
  OBVIOUS
<1> DEFINE a == SubSeq(s \o t, m, Len(s \o t))
           b == SubSeq(s, m, Len(s)) \o t
<1>3. /\ a \in Seq(Lines) /\ Len(a) = Len(s) + Len(t) - m + 1
      /\ \A i \in 1..Len(a) : a[i] = (s \o t)[m + i - 1]
  BY <1>2
<1>4. b \in Seq(Lines) /\ Len(b) = Len(s) - m + 1 + Len(t)
  BY <1>1
<1>5. \A i \in 1..(Len(s) - m + 1) : b[i] = s[m + i - 1]
  BY <1>1
<1>6. \A i \in 1..Len(t) : b[Len(s) - m + 1 + i] = t[i]
  BY <1>1
<1> HIDE DEF a, b
<1>7. ASSUME NEW i \in 1..Len(a) PROVE a[i] = b[i]
  <2>1. CASE i <= Len(s) - m + 1
    BY <1>3, <1>5, <2>1
  <2>2. CASE i > Len(s) - m + 1
    <3> DEFINE k == i - (Len(s) - m + 1)
    <3>1. k \in 1..Len(t) /\ i = Len(s) - m + 1 + k /\ m + i - 1 = Len(s) + k
      BY <1>3, <2>2
    <3> HIDE DEF k
    <3>2. (s \o t)[Len(s) + k] = t[k]
      BY <3>1
    <3>3. a[i] = (s \o t)[Len(s) + k]
      BY <1>3, <3>1
    <3>4. b[i] = t[k]
      BY <1>6, <3>1, Zenon
    <3> QED BY <3>2, <3>3, <3>4, Zenon
  <2> QED BY <1>3, <2>1, <2>2
<1>8. a = b
  BY <1>3, <1>4, <1>7
<1> QED BY <1>1, <1>8 DEF a, b

LEMMA EpochIs ==
  ASSUME NEW s \in Seq(Lines)
  PROVE  /\ Places(s, "wiped") = {} => Epoch(s) = s
         /\ Places(s, "wiped") # {} =>
              \E m \in Places(s, "wiped") :
                /\ m = CHOOSE i \in Places(s, "wiped") : \A j \in Places(s, "wiped") : i >= j
                /\ Epoch(s) = SubSeq(s, m, Len(s))
<1> DEFINE W == Places(s, "wiped")
<1>1. Epoch(s) = IF W = {} THEN s
                 ELSE SubSeq(s, CHOOSE i \in W : \A j \in W : i >= j, Len(s))
  BY Zenon DEF Epoch, Places
<1>2. W \in SUBSET (1..Len(s)) /\ Len(s) \in Nat
  BY Countable
<1> HIDE DEF W
<1>3. ASSUME W # {}
      PROVE  (CHOOSE i \in W : \A j \in W : i >= j) \in W
  BY <1>2, <1>3, GreatestNumber, Zenon
<1> QED BY <1>1, <1>3, Zenon DEF W

LEMMA BudgetIs == ASSUME NEW s \in Seq(Lines) PROVE Budget(s) \in Nat
<1>1. Epoch(s) \in Seq(Lines)
  <2>1. CASE Places(s, "wiped") = {}
    BY <2>1, EpochIs, Zenon
  <2>2. CASE Places(s, "wiped") # {}
    <3>1. PICK m \in Places(s, "wiped") : Epoch(s) = SubSeq(s, m, Len(s))
      BY <2>2, EpochIs, Zenon
    <3>2. m \in 1..Len(s)
      BY Countable, Zenon
    <3> QED BY <3>1, <3>2
  <2> QED BY <2>1, <2>2, Zenon
<1> QED BY <1>1, Countable, Zenon DEF Budget

LEMMA BudgetGrows ==
  ASSUME NEW s \in Seq(Lines), NEW t \in Seq(Lines), ~Has(t, "wiped")
  PROVE  Budget(s \o t) = Budget(s) + Count(t, "91AE")
<1> DEFINE n == Len(s)
           l == s \o t
           W == Places(s, "wiped")
<1>0. /\ DOMAIN s = 1..n /\ DOMAIN t = 1..Len(t) /\ DOMAIN l = 1..(n + Len(t))
      /\ \A i \in 1..n : l[i] = s[i] /\ i \in 1..(n + Len(t))
      /\ \A k \in 1..Len(t) : l[n + k] = t[k]
      /\ \A i \in 1..(n + Len(t)) : i \in 1..n \/ \E k \in 1..Len(t) : i = n + k
  BY Joined, Zenon
<1>1. Places(l, "wiped") = W
  <2> HIDE DEF n, l
  <2>1. ASSUME NEW i \in Places(l, "wiped") PROVE i \in W
    <3>1. i \in 1..(n + Len(t)) /\ l[i].kind = "wiped"
      BY <1>0, <2>1, Zenon DEF Places
    <3>2. ASSUME NEW k \in 1..Len(t), i = n + k PROVE FALSE
      BY <1>0, <3>1, <3>2, Zenon DEF Has
    <3>3. i \in 1..n
      BY <1>0, <3>1, <3>2, Zenon
    <3> QED BY <1>0, <3>1, <3>3, Zenon DEF Places
  <2>2. ASSUME NEW i \in W PROVE i \in Places(l, "wiped")
    <3>1. i \in 1..n /\ s[i].kind = "wiped"
      BY <1>0, <2>2, Zenon DEF Places
    <3> QED BY <1>0, <3>1, Zenon DEF Places
  <2> QED BY <2>1, <2>2, Zenon
<1>2. l \in Seq(Lines) /\ W \subseteq 1..n
  BY Joined, Countable, Zenon
<1> HIDE DEF W
<1>3. CASE W = {}
  <2>1. Epoch(s) = s /\ Epoch(l) = l
    BY <1>1, <1>2, <1>3, EpochIs, Zenon DEF W
  <2>2. Count(l, "91AE") = Count(s, "91AE") + Count(t, "91AE")
    BY CountsAppended, Zenon
  <2> QED BY <2>1, <2>2, Zenon DEF Budget
<1>4. CASE W # {}
  <2>1. PICK m \in W : /\ m = CHOOSE i \in W : \A j \in W : i >= j
                       /\ Epoch(s) = SubSeq(s, m, Len(s))
    BY <1>4, EpochIs, Zenon DEF W
  <2>2. PICK k \in W : /\ k = CHOOSE i \in W : \A j \in W : i >= j
                       /\ Epoch(l) = SubSeq(l, k, Len(l))
    <3>1. Places(l, "wiped") # {}
      BY <1>1, <1>4, Zenon
    <3>2. \E k \in Places(l, "wiped") :
            /\ k = CHOOSE i \in Places(l, "wiped") : \A j \in Places(l, "wiped") : i >= j
            /\ Epoch(l) = SubSeq(l, k, Len(l))
      <4> HIDE DEF l
      <4> QED BY <1>2, <3>1, EpochIs, Zenon
    <3> QED BY <1>1, <3>2, Zenon
  <2>3. k = m /\ m \in 1..Len(s)
    BY <1>2, <2>1, <2>2, Zenon
  <2>4. Epoch(s) \in Seq(Lines) /\ Epoch(l) = Epoch(s) \o t
    <3>1. /\ SubSeq(s, m, Len(s)) \in Seq(Lines)
          /\ SubSeq(s \o t, m, Len(s \o t)) = SubSeq(s, m, Len(s)) \o t
      BY <2>3, Tails, Zenon
    <3> QED BY <2>1, <2>2, <2>3, <3>1, Zenon
  <2>5. Count(Epoch(l), "91AE") = Count(Epoch(s), "91AE") + Count(t, "91AE")
    <3>1. Count(Epoch(s) \o t, "91AE") = Count(Epoch(s), "91AE") + Count(t, "91AE")
      BY <2>4, CountsAppended, Zenon
    <3> QED BY <2>4, <3>1, Zenon
  <2> QED BY <2>5, Zenon DEF Budget
<1> QED BY <1>3, <1>4, Zenon

NoOrphans == \A p \in Procs : ~Orphan(p)

(* The counter of the card was reset, and the wipe is not in the log yet.    *)
Resets(p) ==
  \/ proc[p].at = "answered" /\ proc[p].apdu = "reset"
  \/ proc[p].at = "wiping"
  \/ Has(out[p], "wiped")

(* Nobody else offers the card a wrong key before that wipe is logged: so    *)
(* what precedes the wipe in the log precedes it at the card.                *)
Cleared(p) ==
  /\ proc[p].at = "off" => ~proc[p].skip
  /\ Has(out[p], "wiped") => proc[p].at = "ready" /\ (mixed \/ Physical(p))
  /\ NoOrphans /\ Physical(p) /\ Resets(p) => card = 0

(* BudgetCoversCard, in terms of all wrong keys that cards evaluated.        *)
Covers == card + Count(log, "91AE") <= Budget(log) + failed

CoverInv == (\A p \in Procs : Cleared(p)) /\ (~mixed /\ NoOrphans => Covers)

LEMMA OrphansStay == ASSUME \A p \in Procs : Cleared(p), Calm, NoOrphans' PROVE NoOrphans
<1> SUFFICES ASSUME NEW p \in Procs, Orphan(p) PROVE Orphan(p)'
  BY Zenon DEF NoOrphans
<1>1. proc[p].skip /\ ~proc[p].covered /\ proc[p].at # "off"
  BY Zenon DEF Orphan, Cleared
<1>2. proc'[p].skip = proc[p].skip /\ (proc'[p].covered => proc[p].covered)
  BY <1>1, Zenon DEF Calm
<1> QED BY <1>1, <1>2, Zenon DEF Orphan

LEMMA CoverCalm == ASSUME CoverInv, Calm PROVE CoverInv'
<1>0. /\ \A p \in Procs : Cleared(p)
      /\ out' = out /\ log' = log /\ card' = card /\ mixed' = mixed /\ failed' = failed
  BY Zenon DEF CoverInv, Calm
<1>1. NoOrphans' => NoOrphans
  BY <1>0, OrphansStay, Zenon
<1>2. ASSUME NEW p \in Procs PROVE Cleared(p)'
  <2>0. Cleared(p)
    BY <1>0
  <2>1. proc[p].at # "off" => proc'[p].reader = proc[p].reader
    BY Zenon DEF Calm
  <2>2. proc'[p].at = "off" => ~proc'[p].skip
    <3>1. proc'[p].at = "off" => proc[p].at = "off" /\ proc'[p].skip = proc[p].skip
      BY Zenon DEF Calm
    <3> QED BY <2>0, <3>1, Zenon DEF Cleared
  <2>3. ASSUME Has(out[p], "wiped")
        PROVE  proc'[p].at = "ready" /\ (mixed \/ Physical(p)) /\ proc[p].at = "ready"
    <3>1. proc[p].at = "ready" /\ (mixed \/ Physical(p))
      BY <2>0, <2>3, Zenon DEF Cleared
    <3>2. out[p] # <<>>
      BY <2>3, NothingHas, Zenon
    <3> QED BY <3>1, <3>2, Zenon DEF Calm
  <2>4. proc[p].at # "off" => (Physical(p)' <=> Physical(p))
    BY <2>1, Zenon DEF Physical
  <2>5. Has(out'[p], "wiped") => proc'[p].at = "ready" /\ (mixed' \/ Physical(p)')
    BY <1>0, <2>3, <2>4
  <2>6. ASSUME Resets(p)' PROVE Resets(p) /\ proc[p].at # "off"
    <3>1. CASE Has(out[p], "wiped")
      BY <2>3, <3>1 DEF Resets
    <3>2. CASE proc'[p].at \in {"answered", "wiping"}
      <4>1. proc'[p].at = proc[p].at /\ proc'[p].apdu = proc[p].apdu
        BY <3>2, CalmBusy
      <4> QED BY <1>0, <2>6, <3>2, <4>1 DEF Resets
    <3> QED BY <1>0, <2>6, <3>1, <3>2, Zenon DEF Resets
  <2>7. NoOrphans' /\ Physical(p)' /\ Resets(p)' => card' = 0
    BY <1>0, <1>1, <2>0, <2>4, <2>6, Zenon DEF Cleared
  <2> QED BY <2>2, <2>5, <2>7, Zenon DEF Cleared
<1>3. ~mixed' /\ NoOrphans' => Covers'
  <2>1. Covers' <=> Covers
    BY <1>0, Zenon DEF Covers
  <2> QED BY <1>0, <1>1, <2>1, Zenon DEF CoverInv
<1> QED BY <1>2, <1>3, Zenon DEF CoverInv

LEMMA AloneKeeps ==
  ASSUME NEW p \in Procs, NEW to, NEW apdu, Alone(p, to, apdu)
  PROVE  (NoOrphans' <=> NoOrphans) /\ \A q \in Procs : Physical(q)' <=> Physical(q)
<1>1. \A q \in Procs : /\ proc'[q].reader = proc[q].reader /\ proc'[q].skip = proc[q].skip
                       /\ proc'[q].covered = proc[q].covered
  BY Zenon DEF Alone
<1> QED BY <1>1, Zenon DEF NoOrphans, Orphan, Physical

LEMMA ClearedKept ==
  ASSUME \A q \in Procs : Cleared(q), NEW p \in Procs, NEW to, NEW apdu, Alone(p, to, apdu),
         \A q \in Procs : q # p => out'[q] = out[q],
         mixed => mixed',
         \A q \in Procs : q # p /\ NoOrphans /\ Physical(q) /\ Resets(q) => card' = 0,
         Cleared(p)'
  PROVE  \A q \in Procs : Cleared(q)'
<1>1. ASSUME NEW q \in Procs, q # p PROVE Cleared(q)'
  <2>1. proc'[q] = proc[q] /\ out'[q] = out[q] /\ Cleared(q)
    BY <1>1, Zenon DEF Alone
  <2>2. (NoOrphans' <=> NoOrphans) /\ (Physical(q)' <=> Physical(q))
    BY AloneKeeps, Zenon
  <2>3. Resets(q)' <=> Resets(q)
    BY <2>1, Zenon DEF Resets
  <2>4. NoOrphans' /\ Physical(q)' /\ Resets(q)' => card' = 0
    BY <1>1, <2>2, <2>3, Zenon
  <2>5. Has(out'[q], "wiped") => proc'[q].at = "ready" /\ (mixed' \/ Physical(q)')
    BY <2>1, <2>2, Zenon DEF Cleared
  <2>6. proc'[q].at = "off" => ~proc'[q].skip
    BY <2>1, Zenon DEF Cleared
  <2> QED BY <2>4, <2>5, <2>6, Zenon DEF Cleared
<1> QED BY <1>1, Zenon

(* A card that counts nothing is covered by whatever the log says.           *)
LEMMA ZeroCovered == ASSUME TypesInv', FailuresAccounted', card' = 0 PROVE Covers'
<1>1. /\ failed' = Count(log', "91AE") + missed' + Cardinality(Pending')
      /\ log' \in Seq(Lines) /\ missed' \in Nat
  BY Zenon DEF FailuresAccounted, Pending, TypesInv, AuditTypeOK
<1>2. Count(log', "91AE") \in Nat /\ Budget(log') \in Nat /\ Cardinality(Pending') \in Nat
  BY <1>1, Countable, BudgetIs, PendingCountsThen, Zenon
<1> DEFINE f == failed'
           c == Count(log', "91AE")
           b == Budget(log')
           m == missed'
           n == Cardinality(Pending')
<1>3. f = c + m + n /\ c \in Nat /\ b \in Nat /\ m \in Nat /\ n \in Nat
  BY <1>1, <1>2, Zenon
<1> HIDE DEF f, c, b, m, n
<1>4. 0 + c <= b + f
  BY <1>3
<1> QED BY <1>4, Zenon DEF Covers, f, c, b

(* What leaves card and log alone, and of p only what is no wipe in hand.    *)
LEMMA CoverKept ==
  ASSUME CoverInv, NEW p \in Procs, NEW to, NEW apdu, Alone(p, to, apdu),
         \A q \in Procs : q # p => out'[q] = out[q],
         mixed => mixed', card' = card, log' = log, failed' = failed,
         proc'[p].at = "off" => ~proc'[p].skip,
         Has(out'[p], "wiped") => proc'[p].at = "ready" /\ (mixed' \/ Physical(p)),
         Physical(p) /\ Resets(p)' => Resets(p)
  PROVE  CoverInv'
<1>0. \A q \in Procs : Cleared(q)
  BY Zenon DEF CoverInv
<1>1. (NoOrphans' <=> NoOrphans) /\ (Physical(p)' <=> Physical(p))
  BY AloneKeeps, Zenon
<1>2. Cleared(p)'
  BY <1>0, <1>1, Zenon DEF Cleared
<1>3. \A q \in Procs : q # p /\ NoOrphans /\ Physical(q) /\ Resets(q) => card' = 0
  BY <1>0, Zenon DEF Cleared
<1>4. \A q \in Procs : Cleared(q)'
  BY <1>0, <1>2, <1>3, ClearedKept, Zenon
<1>5. Covers' <=> Covers
  BY Zenon DEF Covers
<1> QED BY <1>1, <1>4, <1>5, Zenon DEF CoverInv

LEMMA CoverTransmit ==
  ASSUME LockInv, OneDriver, TargetInv, SendingInv, TypesInv, TypesInv', FailuresAccounted',
         CoverInv, NEW p \in Procs, NEW reached \in BOOLEAN, NEW arrives \in BOOLEAN,
         Transmit(p, reached, arrives)
  PROVE  CoverInv'
<1>0. \A q \in Procs : Cleared(q)
  BY Zenon DEF CoverInv
<1>1. /\ proc[p].at = "sending" /\ out[p] = <<>> /\ out' = out /\ log' = log /\ mixed' = mixed
      /\ proc[p].reader # NoReader /\ proc[p].apdu \in {"wrong", "reset"}
  <2>1. proc[p].at = "sending" /\ out[p] = <<>> /\ out' = out /\ log' = log /\ mixed' = mixed
    BY Zenon DEF Transmit, audit
  <2>2. proc[p].at \notin {"off", "done"}
    BY <2>1
  <2> QED BY <2>1, <2>2, Zenon DEF TargetInv, SendingInv
<1> DEFINE apdu == IF arrives THEN proc[p].apdu ELSE "none"
<1>2. Alone(p, "answered", apdu)
  <2>1. proc' = [proc EXCEPT ![p].at = "answered", ![p].apdu = apdu]
    BY DEF Transmit, LockInv, Processes, Process
  <2> HIDE DEF apdu
  <2> QED BY <2>1, SendsAlone, Zenon
<1>3. (NoOrphans' <=> NoOrphans) /\ \A q \in Procs : Physical(q)' <=> Physical(q)
  <2> HIDE DEF apdu
  <2> QED BY <1>2, AloneKeeps, Zenon
<1>4. proc'[p].at = "answered" /\ proc'[p].apdu = apdu
  <2> HIDE DEF apdu
  <2> QED BY <1>2, Zenon DEF Alone
<1>5. Physical(p) /\ reached /\ proc[p].apdu = "reset" => card' = 0
  BY <1>1 DEF Transmit, Physical
<1>6. arrives => reached
  BY Zenon DEF Transmit
<1>7. Cleared(p)'
  <2>1. ~Has(out'[p], "wiped")
    BY <1>1, NothingHas, Zenon
  <2>2. proc'[p].at # "off" /\ proc'[p].at # "wiping"
    BY <1>4
  <2>3. Resets(p)' => arrives /\ proc[p].apdu = "reset"
    <3>1. Resets(p)' => proc'[p].apdu = "reset"
      BY <2>1, <2>2, Zenon DEF Resets
    <3> QED BY <1>4, <3>1
  <2>4. NoOrphans' /\ Physical(p)' /\ Resets(p)' => card' = 0
    BY <1>3, <1>5, <1>6, <2>3, Zenon
  <2> QED BY <2>1, <2>2, <2>4, Zenon DEF Cleared
<1>8. ASSUME NEW q \in Procs, q # p, NoOrphans, Physical(q), Resets(q) PROVE card' = 0
  <2>1. card = 0
    BY <1>0, <1>8, Zenon DEF Cleared
  <2>2. proc[q].at \in {"ready", "sending", "answered", "wiping"}
    BY <1>0, <1>8 DEF Resets, Cleared
  <2>3. Driving(q)
    BY <1>8, <2>2, Zenon DEF Driving
  <2>4. ~Driving(p)
    BY <1>8, <2>3, Zenon DEF OneDriver, NoOrphans
  <2>5. proc[p].at \in {"ready", "sending", "answered", "wiping"}
    BY <1>1
  <2>6. proc[p].reader.virtual
    BY <1>1, <2>4, <2>5, Zenon DEF Driving, Physical
  <2>7. card' = card
    BY <2>6, Zenon DEF Transmit
  <2> QED BY <2>1, <2>7, Zenon
<1>9. \A q \in Procs : Cleared(q)'
  <2> HIDE DEF apdu
  <2>1. \A q \in Procs : q # p => out'[q] = out[q]
    BY <1>1, Zenon
  <2> QED BY <1>0, <1>1, <1>2, <1>7, <1>8, <2>1, ClearedKept, Zenon
<1>10. ASSUME Covers PROVE Covers'
  <2>1. CASE card' = 0
    BY <2>1, ZeroCovered, Zenon
  <2>2. CASE card' # 0
    <3>1. /\ \/ card' = card /\ failed' \in {failed, failed + 1}
             \/ card' = card + 1 /\ failed' = failed + 1
          /\ card \in Nat /\ failed \in Nat
      BY <1>1, <2>2 DEF Transmit, TypesInv
    <3>2. Count(log, "91AE") \in Nat /\ Budget(log) \in Nat
      BY Countable, BudgetIs, Zenon DEF TypesInv, AuditTypeOK
    <3>3. card + Count(log, "91AE") <= Budget(log) + failed
      BY <1>10, Zenon DEF Covers
    <3>4. card' + Count(log, "91AE") <= Budget(log) + failed'
      BY <3>1, <3>2, <3>3
    <3> QED BY <1>1, <3>4, Zenon DEF Covers
  <2> QED BY <2>1, <2>2, Zenon
<1> QED BY <1>1, <1>3, <1>9, <1>10, Zenon DEF CoverInv

LEMMA CoverWrites ==
  ASSUME LockInv, TypesInv, TypesInv', FailuresAccounted', CoverInv, NEW p \in Procs, Writes(p)
  PROVE  CoverInv'
<1>0. \A q \in Procs : Cleared(q)
  BY Zenon DEF CoverInv
<1>1. /\ out' = [out EXCEPT ![p] = <<>>] /\ proc' = proc /\ mixed' = mixed /\ card' = card
      /\ failed' = failed /\ (log' = log \/ log' = log \o out[p])
  BY Zenon DEF Writes, WriteRaw, bench
<1>2. out'[p] = <<>> /\ \A q \in Procs : q # p => out'[q] = out[q]
  BY <1>1, OutSet, Zenon
<1>3. Alone(p, proc[p].at, proc[p].apdu)
  BY <1>1, Zenon DEF Alone
<1>4. (NoOrphans' <=> NoOrphans) /\ (Physical(p)' <=> Physical(p))
  BY <1>3, AloneKeeps, Zenon
<1>5. ~Has(out'[p], "wiped")
  BY <1>2, NothingHas, Zenon
<1>6. Resets(p)' => Resets(p)
  BY <1>1, <1>5, Zenon DEF Resets
<1>7. Cleared(p)'
  BY <1>0, <1>1, <1>4, <1>5, <1>6, Zenon DEF Cleared
<1>8. \A q \in Procs : q # p /\ NoOrphans /\ Physical(q) /\ Resets(q) => card' = 0
  BY <1>0, <1>1, Zenon DEF Cleared
<1>9. \A q \in Procs : Cleared(q)'
  BY <1>0, <1>1, <1>2, <1>3, <1>7, <1>8, ClearedKept, Zenon
<1>10. ASSUME ~mixed, NoOrphans PROVE Covers'
  <2>0. Covers
    BY <1>10, Zenon DEF CoverInv
  <2>1. CASE log' = log
    BY <1>1, <2>0, <2>1, Zenon DEF Covers
  <2>2. CASE Has(out[p], "wiped")
    <3>1. Physical(p) /\ Resets(p)
      BY <1>0, <1>10, <2>2, Zenon DEF Cleared, Resets
    <3>2. card' = 0
      BY <1>0, <1>1, <1>10, <3>1, Zenon DEF Cleared
    <3> QED BY <3>2, ZeroCovered, Zenon
  <2>3. CASE log' = log \o out[p] /\ ~Has(out[p], "wiped")
    <3>1. log \in Seq(Lines) /\ out[p] \in Seq(Lines) /\ card \in Nat /\ failed \in Nat
      BY AuditIs, Zenon DEF TypesInv
    <3>2. /\ Budget(log') = Budget(log) + Count(out[p], "91AE")
          /\ Count(log', "91AE") = Count(log, "91AE") + Count(out[p], "91AE")
      BY <2>3, <3>1, BudgetGrows, CountsAppended, Zenon
    <3>3. Count(log, "91AE") \in Nat /\ Count(out[p], "91AE") \in Nat /\ Budget(log) \in Nat
      BY <3>1, Countable, BudgetIs, Zenon
    <3>4. card + Count(log, "91AE") <= Budget(log) + failed
      BY <2>0, Zenon DEF Covers
    <3>5. card + (Count(log, "91AE") + Count(out[p], "91AE"))
            <= (Budget(log) + Count(out[p], "91AE")) + failed
      BY <3>1, <3>3, <3>4
    <3>6. card + Count(log', "91AE") <= Budget(log') + failed
      BY <3>2, <3>5, Zenon
    <3> QED BY <1>1, <3>6, Zenon DEF Covers
  <2> QED BY <1>1, <2>1, <2>2, <2>3, Zenon
<1> QED BY <1>1, <1>4, <1>9, <1>10, Zenon DEF CoverInv

LEMMA CoverStirs ==
  ASSUME LockInv, OneDriver, TargetInv, SendingInv, TypesInv, TypesInv', FailuresAccounted',
         CoverInv, NEW p \in Procs, Stirs(p)
  PROVE  CoverInv'
<1>1. ASSUME Kill(p) PROVE CoverInv'
  <2>1. Alone(p, "done", proc[p].apdu)
    BY <1>1, GoesAlone, Zenon DEF Kill
  <2>2. out'[p] = <<>> /\ \A q \in Procs : q # p => out'[q] = out[q]
    BY <1>1, OutSet, Zenon DEF Kill
  <2>3. card' = card /\ log' = log /\ failed' = failed /\ mixed' = mixed
    BY <1>1, Zenon DEF Kill
  <2>4. proc'[p].at \notin {"off", "answered", "wiping"}
    BY <2>1 DEF Alone
  <2>5. ~Has(out'[p], "wiped")
    BY <2>2, NothingHas, Zenon
  <2>6. ~Resets(p)'
    BY <2>4, <2>5, Zenon DEF Resets
  <2>7. proc'[p].at # "off"
    BY <2>4
  <2> QED BY <2>1, <2>2, <2>3, <2>5, <2>6, <2>7, CoverKept, Zenon
<1>2. ASSUME NEW apdu \in {"wrong", "reset"}, LogTx(p, apdu) PROVE CoverInv'
  <2>1. Alone(p, "sending", apdu)
    BY <1>2, SendsAlone, Zenon DEF LogTx
  <2>2. Stamped(out'[p], p, "TX", writer[p]) /\ \A q \in Procs : q # p => out'[q] = out[q]
    BY <1>2, StampStep, Zenon DEF LogTx, TypesInv
  <2>3. card' = card /\ log' = log /\ failed' = failed /\ mixed' = mixed
    BY <1>2, Zenon DEF LogTx
  <2>4. proc'[p].at \notin {"off", "answered", "wiping"}
    BY <2>1 DEF Alone
  <2>5. ~Has(out'[p], "wiped")
    BY <2>2 DEF Stamped, Has
  <2>6. ~Resets(p)'
    BY <2>4, <2>5, Zenon DEF Resets
  <2>7. proc'[p].at # "off"
    BY <2>4
  <2> QED BY <2>1, <2>2, <2>3, <2>5, <2>6, <2>7, CoverKept, Zenon
<1>3. ASSUME LogRx(p) PROVE CoverInv'
  <2>1. Alone(p, IF proc[p].apdu = "reset" THEN "wiping" ELSE "ready", proc[p].apdu)
    BY <1>3, GoesAlone, Zenon DEF LogRx
  <2>2. PICK l \in Lines : out' = [out EXCEPT ![p] = <<l>>] /\ l.kind # "wiped"
    <3>1. writer[p].last \in 0..MaxTime /\ {"91AE", "RX"} \subseteq Kinds
      BY DEF TypesInv, AuditTypeOK, Kinds
    <3>2. PICK k \in {"91AE", "RX"} : out' = [out EXCEPT ![p] = <<Line(p, k, writer[p].last)>>]
      BY <1>3, Zenon DEF LogRx
    <3>3. Line(p, k, writer[p].last) \in Lines /\ Line(p, k, writer[p].last).kind = k
      BY <3>1, LineIs
    <3>4. k # "wiped"
      BY <3>2
    <3> QED BY <3>2, <3>3, <3>4, Zenon
  <2>3. out'[p] = <<l>> /\ \A q \in Procs : q # p => out'[q] = out[q]
    BY <2>2, OutSet, Zenon
  <2>4. card' = card /\ log' = log /\ failed' = failed /\ mixed' = mixed
    BY <1>3, Zenon DEF LogRx
  <2>5. ~Has(out'[p], "wiped")
    BY <2>2, <2>3, OneHas, Zenon
  <2>6. /\ proc'[p].at # "off" /\ proc'[p].at # "answered"
        /\ proc'[p].at = "wiping" => proc[p].apdu = "reset"
    BY <2>1 DEF Alone
  <2>7. Resets(p)' => Resets(p)
    <3>1. proc[p].at = "answered"
      BY <1>3, Zenon DEF LogRx
    <3> QED BY <2>5, <2>6, <3>1, Zenon DEF Resets
  <2>8. PICK to : Alone(p, to, proc[p].apdu)
    BY <2>1, Zenon
  <2> QED BY <2>3, <2>4, <2>5, <2>6, <2>7, <2>8, CoverKept, Zenon
<1>4. ASSUME LogWiped(p) PROVE CoverInv'
  <2>1. Alone(p, "ready", proc[p].apdu)
    BY <1>4, GoesAlone, Zenon DEF LogWiped
  <2>2. \A q \in Procs : q # p => out'[q] = out[q]
    BY <1>4, StampStep, Zenon DEF LogWiped, TypesInv
  <2>3. /\ card' = card /\ log' = log /\ failed' = failed /\ proc[p].at = "wiping"
        /\ mixed' = (mixed \/ proc[p].reader.virtual)
    BY <1>4, Zenon DEF LogWiped
  <2>4. proc[p].reader # NoReader
    <3>1. proc[p].at \notin {"off", "done"}
      BY <2>3
    <3> QED BY <3>1, Zenon DEF TargetInv
  <2>5. mixed' \/ Physical(p)
    BY <2>3, <2>4, Zenon DEF Physical
  <2>6. proc'[p].at = "ready" /\ Resets(p)
    BY <2>1, <2>3, Zenon DEF Alone, Resets
  <2>7. proc'[p].at # "off" /\ (mixed => mixed')
    <3>1. "ready" # "off"
      OBVIOUS
    <3> QED BY <2>3, <2>6, <3>1, Zenon
  <2> QED BY <2>1, <2>2, <2>3, <2>5, <2>6, <2>7, CoverKept, Zenon
<1> QED BY <1>1, <1>2, <1>3, <1>4, CoverTransmit, CoverWrites, Zenon DEF Stirs

LEMMA CoverInit == BenchInit => CoverInv
<1> SUFFICES ASSUME BenchInit PROVE CoverInv
  OBVIOUS
<1>1. /\ \A p \in Procs : proc[p].at = "off" /\ out[p] = <<>> /\ ~proc[p].skip
      /\ log = <<>> /\ card = 0 /\ failed = 0
  BY DEF BenchInit, AuditInit
<1>2. \A p \in Procs : Cleared(p)
  BY <1>1, NothingHas, Zenon DEF Cleared
<1>3. Count(<<>>, "91AE") = 0 /\ Budget(<<>>) \in Nat
  BY NoLine, NothingHas, CountsOne, BudgetIs, Zenon
<1>4. 0 + 0 <= Budget(<<>>) + 0
  BY <1>3
<1>5. Covers
  BY <1>1, <1>3, <1>4, Zenon DEF Covers
<1> QED BY <1>2, <1>5, Zenon DEF CoverInv

LEMMA CoverStep ==
  ASSUME LockInv, OneDriver, TargetInv, SendingInv, TypesInv, TypesInv', FailuresAccounted',
         CoverInv, [BenchNext]_vars
  PROVE  CoverInv'
BY CalmOrStirs, CoverCalm, CoverStirs, Zenon

(* What budget counts in the log is no less than what the card has counted,  *)
(* up to what was lost or is on its way, as long as the log speaks of one    *)
(* card and no child outlives its harness: then the lock keeps every wrong   *)
(* key behind the wipe that it came after.                                   *)
THEOREM BudgetIsHonest == BenchSpec => []BudgetCoversCard
<1>1. TypesInv /\ AccountInv /\ CoverInv => BudgetCoversCard
  <2> SUFFICES ASSUME TypesInv, AccountInv, CoverInv, ~mixed, NoOrphans
               PROVE  card <= Budget(log) + missed + Cardinality(Pending)
    BY Zenon DEF BudgetCoversCard, NoOrphans, Pending
  <2>1. /\ failed = Count(log, "91AE") + missed + Cardinality(Pending)
        /\ card + Count(log, "91AE") <= Budget(log) + failed
    BY Zenon DEF AccountInv, FailuresAccounted, Pending, CoverInv, Covers
  <2>2. /\ Count(log, "91AE") \in Nat /\ Budget(log) \in Nat /\ Cardinality(Pending) \in Nat
        /\ card \in Nat /\ missed \in Nat
    BY Countable, BudgetIs, PendingCounts, Zenon DEF TypesInv, AuditTypeOK
  <2> QED BY <2>1, <2>2
<1>2. /\ LockInv /\ OneDriver /\ TargetInv /\ SendingInv /\ TypesInv /\ TypesInv'
      /\ AccountInv' /\ CoverInv /\ [BenchNext]_vars
      => CoverInv'
  BY CoverStep DEF AccountInv
<1> QED BY <1>1, <1>2, TypesInvariant, LogInvariant, DrivesAlone, CoverInit, PTL DEF BenchSpec
=============================================================================
