------------------------------ MODULE AuditLog -------------------------------
(***************************************************************************)
(* The audit log of bolty-cli (audit.rs) and the account of wrong keys     *)
(* that `budget` reads back from it (budget.rs).  Every process of the     *)
(* host appends to one file, line by line, with the time of a clock that   *)
(* may be set forward or back under it.  A unit of the clock is longer     *)
(* than the second of tolerance that the code allows.                      *)
(***************************************************************************)
EXTENDS Naturals, Sequences, FiniteSets

CONSTANTS
  Procs,       \* processes of bolty-cli
  MaxTime,     \* bound: readings of the clock
  MaxSteps     \* bound: times the clock is set

ASSUME AuditAssumption ==
  IsFiniteSet(Procs) /\ MaxTime \in Nat \ {0} /\ MaxSteps \in Nat

VARIABLES
  clock,       \* now_epoch_ms
  steps,       \* times the clock was set
  log,         \* the file: one line after the other
  writer,      \* per process: BANNER_WRITTEN, CLOCK_STEP_NOTED, the stamps
  out          \* per process: lines it is about to append

audit == <<clock, steps, log, writer, out>>

Kinds == {"banner", "step", "TX", "91AE", "RX", "wiped"}
Lines == [by : Procs, kind : Kinds, ts : 0..MaxTime]
Line(p, k, t) == [by |-> p, kind |-> k, ts |-> t]

AuditTypeOK ==
  /\ clock \in 1..MaxTime /\ steps \in 0..MaxSteps
  /\ log \in Seq(Lines) /\ out \in [Procs -> Seq(Lines)]
  /\ writer \in [Procs -> [banner : BOOLEAN, noted : BOOLEAN,
                           start : 0..MaxTime, last : 0..MaxTime]]

(* The statics of a fresh process; start is lazy and 0 until it is read.     *)
FreshWriter == [banner |-> FALSE, noted |-> FALSE, start |-> 0, last |-> 0]

AuditInit ==
  /\ clock = 1 /\ steps = 0 /\ log = <<>>
  /\ writer = [p \in Procs |-> FreshWriter] /\ out = [p \in Procs |-> <<>>]

(* The clock is set, or simply runs.                                         *)
ClockStep ==
  /\ steps < MaxSteps /\ steps' = steps + 1
  /\ clock' \in (1..MaxTime) \ {clock}
  /\ UNCHANGED <<log, writer, out>>

(* write_session_banner: once per process.                                   *)
Banner(p, w) == IF w.banner THEN <<>> ELSE <<Line(p, "banner", clock)>>

(* The higher of process start and the last stamp.                           *)
Reference(w) ==
  LET start == IF w.start = 0 THEN clock ELSE w.start
  IN IF w.last > start THEN w.last ELSE start

SteppedBack(w) == clock < Reference(w) /\ ~w.noted

(* timestamp and log_entry: a step back is noted once, the banner comes      *)
(* before whatever is the first line, and the stamp is remembered.           *)
Stamp(p, kind) ==
  LET w == writer[p]
      note == IF SteppedBack(w) THEN <<Line(p, "step", clock)>> ELSE <<>>
  IN /\ out' = [out EXCEPT ![p] = Banner(p, w) \o note \o <<Line(p, kind, clock)>>]
     /\ writer' = [writer EXCEPT ![p] =
          [banner |-> TRUE, noted |-> w.noted \/ SteppedBack(w),
           start |-> IF w.start = 0 THEN clock ELSE w.start, last |-> clock]]

(* write_raw: the lines are appended, one after the other without a wait;    *)
(* when the file cannot be opened they are dropped without a word.           *)
WriteRaw(p, opened) ==
  /\ out[p] # <<>>
  /\ log' = IF opened THEN log \o out[p] ELSE log
  /\ out' = [out EXCEPT ![p] = <<>>]
  /\ UNCHANGED <<clock, steps, writer>>

Count(s, kind) == Cardinality({i \in DOMAIN s : s[i].kind = kind})

(* parse_audit: what follows the last "wipe: SUCCESS", or everything; the    *)
(* cards of the host are not told apart.                                     *)
Epoch(s) ==
  LET wipes == {i \in DOMAIN s : s[i].kind = "wiped"}
  IN IF wipes = {} THEN s ELSE SubSeq(s, CHOOSE i \in wipes : \A j \in wipes : i >= j, Len(s))

(* cmd_budget: auth_failures_since_last_wipe, or all of them.                *)
Budget(s) == Count(Epoch(s), "91AE")
=============================================================================
