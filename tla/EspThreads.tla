----------------------------- MODULE EspThreads ------------------------------
(***************************************************************************)
(* apps/bolty-esp32 with REST: the main loop (console, poll, job runner,   *)
(* heartbeat, buttons) and the HTTP server's thread share the              *)
(* configuration, the card service, the job slot and the rate limiter,     *)
(* each behind a mutex.  The job slot and the limiter are only locked for  *)
(* a single read or update, which is one step here; configuration and      *)
(* service are held over whole card operations.                            *)
(*                                                                         *)
(* What an operation does to the card is EspWorkflow's subject; here it    *)
(* succeeds or fails.                                                      *)
(***************************************************************************)
EXTENDS Naturals

CONSTANTS
  MaxJobs,     \* bound: jobs submitted
  Cooldown     \* WRITE_COOLDOWN_US, in ticks

ASSUME ThreadsAssumption == {MaxJobs, Cooldown} \subseteq Nat \ {0}

VARIABLES
  holder,      \* who holds the mutexes of configuration and service
  main,        \* the main loop: phase, and how far in it
  http,        \* the HTTP thread: request, and how far in its handler
  server,      \* RestServer: "up", "stopping" while stop() waits, "down"
  slot,        \* JobSlot
  elapsed,     \* ticks since RateLimiter.last_write_us, up to Cooldown
  uptime,      \* ticks since boot, up to Cooldown
  ran          \* history: how often each job has run

threadVars == <<holder, main, http, server, slot, elapsed, uptime, ran>>

Jobs    == 1..MaxJobs
Locks   == {"config", "service"}
Phases  == {"console", "command", "token", "wifiOff", "poll", "take", "job",
            "heartbeat", "buttons", "look", "button"}
Places  == {"start", "config", "service", "run", "done"}
Handlers == {"read", "work", "stage", "action", "submit", "jobstatus"}
Steps   == {"auth", "limit", "slot", "record", "config", "service", "run", "status"}
Writes  == {"burn", "wipe"}
NoJob   == 0     \* slot.result: none yet, else the job whose result it is

ThreadsTypeOK ==
  /\ holder \in [Locks -> {"free", "main", "http"}]
  /\ main \in [phase : Phases, at : Places]
  /\ http \in [req : Handlers \cup {"none"}, at : Steps \cup {"idle"}]
  /\ server \in {"up", "stopping", "down"}
  /\ slot \in [id : 0..MaxJobs, status : {"idle", "pending", "running", "completed"},
               command : Writes \cup {"none"}, result : 0..MaxJobs]
  /\ elapsed \in 0..Cooldown /\ uptime \in 0..Cooldown
  /\ ran \in [Jobs -> Nat]

ThreadsInit ==
  /\ holder = [l \in Locks |-> "free"]
  /\ main = [phase |-> "console", at |-> "start"]
  /\ http = [req |-> "none", at |-> "idle"]
  /\ server = "down"
  /\ slot = [id |-> 0, status |-> "idle", command |-> "none", result |-> NoJob]
  /\ elapsed = 0 /\ uptime = 0
  /\ ran = [j \in Jobs |-> 0]

Acquire(l, t) == holder[l] = "free" /\ holder' = [holder EXCEPT ![l] = t]

Release(t) == holder' = [l \in Locks |-> IF holder[l] = t THEN "free" ELSE holder[l]]

shared == <<server, slot, elapsed, uptime, ran>>

Main(phase, at) == main' = [phase |-> phase, at |-> at]

In(phase, at) == main = [phase |-> phase, at |-> at]

------------------------------------------------------------------------------
(* The main loop.                                                            *)

(* A line of the console: none, a command, a token, Wi-Fi off, Wi-Fi on.     *)
Console ==
  /\ In("console", "start")
  /\ Main("poll", "service") \/ Main("command", "config") \/ Main("token", "config")
     \/ Main("wifiOff", "start")
  /\ UNCHANGED <<holder, http, shared>>

(* Wi-Fi on starts the server if there is none, with a new rate limiter; the *)
(* limiter compares with the time since boot.                                *)
WifiOn ==
  /\ In("console", "start")
  /\ Main("poll", "service")
  /\ server = "down" /\ server' = "up"
  /\ elapsed' = uptime
  /\ UNCHANGED <<holder, http, slot, uptime, ran>>

(* Mutant: the configuration is held while the server is stopped.            *)
WifiOffLocked ==
  /\ In("wifiOff", "start")
  /\ IF server = "up" THEN /\ server' = "stopping" /\ Main("wifiOff", "done")
                           /\ Acquire("config", "main")
                      ELSE UNCHANGED <<server, holder>> /\ Main("poll", "service")
  /\ UNCHANGED <<http, slot, elapsed, uptime, ran>>

(* `wifi off` stops the server: the main loop waits for the HTTP thread to   *)
(* leave its handler, holding no lock.  There may be no server, or the       *)
(* disconnection may fail.                                                   *)
WifiOff ==
  /\ In("wifiOff", "start")
  /\ \/ server = "up" /\ server' = "stopping" /\ Main("wifiOff", "done")
     \/ UNCHANGED server /\ Main("poll", "service")
  /\ UNCHANGED <<holder, http, slot, elapsed, uptime, ran>>

WifiStopped ==
  /\ In("wifiOff", "done") /\ http.at = "idle"
  /\ server' = "down" /\ Main("poll", "service") /\ Release("main")
  /\ UNCHANGED <<http, slot, elapsed, uptime, ran>>

(* config.lock(), for commands, jobs and buttons; a token is set under it    *)
(* alone.                                                                    *)
MainConfig ==
  /\ main.at = "config"
  /\ IF main.phase = "token"
       THEN holder.config = "free" /\ Main("poll", "service") /\ UNCHANGED holder
       ELSE Acquire("config", "main") /\ Main(main.phase, "service")
  /\ UNCHANGED <<http, shared>>

(* A job runs from its service lock on.                                      *)
MainEnters ==
  /\ Main(main.phase, "run")
  /\ IF main.phase = "job"
       THEN ran' = [ran EXCEPT ![slot.id] = @ + 1]
       ELSE UNCHANGED ran
  /\ UNCHANGED <<http, server, slot, elapsed, uptime>>

MainService ==
  /\ main.at = "service"
  /\ Acquire("service", "main")
  /\ MainEnters

After(phase) ==
  CASE phase = "command" -> Main("poll", "service")
    [] phase = "poll"    -> Main("take", "start")
    [] phase = "job"     -> Main("job", "done")
    [] phase = "look"    -> Main("button", "config") \/ Main("console", "start")
    [] phase = "button"  -> Main("console", "start")

(* poll_card, dispatch_command and sync_from, the look at last_card: done,   *)
(* and the guards are dropped.                                               *)
MainRun ==
  /\ main.at = "run" /\ Release("main") /\ After(main.phase)
  /\ UNCHANGED <<http, shared>>

(* process_rest_job: the job is taken, run, and its result stored.           *)
JobTake ==
  /\ In("take", "start")
  /\ IF slot.status = "pending"
       THEN slot' = [slot EXCEPT !.status = "running"] /\ Main("job", "config")
       ELSE UNCHANGED slot /\ Main("heartbeat", "start")
  /\ UNCHANGED <<holder, http, server, elapsed, uptime, ran>>

JobDone ==
  /\ In("job", "done") /\ Main("heartbeat", "start")
  /\ slot' = [slot EXCEPT !.status = "completed", !.result = slot.id]
  /\ UNCHANGED <<holder, http, server, elapsed, uptime, ran>>

Heartbeat ==
  /\ In("heartbeat", "start") /\ Main("buttons", "start")
  /\ UNCHANGED <<holder, http, shared>>

(* A button: nothing, the smart action, which looks at last_card first, or   *)
(* burn or wipe of the legacy mode.                                          *)
Buttons ==
  /\ In("buttons", "start")
  /\ Main("console", "start") \/ Main("look", "service") \/ Main("button", "config")
  /\ UNCHANGED <<holder, http, shared>>

MainStep ==
  \/ Console \/ WifiOff \/ WifiStopped \/ MainConfig \/ MainService \/ MainRun
  \/ JobTake \/ JobDone \/ Heartbeat \/ Buttons

------------------------------------------------------------------------------
(* The HTTP thread.                                                          *)

Http(at) == http' = [http EXCEPT !.at = at]

Respond == http' = [req |-> "none", at |-> "idle"]

Request ==
  /\ server = "up" /\ http.at = "idle"
  /\ \E r \in Handlers : /\ r = "submit" => slot.id < MaxJobs
                         /\ http' = [req |-> r, at |-> "auth"]
  /\ UNCHANGED <<holder, main, shared>>

(* is_authorized, under the configuration lock.                              *)
Authorize ==
  /\ http.at = "auth" /\ holder.config = "free"
  /\ \/ Respond
     \/ http.req = "read" /\ Http("status")
     \/ http.req = "work" /\ Http("config")
     \/ http.req \in {"stage", "action", "submit"} /\ Http("limit")
     \/ http.req = "jobstatus" /\ Http("slot")
  /\ UNCHANGED <<holder, main, shared>>

(* check_rate_limit; a body to be read may also be unreadable.               *)
CheckRateLimit ==
  /\ http.at = "limit"
  /\ \/ (elapsed < Cooldown \/ http.req # "action") /\ Respond
     \/ /\ elapsed = Cooldown
        /\ Http(IF http.req = "submit" THEN "slot" ELSE "config")
  /\ UNCHANGED <<holder, main, shared>>

RecordRateLimit ==
  /\ http.at = "record" /\ Respond
  /\ elapsed' = 0
  /\ UNCHANGED <<holder, main, server, slot, uptime, ran>>

(* JobSlot::submit of a job that has not been refused.                       *)
Submitted ==
  \E c \in Writes : slot' = [id |-> slot.id + 1, status |-> "pending",
                             command |-> c, result |-> NoJob]

(* Mutant: a running job does not keep a new one out.                        *)
SubmitJobOverRunning ==
  /\ http.at = "slot" /\ http.req = "submit"
  /\ IF slot.status # "pending" THEN Submitted /\ Http("record")
                                ELSE UNCHANGED slot /\ Respond
  /\ UNCHANGED <<holder, main, server, elapsed, uptime, ran>>

SubmitJob ==
  /\ http.at = "slot" /\ http.req = "submit"
  /\ IF slot.status \in {"idle", "completed"} THEN Submitted /\ Http("record")
                                             ELSE UNCHANGED slot /\ Respond
  /\ UNCHANGED <<holder, main, server, elapsed, uptime, ran>>

JobStatus ==
  /\ http.at = "slot" /\ http.req = "jobstatus" /\ Respond
  /\ UNCHANGED <<holder, main, shared>>

(* with_state: configuration, then service.                                  *)
HttpConfig ==
  /\ http.at = "config" /\ Acquire("config", "http") /\ Http("service")
  /\ UNCHANGED <<main, shared>>

HttpService ==
  /\ http.at = "service" /\ Acquire("service", "http") /\ Http("run")
  /\ UNCHANGED <<main, shared>>

(* The operation returns and both guards are dropped.  Keys or a URL that    *)
(* were staged, and a burn or wipe that succeeded, are recorded; of "work",  *)
(* keyver and inspect lock the service once more for the status they report, *)
(* check, ndef and diagnose answer at once.                                  *)
HttpRun ==
  /\ http.at = "run" /\ Release("http")
  /\ \/ Respond
     \/ Http(IF http.req \in {"stage", "action"} THEN "record" ELSE "status")
  /\ UNCHANGED <<main, shared>>

HttpStatus ==
  /\ http.at = "status" /\ holder.service = "free" /\ Respond
  /\ UNCHANGED <<holder, main, shared>>

HttpStep ==
  \/ Authorize \/ CheckRateLimit \/ RecordRateLimit \/ SubmitJob \/ JobStatus
  \/ HttpConfig \/ HttpService \/ HttpRun \/ HttpStatus

------------------------------------------------------------------------------
Later(t) == IF t < Cooldown THEN t + 1 ELSE t

Tick ==
  /\ elapsed' = Later(elapsed) /\ uptime' = Later(uptime)
  /\ UNCHANGED <<holder, main, http, server, slot, ran>>

ThreadsNext == MainStep \/ WifiOn \/ Request \/ HttpStep \/ Tick

(* Both threads are scheduled.  A mutex that is free again and again is      *)
(* eventually given to a waiting thread: FreeRTOS hands it to the first      *)
(* waiter, and the main loop sleeps between iterations.                      *)
Fairness ==
  /\ WF_threadVars(MainStep) /\ WF_threadVars(HttpStep)
  /\ SF_threadVars(MainConfig) /\ SF_threadVars(MainService)
  /\ SF_threadVars(Authorize) /\ SF_threadVars(HttpConfig) /\ SF_threadVars(HttpService) /\ SF_threadVars(HttpStatus)

ThreadsSpec == ThreadsInit /\ [][ThreadsNext]_threadVars
ThreadsFairSpec == ThreadsSpec /\ Fairness
------------------------------------------------------------------------------
(* Properties                                                                *)

(* The reader has one user: the two threads are never inside a card          *)
(* operation at the same time (every path takes the service lock).           *)
CardExclusive == ~(main.at = "run" /\ http.at = "run")

(* Every job that was accepted runs exactly once, none is lost to the next   *)
(* submission, and the result stored is its own (JobSlot::submit refuses     *)
(* while a job is pending or running; process_rest_job takes it once).       *)
EachJobRunsOnce ==
  /\ \A j \in Jobs : j < slot.id => ran[j] = 1
  /\ slot.status = "completed" => ran[slot.id] = 1 /\ slot.result = slot.id
  /\ slot.status = "pending" => ran[slot.id] = 0 /\ slot.result = NoJob

(* A thread is kept waiting: by a lock, or the main loop by the handler that *)
(* stop() has to wait for.                                                   *)
MainWaits ==
  \/ main.at = "config" /\ holder.config # "free"
  \/ main.at = "service" /\ holder.service # "free"
  \/ In("wifiOff", "done") /\ http.at # "idle"

HttpWaits ==
  \/ http.at \in {"auth", "config"} /\ holder.config # "free"
  \/ http.at \in {"service", "status"} /\ holder.service # "free"

(* The two threads never wait at the same time: both take the configuration  *)
(* before the service, and stop() is called without a lock.                  *)
NeverBothWait == ~(MainWaits /\ HttpWaits)

(* Types, and why the two above hold: who is inside an operation holds the   *)
(* service lock, and where the main loop is in process_rest_job tells how    *)
(* far the job in the slot has come.                                         *)
HasRun == \/ slot.status = "completed"
          \/ main.phase = "job" /\ main.at \in {"run", "done"}

ThreadsInv ==
  /\ ThreadsTypeOK
  /\ holder.service = "main" <=> main.at = "run"
  /\ holder.service = "http" <=> http.at = "run"
  /\ main.at = "config" => main.phase \in {"command", "token", "job", "button"}
  /\ main.at \in {"service", "run"} =>
       main.phase \in {"command", "poll", "job", "look", "button"}
  /\ main.phase = "job" => main.at # "start"
  /\ slot.status = "running" <=> main.phase = "job"
  /\ slot.status = "idle" <=> slot.id = 0
  /\ http.req = "submit" /\ http.at # "record" => slot.id < MaxJobs
  /\ \A j \in Jobs : ran[j] = IF j < slot.id \/ (j = slot.id /\ HasRun) THEN 1 ELSE 0
  /\ slot.result = IF slot.status = "completed" THEN slot.id ELSE NoJob

(* Why the threads never both wait: where they are tells who holds the       *)
(* configuration; a main loop that waits for it, or for stop(), holds no     *)
(* lock.                                                                     *)
ConfigInv ==
  /\ holder.config = "main" <=> /\ main.at \in {"service", "run"}
                                /\ main.phase \in {"command", "job", "button"}
  /\ holder.config = "http" <=> http.at \in {"service", "run"}

(* A job that was accepted is completed, also when Wi-Fi is switched off in  *)
(* the meantime.                                                             *)
JobCompletes ==
  \A j \in Jobs : slot.id = j /\ slot.status = "pending" ~>
                  slot.id > j \/ slot.status = "completed"

(* The heartbeat comes again and again: whatever the main loop has begun, no *)
(* order of locks, and no stopping of the server, keeps it from the next.    *)
HeartbeatRecurs == main.phase # "console" ~> In("heartbeat", "start")

(* Every request is answered.                                                *)
RequestsAreAnswered == http.at # "idle" ~> http.at = "idle"

(* The two threads share the reader and the slot: no two operations at once, *)
(* each job run once with its own result, and never both waiting.            *)
ReaderIsShared == CardExclusive /\ EachJobRunsOnce /\ NeverBothWait

(* Nobody waits for ever: no order of locks, no stopping of the server and   *)
(* no early return keeps a job, the main loop or a request from its end.     *)
NobodyStarves == JobCompletes /\ HeartbeatRecurs /\ RequestsAreAnswered
=============================================================================
