----------------------------- MODULE WorkerGate -----------------------------
(***************************************************************************)
(* What decides whether a Mac may execute a job: the PAUSED file, the      *)
(* ACTIVE.json marker, worker.lock and SIGTERM, as the worker's main       *)
(* thread (macqueue/worker.py), launchd, an operator and the updater       *)
(* (deploy/update.py) use them. The server is only the answer to a claim.  *)
(*                                                                         *)
(* Steps are as fine as the races between them: the worker looks at PAUSED *)
(* and at its stop flag, writes the marker, and lets the signal handler    *)
(* reach the run, one after the other.                                     *)
(***************************************************************************)
EXTENDS Naturals

VARIABLES main,         \* the worker's main thread
          stopping,     \* Worker.stop is set
          armed,        \* Worker.active: the signal handler reaches the run
          cancelled,    \* the cancel event of the run is set
          clean,        \* cleanup_ok of the run
          alive,        \* processes of a job exist
          paused,       \* the file PAUSED exists
          marker,       \* the file ACTIVE.json exists
          lock,         \* who holds worker.lock
          loaded,       \* launchd has the worker's job (KeepAlive), and can signal it
          installed,    \* the program files
          running,      \* the worker's process: the program it has loaded, and if launchd started it
          upd,          \* the updater process
          receipt,      \* the receipt of the latest update, on disk
          wish          \* whether the operator last paused; read by properties alone

process == <<main, stopping, armed, cancelled, clean>>
machine == <<alive, paused, marker>>
update  == <<loaded, installed, upd, receipt>>
vars == <<main, stopping, armed, cancelled, clean, alive, paused, marker, lock,
          loaded, installed, running, upd, receipt, wish>>

Main == {"down", "import", "boot", "loop", "claiming", "claimed", "declining",
         "entering", "marked", "running", "delivering"}
Files == {"old", "mixed", "new"}
Stage == {"none", "prepared", "drain", "unload", "lock", "check", "replace", "start", "ready", "logged", "done"}

-----------------------------------------------------------------------------
(* The worker. *)

\* launchd, while it has the job, or somebody by hand runs the worker, one process
\* at a time. It reads the program's files (cli.py:109) before it asks for the lock.
Launch == /\ main = "down"
          /\ main' = "import"
          /\ \E service \in BOOLEAN :
               /\ service => loaded
               /\ running' = [code |-> installed, service |-> service]
          /\ UNCHANGED <<stopping, armed, cancelled, clean, lock, wish>>
          /\ UNCHANGED machine /\ UNCHANGED update

\* What is imported later (worker.py:293, runner.py:86) is read under the lock.
LoadRest == running' = [running EXCEPT !.code = IF @ = installed THEN @ ELSE "mixed"]

\* OneJobsProcesses against a worker that starts whatever it finds.
OwnUnfenced == /\ main = "import"
               /\ lock = "none"
               /\ main' = "boot"
               /\ lock' = "worker"
               /\ LoadRest
               /\ UNCHANGED <<stopping, armed, cancelled, clean, wish>>
               /\ UNCHANGED machine /\ UNCHANGED update

\* TypeOK against a worker that does not take worker.lock first.
OwnUnlocked == /\ main = "import"
               /\ ~marker
               /\ main' = "boot"
               /\ lock' = "worker"
               /\ LoadRest
               /\ UNCHANGED <<stopping, armed, cancelled, clean, wish>>
               /\ UNCHANGED machine /\ UNCHANGED update

\* It takes worker.lock and finds no marker.
Own == /\ main = "import"
       /\ lock = "none" /\ ~marker
       /\ main' = "boot"
       /\ lock' = "worker"
       /\ LoadRest
       /\ UNCHANGED <<stopping, armed, cancelled, clean, wish>>
       /\ UNCHANGED machine /\ UNCHANGED update

Untouched == UNCHANGED <<lock, running, wish>> /\ UNCHANGED update

\* The doctor passes and the signal handlers are installed. The updater waits
\* for what launchd's worker writes to its log.
Ready == /\ main = "boot"
         /\ main' = "loop"
         /\ upd' = IF upd.stage = "ready" /\ running.service /\ paused
                     THEN [upd EXCEPT !.stage = "logged"] ELSE upd
         /\ UNCHANGED <<stopping, armed, cancelled, clean, lock, loaded, installed, running, receipt, wish>>
         /\ UNCHANGED machine

\* The process is gone, however it ended: its lock is released, what it
\* started lives on.
Gone == /\ main' = "down"
        /\ lock' = IF lock = "worker" THEN "none" ELSE lock
        /\ stopping' = FALSE /\ armed' = FALSE /\ cancelled' = FALSE /\ clean' = TRUE

\* Another has the lock, or there is a marker.
Refused == /\ main = "import"
           /\ lock # "none" \/ marker
           /\ Gone
           /\ UNCHANGED <<running, wish>> /\ UNCHANGED machine /\ UNCHANGED update

\* StopEnds against a pause loop of its own that never looks at the stop flag.
ExitUnlessPaused == /\ main = "loop" /\ stopping /\ ~paused
                    /\ Gone
                    /\ UNCHANGED <<running, wish>> /\ UNCHANGED machine /\ UNCHANGED update

Exit == /\ main = "loop" /\ stopping
        /\ Gone
        /\ UNCHANGED <<running, wish>> /\ UNCHANGED machine /\ UNCHANGED update

\* A paused worker goes on looking; another asks for a job.
SendClaim == /\ main = "loop" /\ ~stopping /\ ~paused
             /\ main' = "claiming"
             /\ UNCHANGED <<stopping, armed, cancelled, clean>>
             /\ UNCHANGED machine /\ Untouched

\* A job, or nothing, or no answer.
TakeAnswer == /\ main = "claiming"
              /\ main' \in {"claimed", "loop"}
              /\ UNCHANGED <<stopping, armed, cancelled, clean>>
              /\ UNCHANGED machine /\ Untouched

\* UpdateQuiet against looking at PAUSED only before the claim is sent.
LookOnce == /\ main = "claimed"
            /\ main' = IF stopping THEN "declining" ELSE "entering"
            /\ UNCHANGED <<stopping, armed, cancelled, clean>>
            /\ UNCHANGED machine /\ Untouched

LookAgain == /\ main = "claimed"
             /\ main' = IF stopping \/ paused THEN "declining" ELSE "entering"
             /\ UNCHANGED <<stopping, armed, cancelled, clean>>
             /\ UNCHANGED machine /\ Untouched

Declined == /\ main = "declining"
            /\ main' = "loop"
            /\ UNCHANGED <<stopping, armed, cancelled, clean>>
            /\ UNCHANGED machine /\ Untouched

\* handle() begins with the marker, and only then can a signal reach the run.
Mark == /\ main = "entering"
        /\ main' = "marked"
        /\ marker' = TRUE
        /\ clean' = TRUE /\ cancelled' = FALSE
        /\ UNCHANGED <<stopping, armed, alive, paused>> /\ Untouched

Arm == /\ main = "marked"
       /\ main' = "running"
       /\ armed' = TRUE
       /\ UNCHANGED <<stopping, cancelled, clean>>
       /\ UNCHANGED machine /\ Untouched

\* The runner starts a process unless its cancel event is set.
Execute == /\ main = "running" /\ ~cancelled /\ ~alive
           /\ alive' = TRUE
           /\ UNCHANGED <<paused, marker>> /\ UNCHANGED process /\ Untouched

\* Every process of the run is gone; or that, true or not, cannot be confirmed.
EndRun == /\ main = "running"
          /\ main' = "delivering"
          /\ \/ alive' = FALSE /\ UNCHANGED <<stopping, clean>>
             \/ clean' = FALSE /\ stopping' = TRUE /\ (alive' = FALSE \/ UNCHANGED alive)
          /\ UNCHANGED <<armed, cancelled, paused, marker>> /\ Untouched

\* A step failed or was stopped, and its process group was killed (close).
KillGroup == /\ main = "running" /\ alive
             /\ alive' = FALSE
             /\ UNCHANGED <<paused, marker>> /\ UNCHANGED process /\ Untouched

\* MarkedWhileAlive against a marker that goes whatever the cleanup found.
LetGoAnyway == /\ main = "delivering"
               /\ main' = "loop"
               /\ armed' = FALSE /\ cancelled' = FALSE /\ clean' = TRUE
               /\ marker' = FALSE
               /\ UNCHANGED <<stopping, alive, paused>> /\ Untouched

LetGo == /\ main = "delivering"
         /\ main' = "loop"
         /\ armed' = FALSE /\ cancelled' = FALSE /\ clean' = TRUE
         /\ marker' = ~clean
         /\ UNCHANGED <<stopping, alive, paused>> /\ Untouched

\* Worker.signal, once installed; before, SIGTERM ends the process.
HandleSignal == \/ /\ main \in {"import", "boot"}
                   /\ Gone
                \/ /\ main \notin {"down", "import", "boot"}
                   /\ stopping' = TRUE
                   /\ cancelled' = (cancelled \/ armed)
                   /\ UNCHANGED <<main, lock, armed, clean>>

Terminate == /\ HandleSignal
             /\ UNCHANGED <<running, wish>> /\ UNCHANGED machine /\ UNCHANGED update

\* The watchdog, the server or the job's time limit.
CancelRun == /\ main \in {"running", "delivering"}
             /\ cancelled' = TRUE
             /\ UNCHANGED <<main, stopping, armed, clean>>
             /\ UNCHANGED machine /\ Untouched

\* SIGKILL, by launchd after ExitTimeOut or by anyone.
Kill == /\ main # "down"
        /\ Gone
        /\ UNCHANGED <<running, wish>> /\ UNCHANGED machine /\ UNCHANGED update

WorkerNext == \/ Launch \/ Own \/ Refused \/ Ready \/ Exit \/ SendClaim \/ TakeAnswer \/ LookAgain \/ Declined
              \/ Mark \/ Arm \/ Execute \/ KillGroup \/ EndRun \/ LetGo \/ CancelRun
              \/ Terminate \/ Kill

-----------------------------------------------------------------------------
(* The operator: macqueue pause and resume, and the restart guard's remedy.  *)
(* Nobody resumes a worker that is being updated or was left half updated.   *)

Pause == /\ paused' = TRUE /\ wish' = TRUE
         /\ UNCHANGED <<alive, marker, lock, running>> /\ UNCHANGED process /\ UNCHANGED update

Resume == /\ upd.stage = "none" /\ installed # "mixed"
          /\ paused' = FALSE /\ wish' = FALSE
          /\ UNCHANGED <<alive, marker, lock, running>> /\ UNCHANGED process /\ UNCHANGED update

\* What a crashed job left is stopped, and then ACTIVE.json is removed.
Reset == /\ main = "down" /\ marker
         /\ alive' = FALSE /\ marker' = FALSE
         /\ UNCHANGED paused /\ UNCHANGED process /\ Untouched

\* Processes are gone, files stay; launchd loads what /Library/LaunchDaemons holds.
Reboot == /\ main' = "down" /\ lock' = "none"
          /\ stopping' = FALSE /\ armed' = FALSE /\ cancelled' = FALSE /\ clean' = TRUE
          /\ alive' = FALSE
          /\ loaded' = TRUE
          /\ upd' = [upd EXCEPT !.stage = "none"]
          /\ UNCHANGED <<paused, marker, installed, running, receipt, wish>>

OperatorNext == Pause \/ Resume \/ Reset \/ Reboot

-----------------------------------------------------------------------------
(* deploy/update.py, apply and rollback. It holds worker.lock while it        *)
(* replaces files, and it may fail or be interrupted between any two steps.   *)

Enter(from, to) == upd.stage = from /\ upd' = [upd EXCEPT !.stage = to]

Apply == /\ upd.stage = "none" /\ installed = "old"
         /\ upd' = [stage |-> "prepared", to |-> "new"]
         /\ receipt' = [status |-> "prepared", was |-> paused]
         /\ UNCHANGED <<lock, loaded, installed, running, wish>>
         /\ UNCHANGED process /\ UNCHANGED machine

Rollback == /\ upd.stage = "none" /\ receipt.status \in {"prepared", "installed"}
            /\ upd' = [stage |-> "prepared", to |-> "old"]
            /\ UNCHANGED <<lock, loaded, installed, running, receipt, wish>>
            /\ UNCHANGED process /\ UNCHANGED machine

TouchPaused == /\ Enter("prepared", "drain")
               /\ paused' = TRUE
               /\ UNCHANGED <<alive, marker, lock, loaded, installed, running, receipt, wish>>
               /\ UNCHANGED process

\* The sleep before the first look at ACTIVE.json is long enough for a worker
\* that had already looked at PAUSED to write the marker.
Drained == /\ Enter("drain", "unload")
           /\ ~marker
           /\ main # "entering"
           /\ UNCHANGED <<lock, loaded, installed, running, receipt, wish>>
           /\ UNCHANGED process /\ UNCHANGED machine

\* launchctl bootout: SIGTERM now to the worker it started (SIGKILL later is
\* Kill), and no restart. One that was started by hand hears nothing of it.
Bootout == /\ Enter("unload", "lock")
           /\ loaded' = FALSE
           /\ IF loaded /\ running.service /\ main # "down"
                THEN HandleSignal
                ELSE UNCHANGED process /\ UNCHANGED lock
           /\ UNCHANGED <<installed, running, receipt, wish>> /\ UNCHANGED machine

TakeLock == /\ Enter("lock", "check")
            /\ lock = "none"
            /\ lock' = "updater"
            /\ UNCHANGED <<loaded, installed, running, receipt, wish>>
            /\ UNCHANGED process /\ UNCHANGED machine

\* The first file is replaced: two versions are mixed, unless nothing changes.
ReplaceSome == /\ Enter("check", "replace")
               /\ ~marker
               /\ installed' = IF installed = upd.to THEN installed ELSE "mixed"
               /\ UNCHANGED <<lock, loaded, running, receipt, wish>>
               /\ UNCHANGED process /\ UNCHANGED machine

ReplaceRest == /\ Enter("replace", "start")
               /\ installed' = upd.to
               /\ receipt' = IF upd.to = "new" THEN [receipt EXCEPT !.status = "installed"] ELSE receipt
               /\ UNCHANGED <<lock, loaded, running, wish>>
               /\ UNCHANGED process /\ UNCHANGED machine

Bootstrap == /\ Enter("start", "ready")
             /\ lock' = "none"
             /\ loaded' = TRUE
             /\ UNCHANGED <<installed, running, receipt, wish>>
             /\ UNCHANGED process /\ UNCHANGED machine

\* The worker logged that it is ready and paused, whatever became of it since.
RestorePause == /\ Enter("logged", "done")
                /\ paused' = (paused /\ receipt.was)
                /\ UNCHANGED <<alive, marker, lock, loaded, installed, running, receipt, wish>>
                /\ UNCHANGED process

Complete == /\ Enter("done", "none")
            /\ receipt' = IF upd.to = "old" THEN [receipt EXCEPT !.status = "rolled-back"] ELSE receipt
            /\ UNCHANGED <<lock, loaded, installed, running, wish>>
            /\ UNCHANGED process /\ UNCHANGED machine

\* NoMixedCode against a failure that puts the worker back to work.
GiveUpAndStart == /\ upd.stage # "none"
                  /\ upd' = [upd EXCEPT !.stage = "none"]
                  /\ lock' = IF lock = "updater" THEN "none" ELSE lock
                  /\ loaded' = TRUE
                  /\ paused' = (paused /\ receipt.was)
                  /\ UNCHANGED <<alive, marker, installed, running, receipt, wish>>
                  /\ UNCHANGED process

\* A refusal, an error or an interruption: PAUSED stays, the lock does not.
UpdaterFails == /\ upd.stage # "none"
                /\ upd' = [upd EXCEPT !.stage = "none"]
                /\ lock' = IF lock = "updater" THEN "none" ELSE lock
                /\ UNCHANGED <<loaded, installed, running, receipt, wish>>
                /\ UNCHANGED process /\ UNCHANGED machine

UpdaterNext == \/ Apply \/ Rollback \/ TouchPaused \/ Drained \/ Bootout \/ TakeLock
               \/ ReplaceSome \/ ReplaceRest \/ Bootstrap \/ RestorePause \/ Complete
               \/ UpdaterFails

-----------------------------------------------------------------------------

\* A worker installed and resumed, with no job yet.
Init == /\ main = "down" /\ lock = "none"
        /\ stopping = FALSE /\ armed = FALSE /\ cancelled = FALSE /\ clean = TRUE
        /\ alive = FALSE /\ paused = FALSE /\ marker = FALSE
        /\ loaded = TRUE /\ installed = "old"
        /\ running = [code |-> "old", service |-> TRUE]
        /\ upd = [stage |-> "none", to |-> "new"]
        /\ receipt = [status |-> "none", was |-> FALSE]
        /\ wish = FALSE

Next == WorkerNext \/ OperatorNext \/ UpdaterNext

Spec == Init /\ [][Next]_vars

\* The main thread goes on once it is ready: requests time out, and a run ends because its
\* processes do or because the watchdog or the handler stops it.
FairSpec == Spec /\ WF_vars(Ready \/ Exit \/ SendClaim \/ TakeAnswer \/ LookAgain \/ Declined
                            \/ Mark \/ Arm \/ LetGo)
                 /\ WF_vars(EndRun)

-----------------------------------------------------------------------------
(* Properties. *)

\* Every variable has its type, and worker.lock belongs to the process that is
\* there: the worker from its start to its end, the updater from its lock step on.
TypeOK ==
    /\ main \in Main
    /\ stopping \in BOOLEAN /\ armed \in BOOLEAN /\ cancelled \in BOOLEAN /\ clean \in BOOLEAN
    /\ alive \in BOOLEAN /\ paused \in BOOLEAN /\ marker \in BOOLEAN
    /\ loaded \in BOOLEAN /\ wish \in BOOLEAN
    /\ installed \in Files /\ running \in [code : Files, service : BOOLEAN]
    /\ upd \in [stage : Stage, to : {"old", "new"}]
    /\ receipt \in [status : {"none", "prepared", "installed", "rolled-back"}, was : BOOLEAN]
    /\ lock \in {"none", "worker", "updater"}
    /\ lock = "worker" <=> main \notin {"down", "import"}
    /\ lock = "updater" <=> upd.stage \in {"check", "replace", "start"}

\* No process of a job is ever alive without ACTIVE.json to tell the next worker
\* and the updater of it, through crashes, failed cleanups and restarts
\* (worker.py:223, 274; README.md:200).
MarkedWhileAlive == alive => marker

\* A job never starts beside processes that an earlier job left, whatever
\* killed the worker in between (worker.py:239-240, 291).
OneJobsProcesses == [][main # "running" /\ main' = "running" => ~alive]_vars

\* Once the updater has drained the worker, no job runs or starts until it is
\* done, so it kills none (docs/rollout.md:5), and while it replaces files there is
\* no worker but one that somebody starts by hand, without the lock
\* (deploy/update.py:63-86).
UpdateQuiet ==
    /\ upd.stage \in {"unload", "lock", "check", "replace", "start", "ready", "logged"} =>
         /\ ~alive
         /\ main \notin {"entering", "marked", "running", "delivering"}
    /\ upd.stage \in {"check", "replace", "start"} =>
         main = "down" \/ (main = "import" /\ ~running.service)

\* No worker that launchd started executes a job with half of an update, although
\* it reads the program before it asks for the lock (cli.py:109, worker.py:288),
\* and an interrupted update is followed by a reboot that starts it. Of one started
\* by hand this is not true: the lock it takes comes too late for what it has read.
NoMixedCode == main = "running" /\ running.code = "mixed" => ~running.service

\* A worker that is told to stop, or stops because a cleanup is unconfirmed,
\* ends, paused or not (worker.py:298-302).
StopEnds == stopping ~> ~stopping

\* README.md:186: graceful worker termination cancels the process groups of
\* its run. A signal between the worker's last look at its stop flag and the
\* assignment of self.active cancels nothing.
GracefulStopCancels == stopping /\ main = "running" => cancelled

\* README.md:186: pause stops new claims. An update that was begun before the
\* operator paused takes that pause away when it restores the state it saved.
PauseStands == wish => paused
=============================================================================
