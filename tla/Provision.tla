----------------------------- MODULE Provision -----------------------------
(***************************************************************************)
(* deploy/macos/provision.py: the mirror and the cargo cache of an         *)
(* installed worker are replaced by prepared ones, with its configuration  *)
(* and token, from a backup that rollback restores. Both may raise or be   *)
(* killed between any two steps, beside a worker that takes jobs.          *)
(***************************************************************************)
EXTENDS Naturals, Sequences

VARIABLES
    task,      \* "none", "apply" or "rollback"
    at,        \* its next step
    live,      \* version of each thing: "old", "new" or "none"
    backup,    \* what the backup directory has of it
    receipt,   \* receipt.json
    memory,    \* the receipt in memory
    cut,       \* a receipt.json.new was left behind
    paused,    \* PAUSED exists
    running,   \* version of the configuration the worker has read
    worker,    \* "down", "idle", "entering" a job: PAUSED was not there, "active" in it;
               \* or "missed", entering when a script looked, and "late", in such a job
    marker,    \* ACTIVE.json exists
    ended      \* the last script printed its result

workers == <<worker, marker>>

files == <<live, backup, receipt, memory, cut, running>>

pvars == <<task, at, files, paused, workers, ended>>

Moved == {"mirror", "cargo"}

Copied == {"config", "token"}

All(v) == [x \in Moved \cup Copied |-> v]

NoReceipt == [status |-> "none", moved |-> {}, hashed |-> FALSE]

PDo(act, what) == [act |-> act, what |-> what]

Move(x) == << PDo("note", x), PDo("away", x), PDo("place", x) >>

ProvisionSteps ==
    << PDo("copy", "config"), PDo("copy", "token"), PDo("save", "installing") >>
    \o Move("mirror") \o Move("cargo")
    \o << PDo("place", "config"), PDo("place", "token"), PDo("hash", "config"), PDo("save", "installed"),
          PDo("restart", "worker"), PDo("resume", "worker"), PDo("keep", "receipt"), PDo("report", "result") >>

RestoreSteps ==
    << PDo("idle", "worker"), PDo("clear", "mirror"), PDo("restore", "mirror"), PDo("clear", "cargo"),
       PDo("restore", "cargo"), PDo("restore", "config"), PDo("restore", "token"), PDo("restart", "worker"),
       PDo("save", "rolled-back") >>

ProvisionInit ==
    /\ task = "none" /\ at = 1
    /\ live = All("old") /\ backup = All("none")
    /\ receipt = NoReceipt /\ memory = NoReceipt /\ cut = FALSE
    /\ paused = TRUE /\ running = "old" /\ ended = TRUE
    /\ worker = "down" /\ marker = FALSE

\* A base directory made anew.
Renew ==
    /\ task' = "none" /\ at' = 1
    /\ live' = All("old") /\ backup' = All("none")
    /\ receipt' = NoReceipt /\ memory' = NoReceipt /\ cut' = FALSE
    /\ paused' = TRUE /\ running' = "old" /\ ended' = TRUE
    /\ worker' = "down" /\ marker' = FALSE

Quit == task' = "none" /\ at' = 1 /\ memory' = NoReceipt /\ ended' = FALSE

\* Mutant: only PAUSED is looked at.
IdlePaused == paused

Idle == paused /\ ~marker

\* That does not see a worker which is about to write ACTIVE.json, nor is it waited for.
Look ==
    /\ Idle
    /\ worker' = IF worker = "entering" THEN "missed" ELSE worker

\* A backup directory of this plan is not there yet.
Begin ==
    /\ task = "none" /\ Look
    /\ backup = All("none") /\ receipt.status = "none"
    /\ task' = "apply" /\ ended' = FALSE
    /\ UNCHANGED <<at, files, paused, marker>>

\* A configuration that is not the installed one is refused. Then PAUSED is made.
Undo ==
    /\ task = "none"
    /\ receipt.status \notin {"none", "rolled-back"}
    /\ receipt.hashed => live["config"] = "new"
    /\ paused' = TRUE
    /\ task' = "rollback" /\ memory' = receipt /\ ended' = FALSE
    /\ UNCHANGED <<at, live, backup, receipt, cut, running, workers>>

\* Written beside and renamed; what a killed save left behind is in the way for good.
Save(value) ==
    /\ ~cut
    /\ memory' = value /\ receipt' = value

Set(x, v) == live' = [live EXCEPT ![x] = v]

\* Mutant: what the receipt names is taken to be in the backup.
RestorableNoted(x) == x \in Copied \/ x \in memory.moved

Restorable(x) == x \in Copied \/ (x \in memory.moved /\ backup[x] = "old")

\* A worker that starts reads its configuration, and ends if there is an ACTIVE.json.
Fresh == ~marker /\ worker' = "idle" /\ running' = live["config"]

Effect(step) ==
    LET x == step.what IN
    \/ /\ step.act = "idle"
       /\ Look
       /\ UNCHANGED <<live, backup, receipt, memory, paused, running>>
    \/ /\ step.act = "copy"
       /\ backup' = [backup EXCEPT ![x] = "old"]
       /\ UNCHANGED <<live, receipt, memory, paused, running, worker>>
    \/ /\ step.act = "save"
       /\ Save([memory EXCEPT !.status = x])
       /\ UNCHANGED <<live, backup, paused, running, worker>>
    \/ /\ step.act = "note"
       /\ Save([memory EXCEPT !.moved = @ \cup {x}])
       /\ UNCHANGED <<live, backup, paused, running, worker>>
    \/ /\ step.act = "away"
       /\ Set(x, "none") /\ backup' = [backup EXCEPT ![x] = "old"]
       /\ UNCHANGED <<receipt, memory, paused, running, worker>>
    \/ /\ step.act = "place"
       /\ Set(x, "new")
       /\ UNCHANGED <<backup, receipt, memory, paused, running, worker>>
    \/ /\ step.act = "hash"
       /\ memory' = [memory EXCEPT !.hashed = TRUE]
       /\ UNCHANGED <<live, backup, receipt, paused, running, worker>>
    \/ /\ step.act = "restart"
       /\ Fresh
       /\ UNCHANGED <<live, backup, receipt, memory, paused>>
    \/ /\ step.act = "resume"   \* if the plan says so
       /\ \/ paused' = FALSE /\ memory' = [memory EXCEPT !.status = "active"]
          \/ UNCHANGED <<paused, memory>>
       /\ UNCHANGED <<live, backup, receipt, running, worker>>
    \/ /\ step.act = "keep"
       /\ Save(memory)
       /\ UNCHANGED <<live, backup, paused, running, worker>>
    \/ /\ step.act = "report"
       /\ UNCHANGED <<live, backup, receipt, memory, paused, running, worker>>
    \/ /\ step.act = "clear"
       /\ IF Restorable(x) THEN Set(x, "none") ELSE UNCHANGED live
       /\ UNCHANGED <<backup, receipt, memory, paused, running, worker>>
    \/ /\ step.act = "restore"
       /\ IF Restorable(x) /\ backup[x] = "old"
            THEN /\ Set(x, "old")
                 /\ backup' = IF x \in Moved THEN [backup EXCEPT ![x] = "none"] ELSE backup
            ELSE UNCHANGED <<live, backup>>
       /\ UNCHANGED <<receipt, memory, paused, running, worker>>

TaskSteps == IF task = "apply" THEN ProvisionSteps ELSE RestoreSteps

TaskStep ==
    /\ task # "none"
    /\ Effect(TaskSteps[at])
    /\ IF at < Len(TaskSteps) THEN at' = at + 1 /\ UNCHANGED <<task, ended>>
                              ELSE at' = 1 /\ task' = "none" /\ ended' = TRUE
    /\ UNCHANGED <<cut, marker>>

\* A save that is interrupted may leave its file.
CutSave ==
    \/ UNCHANGED cut
    \/ cut' = TRUE /\ TaskSteps[at].act \in {"save", "note", "keep"}

\* An exception after the first receipt leaves PAUSED; before, and in a rollback, it is there.
TaskRaises ==
    /\ task # "none"
    /\ paused' = TRUE
    /\ CutSave
    /\ Quit
    /\ UNCHANGED <<live, backup, receipt, running, workers>>

TaskKilled ==
    /\ task # "none"
    /\ CutSave
    /\ Quit
    /\ UNCHANGED <<live, backup, receipt, paused, running, workers>>

-----------------------------------------------------------------------------
(* The worker, of which worker.py says more, and the operator *)

\* launchd starts it again.
WorkerStarts ==
    /\ worker = "down" /\ Fresh
    /\ UNCHANGED <<task, at, live, backup, receipt, memory, cut, paused, marker, ended>>

\* Killed, or ended after a cleanup that failed.
WorkerEnds ==
    /\ worker # "down"
    /\ worker' = "down"
    /\ UNCHANGED <<task, at, files, paused, marker, ended>>

\* It has a claim and looks at PAUSED once more.
TakeJob ==
    /\ worker = "idle" /\ ~paused
    /\ worker' = "entering"
    /\ UNCHANGED <<task, at, files, paused, marker, ended>>

MarkJob ==
    /\ \/ worker = "entering" /\ worker' = "active"
       \/ worker = "missed" /\ worker' = "late"
    /\ marker' = TRUE
    /\ UNCHANGED <<task, at, files, paused, ended>>

EndJob ==
    /\ worker \in {"active", "late"}
    /\ worker' = "idle" /\ marker' = FALSE
    /\ UNCHANGED <<task, at, files, paused, ended>>

\* What a killed job left is inspected, and ACTIVE.json removed.
OperatorResets ==
    /\ worker = "down" /\ marker
    /\ marker' = FALSE
    /\ UNCHANGED <<task, at, files, paused, worker, ended>>

OperatorPauses ==
    /\ paused' = TRUE
    /\ UNCHANGED <<task, at, files, workers, ended>>

\* The operator resumes when the last script said that all is well.
OperatorResumes ==
    /\ task = "none" /\ ended
    /\ paused' = FALSE
    /\ UNCHANGED <<task, at, files, workers, ended>>

ProvisionNext ==
    \/ Begin \/ Undo
    \/ TaskStep \/ TaskRaises \/ TaskKilled
    \/ WorkerStarts \/ WorkerEnds \/ TakeJob \/ MarkJob \/ EndJob
    \/ OperatorResets \/ OperatorPauses \/ OperatorResumes

-----------------------------------------------------------------------------
(* Properties *)

(* The original mirror, cache, configuration and token are where they were *)
(* or in the backup, whatever was interrupted and run again; and a         *)
(* rollback that says so has put all of them back.                         *)
OriginalsKept ==
    /\ \A x \in Moved \cup Copied : live[x] = "old" \/ backup[x] = "old"
    /\ receipt.status = "rolled-back" => live = All("old")

(* A worker that may take a job, has decided to, or is in it finds          *)
(* everything of one version, and has read the configuration that goes     *)
(* with it: the scripts refuse while there is an ACTIVE.json               *)
(* (provision.py:132-134). Not so a job that was missed by that one look,  *)
(* since its worker had looked at PAUSED but not yet written ACTIVE.json   *)
(* (worker.py:315, 223): its files are replaced under it, although         *)
(* docs/macos-provisioning.md:80 says that an active job is refused.       *)
ActiveConsistent ==
    ~paused \/ worker \in {"entering", "active"} => \E v \in {"old", "new"} : live = All(v) /\ running = v
=============================================================================
