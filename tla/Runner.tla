------------------------------- MODULE Runner -------------------------------
(***************************************************************************)
(* A worker that executes a plan of jobs: the steps of runner.py with      *)
(* their children (Sessions), the cache of source packages (Snapshots),    *)
(* and what handle() leaves of a job in the worker's directory until       *)
(* prune_worker deletes it. The worker may be killed anywhere.             *)
(***************************************************************************)
EXTENDS Sessions, Snapshots

CONSTANT Plans   \* sequences of jobs: a revision and a sequence of steps [op, arg]

\* What validate_job admits: a job has steps, and one of source packages has nothing else.
ASSUME PlansAssumption ==
    \A q \in Plans :
      /\ Len(q) \in Nat /\ DOMAIN q = 1 .. Len(q)
      /\ \A j \in 1 .. Len(q) :
           /\ Len(q[j].steps) \in Nat \ {0}
           /\ \A i \in 1 .. Len(q[j].steps) :
                q[j].steps[i].op \in {"provision", "revoke-source"} =>
                  Len(q[j].steps) = 1 /\ q[j].steps[i].arg \in Packages

VARIABLES
    plan,        \* the jobs the worker is going to claim
    job,         \* index of the last one claimed
    at,          \* where handle() and the runner are
    k,           \* 0 in prepare, then the step, then one past the last
    frozen,      \* variants frozen in this job
    source,      \* what its revision is checked out from
    status,      \* what handle() will report
    cleanup_ok,
    marker,      \* ACTIVE.json exists
    stray,       \* processes of an earlier use are alive
    cache,       \* the source packages
    local,       \* files kept for each job
    server       \* what the server has of each job

rvars == <<plan, job, at, k, frozen, source, status, cleanup_ok, marker, stray, cache, local, server>>

vars == <<svars, rvars>>

Jobs == DOMAIN plan

Steps == plan[job].steps

Op == Steps[k].op

Arg == Steps[k].arg

\* A job of source packages has a single step.
Provisions(j) == plan[j].steps[1].op = "provision"

Revokes(j) == plan[j].steps[1].op = "revoke-source"

Nothing == [root |-> FALSE, archive |-> FALSE, receipt |-> "none"]

\* What handle() knows of a job, at its start and after its end.
Fresh == k = 0 /\ frozen = {} /\ source = Mirror /\ status = "failed" /\ cleanup_ok = TRUE

Forget == k' = 0 /\ frozen' = {} /\ source' = Mirror /\ status' = "failed" /\ cleanup_ok' = TRUE

Init ==
    /\ SessionsInit
    /\ plan \in Plans
    /\ job = 0 /\ at = "idle" /\ Fresh
    /\ marker = FALSE /\ stray = FALSE
    /\ cache \in [Packages -> {Absent, Whole}]
    /\ Cardinality(Receipts(cache)) <= MaxSnapshots
    /\ local = [j \in Jobs |-> Nothing]
    /\ server = [j \in Jobs |-> [outcome |-> "none", archive |-> FALSE]]

-----------------------------------------------------------------------------
(* The job: prepare, the steps, the metadata before and after them.         *)

InRunner == at \in {"prepare", "fetch", "unpack", "select", "clone", "info", "git", "step", "publish", "remove"}

\* The runner itself is at work, none of its children.
Alone == InRunner /\ step = "off" /\ UNCHANGED svars

Elsewhere == UNCHANGED <<plan, job, cleanup_ok, marker, stray, local, server>>

\* The marker is made before anything else.
Claim ==
    /\ at = "idle" /\ job < Len(plan)
    /\ job' = job + 1
    /\ at' = "prepare"
    /\ marker' = TRUE
    /\ UNCHANGED <<svars, plan, k, frozen, source, status, cleanup_ok, stray, cache, local, server>>

\* A revocation needs no checkout.
Prepare ==
    /\ at = "prepare" /\ Alone
    /\ local' = [local EXCEPT ![job].root = TRUE]
    /\ at' = CASE Revokes(job)    -> "info"
               [] Provisions(job) -> "fetch"
               [] OTHER           -> "select"
    /\ UNCHANGED <<plan, job, k, frozen, source, status, cleanup_ok, marker, stray, cache, server>>

\* The package is downloaded and checked.
Fetch ==
    /\ at = "fetch" /\ Alone
    /\ at' = "unpack"
    /\ UNCHANGED <<k, frozen, source, status, cache>> /\ Elsewhere

\* Into the job's own directory, which a failure leaves half full.
Unpack ==
    /\ at = "unpack" /\ Alone
    /\ at' = "clone"
    /\ source' = Import
    /\ UNCHANGED <<k, frozen, status, cache>> /\ Elsewhere

Select ==
    /\ at = "select" /\ Alone
    /\ at' = "clone"
    /\ source' \in Lookup(cache, plan[job].commit)
    /\ UNCHANGED <<k, frozen, status, cache>> /\ Elsewhere

\* What the runner starts children for: git and the tools of metadata, or a step.
UseNow ==
    CASE at \in {"clone", "info", "git"} -> {"run"}
      [] at = "step" ->
           CASE Op \in {"exec", "freeze", "provision"} -> {"run"}
             [] Op = "profile"                         -> {"run", "profile"}
             [] Op = "compare" -> IF {"first", "second"} \subseteq frozen THEN {"run", "compare"} ELSE {}
             [] Op = "train"   -> IF "training" \in frozen THEN {"train"} ELSE {}
             [] OTHER          -> {}
      [] OTHER -> {}

UseChildren ==
    /\ InRunner /\ \E u \in UseNow : Begin(u)
    /\ UNCHANGED rvars

AfterMetadata ==
    IF k = 0 THEN at' = "step" /\ k' = 1 /\ UNCHANGED status
             ELSE at' = "report" /\ status' = "succeeded" /\ UNCHANGED k

NextStep ==
    /\ k' = k + 1
    /\ at' = IF k < Len(Steps) THEN "step" ELSE "info"
    /\ UNCHANGED status

\* Where a command that ended well leads to.
Advance ==
    \/ at = "clone" /\ at' = "info" /\ UNCHANGED <<k, status>>
    \/ at = "info" /\ ~Revokes(job) /\ at' = "git" /\ UNCHANGED <<k, status>>
    \/ (at = "git" \/ (at = "info" /\ Revokes(job))) /\ AfterMetadata
    \/ at = "step" /\ Op = "provision" /\ at' = "publish" /\ UNCHANGED <<k, status>>
    \/ at = "step" /\ Op # "provision" /\ NextStep

\* Mutant: metadata goes on after any exception.
TolerateAll(v) == v = "ok" \/ at = "info"

\* An Invalid of a metadata command is recorded and goes no further.
Tolerated(v) == v = "ok" \/ (v = "invalid" /\ at = "info")

\* A CleanupError keeps the marker and stops the worker.
Unclean(v) == v = "unclean"

Return ==
    /\ InRunner /\ step = "over"
    /\ Reset
    /\ IF Tolerated(verdict) THEN Advance
                             ELSE at' = "report" /\ UNCHANGED <<k, status>>
    /\ frozen' = IF at = "step" /\ Op = "freeze" /\ verdict = "ok" THEN frozen \cup {Arg} ELSE frozen
    /\ cleanup_ok' = (cleanup_ok /\ ~Unclean(verdict))
    /\ stray' = (stray \/ Alive)
    /\ UNCHANGED <<plan, job, source, marker, cache, local, server>>

\* Files of the job's directory: mkdir, write, copy, pgo_import.
Copy ==
    /\ at = "step" /\ Op = "copy" /\ Alone
    /\ NextStep
    /\ UNCHANGED <<frozen, source, cache>> /\ Elsewhere

\* Symbols of a profiling build are made by a child first.
Freeze ==
    /\ at = "step" /\ Op = "freeze" /\ Alone
    /\ frozen' = frozen \cup {Arg}
    /\ NextStep
    /\ UNCHANGED <<source, cache>> /\ Elsewhere

Publish ==
    /\ at = "publish" /\ Alone
    /\ \/ MayReuse(cache, Arg) /\ UNCHANGED cache
       \/ MayPublish(cache, Arg) /\ cache' = Published(cache, Arg)
    /\ source' = Arg
    /\ NextStep
    /\ UNCHANGED frozen /\ Elsewhere

BeginRemoval ==
    /\ at = "step" /\ Op = "revoke-source" /\ Alone
    /\ cache[Arg].files # "none"
    /\ at' = "remove"
    /\ cache' = Opened(cache, Arg)
    /\ UNCHANGED <<k, frozen, source, status>> /\ Elsewhere

RemoveReceipt ==
    /\ at = "remove" /\ Alone
    /\ cache[Arg].receipt
    /\ cache' = Unreceipted(cache, Arg)
    /\ UNCHANGED <<at, k, frozen, source, status>> /\ Elsewhere

Remove ==
    /\ Alone
    /\ \/ at = "remove"
       \/ at = "step" /\ Op = "revoke-source" /\ cache[Arg].files = "none"
    /\ cache' = Removed(cache, Arg)
    /\ NextStep
    /\ UNCHANGED <<frozen, source>> /\ Elsewhere

\* Every require, check, download and file operation of the runner may raise.
Raises ==
    /\ Alone
    /\ at' = "report"
    /\ UNCHANGED <<k, frozen, source, status, cache>> /\ Elsewhere

-----------------------------------------------------------------------------
(* handle(): the result is written down before it is sent.                  *)

Reporting == UNCHANGED <<svars, plan, job, k, frozen, source, cleanup_ok, stray, cache>>

Keep(receipt) == local' = [local EXCEPT ![job].receipt = receipt]

WriteReceipt ==
    /\ at = "report"
    /\ \/ Keep("pending") /\ at' = IF local[job].root THEN "pack" ELSE "finish"
       \/ Keep("torn") /\ at' = "leave"
    /\ UNCHANGED <<status, marker, server>> /\ Reporting

\* A packaging or upload that fails is noted in the result.
Pack ==
    /\ at = "pack"
    /\ local' = [local EXCEPT ![job].archive = TRUE]
    /\ at' = "upload"
    /\ UNCHANGED <<status, marker, server>> /\ Reporting

Upload ==
    /\ at = "upload"
    /\ server' = [server EXCEPT ![job].archive = TRUE]
    /\ at' = "finish"
    /\ UNCHANGED <<status, marker, local>> /\ Reporting

ArtifactError ==
    /\ at \in {"pack", "upload"}
    /\ at' = "finish-error"
    /\ status' = "failed"
    /\ UNCHANGED <<marker, local, server>> /\ Reporting

Settled(erroneous) == IF erroneous THEN "partial" ELSE "delivered"

Complete ==
    /\ at \in {"finish", "finish-error"}
    /\ server' = [server EXCEPT ![job].outcome = status]
    /\ \/ Keep(Settled(at = "finish-error"))
       \/ Keep("torn")
       \/ UNCHANGED local
    /\ at' = "leave"
    /\ UNCHANGED <<status, marker>> /\ Reporting

\* Refused, or given up by retry().
Undelivered ==
    /\ at \in {"finish", "finish-error"}
    /\ at' = "leave"
    /\ UNCHANGED <<status, marker, local, server>> /\ Reporting

Leave ==
    /\ at = "leave"
    /\ marker' = ~cleanup_ok
    /\ at' = IF cleanup_ok THEN "idle" ELSE "down"
    /\ Forget
    /\ UNCHANGED <<svars, plan, job, stray, cache, local, server>>

-----------------------------------------------------------------------------
(* The worker's process, the operator, prune_worker.                        *)

\* Children survive the worker. A receipt that is being written may be torn.
Crash ==
    /\ at # "down"
    /\ at' = "down"
    /\ stray' = (stray \/ Alive)
    /\ Reset
    /\ \/ UNCHANGED local
       \/ at = "report" /\ Keep("torn")
    /\ Forget
    /\ UNCHANGED <<plan, job, marker, cache, server>>

Down == at = "down" /\ UNCHANGED <<svars, plan, job, k, frozen, source, status, cleanup_ok, cache, server>>

Restart ==
    /\ Down /\ ~marker
    /\ at' = "idle"
    /\ UNCHANGED <<marker, stray, local>>

\* The operator stops what was left over before removing the marker.
ResetMarker ==
    /\ Down /\ marker
    /\ marker' = FALSE /\ stray' = FALSE
    /\ UNCHANGED <<at, local>>

StrayEnds ==
    /\ stray
    /\ stray' = FALSE
    /\ UNCHANGED <<svars, plan, job, at, k, frozen, source, status, cleanup_ok, marker, cache, local, server>>

\* Mutant: whatever has a final receipt goes.
PrunableSent(j) == local[j].receipt \in {"delivered", "partial"}

Prunable(j) == local[j].receipt = "delivered"

\* The directory, the archive, the receipt, in this order; killed anywhere.
PruneWorker ==
    /\ Down
    /\ \E j \in Jobs :
         /\ Prunable(j)
         /\ local' = [local EXCEPT ![j].root = FALSE]
            \/ local' = [local EXCEPT ![j].root = FALSE, ![j].archive = FALSE]
            \/ local' = [local EXCEPT ![j] = Nothing]
    /\ UNCHANGED <<at, marker, stray>>

-----------------------------------------------------------------------------
\* The steps the worker's own code takes, without waiting for anybody for ever.
RunnerStep ==
    \/ Coordinator /\ UNCHANGED rvars
    \/ Prepare \/ Fetch \/ Unpack \/ Select \/ UseChildren \/ Return
    \/ Copy \/ Freeze \/ Publish \/ BeginRemoval \/ RemoveReceipt \/ Remove \/ Raises
    \/ WriteReceipt \/ Pack \/ Upload \/ ArtifactError \/ Complete \/ Undelivered \/ Leave

Next ==
    \/ RunnerStep
    \/ (OverLimit \/ Children) /\ UNCHANGED rvars
    \/ Claim \/ Crash \/ Restart \/ ResetMarker \/ StrayEnds \/ PruneWorker

Spec == Init /\ [][Next]_vars

FairSpec == Spec /\ WF_vars(RunnerStep)

-----------------------------------------------------------------------------
(* Properties *)

(* Processes of a job that survive what started them are announced by the  *)
(* marker, and no child of another use ever runs beside them: also when    *)
(* the cleanup of one session keeps another from being closed              *)
(* (runner.py:285), and when the worker dies.                              *)
NoSurvivor == stray => marker /\ step = "off"

RevokedBy(i, p) == Revokes(i) /\ plan[i].steps[1].arg = p

\* The server was told that a package is installed, and no job has revoked it since.
Offered(p) ==
    \E j \in Jobs : /\ Provisions(j) /\ plan[j].steps[1].arg = p
                    /\ server[j].outcome = "succeeded"
                    /\ \A i \in j + 1 .. job : ~RevokedBy(i, p)

\* A revocation was begun, and neither it nor a later one was reported as done.
Unfinished(p) ==
    \E i \in 1 .. job : /\ RevokedBy(i, p)
                        /\ \A h \in i .. job : RevokedBy(h, p) => server[h].outcome # "succeeded"

(* A package reported as installed stays selectable until it is revoked     *)
(* (docs/self-service-provisioning.md:36), and one that a running job was   *)
(* checked out from is not taken away under it. Either has all its files,   *)
(* unless a revocation of it was cut short while its receipt was still      *)
(* there: publish() reports such a snapshot as installed without looking at *)
(* it, and lookup() selects it (sources.py:175, 150), where                 *)
(* docs/self-service-provisioning.md:28 says that a retry "verifies" the    *)
(* snapshot. Nothing else leaves a package without all of its files.        *)
SnapshotsSound ==
    \A p \in Packages :
      /\ Offered(p) \/ (InRunner /\ source = p) =>
           /\ cache[p].receipt
           /\ cache[p].files = "whole" \/ Unfinished(p)
      /\ cache[p].files = "cut" => Unfinished(p)

(* Pruning the worker's directory deletes nothing that the server has not  *)
(* got, its outcome and, of a job that had artifacts, its archive          *)
(* (README.md:198, 200).                                                   *)
ResultsKept ==
    [][\A j \in Jobs : local[j].root /\ ~local'[j].root =>
         server[j].outcome # "none" /\ server[j].archive]_vars

(* A job the worker handles comes to an end, whatever its children do: they *)
(* may be silent, fill their pipes or leave processes that keep them open.  *)
RunEnds == (at \notin {"idle", "down"}) ~> (at \in {"idle", "down"})
=============================================================================
