------------------------------- MODULE Inputs -------------------------------
(***************************************************************************)
(* The source packages of provisioning: uploads to the inputs directory    *)
(* (macqueue/server.py), the jobs that name them, and prune-server         *)
(* (macqueue/store.py), which is a process of its own beside the server.   *)
(*                                                                         *)
(* An upload takes the steps that others can come between: it is admitted  *)
(* under input_lock, makes its temporary file, fills it, links it to its   *)
(* final name, removes the temporary name, and gives its reservation back. *)
(* Prune holds the database from its first to its last step, the files not.*)
(***************************************************************************)
EXTENDS Integers, FiniteSets, Functions

CONSTANTS Package,      \* contents of packages, named by their digest
          Upload,       \* upload requests; one that leaves a file behind is spent
          Job,          \* provisioning jobs
          Size,         \* Size[p]: the bytes of package p
          ByteLimit,    \* 16 GiB
          FileLimit,    \* 1000
          Retention     \* ticks a package is kept for without a job

ASSUME InputAssumption == /\ IsFiniteSet(Package) /\ Package # {} /\ IsFiniteSet(Upload)
                          /\ Size \in [Package -> Nat \ {0}]
                          /\ ByteLimit \in Nat /\ FileLimit \in Nat
                          /\ Retention \in Nat \ {0}

VARIABLES stored,       \* packages under their final names
          age,          \* age[p]: ticks since p's modification time, up to Retention
          up,           \* up[u]: an upload; "shared": its temporary file is the stored one
          reserved,     \* Server.input_reserved
          jobs,         \* the jobs that name a package
          pruning       \* what prune has read, and the names it has yet to look at

vars == <<stored, age, up, reserved, jobs, pruning>>

\* "settled": the request has its answer, and only its finally is left.
Stage     == {"idle", "admitted", "open", "filled", "settled", "releasing", "orphan"}
HasTemp   == {"open", "filled", "settled", "orphan"}
Reserving == {"admitted", "open", "filled", "settled", "releasing"}
Phase     == {"absent", "live", "over", "deleted"}

\* A temporary file counts with what was written to it.
TempBytes == [u \in Upload |-> IF up[u].full THEN Size[up[u].package] ELSE 0]
Temps     == {u \in Upload : up[u].stage \in HasTemp}

\* What an admission finds in the directory: every name counts, so a package
\* that has both its names counts twice.
Entries     == Cardinality(stored) + Cardinality(Temps)
ListedBytes == SumFunctionOnSet(Size, stored) + SumFunctionOnSet(TempBytes, Temps)

\* LiveInputStays against a prune that reads the jobs outside of a transaction.
NeverLocked == FALSE

\* The database is taken by prune; others wait for it.
Locked == pruning.on

Keep(u, stage) == up' = [up EXCEPT ![u].stage = stage]

-----------------------------------------------------------------------------
(* PUT /v1/inputs/SHA256. *)

\* DiskWithinBudget against an admission that counts what is on disk alone.
AdmitUnreserved(u, p) ==
    /\ up[u].stage = "idle"
    /\ Entries < FileLimit
    /\ ListedBytes + Size[p] <= ByteLimit
    /\ reserved' = reserved + Size[p]
    /\ up' = [up EXCEPT ![u] = [stage |-> "admitted", package |-> p, full |-> FALSE, shared |-> FALSE]]
    /\ UNCHANGED <<stored, age, jobs, pruning>>

\* A request of another length than its package's fails later by its digest.
Admit(u, p) ==
    /\ up[u].stage = "idle"
    /\ Entries < FileLimit
    /\ ListedBytes + reserved + Size[p] <= ByteLimit
    /\ reserved' = reserved + Size[p]
    /\ up' = [up EXCEPT ![u] = [stage |-> "admitted", package |-> p, full |-> FALSE, shared |-> FALSE]]
    /\ UNCHANGED <<stored, age, jobs, pruning>>

Open(u) == /\ up[u].stage = "admitted"
           /\ Keep(u, "open")
           /\ UNCHANGED <<stored, age, reserved, jobs, pruning>>

\* The whole body arrives.
Fill(u) == /\ up[u].stage = "open"
           /\ up' = [up EXCEPT ![u].stage = "filled", ![u].full = TRUE]
           /\ UNCHANGED <<stored, age, reserved, jobs, pruning>>

\* ReservedExact against releasing the reservation of successful uploads alone.
FailUnreleased(u) == /\ up[u].stage \in {"admitted", "open", "filled"}
                     /\ up' = [up EXCEPT ![u].stage = "idle", ![u].full = FALSE, ![u].shared = FALSE]
                     /\ UNCHANGED <<stored, age, reserved, jobs, pruning>>

\* TypeOK against giving the reservation back where the request fails as well.
FailReleases(u) == /\ up[u].stage \in {"admitted", "open", "filled"}
                   /\ reserved' = reserved - Size[up[u].package]
                   /\ Keep(u, "settled")
                   /\ UNCHANGED <<stored, age, jobs, pruning>>

\* Truncated, refused by its digest, or the connection is lost.
Fail(u) == /\ up[u].stage \in {"admitted", "open", "filled"}
           /\ Keep(u, "settled")
           /\ UNCHANGED <<stored, age, reserved, jobs, pruning>>

\* os.link leaves a file that has the name already as it is, and as old.
Link(u) == /\ up[u].stage = "filled"
           /\ stored' = stored \cup {up[u].package}
           /\ age' = IF up[u].package \in stored THEN age ELSE [age EXCEPT ![up[u].package] = 0]
           /\ up' = [up EXCEPT ![u].stage = "settled", ![u].shared = (up[u].package \notin stored)]
           /\ UNCHANGED <<reserved, jobs, pruning>>

\* finally: the temporary name goes, and then the reservation.
Unlink(u) == /\ up[u].stage = "settled"
             /\ up' = [up EXCEPT ![u].stage = "releasing", ![u].full = FALSE, ![u].shared = FALSE]
             /\ UNCHANGED <<stored, age, reserved, jobs, pruning>>

Release(u) == /\ up[u].stage = "releasing"
              /\ reserved' = reserved - Size[up[u].package]
              /\ Keep(u, "idle")
              /\ UNCHANGED <<stored, age, jobs, pruning>>

\* The server dies: its reservations with it, its temporary files not.
Crash == /\ reserved' = 0
         /\ up' = [u \in Upload |-> IF up[u].stage \in HasTemp THEN [up[u] EXCEPT !.stage = "orphan"]
                                    ELSE [up[u] EXCEPT !.stage = "idle"]]
         /\ UNCHANGED <<stored, age, jobs, pruning>>

\* The operator removes a left-over .upload file.
Sweep(u) == /\ up[u].stage = "orphan"
            /\ up' = [up EXCEPT ![u].stage = "idle", ![u].full = FALSE, ![u].shared = FALSE]
            /\ UNCHANGED <<stored, age, reserved, jobs, pruning>>

UploadNext == \/ \E u \in Upload :
                   \/ \E p \in Package : Admit(u, p)
                   \/ Open(u) \/ Fill(u) \/ Fail(u) \/ Link(u) \/ Unlink(u) \/ Release(u) \/ Sweep(u)
              \/ Crash

-----------------------------------------------------------------------------
(* The jobs, as far as prune reads them. Nobody asks for the package when a  *)
(* job is submitted.                                                         *)

Submit(j, p) == /\ ~Locked
                /\ jobs[j].phase = "absent"
                /\ jobs' = [jobs EXCEPT ![j] = [phase |-> "live", package |-> p]]
                /\ UNCHANGED <<stored, age, up, reserved, pruning>>

End(j) == /\ ~Locked
          /\ jobs[j].phase = "live"
          /\ jobs' = [jobs EXCEPT ![j].phase = "over"]
          /\ UNCHANGED <<stored, age, up, reserved, pruning>>

JobNext == \E j \in Job : End(j) \/ \E p \in Package : Submit(j, p)

-----------------------------------------------------------------------------
(* prune-server: one transaction around deletions of rows and files.         *)

NotPruning == [on |-> FALSE, rows |-> {}, keep |-> {}, look |-> {}]

Referenced(rows) == {jobs[j].package : j \in {i \in Job : jobs[i].phase \in {"live", "over"}} \ rows}

\* Which of the jobs that are over finished long enough ago is left open.
Prune == /\ ~Locked
         /\ \E rows \in SUBSET {j \in Job : jobs[j].phase = "over"} :
              pruning' = [on |-> TRUE, rows |-> rows, keep |-> Referenced(rows), look |-> stored]
         /\ UNCHANGED <<stored, age, up, reserved, jobs>>

Old(p) == p \notin pruning.keep /\ age[p] = Retention

Look(p) == /\ pruning.on /\ p \in pruning.look
           /\ pruning' = [pruning EXCEPT !.look = @ \ {p}]
           /\ IF Old(p)
              THEN /\ stored' = stored \ {p}
                   /\ up' = [u \in Upload |-> IF up[u].package = p THEN [up[u] EXCEPT !.shared = FALSE]
                                              ELSE up[u]]
              ELSE UNCHANGED <<stored, up>>
           /\ UNCHANGED <<age, reserved, jobs>>

Commit == /\ pruning.on /\ pruning.look = {}
          /\ jobs' = [j \in Job |-> IF j \in pruning.rows THEN [jobs[j] EXCEPT !.phase = "deleted"]
                                    ELSE jobs[j]]
          /\ pruning' = NotPruning
          /\ UNCHANGED <<stored, age, up, reserved>>

\* The process dies: its rows come back, its files do not.
PruneDies == /\ pruning.on
             /\ pruning' = NotPruning
             /\ UNCHANGED <<stored, age, up, reserved, jobs>>

PruneNext == Prune \/ (\E p \in Package : Look(p)) \/ Commit \/ PruneDies

-----------------------------------------------------------------------------

Tick == /\ age' = [p \in Package |-> IF p \in stored /\ age[p] < Retention THEN age[p] + 1 ELSE age[p]]
        /\ UNCHANGED <<stored, up, reserved, jobs, pruning>>

Init == /\ stored = {}
        /\ age = [p \in Package |-> 0]
        /\ up = [u \in Upload |-> [stage |-> "idle", package |-> CHOOSE p \in Package : TRUE, full |-> FALSE, shared |-> FALSE]]
        /\ reserved = 0
        /\ jobs = [j \in Job |-> [phase |-> "absent", package |-> CHOOSE p \in Package : TRUE]]
        /\ pruning = NotPruning

Next == UploadNext \/ JobNext \/ PruneNext \/ Tick

Spec == Init /\ [][Next]_vars

-----------------------------------------------------------------------------
(* Properties. *)

TypeOK == /\ stored \subseteq Package
          /\ age \in [Package -> 0..Retention]
          /\ up \in [Upload -> [stage : Stage, package : Package, full : BOOLEAN, shared : BOOLEAN]]
          /\ reserved \in Nat
          /\ jobs \in [Job -> [phase : Phase, package : Package]]
          /\ pruning \in [on : BOOLEAN, rows : SUBSET Job, keep : SUBSET Package, look : SUBSET Package]

\* The reservation is what the uploads under way have reserved, however they
\* end and wherever a crash meets them: no budget is lost for good, and none
\* is given back twice (server.py:107-111, 132-135).
ReservedExact ==
    reserved = SumFunctionOnSet([u \in Upload |-> Size[up[u].package]],
                                {u \in Upload : up[u].stage \in Reserving})

\* The directory never outgrows its byte budget, with any number of uploads
\* under way and files left by crashes; a file with two names is on disk once
\* (docs/self-service-provisioning.md:42; server.py:110).
DiskWithinBudget ==
    SumFunctionOnSet(Size, stored) + SumFunctionOnSet(TempBytes, {u \in Temps : ~up[u].shared})
      <= ByteLimit

\* Prune never takes a package away from a job that is waiting for it or
\* using it, whatever is submitted while it runs and wherever it is killed
\* (store.py:191-198).
LiveInputStays ==
    [][\A j \in Job : jobs[j].phase = "live" /\ jobs[j].package \in stored
                        => jobs[j].package \in stored']_vars

\* docs/self-service-provisioning.md:42: VPS inputs allow 1,000 files. The
\* count is looked at before the file is made, and outside the reservation.
PackagesWithinLimit == Cardinality(stored) <= FileLimit
=============================================================================
