------------------------------- MODULE Store -------------------------------
(***************************************************************************)
(* The durable queue of macqueue/store.py: one SQLite table of jobs, read  *)
(* and written by transactions that SQLite serialises (BEGIN IMMEDIATE).   *)
(* An action is one committed transaction: reap first, then the operation. *)
(* An operation that raises rolls its reap back as well, so it leaves the  *)
(* table as it was: it is a stuttering step and has no disjunct here.      *)
(*                                                                         *)
(* Deadlines are held as the ticks that are left, and the time since a job *)
(* finished as ticks counted up to Retention, so that time needs no bound. *)
(***************************************************************************)
EXTENDS Integers, FiniteSets, Functions

CONSTANTS Job,          \* job ids: uuid4().hex, never handed out twice
          Key,          \* idempotency keys of submitters
          JobSpec,      \* validated specs, a set of [project, expires_in]
          Project,      \* project names
          Result,       \* result payloads a worker reports
          Sha,          \* contents of artifacts, named by their digest
          LogSeq,       \* sequence numbers of log chunks
          Text,         \* contents of log chunks
          Bytes,        \* Bytes[t]: the size of chunk t
          Null,         \* SQL's NULL
          LeaseLost,    \* the result reap writes
          LeaseTime,    \* LEASE_SECONDS, in ticks
          QueueLimit,   \* queued jobs allowed at once
          LogLimit,     \* log bytes allowed for one job
          Retention     \* ticks prune keeps a finished job

ASSUME JobAssumption    == IsFiniteSet(Job)
ASSUME SpecAssumption   == JobSpec \subseteq [project : Project, expires_in : Nat \ {0}]
ASSUME TimeAssumption   == LeaseTime \in Nat \ {0} /\ Retention \in Nat \ {0}
ASSUME LimitAssumption  == QueueLimit \in Nat /\ LogLimit \in Nat
ASSUME LogAssumption    == LogSeq \subseteq Nat /\ Bytes \in [Text -> Nat]
ASSUME NullAssumption   == Null \notin JobSpec \cup Key \cup Result \cup Sha \cup {LeaseLost}

VARIABLES jobs,         \* the jobs table, one row per id
          issued        \* lease tokens drawn so far: token n is the n-th

vars == <<jobs, issued>>

Active      == {"running", "cancel_requested"}
Terminal    == {"succeeded", "failed", "cancelled", "expired", "lost"}
Status      == {"absent", "queued", "deleted"} \cup Active \cup Terminal
FinalStatus == {"succeeded", "failed", "cancelled"}
Reported    == FinalStatus \cup {"unknown"}   \* what a finish request may name

Chunk == [seq : LogSeq, text : Text]

Row == [status      : Status,
        spec        : JobSpec \cup {Null},
        request_key : Key \cup {Null},
        created     : Nat,              \* submission order
        expires     : Nat,              \* ticks left in the queue
        lease       : Nat,              \* 0 is NULL
        lease_until : Nat,              \* ticks left of the lease
        result      : Result \cup {Null, LeaseLost},
        artifact    : Sha \cup {Null},
        log         : SUBSET Chunk,
        log_bytes   : Nat,
        finished    : 0..Retention]     \* ticks since the outcome, capped

NoRow == [status |-> "absent", spec |-> Null, request_key |-> Null, created |-> 0,
          expires |-> 0, lease |-> 0, lease_until |-> 0, result |-> Null,
          artifact |-> Null, log |-> {}, log_bytes |-> 0, finished |-> 0]

\* What is left of a pruned row: the id stays spent. Its key is remembered for
\* the properties alone; no operation reads it.
Pruned(r) == [NoRow EXCEPT !.status = "deleted", !.request_key = r.request_key]

Exists(r) == r.status \notin {"absent", "deleted"}

-----------------------------------------------------------------------------
(* The table as an operation finds it: transaction() reaps before it yields. *)

\* Three slips of reap. HandedOutOnce: a lost job goes back into the queue.
ReapRequeues(r) ==
    CASE r.status \in Active /\ r.lease_until = 0 -> [r EXCEPT !.status = "queued"]
      [] r.status = "queued" /\ r.expires = 0     -> [r EXCEPT !.status = "expired"]
      [] OTHER -> r

\* CancelWins: a job asked to stop is reported lost like any other.
ReapForgetsCancel(r) ==
    CASE r.status \in Active /\ r.lease_until = 0 ->
           [r EXCEPT !.status = "lost", !.result = LeaseLost]
      [] r.status = "queued" /\ r.expires = 0 -> [r EXCEPT !.status = "expired"]
      [] OTHER -> r

\* EveryJobLeavesQueue: only leases are reaped.
ReapLeasesOnly(r) ==
    IF r.status \in Active /\ r.lease_until = 0
    THEN [r EXCEPT !.status = IF r.status = "running" THEN "lost" ELSE "cancelled",
                   !.result = LeaseLost]
    ELSE r

ReapRow(r) ==
    CASE r.status = "queued" /\ r.expires = 0 ->
           [r EXCEPT !.status = "expired"]
      [] r.status = "running" /\ r.lease_until = 0 ->
           [r EXCEPT !.status = "lost", !.result = LeaseLost]
      [] r.status = "cancel_requested" /\ r.lease_until = 0 ->
           [r EXCEPT !.status = "cancelled", !.result = LeaseLost]
      [] OTHER -> r

db == [j \in Job |-> ReapRow(jobs[j])]

Owned(j, l) == /\ l # 0
               /\ db[j].lease = l
               /\ db[j].status \in Active

-----------------------------------------------------------------------------
(* Operations of submitters and of the dashboard. *)

Queued == {j \in Job : db[j].status = "queued"}

Resubmit(k, s) == /\ \E j \in Job : Exists(db[j]) /\ db[j].request_key = k /\ db[j].spec = s
                  /\ jobs' = db
                  /\ UNCHANGED issued

\* KeysDistinct against a lookup that skips jobs already finished.
AcceptUnlessLive(k, s) ==
    /\ \A j \in Job : db[j].status \in Active \cup {"queued"} => db[j].request_key # k
    /\ Cardinality(Queued) < QueueLimit
    /\ \E j \in Job :
         /\ db[j].status = "absent"
         /\ jobs' = [db EXCEPT ![j] =
              [NoRow EXCEPT !.status = "queued", !.spec = s, !.request_key = k,
                            !.expires = s.expires_in,
                            !.created = Cardinality({i \in Job : db[i].status # "absent"})]]
    /\ UNCHANGED issued

Accept(k, s) == /\ \A j \in Job : Exists(db[j]) => db[j].request_key # k
                /\ Cardinality(Queued) < QueueLimit
                /\ \E j \in Job :
                     /\ db[j].status = "absent"
                     /\ jobs' = [db EXCEPT ![j] =
                          [NoRow EXCEPT !.status = "queued", !.spec = s, !.request_key = k,
                                        !.expires = s.expires_in,
                                        !.created = Cardinality({i \in Job : db[i].status # "absent"})]]
                /\ UNCHANGED issued

Submit(k, s) == Resubmit(k, s) \/ Accept(k, s)

\* get, list, logs and artifact change nothing but what their reap does.
Read == /\ jobs' = db
        /\ UNCHANGED issued

Cancel(j) == /\ Exists(db[j])
             /\ jobs' = CASE db[j].status = "queued"  -> [db EXCEPT ![j].status = "cancelled"]
                          [] db[j].status = "running" -> [db EXCEPT ![j].status = "cancel_requested"]
                          [] OTHER                    -> db
             /\ UNCHANGED issued

-----------------------------------------------------------------------------
(* Operations of workers. *)

Eligible(projects) == {j \in Queued : db[j].spec.project \in projects}

ClaimNone(projects) == /\ \/ \E j \in Job : db[j].status \in Active
                          \/ Eligible(projects) = {}
                       /\ jobs' = db
                       /\ UNCHANGED issued

\* OneActive against a claim that looks for running jobs only.
ClaimBesideCancelled(j, projects) ==
    /\ \A i \in Job : db[i].status # "running"
    /\ j \in Eligible(projects)
    /\ issued' = issued + 1
    /\ jobs' = [db EXCEPT ![j].status = "running", ![j].lease = issued + 1,
                          ![j].lease_until = LeaseTime]

ClaimJob(j, projects) ==
    /\ \A i \in Job : db[i].status \notin Active
    /\ j \in Eligible(projects)
    /\ \A i \in Eligible(projects) : db[j].created <= db[i].created
    /\ issued' = issued + 1
    /\ jobs' = [db EXCEPT ![j].status = "running", ![j].lease = issued + 1,
                          ![j].lease_until = LeaseTime]

Claim(projects) == ClaimNone(projects) \/ \E j \in Job : ClaimJob(j, projects)

\* LateHolderRefused against a heartbeat that does not reap first.
HeartbeatUnreaped(j, l) == /\ l # 0
                           /\ jobs[j].lease = l
                           /\ jobs[j].status \in Active
                           /\ jobs' = [jobs EXCEPT ![j].lease_until = LeaseTime]
                           /\ UNCHANGED issued

Heartbeat(j, l) == /\ Owned(j, l)
                   /\ jobs' = [db EXCEPT ![j].lease_until = LeaseTime]
                   /\ UNCHANGED issued

\* LogExact against an append that counts a chunk each time it is sent.
AppendCountsAgain(j, l, q, t) ==
    /\ Owned(j, l)
    /\ \A c \in db[j].log : c.seq = q => c.text = t
    /\ db[j].log_bytes + Bytes[t] <= LogLimit
    /\ jobs' = [db EXCEPT ![j].log = @ \cup {[seq |-> q, text |-> t]},
                          ![j].log_bytes = @ + Bytes[t]]
    /\ UNCHANGED issued

\* A repeated chunk is accepted when its text is the same, and not stored again.
AppendLog(j, l, q, t) ==
    /\ Owned(j, l)
    /\ \/ [seq |-> q, text |-> t] \in db[j].log /\ jobs' = db
       \/ /\ \A c \in db[j].log : c.seq # q
          /\ db[j].log_bytes + Bytes[t] <= LogLimit
          /\ jobs' = [db EXCEPT ![j].log = @ \cup {[seq |-> q, text |-> t]},
                                ![j].log_bytes = @ + Bytes[t]]
    /\ UNCHANGED issued

\* OutcomeIsFinal against a publication that does not look at the job again.
PublishStale(j, l, sha) == /\ l # 0 /\ db[j].lease = l
                           /\ jobs' = [db EXCEPT ![j].artifact = sha]
                           /\ UNCHANGED issued

\* The transaction that publishes an uploaded artifact (server.py).
PublishArtifact(j, l, sha) == /\ Owned(j, l)
                              /\ jobs' = [db EXCEPT ![j].artifact = sha]
                              /\ UNCHANGED issued

Outcome(j, status) == IF db[j].status = "cancel_requested" THEN "cancelled" ELSE status

\* A completion sent again after its reply was lost finds its own outcome.
IsRecorded(j, l, status, result) == /\ db[j].status \in Terminal
                                    /\ db[j].lease = l
                                    /\ db[j].result = result
                                    /\ db[j].status \in {status, "cancelled"}

\* The property SucceededHasArtifact against a finish that skips the artifact check.
MayFinishBare(j, l, status) == Owned(j, l) /\ status \in FinalStatus

MayFinish(j, l, status) == /\ Owned(j, l)
                           /\ Outcome(j, status) = "succeeded" => db[j].artifact # Null

\* TypeOK against a finish that takes any status the request names.
FinishUnvalidated(j, l, status, result) ==
    /\ \/ IsRecorded(j, l, status, result) /\ jobs' = db
       \/ /\ MayFinish(j, l, status)
          /\ jobs' = [db EXCEPT ![j].status = Outcome(j, status), ![j].result = result]
    /\ UNCHANGED issued

Finish(j, l, status, result) ==
    /\ status \in FinalStatus
    /\ \/ IsRecorded(j, l, status, result) /\ jobs' = db
       \/ /\ MayFinish(j, l, status)
          /\ jobs' = [db EXCEPT ![j].status = Outcome(j, status), ![j].result = result]
    /\ UNCHANGED issued

-----------------------------------------------------------------------------
(* Administration, and the passing of time. *)

\* ImplementsLifecycle against a prune that goes by age and not by outcome.
PruneAny == /\ jobs' = [j \in Job |-> IF Exists(db[j]) /\ db[j].status # "queued"
                                      THEN Pruned(db[j]) ELSE db[j]]
            /\ UNCHANGED issued

Prune == /\ jobs' = [j \in Job |->
                       IF db[j].status \in Terminal /\ db[j].finished = Retention
                       THEN Pruned(db[j]) ELSE db[j]]
         /\ UNCHANGED issued

Dec(n) == IF n = 0 THEN 0 ELSE n - 1

Older(r) ==
    CASE r.status = "queued"    -> [r EXCEPT !.expires = Dec(@)]
      [] r.status \in Active    -> [r EXCEPT !.lease_until = Dec(@)]
      [] r.status \in Terminal /\ r.finished < Retention -> [r EXCEPT !.finished = @ + 1]
      [] OTHER -> r

Tick == /\ jobs' = [j \in Job |-> Older(jobs[j])]
        /\ UNCHANGED issued

-----------------------------------------------------------------------------

Init == /\ jobs = [j \in Job |-> NoRow]
        /\ issued = 0

SubmitterNext == \/ \E k \in Key, s \in JobSpec : Submit(k, s)
                 \/ \E j \in Job : Cancel(j)
                 \/ Read

WorkerNext ==
    \/ \E projects \in SUBSET Project : Claim(projects)
    \/ \E j \in Job, l \in 0..issued :
         \/ Heartbeat(j, l)
         \/ \E q \in LogSeq, t \in Text : AppendLog(j, l, q, t)
         \/ \E sha \in Sha : PublishArtifact(j, l, sha)
         \/ \E status \in Reported, result \in Result : Finish(j, l, status, result)

Next == SubmitterNext \/ WorkerNext \/ Prune \/ Tick

Spec == Init /\ [][Next]_vars

\* A worker polls for work without pause (claims are long polls repeated by
\* its main loop), so transactions keep happening, and time does not stop.
\* Claim({}) is the least such a poll does: the worker may serve no project
\* anything is queued for.
FairSpec == Spec /\ WF_vars(Tick) /\ WF_vars(Claim({}))

-----------------------------------------------------------------------------
(* Properties. *)

TypeOK == /\ jobs \in [Job -> Row]
          /\ issued \in Nat
          /\ \A j \in Job : jobs[j].lease \in 0..issued

\* The service runs one job at a time: while a job is running, or has been
\* asked to stop and has not yet, no other job is (store.py:104).
OneActive == \A i, j \in Job : jobs[i].status \in Active /\ jobs[j].status \in Active => i = j

\* A job is reported as succeeded only with an artifact to download
\* (docs/api.md:38), whatever was cancelled, retried or expired on the way.
SucceededHasArtifact == \A j \in Job : jobs[j].status = "succeeded" => jobs[j].artifact # Null

\* An outcome is final: no request, late, repeated or from another lease,
\* changes the status, result, artifact or log of a job that has one; only
\* prune ends it, and then the whole row goes (store.py:169-182, server.py:226).
OutcomeIsFinal ==
    [][\A j \in Job : jobs[j].status \in Terminal =>
          \/ jobs'[j] = Pruned(jobs[j])
          \/ jobs'[j] = [jobs[j] EXCEPT !.finished = jobs'[j].finished]]_vars

\* Cancellation wins: once a cancel request was accepted for a running job the
\* only outcome left is cancelled, even if the worker reports success or its
\* lease runs out (docs/api.md:40, store.py:57 and 177).
CancelWins ==
    [][\A j \in Job : jobs[j].status = "cancel_requested" =>
          jobs'[j].status \in {"cancel_requested", "cancelled"}]_vars

\* A holder whose lease ran out has lost the job even before any reap wrote
\* it down: nothing it sends renews the lease, extends the log, replaces the
\* artifact or records its result (store.py:45-51, 123).
LateHolderRefused ==
    [][\A j \in Job : jobs[j].status \in Active /\ jobs[j].lease_until = 0 =>
          \/ jobs'[j] = jobs[j]
          \/ jobs'[j] = ReapRow(jobs[j])]_vars

\* A job is handed out once: a token, once drawn for a job, stays the job's
\* until the row is pruned, so a lost or cancelled job is never replayed.
HandedOutOnce ==
    [][\A j \in Job : jobs[j].lease # 0 =>
          \/ jobs'[j].status = "deleted"
          \/ jobs'[j].lease = jobs[j].lease /\ jobs'[j].status # "queued"]_vars

\* No two jobs share a token, so a lease never gives access to another job.
LeasesDistinct == \A i, j \in Job : jobs[i].lease = jobs[j].lease /\ jobs[i].lease # 0 => i = j

\* Two stored jobs never have the same idempotency key (store.py:76-79). Once a job
\* is pruned its key is free again.
KeysDistinct ==
    \A i, j \in Job : Exists(jobs[i]) /\ Exists(jobs[j])
                      /\ jobs[i].request_key = jobs[j].request_key => i = j

\* The log is what was sent, once: a sequence number stands for one text, in
\* whatever order and however often chunks arrive, the byte count kept beside
\* the log is the size of the log, and both stop at the limit (store.py:142-152).
LogExact ==
    \A j \in Job :
      /\ \A c, d \in jobs[j].log : c.seq = d.seq => c = d
      /\ jobs[j].log_bytes = SumFunctionOnSet([c \in Chunk |-> Bytes[c.text]], jobs[j].log)
      /\ jobs[j].log_bytes <= LogLimit

\* Every accepted job leaves the queue: it is claimed, cancelled or expires,
\* although nothing but other requests' transactions ever expires it.
EveryJobLeavesQueue ==
    \A j \in Job : jobs[j].status = "queued" ~> jobs[j].status # "queued"

\* The table is the life of docs/api.md:26: see JobLifecycle.
Lifecycle == INSTANCE JobLifecycle
               WITH Answer   <- Result \cup {Null, LeaseLost},
                    NoAnswer <- Null,
                    phase    <- [j \in Job |-> jobs[j].status],
                    answer   <- [j \in Job |-> jobs[j].result]

ImplementsLifecycle == Lifecycle!Spec
=============================================================================
