------------------------------ MODULE MacQueue ------------------------------
(***************************************************************************)
(* The queue and its workers: the Store behind the HTTP handlers of        *)
(* macqueue/server.py, and the workers of macqueue/worker.py, which claim  *)
(* a job, run it while a second thread renews the lease, upload what it    *)
(* produced and report the outcome. Requests and replies travel apart: a   *)
(* worker may give up on a request that the server handles later, or on    *)
(* one whose reply is under way, and a worker may crash at any point.      *)
(*                                                                         *)
(* Live log chunks are left out here; Store has their transaction.         *)
(***************************************************************************)
EXTENDS Store

CONSTANTS Worker,       \* workers, each with its own machine and state directory
          Ending,       \* how runs end; FinalStatus, or less to bound an instance
          LocalLimit,   \* 40 s: how long a worker runs on without a renewal
          StopTime,     \* ticks from that limit to the end of the job's processes
          MaxLate       \* requests nobody waits for that may still be handled

\* The result and the archive of a worker are named by the worker; none of
\* them reports what only reap writes.
ASSUME WorkerAssumption == Worker \subseteq Result /\ Worker \subseteq Sha /\ LeaseLost \notin Worker
ASSUME EndingAssumption == Ending \subseteq FinalStatus
\* The watchdog looks every few seconds and the kill that follows is prompt:
\* both fit between the local limit (40 s) and the lease (60 s).
ASSUME LocalAssumption  == /\ LocalLimit \in Nat \ {0} /\ StopTime \in Nat
                           /\ LocalLimit + StopTime < LeaseTime
                           /\ MaxLate \in Nat

VARIABLES wk,           \* wk[w]: what worker w is doing
          calls,        \* requests the server has yet to answer
          replies       \* answers not yet read

store   == <<jobs, issued>>
network == <<calls, replies>>
sysVars == <<jobs, issued, wk, calls, replies>>

Mode    == {"idle", "claiming", "declining", "running", "uploading", "finishing"}
Holding == {"running", "uploading", "finishing"}     \* the lease threads live

\* Why the cancel event of the run is set, if it is. "lease gone" is "lease
\* lost" and "lease renewal unavailable"; "stopped" is every reason of the
\* worker's own: time limit, disk budget, signal.
Reason == {"none", "stopped", "cancelled", "lease gone"}

WorkerState == [mode   : Mode,
                job    : Job \cup {Null},
                lease  : Nat,
                age    : 0..(LocalLimit + StopTime),    \* since last_ok, capped
                beat   : 0..(LocalLimit + StopTime),    \* since the heartbeat under way began
                reason : Reason,
                status : FinalStatus]

\* A worker with no job.
Free(mode) == [mode |-> mode, job |-> Null, lease |-> 0, age |-> 0, beat |-> 0,
               reason |-> "none", status |-> "failed"]

Call  == [op : {"claim", "heartbeat", "upload", "publish", "finish"}, by : Worker,
          waits : BOOLEAN, job : Job \cup {Null}, lease : Nat, status : FinalStatus]
Reply == [op : {"claim", "heartbeat"}, to : Worker, answer : Active \cup {"refused", "none"},
          job : Job \cup {Null}, lease : Nat]

-----------------------------------------------------------------------------
(* The network. A worker has one heartbeat and one other request at a time.  *)
(* How long a reply takes matters for a claim and for a heartbeat, whose     *)
(* senders' clocks run meanwhile; a reply to an upload or a completion is    *)
(* read at once or lost.                                                     *)

Request(w, op, j, l, status) ==
    [op |-> op, by |-> w, waits |-> TRUE, job |-> j, lease |-> l, status |-> status]

Beats == {"heartbeat"}
Main  == {"claim", "upload", "publish", "finish"}

Awaited(w, ops) == {c \in calls : c.by = w /\ c.waits /\ c.op \in ops}
Unread(w, ops)  == {r \in replies : r.to # w \/ r.op \notin ops}
Late(requests)  == {[c EXCEPT !.waits = FALSE] : c \in requests}

\* w no longer waits for its requests of these kinds, and may send another:
\* those given up on are lost, or reach the server all the same. MaxLate
\* bounds how many of them are about.
SwapFor(w, ops, new) ==
    /\ \E kept \in SUBSET Awaited(w, ops) :
         /\ kept # {} => Cardinality({c \in calls : ~c.waits}) + Cardinality(kept) <= MaxLate
         /\ calls' = (calls \ Awaited(w, ops)) \cup Late(kept) \cup new
    /\ replies' = Unread(w, ops)

HangUp(w, ops)          == SwapFor(w, ops, {})
SendInstead(w, request) == SwapFor(w, Main, {request})

Answer(c, answer, j, l) ==
    /\ calls' = calls \ {c}
    /\ replies' = IF c.waits
                  THEN replies \cup {[op |-> c.op, to |-> c.by, answer |-> answer,
                                      job |-> j, lease |-> l]}
                  ELSE replies
    /\ UNCHANGED wk

NoReply(c) == /\ calls' = calls \ {c}
              /\ UNCHANGED <<replies, wk>>

-----------------------------------------------------------------------------
(* From one stage of handle() to the next. *)

Upload(w, status) ==
    /\ wk' = [wk EXCEPT ![w].mode = "uploading", ![w].status = status]
    /\ SendInstead(w, Request(w, "upload", wk[w].job, wk[w].lease, status))

Report(w, status) ==
    /\ wk' = [wk EXCEPT ![w].mode = "finishing", ![w].status = status]
    /\ SendInstead(w, Request(w, "finish", wk[w].job, wk[w].lease, status))

\* The lease threads are stopped, and the main loop goes on.
Leave(w) == /\ wk' = [wk EXCEPT ![w] = Free("idle")]
            /\ HangUp(w, Main \cup Beats)

\* CompletionAccepted against reporting success although no archive arrived.
UndeliveredKept(status) == status

Undelivered(status) == IF status = "succeeded" THEN "failed" ELSE status

-----------------------------------------------------------------------------
(* The server's handlers: a transaction of the store, then the reply. *)

HandleClaim(c) ==
    /\ c.op = "claim"
    /\ \/ ClaimNone(Project) /\ Answer(c, "none", Null, 0)
       \/ \E j \in Job : ClaimJob(j, Project) /\ Answer(c, "running", j, issued')

HandleHeartbeat(c) ==
    /\ c.op = "heartbeat"
    /\ \/ Heartbeat(c.job, c.lease) /\ Answer(c, db[c.job].status, c.job, c.lease)
       \/ /\ ~Owned(c.job, c.lease)
          /\ Answer(c, "refused", c.job, c.lease)
          /\ UNCHANGED store

\* An upload renews the lease, reads the body, and looks at the lease again.
HandleUpload(c) ==
    /\ c.op = "upload"
    /\ \/ /\ Heartbeat(c.job, c.lease)
          /\ calls' = (calls \ {c}) \cup {[c EXCEPT !.op = "publish"]}
          /\ UNCHANGED <<replies, wk>>
       \/ /\ ~Owned(c.job, c.lease)
          /\ NoReply(c) \/ (c.waits /\ Report(c.by, Undelivered(c.status)))
          /\ UNCHANGED store

\* ImplementsStore against publishing under the lease as it was before the body.
HandlePublishStale(c) ==
    /\ c.op = "publish"
    /\ PublishStale(c.job, c.lease, c.by)
    /\ NoReply(c) \/ (c.waits /\ Report(c.by, c.status))

HandlePublish(c) ==
    /\ c.op = "publish"
    /\ \/ /\ PublishArtifact(c.job, c.lease, c.by)
          /\ NoReply(c) \/ (c.waits /\ Report(c.by, c.status))
       \/ /\ ~Owned(c.job, c.lease)
          /\ NoReply(c) \/ (c.waits /\ Report(c.by, Undelivered(c.status)))
          /\ UNCHANGED store

\* The worker lets go of a job whose completion was answered, refused or not.
HandleFinish(c) ==
    /\ c.op = "finish"
    /\ NoReply(c) \/ (c.waits /\ Leave(c.by))
    /\ \/ Finish(c.job, c.lease, c.status, c.by)
       \/ /\ ~IsRecorded(c.job, c.lease, c.status, c.by)
          /\ ~MayFinish(c.job, c.lease, c.status)
          /\ UNCHANGED store

Handle(c) == \/ HandleClaim(c) \/ HandleHeartbeat(c) \/ HandleUpload(c)
             \/ HandlePublish(c) \/ HandleFinish(c)

-----------------------------------------------------------------------------
(* Workers: the main thread. *)

\* The clock of the lease starts before the claim is sent (requested_at).
SendClaim(w) == /\ wk[w].mode = "idle"
                /\ wk' = [wk EXCEPT ![w] = Free("claiming")]
                /\ calls' = calls \cup {Request(w, "claim", Null, 0, "failed")}
                /\ UNCHANGED replies
                /\ UNCHANGED store

\* A claim, or the refusal of one, that gets no answer: the loop goes on.
ClaimFails(w) == /\ wk[w].mode \in {"claiming", "declining"}
                 /\ wk' = [wk EXCEPT ![w] = Free("idle")]
                 /\ HangUp(w, Main)
                 /\ UNCHANGED store

TakeNothing(w, r) == /\ r.answer = "none"
                     /\ wk' = [wk EXCEPT ![w] = Free("idle")]
                     /\ HangUp(w, Main)

\* SysTypeOK against a refusal with an outcome of its own.
DeclinePaused(w, r) == /\ r.answer = "running"
                       /\ wk' = [wk EXCEPT ![w].mode = "declining"]
                       /\ SendInstead(w, Request(w, "finish", r.job, r.lease, "paused"))

\* Paused or stopped while claiming: the job is given back as cancelled, once.
Decline(w, r) == /\ r.answer = "running"
                 /\ wk' = [wk EXCEPT ![w].mode = "declining"]
                 /\ SendInstead(w, Request(w, "finish", r.job, r.lease, "cancelled"))

\* ExecutionExclusive against requested_at taken when the claim is answered.
StartLate(w, r) == /\ r.answer = "running"
                   /\ wk' = [wk EXCEPT ![w] = [Free("running") EXCEPT !.job = r.job, !.lease = r.lease]]
                   /\ HangUp(w, Main)

Start(w, r) == /\ r.answer = "running"
               /\ wk' = [wk EXCEPT ![w].mode = "running", ![w].job = r.job, ![w].lease = r.lease]
               /\ HangUp(w, Main)

TakeClaim(w) == /\ \E r \in replies : /\ r.to = w /\ r.op = "claim"
                                      /\ TakeNothing(w, r) \/ Decline(w, r) \/ Start(w, r)
                /\ UNCHANGED store

\* The run ends: well, badly, or at the next look at the cancel event, which
\* it may also have passed for the last time. Artifacts may not exist.
RunEnds(w, status) ==
    /\ wk[w].mode = "running" /\ status \in Ending
    /\ Upload(w, status) \/ (status # "succeeded" /\ Report(w, status))
    /\ UNCHANGED store

Stopped(w) == IF wk[w].reason = "cancelled" THEN "cancelled" ELSE "failed"

RunEnd(w) == RunEnds(w, "succeeded") \/ RunEnds(w, Stopped(w))

\* A delivery without an answer is tried again, until retry() gives up: at
\* once when the lease is gone, else when its 90 s are over. The job's files
\* then stay on the worker.
Retry(w) ==
    /\ wk[w].mode \in {"uploading", "finishing"}
    /\ wk[w].reason # "lease gone"
    /\ SendInstead(w, Request(w, IF wk[w].mode = "uploading" THEN "upload" ELSE "finish",
                              wk[w].job, wk[w].lease, wk[w].status))
    /\ UNCHANGED wk
    /\ UNCHANGED store

\* JobsEnd against a retry without a deadline, ended by a lost lease alone.
GiveUpWhenGone(w) ==
    /\ wk[w].reason = "lease gone"
    /\ \/ wk[w].mode = "uploading" /\ Report(w, Undelivered(wk[w].status))
       \/ wk[w].mode = "finishing" /\ Leave(w)
    /\ UNCHANGED store

GiveUp(w) ==
    /\ \/ wk[w].mode = "uploading" /\ Report(w, Undelivered(wk[w].status))
       \/ wk[w].mode = "finishing" /\ Leave(w)
    /\ UNCHANGED store

-----------------------------------------------------------------------------
(* Workers: the lease thread and the watchdog, until the job is let go. *)

Beating(w) == Awaited(w, Beats) # {} \/ \E r \in replies : r.to = w /\ r.op = "heartbeat"

Beat(w) == /\ wk[w].mode \in Holding
           /\ ~Beating(w)
           /\ wk' = [wk EXCEPT ![w].beat = 0]
           /\ calls' = calls \cup {Request(w, "heartbeat", wk[w].job, wk[w].lease, "failed")}
           /\ UNCHANGED replies
           /\ UNCHANGED store

\* RunnerHoldsLease against a last_ok that is the time of the answer.
TakeBeatLate(w) ==
    /\ \E r \in replies :
         /\ r.to = w /\ r.op = "heartbeat"
         /\ wk' = CASE r.answer = "refused" -> [wk EXCEPT ![w].reason = "lease gone"]
                    [] r.answer = "cancel_requested" ->
                         [wk EXCEPT ![w].age = 0, ![w].reason = "cancelled"]
                    [] OTHER -> [wk EXCEPT ![w].age = 0]
    /\ HangUp(w, Beats)
    /\ UNCHANGED store

\* CancelStopsRun against a loop that does not look at the answer.
TakeBeatBlind(w) ==
    /\ \E r \in replies :
         /\ r.to = w /\ r.op = "heartbeat"
         /\ wk' = CASE r.answer = "refused" -> [wk EXCEPT ![w].reason = "lease gone"]
                    [] OTHER -> [wk EXCEPT ![w].age = wk[w].beat]
    /\ HangUp(w, Beats)
    /\ UNCHANGED store

TakeBeat(w) ==
    /\ \E r \in replies :
         /\ r.to = w /\ r.op = "heartbeat"
         /\ wk' = CASE r.answer = "refused" -> [wk EXCEPT ![w].reason = "lease gone"]
                    [] r.answer = "cancel_requested" ->
                         [wk EXCEPT ![w].age = wk[w].beat, ![w].reason = "cancelled"]
                    [] OTHER -> [wk EXCEPT ![w].age = wk[w].beat]
    /\ HangUp(w, Beats)
    /\ UNCHANGED store

BeatFails(w) == /\ Beating(w)
                /\ HangUp(w, Beats)
                /\ UNCHANGED wk
                /\ UNCHANGED store

Watchdog(w) == /\ wk[w].mode \in Holding
               /\ wk[w].age >= LocalLimit
               /\ wk' = [wk EXCEPT ![w].reason = "lease gone"]
               /\ UNCHANGED network
               /\ UNCHANGED store

\* The job's time or disk limit, or a signal.
StopLocally(w) == /\ wk[w].mode \in Holding
                  /\ wk' = [wk EXCEPT ![w].reason = "stopped"]
                  /\ UNCHANGED network
                  /\ UNCHANGED store

\* The worker stops, and is run again once its machine has been reset: it
\* remembers nothing of the job.
Crash(w) == /\ wk[w].mode # "idle"
            /\ wk' = [wk EXCEPT ![w] = Free("idle")]
            /\ HangUp(w, Main \cup Beats)
            /\ UNCHANGED store

WorkerStep(w) ==
    \/ SendClaim(w) \/ ClaimFails(w) \/ TakeClaim(w)
    \/ RunEnd(w) \/ Retry(w) \/ GiveUp(w)
    \/ Beat(w) \/ TakeBeat(w) \/ BeatFails(w) \/ Watchdog(w) \/ StopLocally(w)
    \/ Crash(w)

-----------------------------------------------------------------------------
(* Time. A claim is given up (30 s) before LocalLimit; a run that reached    *)
(* LocalLimit has been stopped StopTime later.                               *)

Grow(n) == IF n = LocalLimit + StopTime THEN n ELSE n + 1

MayWait(w) == /\ wk[w].mode = "claiming" => wk[w].age < LocalLimit
              /\ wk[w].mode = "running"  => wk[w].age < LocalLimit + StopTime

SysTick ==
    /\ \A w \in Worker : MayWait(w)
    /\ Tick
    /\ wk' = [w \in Worker |->
                IF wk[w].mode \in Holding \cup {"claiming"}
                THEN [wk[w] EXCEPT !.age = Grow(@), !.beat = IF Beating(w) THEN Grow(@) ELSE @]
                ELSE wk[w]]
    /\ UNCHANGED network

\* Submitters, and prune-server beside them.
Submitters == /\ SubmitterNext \/ Prune
              /\ UNCHANGED <<wk, calls, replies>>

SysInit == /\ Init
           /\ wk = [w \in Worker |-> Free("idle")]
           /\ calls = {} /\ replies = {}

SysNext == \/ Submitters
           \/ \E c \in calls : Handle(c)
           \/ \E w \in Worker : WorkerStep(w)
           \/ SysTick

SysSpec == SysInit /\ [][SysNext]_sysVars

-----------------------------------------------------------------------------
(* Fairness. The clock runs; somebody polls the queue (cli.py wait, the       *)
(* dashboard); the lease threads and the watchdog keep their loops; requests  *)
(* end, if only by the client's timeout; retry gives up after 90 s; a run     *)
(* whose cancel event is set ends, for the runner looks at it everywhere.     *)

Others == UNCHANGED <<wk, calls, replies>>

StoppedRun(w) == wk[w].reason # "none" /\ RunEnds(w, Stopped(w))

FairSys ==
    /\ SysSpec
    /\ WF_sysVars(SysTick)
    /\ WF_sysVars(Read /\ Others)
    /\ \A w \in Worker : /\ WF_sysVars(ClaimFails(w) \/ TakeClaim(w))
                         /\ WF_sysVars(Beat(w))
                         /\ WF_sysVars(TakeBeat(w) \/ BeatFails(w))
                         /\ WF_sysVars(Watchdog(w))
                         /\ WF_sysVars(StoppedRun(w))
                         /\ WF_sysVars(GiveUp(w))

\* The time limit of a job (timeout_seconds, 4 h unless the spec says less).
TimeLimit(w) == /\ wk[w].mode = "running" /\ wk[w].reason = "none"
                /\ StopLocally(w)

TimeLimits == \A w \in Worker : WF_sysVars(TimeLimit(w))

-----------------------------------------------------------------------------
(* Properties. *)

SysTypeOK == /\ wk \in [Worker -> WorkerState]
             /\ calls \subseteq Call
             /\ replies \subseteq Reply

\* One job is executed at a time on all machines together, although the
\* server cannot see a worker stop: a lease is never given out again while a
\* run under an earlier one goes on (docs/api.md:42; store.py:104,
\* worker.py:119 and 178 against LEASE_SECONDS).
ExecutionExclusive ==
    \A u, v \in Worker : wk[u].mode = "running" /\ wk[v].mode = "running" => u = v

\* A job that is executing is never reported as lost or over: for as long as
\* a worker runs it, the server holds it as that worker's, with lease to spare.
RunnerHoldsLease ==
    \A w \in Worker : wk[w].mode = "running" =>
        LET r == jobs[wk[w].job]
        IN  r.lease = wk[w].lease /\ r.status \in Active /\ r.lease_until > 0

\* A completion is refused for one reason only, that the lease has run out:
\* success is never reported before the artifact is published, and a
\* completion sent again never contradicts what it recorded (worker.py:254-263,
\* store.py:171-178).
CompletionAccepted ==
    \A c \in calls : c.op = "finish" =>
        /\ Owned(c.job, c.lease) => MayFinish(c.job, c.lease, c.status)
        /\ jobs[c.job].result = c.by => IsRecorded(c.job, c.lease, c.status, c.by)

\* Whatever the server and the workers do together is behaviour of Store.
ImplementsStore == Spec

\* A cancel request ends the execution, whether the worker hears of it or is
\* cut off from the server (worker.py:109, 119, 178).
CancelStopsRun ==
    \A w \in Worker, j \in Job :
        wk[w].mode = "running" /\ wk[w].job = j /\ jobs[j].status = "cancel_requested"
          ~> wk[w].mode # "running"

\* Every job that was handed out gets an outcome, whichever messages are lost
\* and wherever its worker crashes, provided jobs have a time limit.
JobsEnd == TimeLimits => \A j \in Job : jobs[j].status \in Active ~> jobs[j].status \in Terminal
=============================================================================
