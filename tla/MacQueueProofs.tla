--------------------------- MODULE MacQueueProofs ---------------------------
(***************************************************************************)
(* Proofs about MacQueue, for any number of jobs, keys and workers, and    *)
(* any times that satisfy LocalAssumption.                                 *)
(*                                                                         *)
(* A lease is followed through the system: the reply that offers it, the   *)
(* worker that holds it, the requests that carry it. It has one holder at  *)
(* a time, is reported on only after its run has ended, and while the run  *)
(* goes on its row has as much time left as the worker's clock allows for. *)
(***************************************************************************)
EXTENDS MacQueue, StoreProofs

Held(w) == wk[w].mode \in Holding

\* Nothing has been reported for the job yet.
Unsent == {"running", "uploading"}

Offers   == {r \in replies : r.op = "claim" /\ r.answer = "running"}
Finishes == {c \in calls : c.op = "finish"}

\* The lease l was drawn for job j.
Granted(j, l) == /\ j \in Job
                 /\ l \in 1..issued
                 /\ jobs[j].lease = l \/ jobs[j].status = "deleted"

AllGranted == /\ \A w \in Worker : Held(w) => Granted(wk[w].job, wk[w].lease)
              /\ \A c \in calls : c.op # "claim" => Granted(c.job, c.lease)
              /\ \A r \in Offers : Granted(r.job, r.lease)

\* Whose request waits for an answer is in the mode that sent it.
Awaiting ==
    \A c \in calls : c.waits =>
      /\ c.op = "claim" => wk[c.by].mode = "claiming"
      /\ c.op \in {"upload", "publish"} => wk[c.by].mode = "uploading"
      /\ c.op = "finish" => wk[c.by].mode \in {"finishing", "declining"}
      /\ c.op = "heartbeat" => Held(c.by)
      /\ c.op \in {"upload", "publish", "heartbeat"} =>
           c.job = wk[c.by].job /\ c.lease = wk[c.by].lease

Answering ==
    \A r \in replies :
      /\ r.op = "claim" => wk[r.to].mode = "claiming"
      /\ r.op = "heartbeat" => Held(r.to) /\ r.job = wk[r.to].job /\ r.lease = wk[r.to].lease

\* A lease is offered to one worker or held by one.
OneHolder ==
    /\ \A u, v \in Worker : Held(u) /\ Held(v) /\ wk[u].lease = wk[v].lease => u = v
    /\ \A r \in Offers, w \in Worker : Held(w) => r.lease # wk[w].lease
    /\ \A r, s \in Offers : r.lease = s.lease => r = s

\* Until a run has ended and its artifacts are sent, nothing is reported.
NotReportedYet ==
    /\ \A c \in Finishes, r \in Offers : c.lease # r.lease
    /\ \A c \in Finishes, w \in Worker : wk[w].mode \in Unsent => c.lease # wk[w].lease
    /\ \A r \in Offers : jobs[r.job].result \notin Worker
    /\ \A w \in Worker : wk[w].mode \in Unsent => jobs[wk[w].job].result \notin Worker

\* Whatever is reported under a lease, however often, is the same.
ReportsAgree ==
    /\ \A c, d \in Finishes : c.lease = d.lease => c.status = d.status
    /\ \A c \in Finishes, w \in Worker :
         wk[w].mode = "finishing" /\ c.lease = wk[w].lease => c.status = wk[w].status
    /\ \A c \in Finishes : jobs[c.job].result \in Worker => jobs[c.job].status \in {c.status, "cancelled"}
    /\ \A w \in Worker : wk[w].mode = "finishing" /\ jobs[wk[w].job].result \in Worker =>
                           jobs[wk[w].job].status \in {wk[w].status, "cancelled"}

HasArtifact(j) == jobs[j].artifact # Null \/ jobs[j].status = "deleted"

\* Success is reported of jobs that have their artifact.
ArtifactFirst ==
    /\ \A c \in Finishes : c.status = "succeeded" => HasArtifact(c.job)
    /\ \A w \in Worker : wk[w].mode = "finishing" /\ wk[w].status = "succeeded" => HasArtifact(wk[w].job)

\* The row has at least what is left of LeaseTime after this much time.
LeasedFor(j, time) == jobs[j].status \in Active /\ jobs[j].lease_until + time >= LeaseTime

LeaseRuns ==
    /\ \A w \in Worker : wk[w].beat <= wk[w].age
    /\ \A w \in Worker : wk[w].mode = "running" => LeasedFor(wk[w].job, wk[w].age)
    /\ \A r \in Offers : LeasedFor(r.job, wk[r.to].age)
    /\ \A r \in replies : r.op = "heartbeat" /\ r.answer # "refused" /\ wk[r.to].mode = "running" =>
                            LeasedFor(r.job, wk[r.to].beat)

Parts == /\ AllGranted /\ Awaiting /\ Answering
         /\ OneHolder /\ NotReportedYet /\ ReportsAgree /\ ArtifactFirst
         /\ LeaseRuns

\* The inductive invariant.
SysIInv == IInv /\ SysTypeOK /\ Parts

-----------------------------------------------------------------------------
(* What the transactions of the store do to a row. *)

\* What every transaction keeps of a row.
Kept(r, s) == /\ r.lease # 0 => s.lease = r.lease \/ s.status = "deleted"
              /\ r.status = "deleted" => s.status = "deleted"
              /\ r.artifact # Null => s.artifact # Null \/ s.status = "deleted"

\* What every transaction but a completion keeps of it, and time does as well.
Unreported(r, s) == s.result \in Worker => s.result = r.result /\ s.status = r.status

\* What every transaction but a completion keeps of a job with time left.
Runs(r, s) == r.status \in Active /\ r.lease_until > 0 =>
                s.status \in Active /\ s.lease_until \in {r.lease_until, LeaseTime}

Calm(r, s) == Kept(r, s) /\ Unreported(r, s) /\ Runs(r, s)

\* Every step of the store.
KeptStep == /\ issued \in Nat /\ issued' \in Nat /\ issued <= issued'
            /\ \A j \in Job : Kept(jobs[j], jobs'[j])

\* A step of the store that is neither a completion nor time.
CalmStep == /\ issued \in Nat /\ issued' \in Nat /\ issued <= issued'
            /\ \A j \in Job : Calm(jobs[j], jobs'[j])

LEMMA Names == /\ Null \notin Worker /\ LeaseLost \notin Worker
               /\ \A w \in Worker : w \in Result /\ w \in Sha /\ w # Null
  BY WorkerAssumption, NullAssumption

LEMMA ReapCalm ==
  ASSUME NEW r \in Row, RowOK(r)
  PROVE  Calm(r, ReapRow(r))
  BY Names DEF Calm, Kept, Unreported, Runs, Row, RowOK, ReapRow, Active, Terminal

LEMMA PrunedCalm ==
  ASSUME NEW r \in Row, r.status \in Terminal
  PROVE  Calm(r, Pruned(r))
<1>1. Pruned(r).status = "deleted" /\ Pruned(r).result = Null
  BY NoRowFacts DEF Pruned, NoRow, Row
<1> QED  BY <1>1, Names DEF Calm, Kept, Unreported, Runs, Active, Terminal

\* An operation that writes nothing.
LEMMA NothingCalm ==
  ASSUME IInv, jobs' = db, issued' = issued
  PROVE  CalmStep
<1>1. \A j \in Job : jobs[j] \in Row /\ RowOK(jobs[j]) /\ jobs'[j] = ReapRow(jobs[j])
  BY DbFacts DEF IInv, TypeOK, RowsOK
<1> QED  BY <1>1, ReapCalm DEF CalmStep, IInv, TypeOK

\* An operation that writes the row of job k.
LEMMA OneCalm ==
  ASSUME IInv, NEW k \in Job, NEW r \in Row, jobs' = [db EXCEPT ![k] = r], Calm(jobs[k], r),
         issued' \in Nat, issued <= issued'
  PROVE  CalmStep
<1>1. \A j \in Job : jobs[j] \in Row /\ RowOK(jobs[j]) /\ db[j] = ReapRow(jobs[j])
  BY DbFacts DEF IInv, TypeOK, RowsOK
<1>2. \A j \in Job : jobs'[j] = IF j = k THEN r ELSE db[j]
  BY DbFacts
<1> QED  BY <1>1, <1>2, ReapCalm DEF CalmStep, IInv, TypeOK

LEMMA SubmitCalm ==
  ASSUME IInv, NEW k \in Key, NEW s \in JobSpec, Submit(k, s)
  PROVE  CalmStep
<1>1. CASE Resubmit(k, s)
  BY <1>1, NothingCalm DEF Resubmit
<1>2. CASE Accept(k, s)
  <2> DEFINE n == Cardinality({i \in Job : db[i].status # "absent"})
             new == [NoRow EXCEPT !.status = "queued", !.spec = s, !.request_key = k,
                                  !.expires = s.expires_in, !.created = n]
  <2>1. PICK j \in Job : db[j].status = "absent" /\ jobs' = [db EXCEPT ![j] = new]
    BY <1>2 DEF Accept
  <2>2. new \in Row /\ new.status = "queued" /\ new.result = Null
    <3>1. n \in Nat
      BY JobAssumption, FS_Subset, FS_CardinalityType
    <3>2. new \in Row
      BY <3>1, NoRowFacts, SpecAssumption DEF Row, Status
    <3> QED  BY <3>2, NoRowFacts DEF NoRow, Row
  <2>3. issued' \in Nat /\ issued <= issued'
    BY <1>2 DEF Accept, IInv, TypeOK
  <2>4. jobs[j] = NoRow
    BY <2>1, DbRow DEF RowOK
  <2>5. Calm(jobs[j], new)
    BY <2>2, <2>4, Names DEF Calm, Kept, Unreported, Runs, NoRow, Active
  <2> HIDE DEF new
  <2> QED  BY <2>1, <2>2, <2>3, <2>5, OneCalm
<1> QED  BY <1>1, <1>2 DEF Submit

LEMMA CancelCalm ==
  ASSUME IInv, NEW j \in Job, Cancel(j)
  PROVE  CalmStep
<1>1. issued' \in Nat /\ issued <= issued' /\ db[j] \in Row /\ RowOK(db[j])
  BY DbRow DEF Cancel, IInv, TypeOK
<1>2. CASE db[j].status \in {"queued", "running"}
  <2> DEFINE r == [db[j] EXCEPT !.status = IF db[j].status = "queued" THEN "cancelled"
                                                                     ELSE "cancel_requested"]
  <2>1. jobs' = [db EXCEPT ![j] = r]
    BY <1>2, DbFacts DEF Cancel
  <2>2. db[j] = jobs[j]
    BY <1>2, DbRow
  <2>3. r \in Row /\ Calm(jobs[j], r)
    BY <1>1, <1>2, <2>2, Names DEF Calm, Kept, Unreported, Runs, Row, RowOK, Status, Active, Terminal
  <2> HIDE DEF r
  <2> QED  BY <1>1, <2>1, <2>3, OneCalm
<1>3. CASE db[j].status \notin {"queued", "running"}
  BY <1>3, NothingCalm DEF Cancel
<1> QED  BY <1>2, <1>3

LEMMA ClaimJobCalm ==
  ASSUME IInv, NEW j \in Job, NEW projects, ClaimJob(j, projects)
  PROVE  CalmStep
<1> DEFINE r == [db[j] EXCEPT !.status = "running", !.lease = issued + 1,
                              !.lease_until = LeaseTime]
<1>1. issued' \in Nat /\ issued <= issued' /\ issued + 1 \in Nat /\ db[j].status = "queued"
  BY DEF IInv, TypeOK, ClaimJob, Eligible, Queued
<1>2. jobs' = [db EXCEPT ![j] = r]
  BY DbFacts DEF ClaimJob
<1>3. jobs[j] = db[j] /\ db[j] \in Row /\ RowOK(db[j])
  BY <1>1, DbRow
<1>4. r \in Row /\ Calm(jobs[j], r)
  BY <1>1, <1>3, TimeAssumption, Names DEF Calm, Kept, Unreported, Runs, Row, RowOK, Status, Active
<1> HIDE DEF r
<1> QED  BY <1>1, <1>2, <1>4, OneCalm

LEMMA HeartbeatCalm ==
  ASSUME IInv, NEW j \in Job, NEW l, Heartbeat(j, l)
  PROVE  CalmStep /\ jobs'[j].status = db[j].status /\ jobs'[j].lease_until = LeaseTime
<1> DEFINE r == [db[j] EXCEPT !.lease_until = LeaseTime]
<1>1. issued' \in Nat /\ issued <= issued' /\ jobs' = [db EXCEPT ![j] = r]
  BY DbFacts DEF Heartbeat, IInv, TypeOK
<1>2. jobs[j] = db[j] /\ db[j] \in Row /\ RowOK(db[j])
  BY DbRow DEF Heartbeat, Owned, Active
<1>3. r \in Row /\ Calm(jobs[j], r)
  BY <1>2, TimeAssumption, Names DEF Calm, Kept, Unreported, Runs, Row
<1>4. r.status = db[j].status /\ r.lease_until = LeaseTime /\ jobs'[j] = r
  BY <1>1, <1>2, DbFacts DEF Row
<1> HIDE DEF r
<1> QED  BY <1>1, <1>3, <1>4, OneCalm

LEMMA PublishCalm ==
  ASSUME IInv, NEW j \in Job, NEW l, NEW w \in Worker, PublishArtifact(j, l, w)
  PROVE  CalmStep /\ jobs'[j].artifact = w
<1> DEFINE r == [db[j] EXCEPT !.artifact = w]
<1>1. issued' \in Nat /\ issued <= issued' /\ jobs' = [db EXCEPT ![j] = r]
  BY DbFacts DEF PublishArtifact, IInv, TypeOK
<1>2. jobs[j] = db[j] /\ db[j] \in Row /\ RowOK(db[j])
  BY DbRow DEF PublishArtifact, Owned, Active
<1>3. r \in Row /\ Calm(jobs[j], r)
  BY <1>2, TimeAssumption, Names DEF Calm, Kept, Unreported, Runs, Row
<1>4. r.artifact = w /\ jobs'[j] = r
  BY <1>1, <1>2, DbFacts DEF Row
<1> HIDE DEF r
<1> QED  BY <1>1, <1>3, <1>4, OneCalm

LEMMA PruneCalm ==
  ASSUME IInv, Prune
  PROVE  CalmStep
<1>1. issued' = issued /\ issued \in Nat
  BY DEF Prune, IInv, TypeOK
<1>2. ASSUME NEW j \in Job PROVE Calm(jobs[j], jobs'[j])
  <2>1. jobs[j] \in Row /\ RowOK(jobs[j]) /\ db[j] = ReapRow(jobs[j])
    BY DbFacts DEF IInv, TypeOK, RowsOK
  <2>2. CASE db[j].status \in Terminal /\ db[j].finished = Retention
    <3>1. db[j] = jobs[j]
      BY <2>1, <2>2, TimeAssumption DEF ReapRow, RowOK, Active, Row
    <3> QED  BY <2>1, <2>2, <3>1, PrunedCalm DEF Prune
  <2>3. CASE ~(db[j].status \in Terminal /\ db[j].finished = Retention)
    BY <2>1, <2>3, ReapCalm DEF Prune
  <2> QED  BY <2>2, <2>3
<1> QED  BY <1>1, <1>2 DEF CalmStep

LEMMA UnchangedCalm ==
  ASSUME IInv, UNCHANGED store
  PROVE  CalmStep
<1>1. \A j \in Job : jobs[j] \in Row /\ jobs'[j] = jobs[j]
  BY DEF store, IInv, TypeOK
<1>2. issued \in Nat /\ issued' \in Nat /\ issued <= issued'
  BY DEF store, IInv, TypeOK
<1> QED  BY <1>1, <1>2 DEF CalmStep, Calm, Kept, Unreported, Runs

\* What a step of the store keeps of what the parts of SysIInv say of rows.
LEMMA KeptKeeps ==
  ASSUME KeptStep
  PROVE  /\ \A j, l : Granted(j, l) =>
              /\ j \in Job /\ l \in 1..issued'
              /\ jobs'[j].lease = l \/ jobs'[j].status = "deleted"
         /\ \A j \in Job : HasArtifact(j) => jobs'[j].artifact # Null \/ jobs'[j].status = "deleted"
<1>1. ASSUME NEW j, NEW l, Granted(j, l)
      PROVE  /\ j \in Job /\ l \in 1..issued'
             /\ jobs'[j].lease = l \/ jobs'[j].status = "deleted"
  <2>1. j \in Job /\ l \in 1..issued /\ (jobs[j].lease = l \/ jobs[j].status = "deleted")
    BY <1>1 DEF Granted
  <2>2. issued \in Nat /\ issued' \in Nat /\ issued <= issued' /\ Kept(jobs[j], jobs'[j])
    BY <2>1 DEF KeptStep
  <2>3. l \in 1..issued' /\ l # 0
    BY <2>1, <2>2
  <2> QED  BY <2>1, <2>2, <2>3 DEF Kept
<1>2. ASSUME NEW j \in Job, HasArtifact(j)
      PROVE  jobs'[j].artifact # Null \/ jobs'[j].status = "deleted"
  BY <1>2 DEF HasArtifact, KeptStep, Kept
<1> QED  BY <1>1, <1>2

\* A lease that runs stays as long, or is made longer.
LeasedAfter(j, time) == jobs'[j].status \in Active /\ jobs'[j].lease_until + time >= LeaseTime

LEMMA LeasedCalm ==
  ASSUME IInv, NEW j \in Job, Calm(jobs[j], jobs'[j]), NEW t \in 0..(LocalLimit + StopTime), LeasedFor(j, t)
  PROVE  LeasedAfter(j, t)
<1>1. jobs[j].lease_until \in Nat /\ jobs[j].status \in Active /\ jobs[j].lease_until + t >= LeaseTime
  BY DEF LeasedFor, IInv, TypeOK, Row
<1>2. t \in Nat /\ t < LeaseTime /\ LeaseTime \in Nat
  BY LocalAssumption, TimeAssumption
<1>3. jobs[j].lease_until > 0
  BY <1>1, <1>2
<1>4. jobs'[j].status \in Active /\ jobs'[j].lease_until \in {jobs[j].lease_until, LeaseTime}
  BY <1>1, <1>3 DEF Calm, Runs
<1> QED  BY <1>1, <1>2, <1>4 DEF LeasedAfter

\* And a calm step besides.
LEMMA CalmKeeps ==
  ASSUME IInv, CalmStep
  PROVE  /\ KeptStep
         /\ \A j, l : Granted(j, l) =>
              /\ j \in Job /\ l \in 1..issued'
              /\ jobs'[j].lease = l \/ jobs'[j].status = "deleted"
         /\ \A j \in Job : HasArtifact(j) => jobs'[j].artifact # Null \/ jobs'[j].status = "deleted"
         /\ \A j \in Job : jobs'[j].result \in Worker =>
              jobs'[j].result = jobs[j].result /\ jobs'[j].status = jobs[j].status
         /\ \A j \in Job, t \in 0..(LocalLimit + StopTime) :
              LeasedFor(j, t) => LeasedAfter(j, t)
<1>1. KeptStep
  BY DEF CalmStep, KeptStep, Calm
<1>2. \A j \in Job : jobs'[j].result \in Worker =>
              jobs'[j].result = jobs[j].result /\ jobs'[j].status = jobs[j].status
  BY DEF CalmStep, Calm, Unreported
<1>3. ASSUME NEW j \in Job, NEW t \in 0..(LocalLimit + StopTime), LeasedFor(j, t)
      PROVE  LeasedAfter(j, t)
  BY <1>3, LeasedCalm DEF CalmStep
<1> QED  BY <1>1, <1>2, <1>3, KeptKeeps

-----------------------------------------------------------------------------
(* Requests and replies. *)

\* d is request c, or what is left of it when nobody waits for it any more.
Inherits(c, d) == /\ d.op = c.op /\ d.by = c.by /\ d.job = c.job
                  /\ d.lease = c.lease /\ d.status = c.status
                  /\ d.waits => d = c

AllInherit == \A d \in calls' : \E c \in calls : Inherits(c, d)

\* What giving up on requests leaves.
LEMMA SwapFacts ==
  ASSUME SysTypeOK, NEW w \in Worker, NEW ops, NEW new \in SUBSET Call, SwapFor(w, ops, new)
  PROVE  /\ calls' \subseteq Call
         /\ \A d \in calls' : \/ d \in new
                              \/ /\ \E c \in calls : Inherits(c, d)
                                 /\ ~(d.waits /\ d.by = w /\ d.op \in ops)
         /\ replies' \subseteq replies
         /\ \A r \in replies' : ~(r.to = w /\ r.op \in ops)
<1>1. PICK kept \in SUBSET Awaited(w, ops) :
        calls' = (calls \ Awaited(w, ops)) \cup Late(kept) \cup new
  BY DEF SwapFor
<1>2. ASSUME NEW d \in Late(kept)
      PROVE  d \in Call /\ ~d.waits /\ \E c \in calls : Inherits(c, d)
  <2>1. PICK c \in kept : d = [c EXCEPT !.waits = FALSE]
    BY DEF Late
  <2>2. c \in calls /\ c \in Call
    BY <1>1 DEF Awaited, SysTypeOK
  <2>3. d \in Call /\ ~d.waits /\ Inherits(c, d)
    BY <2>1, <2>2 DEF Call, Inherits
  <2> QED  BY <2>2, <2>3
<1>3. ASSUME NEW d \in calls \ Awaited(w, ops)
      PROVE  d \in Call /\ Inherits(d, d) /\ ~(d.waits /\ d.by = w /\ d.op \in ops)
  BY DEF Awaited, SysTypeOK, Inherits
<1>4. replies' = Unread(w, ops)
  BY DEF SwapFor
<1>5. replies' \subseteq replies /\ \A r \in replies' : ~(r.to = w /\ r.op \in ops)
  BY <1>4 DEF Unread
<1>6. calls' \subseteq Call
  BY <1>1, <1>2, <1>3
<1>7. ASSUME NEW d \in calls', d \notin new
      PROVE  (\E c \in calls : Inherits(c, d)) /\ ~(d.waits /\ d.by = w /\ d.op \in ops)
  BY <1>1, <1>2, <1>3, <1>7
<1> QED  BY <1>5, <1>6, <1>7

-----------------------------------------------------------------------------
(* Steps after which nobody holds, asks or has been offered more than before. *)

Shrinks ==
    /\ AllInherit
    /\ replies' \subseteq replies
    /\ \A v \in Worker :
         \/ wk'[v] = wk[v]
         \/ /\ wk'[v] = Free("idle")
            /\ \A d \in calls' : ~(d.waits /\ d.by = v)
            /\ \A r \in replies' : r.to # v

LEMMA FreeFacts ==
  ASSUME NEW mode \in Mode
  PROVE  /\ Free(mode) \in WorkerState
         /\ Free(mode).mode = mode /\ Free(mode).age = 0 /\ Free(mode).beat = 0
         /\ mode \notin Holding => Free(mode).mode \notin Holding
  BY LocalAssumption DEF Free, WorkerState, Mode, Reason, FinalStatus

\* What does not depend on the outcomes and deadlines of rows.
LEMMA KeptShrink ==
  ASSUME SysTypeOK, Parts, KeptStep, Shrinks
  PROVE  /\ AllGranted' /\ Awaiting' /\ Answering' /\ OneHolder' /\ ArtifactFirst'
         /\ Offers' \subseteq Offers
         /\ \A d \in Finishes' : \E c \in Finishes : d.lease = c.lease /\ d.status = c.status /\ d.job = c.job
         /\ \A v \in Worker : wk'[v].mode \in Unsent \cup {"finishing"} => wk'[v] = wk[v]
         /\ \A v \in Worker : wk'[v].beat <= wk'[v].age
<1>1. \A v \in Worker : wk'[v].mode # "idle" => wk'[v] = wk[v]
  BY FreeFacts DEF Shrinks, Mode
<1>2. \A v \in Worker : Held(v)' => Held(v) /\ wk'[v] = wk[v]
  BY <1>1 DEF Held, Holding
<1>3. \A d \in calls' : /\ d.by \in Worker
                        /\ \E c \in calls : Inherits(c, d)
  BY DEF Shrinks, AllInherit, SysTypeOK, Call, Inherits
<1>4. AllGranted'
  <2>1. ASSUME NEW v \in Worker, Held(v)'
        PROVE  Granted(wk[v].job, wk[v].lease)'
    <3>1. Held(v) /\ wk'[v] = wk[v]
      BY <1>2, <2>1
    <3>2. Granted(wk[v].job, wk[v].lease)
      BY <3>1 DEF Parts, AllGranted
    <3> QED  BY <3>1, <3>2, KeptKeeps DEF Granted
  <2>2. ASSUME NEW d \in calls', d.op # "claim"
        PROVE  Granted(d.job, d.lease)'
    <3>1. PICK c \in calls : d.op = c.op /\ d.job = c.job /\ d.lease = c.lease
      BY <1>3 DEF Inherits
    <3> QED  BY <2>2, <3>1, KeptKeeps DEF Parts, AllGranted, Granted
  <2>3. ASSUME NEW r \in Offers'
        PROVE  Granted(r.job, r.lease)'
    <3>1. r \in Offers
      BY DEF Shrinks, Offers
    <3> QED  BY <3>1, KeptKeeps DEF Parts, AllGranted, Granted
  <2> QED  BY <2>1, <2>2, <2>3 DEF AllGranted
<1>5. Awaiting'
  <2> SUFFICES ASSUME NEW d \in calls', d.waits
               PROVE  /\ d.op = "claim" => wk'[d.by].mode = "claiming"
                      /\ d.op \in {"upload", "publish"} => wk'[d.by].mode = "uploading"
                      /\ d.op = "finish" => wk'[d.by].mode \in {"finishing", "declining"}
                      /\ d.op = "heartbeat" => wk'[d.by].mode \in Holding
                      /\ d.op \in {"upload", "publish", "heartbeat"} =>
                           d.job = wk'[d.by].job /\ d.lease = wk'[d.by].lease
    BY DEF Awaiting, Held
  <2>1. d \in calls /\ d.by \in Worker
    BY <1>3 DEF Inherits
  <2>2. wk'[d.by] = wk[d.by]
    BY <2>1 DEF Shrinks
  <2> QED  BY <2>1, <2>2 DEF Parts, Awaiting, Held
<1>6. Answering'
  <2> SUFFICES ASSUME NEW r \in replies'
               PROVE  /\ r.op = "claim" => wk'[r.to].mode = "claiming"
                      /\ r.op = "heartbeat" => /\ wk'[r.to].mode \in Holding
                                               /\ r.job = wk'[r.to].job /\ r.lease = wk'[r.to].lease
    BY DEF Answering, Held
  <2>1. r \in replies /\ r.to \in Worker
    BY DEF Shrinks, SysTypeOK, Reply
  <2>2. wk'[r.to] = wk[r.to]
    BY <2>1 DEF Shrinks
  <2> QED  BY <2>1, <2>2 DEF Parts, Answering, Held
<1>7. OneHolder'
  BY <1>2 DEF Parts, OneHolder, Shrinks, Offers
<1>8. Offers' \subseteq Offers
  BY DEF Shrinks, Offers
<1>9. \A d \in Finishes' : \E c \in Finishes : d.lease = c.lease /\ d.status = c.status /\ d.job = c.job
  BY <1>3 DEF Finishes, Inherits
<1>10. \A v \in Worker : wk'[v].mode \in Unsent \cup {"finishing"} => wk'[v] = wk[v]
  BY <1>1 DEF Unsent
<1>11. ArtifactFirst'
  BY <1>9, <1>10, KeptKeeps DEF Parts, ArtifactFirst, HasArtifact, AllGranted, Granted, Held, Holding, Finishes
<1>12. \A v \in Worker : wk'[v].beat <= wk'[v].age
  BY FreeFacts DEF Parts, LeaseRuns, Shrinks, Mode
<1> QED  BY <1>4, <1>5, <1>6, <1>7, <1>8, <1>9, <1>10, <1>11, <1>12

LEMMA CalmShrink ==
  ASSUME IInv, SysTypeOK, Parts, CalmStep, Shrinks
  PROVE  Parts'
<1>1. /\ AllGranted' /\ Awaiting' /\ Answering' /\ OneHolder' /\ ArtifactFirst'
      /\ \A v \in Worker : wk'[v].beat <= wk'[v].age
  BY CalmKeeps, KeptShrink
<1>8. Offers' \subseteq Offers
  BY CalmKeeps, KeptShrink
<1>9. \A d \in Finishes' : \E c \in Finishes : d.lease = c.lease /\ d.status = c.status /\ d.job = c.job
  BY CalmKeeps, KeptShrink
<1>10. \A v \in Worker : wk'[v].mode \in Unsent \cup {"finishing"} => wk'[v] = wk[v]
  BY CalmKeeps, KeptShrink
<1>11. NotReportedYet'
  <2>1. \A v \in Worker : wk'[v].mode \in Unsent => jobs'[wk'[v].job].result \notin Worker
    BY <1>10, CalmKeeps DEF Parts, NotReportedYet, AllGranted, Granted, Held, Holding, Unsent
  <2>2. \A r \in Offers' : jobs'[r.job].result \notin Worker
    BY <1>8, CalmKeeps DEF Parts, NotReportedYet, AllGranted, Granted
  <2> QED  BY <1>8, <1>9, <1>10, <2>1, <2>2 DEF Parts, NotReportedYet
<1>12. ReportsAgree'
  BY <1>9, <1>10, CalmKeeps DEF Parts, ReportsAgree, AllGranted, Granted, Held, Holding, Finishes
<1>14. LeaseRuns'
  <2>2. \A v \in Worker : /\ wk[v].age \in 0..(LocalLimit + StopTime)
                          /\ wk[v].beat \in 0..(LocalLimit + StopTime)
    BY DEF SysTypeOK, WorkerState
  <2>3. ASSUME NEW v \in Worker, wk'[v].mode = "running"
        PROVE  LeasedAfter(wk'[v].job, wk'[v].age)
    <3>1. wk'[v] = wk[v] /\ Held(v)
      BY <1>10, <2>3 DEF Held, Holding, Unsent
    <3>2. wk[v].job \in Job /\ LeasedFor(wk[v].job, wk[v].age)
      BY <2>3, <3>1 DEF Parts, LeaseRuns, AllGranted, Granted
    <3> QED  BY <2>2, <3>1, <3>2, CalmKeeps
  <2>4. ASSUME NEW r \in Offers'
        PROVE  LeasedAfter(r.job, wk'[r.to].age)
    <3>1. r \in Offers /\ r \in replies /\ r \in replies' /\ r.to \in Worker
      BY <1>8 DEF Offers, SysTypeOK, Reply
    <3>2. r.job \in Job /\ LeasedFor(r.job, wk[r.to].age)
      BY <3>1 DEF Parts, LeaseRuns, AllGranted, Granted
    <3>3. wk'[r.to] = wk[r.to]
      BY <3>1 DEF Shrinks
    <3> QED  BY <2>2, <3>1, <3>2, <3>3, CalmKeeps
  <2>5. ASSUME NEW r \in replies', r.op = "heartbeat", r.answer # "refused", wk'[r.to].mode = "running"
        PROVE  LeasedAfter(r.job, wk'[r.to].beat)
    <3>1. r \in replies /\ r.to \in Worker
      BY DEF Shrinks, SysTypeOK, Reply
    <3>2. wk'[r.to] = wk[r.to]
      BY <3>1 DEF Shrinks
    <3>3. r.job \in Job /\ LeasedFor(r.job, wk[r.to].beat)
      BY <2>5, <3>1, <3>2 DEF Parts, LeaseRuns, AllGranted, Granted, Answering
    <3> QED  BY <2>2, <3>1, <3>2, <3>3, CalmKeeps
  <2> QED  BY <1>1, <2>3, <2>4, <2>5 DEF LeaseRuns, LeasedFor, LeasedAfter
<1> QED  BY <1>1, <1>11, <1>12, <1>14 DEF Parts

-----------------------------------------------------------------------------
(* Steps that change one worker w and bring requests C and replies R: what  *)
(* was there before and is not w's needs no further argument.               *)

\* What has to be shown of a request after the step.
WaitFits(d) ==
    /\ d.op = "claim" => wk'[d.by].mode = "claiming"
    /\ d.op \in {"upload", "publish"} => wk'[d.by].mode = "uploading"
    /\ d.op = "finish" => wk'[d.by].mode \in {"finishing", "declining"}
    /\ d.op = "heartbeat" => wk'[d.by].mode \in Holding
    /\ d.op \in {"upload", "publish", "heartbeat"} =>
         d.job = wk'[d.by].job /\ d.lease = wk'[d.by].lease

GrantFits(j, l) == /\ j \in Job /\ l \in 1..issued'
                   /\ jobs'[j].lease = l \/ jobs'[j].status = "deleted"

ReportFits(d) ==
    /\ \A r \in Offers' : d.lease # r.lease
    /\ \A v \in Worker : wk'[v].mode \in Unsent => d.lease # wk'[v].lease
    /\ \A e \in Finishes' : e.lease = d.lease => e.status = d.status
    /\ \A v \in Worker : wk'[v].mode = "finishing" /\ d.lease = wk'[v].lease => d.status = wk'[v].status
    /\ jobs'[d.job].result \in Worker => jobs'[d.job].status \in {d.status, "cancelled"}
    /\ d.status = "succeeded" => jobs'[d.job].artifact # Null \/ jobs'[d.job].status = "deleted"

CallFits(d) == /\ d.waits => WaitFits(d)
               /\ d.op # "claim" => GrantFits(d.job, d.lease)
               /\ d.op = "finish" => ReportFits(d)

\* Of a reply.
OfferFits(r) ==
    /\ GrantFits(r.job, r.lease)
    /\ \A v \in Worker : wk'[v].mode \in Holding => r.lease # wk'[v].lease
    /\ \A s \in Offers' : r.lease = s.lease => r = s
    /\ \A d \in Finishes' : d.lease # r.lease
    /\ jobs'[r.job].result \notin Worker
    /\ LeasedAfter(r.job, wk'[r.to].age)

ReplyFits(r) ==
    /\ r.op = "claim" => wk'[r.to].mode = "claiming"
    /\ r.op = "heartbeat" => /\ wk'[r.to].mode \in Holding
                             /\ r.job = wk'[r.to].job /\ r.lease = wk'[r.to].lease
                             /\ r.answer # "refused" /\ wk'[r.to].mode = "running" =>
                                  LeasedAfter(r.job, wk'[r.to].beat)
    /\ r \in Offers' => OfferFits(r)

\* And of a worker.
HolderFits(w) ==
    /\ wk'[w].beat <= wk'[w].age
    /\ wk'[w].mode \in Holding =>
         /\ GrantFits(wk'[w].job, wk'[w].lease)
         /\ \A v \in Worker \ {w} : Held(v) => wk[v].lease # wk'[w].lease
         /\ \A r \in Offers' : r.lease # wk'[w].lease
    /\ wk'[w].mode \in Unsent => /\ \A d \in Finishes' : d.lease # wk'[w].lease
                                 /\ jobs'[wk'[w].job].result \notin Worker
    /\ wk'[w].mode = "finishing" =>
         /\ \A d \in Finishes' : d.lease = wk'[w].lease => d.status = wk'[w].status
         /\ jobs'[wk'[w].job].result \in Worker => jobs'[wk'[w].job].status \in {wk'[w].status, "cancelled"}
         /\ wk'[w].status = "succeeded" =>
              jobs'[wk'[w].job].artifact # Null \/ jobs'[wk'[w].job].status = "deleted"
    /\ wk'[w].mode = "running" => LeasedAfter(wk'[w].job, wk'[w].age)

LEMMA CalmChange ==
  ASSUME IInv, SysTypeOK, Parts, CalmStep,
         NEW w \in Worker, NEW C, NEW R,
         \A v \in Worker \ {w} : wk'[v] = wk[v],
         \A d \in calls' : d \in C \/ \E c \in calls : Inherits(c, d),
         \A r \in replies' : r \in R \/ r \in replies,
         HolderFits(w),
         \A d \in C \cap calls' : CallFits(d),
         \A r \in R \cap replies' : ReplyFits(r),
         \/ wk'[w] = wk[w]
         \/ /\ \A d \in calls' : d.waits /\ d.by = w => WaitFits(d)
            /\ \A r \in replies' : r.to = w => ReplyFits(r)
  PROVE  Parts'
<1>1. \A v \in Worker \ {w} : wk'[v] = wk[v] /\ (Held(v)' <=> Held(v))
  BY DEF Held
<1>2. \A d \in calls' : d \notin C =>
        \E c \in calls : Inherits(c, d) /\ c.by \in Worker
  BY DEF SysTypeOK, Call
<1>3. \A r \in replies' : r \notin R => r \in replies /\ r.to \in Worker
  BY DEF SysTypeOK, Reply
<1>4. AllGranted'
  <2>1. ASSUME NEW v \in Worker, Held(v)'
        PROVE  Granted(wk[v].job, wk[v].lease)'
    <3>1. CASE v = w
      BY <2>1, <3>1 DEF HolderFits, GrantFits, Granted, Held
    <3>2. CASE v # w
      <4>1. Held(v) /\ wk'[v] = wk[v]
        BY <1>1, <2>1, <3>2
      <4>2. Granted(wk[v].job, wk[v].lease)
        BY <4>1 DEF Parts, AllGranted
      <4>3. GrantFits(wk[v].job, wk[v].lease)
        BY <4>2, CalmKeeps DEF GrantFits
      <4> QED  BY <4>1, <4>3 DEF GrantFits, Granted
    <3> QED  BY <3>1, <3>2
  <2>2. ASSUME NEW d \in calls', d.op # "claim"
        PROVE  Granted(d.job, d.lease)'
    <3>1. CASE d \in C
      BY <2>2, <3>1 DEF CallFits, GrantFits, Granted
    <3>2. CASE d \notin C
      <4>1. PICK c \in calls : d.op = c.op /\ d.job = c.job /\ d.lease = c.lease
        BY <1>2, <3>2 DEF Inherits
      <4>2. Granted(c.job, c.lease)
        BY <2>2, <4>1 DEF Parts, AllGranted
      <4>3. GrantFits(d.job, d.lease)
        BY <4>1, <4>2, CalmKeeps DEF GrantFits
      <4> QED  BY <4>3 DEF GrantFits, Granted
    <3> QED  BY <3>1, <3>2
  <2>3. ASSUME NEW r \in Offers'
        PROVE  Granted(r.job, r.lease)'
    <3>1. r \in replies'
      BY DEF Offers
    <3>2. CASE r \in R
      BY <3>1, <3>2 DEF ReplyFits, OfferFits, GrantFits, Granted
    <3>3. CASE r \notin R
      <4>1. r \in Offers
        BY <1>3, <3>1, <3>3 DEF Offers
      <4>2. GrantFits(r.job, r.lease)
        BY <4>1, CalmKeeps DEF Parts, AllGranted, GrantFits
      <4> QED  BY <4>2 DEF GrantFits, Granted
    <3> QED  BY <3>2, <3>3
  <2> QED  BY <2>1, <2>2, <2>3 DEF AllGranted
<1>5. Awaiting'
  <2>1. ASSUME NEW d \in calls', d.waits
        PROVE  WaitFits(d)
    <3>1. CASE d \in C
      BY <2>1, <3>1 DEF CallFits
    <3>2. CASE d \notin C /\ wk'[d.by] # wk[d.by]
      <4>1. d.by = w
        BY <1>1, <1>2, <3>2 DEF Inherits
      <4> QED  BY <2>1, <3>2, <4>1
    <3>3. CASE d \notin C /\ wk'[d.by] = wk[d.by]
      <4>1. d \in calls /\ d.by \in Worker
        BY <1>2, <2>1, <3>3 DEF Inherits
      <4>2. wk'[d.by] = wk[d.by]
        BY <3>3
      <4> QED  BY <2>1, <4>1, <4>2 DEF Parts, Awaiting, Held, WaitFits
    <3> QED  BY <3>1, <3>2, <3>3
  <2> QED  BY <2>1 DEF Awaiting, WaitFits, Held
<1>6. \A r \in replies' : ReplyFits(r)
  <2> SUFFICES ASSUME NEW r \in replies', r \notin R, wk'[r.to] = wk[r.to] PROVE ReplyFits(r)
    BY <1>1, <1>3
  <2>1. r \in replies /\ r.to \in Worker /\ wk'[r.to] = wk[r.to]
    BY <1>3
  <2>2. /\ wk[r.to].age \in 0..(LocalLimit + StopTime)
        /\ wk[r.to].beat \in 0..(LocalLimit + StopTime)
    BY <2>1 DEF SysTypeOK, WorkerState
  <2>3. r.op = "claim" => wk'[r.to].mode = "claiming"
    BY <2>1 DEF Parts, Answering
  <2>4. r.op = "heartbeat" => /\ wk'[r.to].mode \in Holding
                              /\ r.job = wk'[r.to].job /\ r.lease = wk'[r.to].lease
    BY <2>1 DEF Parts, Answering, Held
  <2>5. ASSUME r.op = "heartbeat", r.answer # "refused", wk'[r.to].mode = "running"
        PROVE  LeasedAfter(r.job, wk'[r.to].beat)
    <3>1. r.job \in Job /\ LeasedFor(r.job, wk[r.to].beat)
      BY <2>1, <2>4, <2>5 DEF Parts, LeaseRuns, AllGranted, Granted, Held
    <3> QED  BY <2>1, <2>2, <3>1, CalmKeeps DEF LeasedAfter
  <2>6. ASSUME r \in Offers'
        PROVE  OfferFits(r)
    <3>1. r \in Offers /\ Granted(r.job, r.lease) /\ r.job \in Job
      BY <2>1, <2>6 DEF Offers, Parts, AllGranted, Granted
    <3>2. GrantFits(r.job, r.lease)
      BY <3>1, CalmKeeps DEF GrantFits
    <3>3. \A v \in Worker : wk'[v].mode \in Holding => r.lease # wk'[v].lease
      BY <1>1, <2>6, <3>1 DEF Parts, OneHolder, Held, HolderFits
    <3>4. \A s \in Offers' : r.lease = s.lease => r = s
      <4>1. ASSUME NEW s \in Offers', r.lease = s.lease
            PROVE  r = s
        <5>1. s \in replies'
          BY DEF Offers
        <5>2. CASE s \in R
          BY <2>6, <4>1, <5>1, <5>2 DEF ReplyFits, OfferFits
        <5>3. CASE s \notin R
          <6>1. s \in Offers
            BY <1>3, <5>1, <5>3 DEF Offers
          <6> QED  BY <3>1, <4>1, <6>1 DEF Parts, OneHolder
        <5> QED  BY <5>2, <5>3
      <4> QED  BY <4>1
    <3>5. \A d \in Finishes' : d.lease # r.lease
      <4> SUFFICES ASSUME NEW d \in Finishes' PROVE d.lease # r.lease
        OBVIOUS
      <4>1. d \in calls' /\ d.op = "finish"
        BY DEF Finishes
      <4>2. CASE d \in C
        BY <2>6, <4>1, <4>2 DEF CallFits, ReportFits
      <4>3. CASE d \notin C
        <5>1. PICK c \in Finishes : d.lease = c.lease
          BY <1>2, <4>1, <4>3 DEF Inherits, Finishes
        <5> QED  BY <3>1, <5>1 DEF Parts, NotReportedYet
      <4> QED  BY <4>2, <4>3
    <3>6. jobs'[r.job].result \notin Worker
      BY <3>1, CalmKeeps DEF Parts, NotReportedYet
    <3>7. LeasedAfter(r.job, wk'[r.to].age)
      BY <2>1, <2>2, <3>1, CalmKeeps DEF Parts, LeaseRuns, LeasedAfter
    <3> QED  BY <3>2, <3>3, <3>4, <3>5, <3>6, <3>7 DEF OfferFits
  <2> QED  BY <2>3, <2>4, <2>5, <2>6 DEF ReplyFits
<1>7. Answering'
  BY <1>6 DEF Answering, ReplyFits, Held
<1>8. OneHolder'
  <2>1. \A r \in Offers' : r \in replies'
    BY DEF Offers
  <2>2. \A u, v \in Worker : Held(u)' /\ Held(v)' /\ wk'[u].lease = wk'[v].lease => u = v
    BY <1>1 DEF Parts, OneHolder, HolderFits, Held
  <2> QED  BY <1>6, <2>1, <2>2 DEF OneHolder, ReplyFits, OfferFits, Held
<1>9. \A d \in Finishes' : \/ d \in C /\ ReportFits(d)
                          \/ \E c \in Finishes : d.lease = c.lease /\ d.status = c.status /\ d.job = c.job
  BY <1>2 DEF Finishes, Inherits, CallFits
<1>10. NotReportedYet'
  <2>1. \A r \in Offers' : OfferFits(r)
    BY <1>6 DEF Offers, ReplyFits
  <2>2. ASSUME NEW d \in Finishes', NEW v \in Worker, wk'[v].mode \in Unsent
        PROVE  d.lease # wk'[v].lease
    <3>1. CASE v = w
      BY <2>2, <3>1 DEF HolderFits
    <3>2. CASE v # w
      BY <1>1, <1>9, <2>2, <3>2 DEF ReportFits, Parts, NotReportedYet
    <3> QED  BY <3>1, <3>2
  <2>3. ASSUME NEW v \in Worker, wk'[v].mode \in Unsent
        PROVE  jobs'[wk'[v].job].result \notin Worker
    <3>1. CASE v = w
      BY <2>3, <3>1 DEF HolderFits
    <3>2. CASE v # w
      <4>1. wk'[v] = wk[v] /\ wk[v].job \in Job
        BY <1>1, <2>3, <3>2 DEF Parts, AllGranted, Granted, Held, Holding, Unsent
      <4> QED  BY <2>3, <4>1, CalmKeeps DEF Parts, NotReportedYet
    <3> QED  BY <3>1, <3>2
  <2> QED  BY <2>1, <2>2, <2>3 DEF NotReportedYet, OfferFits
<1>11. ReportsAgree'
  <2>1. ASSUME NEW c \in Finishes', NEW d \in Finishes', c.lease = d.lease
        PROVE  c.status = d.status
    BY <1>9, <2>1 DEF ReportFits, Parts, ReportsAgree
  <2>2. ASSUME NEW c \in Finishes', NEW v \in Worker, wk'[v].mode = "finishing", c.lease = wk'[v].lease
        PROVE  c.status = wk'[v].status
    BY <1>1, <1>9, <2>2 DEF ReportFits, HolderFits, Parts, ReportsAgree
  <2>3. ASSUME NEW c \in Finishes', jobs'[c.job].result \in Worker
        PROVE  jobs'[c.job].status \in {c.status, "cancelled"}
    BY <1>9, <2>3, CalmKeeps DEF ReportFits, Parts, ReportsAgree, AllGranted, Granted, Finishes
  <2>4. ASSUME NEW v \in Worker, wk'[v].mode = "finishing", jobs'[wk'[v].job].result \in Worker
        PROVE  jobs'[wk'[v].job].status \in {wk'[v].status, "cancelled"}
    <3>1. CASE v = w
      BY <2>4, <3>1 DEF HolderFits
    <3>2. CASE v # w
      <4>1. wk'[v] = wk[v] /\ wk[v].job \in Job
        BY <1>1, <2>4, <3>2 DEF Parts, AllGranted, Granted, Held, Holding
      <4> QED  BY <2>4, <4>1, CalmKeeps DEF Parts, ReportsAgree
    <3> QED  BY <3>1, <3>2
  <2> QED  BY <2>1, <2>2, <2>3, <2>4 DEF ReportsAgree
<1>12. ArtifactFirst'
  <2>1. ASSUME NEW c \in Finishes', c.status = "succeeded"
        PROVE  HasArtifact(c.job)'
    BY <1>9, <2>1, CalmKeeps DEF ReportFits, Parts, ArtifactFirst, HasArtifact, AllGranted, Granted, Finishes
  <2>2. ASSUME NEW v \in Worker, wk'[v].mode = "finishing", wk'[v].status = "succeeded"
        PROVE  HasArtifact(wk[v].job)'
    <3>1. CASE v = w
      BY <2>2, <3>1 DEF HolderFits, HasArtifact
    <3>2. CASE v # w
      <4>1. wk'[v] = wk[v] /\ wk[v].job \in Job /\ HasArtifact(wk[v].job)
        BY <1>1, <2>2, <3>2 DEF Parts, AllGranted, Granted, Held, Holding, ArtifactFirst
      <4> QED  BY <4>1, CalmKeeps DEF HasArtifact
    <3> QED  BY <3>1, <3>2
  <2> QED  BY <2>1, <2>2 DEF ArtifactFirst
<1>13. LeaseRuns'
  <2>1. \A v \in Worker : wk'[v].beat <= wk'[v].age
    BY <1>1 DEF HolderFits, Parts, LeaseRuns
  <2>2. ASSUME NEW v \in Worker, wk'[v].mode = "running"
        PROVE  LeasedAfter(wk'[v].job, wk'[v].age)
    <3>1. CASE v = w
      BY <2>2, <3>1 DEF HolderFits
    <3>2. CASE v # w
      <4>1. wk'[v] = wk[v] /\ wk[v].job \in Job /\ LeasedFor(wk[v].job, wk[v].age)
        BY <1>1, <2>2, <3>2 DEF Parts, AllGranted, Granted, Held, Holding, LeaseRuns
      <4>2. wk[v].age \in 0..(LocalLimit + StopTime)
        BY DEF SysTypeOK, WorkerState
      <4> QED  BY <4>1, <4>2, CalmKeeps DEF LeasedAfter
    <3> QED  BY <3>1, <3>2
  <2>3. \A r \in Offers' : LeasedAfter(r.job, wk'[r.to].age)
    BY <1>6 DEF Offers, ReplyFits, OfferFits
  <2> QED  BY <1>6, <2>1, <2>2, <2>3 DEF LeaseRuns, LeasedFor, LeasedAfter, ReplyFits
<1> QED  BY <1>4, <1>5, <1>7, <1>8, <1>10, <1>11, <1>12, <1>13 DEF Parts

\* A worker that goes on as before.
LEMMA HolderKept ==
  ASSUME IInv, SysTypeOK, Parts, CalmStep, NEW w \in Worker, wk'[w] = wk[w],
         \A d \in Finishes' : \E c \in Finishes : d.lease = c.lease /\ d.status = c.status,
         \A r \in Offers' : Held(w) => r \in Offers \/ r.lease # wk[w].lease
  PROVE  HolderFits(w)
<1>1. wk[w].beat <= wk[w].age /\ wk[w].age \in 0..(LocalLimit + StopTime)
  BY DEF Parts, LeaseRuns, SysTypeOK, WorkerState
<1>2. ASSUME Held(w)
      PROVE  /\ GrantFits(wk[w].job, wk[w].lease)
             /\ \A v \in Worker \ {w} : Held(v) => wk[v].lease # wk[w].lease
             /\ \A r \in Offers' : r.lease # wk[w].lease
  <2>1. Granted(wk[w].job, wk[w].lease)
    BY <1>2 DEF Parts, AllGranted
  <2>2. GrantFits(wk[w].job, wk[w].lease)
    BY <2>1, CalmKeeps DEF GrantFits
  <2> QED  BY <1>2, <2>2 DEF Parts, OneHolder
<1>3. Held(w) => wk[w].job \in Job
  BY <1>2 DEF GrantFits
<1>4. ASSUME wk[w].mode \in Unsent
      PROVE  /\ \A d \in Finishes' : d.lease # wk[w].lease
             /\ jobs'[wk[w].job].result \notin Worker
  <2>1. jobs'[wk[w].job].result \notin Worker
    BY <1>3, <1>4, CalmKeeps DEF Parts, NotReportedYet, Held, Holding, Unsent
  <2> QED  BY <1>4, <2>1 DEF Parts, NotReportedYet
<1>5. ASSUME wk[w].mode = "finishing"
      PROVE  /\ \A d \in Finishes' : d.lease = wk[w].lease => d.status = wk[w].status
             /\ jobs'[wk[w].job].result \in Worker => jobs'[wk[w].job].status \in {wk[w].status, "cancelled"}
             /\ wk[w].status = "succeeded" =>
                  jobs'[wk[w].job].artifact # Null \/ jobs'[wk[w].job].status = "deleted"
  <2>1. wk[w].job \in Job
    BY <1>3, <1>5 DEF Held, Holding
  <2>2. \A d \in Finishes' : d.lease = wk[w].lease => d.status = wk[w].status
    BY <1>5 DEF Parts, ReportsAgree
  <2>3. jobs'[wk[w].job].result \in Worker => jobs'[wk[w].job].status \in {wk[w].status, "cancelled"}
    BY <1>5, <2>1, CalmKeeps DEF Parts, ReportsAgree
  <2>4. wk[w].status = "succeeded" =>
          jobs'[wk[w].job].artifact # Null \/ jobs'[wk[w].job].status = "deleted"
    BY <1>5, <2>1, CalmKeeps DEF Parts, ArtifactFirst
  <2> QED  BY <2>2, <2>3, <2>4
<1>6. ASSUME wk[w].mode = "running"
      PROVE  LeasedAfter(wk[w].job, wk[w].age)
  <2>1. wk[w].job \in Job /\ LeasedFor(wk[w].job, wk[w].age)
    BY <1>3, <1>6 DEF Held, Holding, Parts, LeaseRuns
  <2> QED  BY <1>1, <2>1, CalmKeeps DEF LeasedAfter
<1> QED  BY <1>1, <1>2, <1>4, <1>5, <1>6 DEF HolderFits, Held

-----------------------------------------------------------------------------
(* The server's side. *)

\* A transaction of somebody else.
LEMMA OthersStep ==
  ASSUME SysIInv, CalmStep, UNCHANGED <<wk, calls, replies>>
  PROVE  SysTypeOK' /\ Parts'
<1>1. SysTypeOK'
  BY DEF SysIInv, SysTypeOK
<1>2. Shrinks
  BY DEF Shrinks, AllInherit, Inherits
<1> QED  BY <1>1, <1>2, CalmShrink DEF SysIInv

\* A request whose sender does not wait, or whose reply is lost.
LEMMA NoReplyStep ==
  ASSUME SysIInv, CalmStep, NEW c, NoReply(c)
  PROVE  SysTypeOK' /\ Parts'
<1>1. SysTypeOK'
  BY DEF SysIInv, SysTypeOK, NoReply
<1>2. Shrinks
  BY DEF Shrinks, AllInherit, Inherits, NoReply
<1> QED  BY <1>1, <1>2, CalmShrink DEF SysIInv

\* A request that is answered.
LEMMA AnswerStep ==
  ASSUME SysIInv, CalmStep, NEW c \in calls, NEW r \in Reply,
         r.op = c.op, r.to = c.by, Answer(c, r.answer, r.job, r.lease),
         c.waits => ReplyFits(r)
  PROVE  SysTypeOK' /\ Parts'
<1>1. r = [op |-> c.op, to |-> c.by, answer |-> r.answer, job |-> r.job, lease |-> r.lease]
  BY DEF Reply
<1>2. /\ calls' = calls \ {c} /\ wk' = wk
      /\ replies' = IF c.waits THEN replies \cup {r} ELSE replies
  BY <1>1 DEF Answer
<1>3. CASE ~c.waits
  BY <1>2, <1>3, NoReplyStep DEF NoReply
<1>4. CASE c.waits
  <2>1. c.by \in Worker
    BY DEF SysIInv, SysTypeOK, Call
  <2>2. SysTypeOK'
    BY <1>2 DEF SysIInv, SysTypeOK
  <2>3. \A d \in calls' : d \in calls /\ Inherits(d, d)
    BY <1>2 DEF Inherits
  <2>4. \A d \in Finishes' : d \in Finishes
    BY <1>2 DEF Finishes
  <2>5. ASSUME NEW s \in Offers', Held(c.by)
        PROVE  s \in Offers
    <3>1. s = r => c.op = "claim" /\ wk[c.by].mode = "claiming"
      BY <1>4 DEF Offers, SysIInv, Parts, Awaiting
    <3> QED  BY <1>2, <1>4, <2>5, <3>1 DEF Offers, Held, Holding
  <2>6. HolderFits(c.by)
    BY <1>2, <2>1, <2>4, <2>5, HolderKept DEF SysIInv
  <2>7. Parts'
    BY <1>2, <1>4, <2>1, <2>3, <2>6, CalmChange DEF SysIInv
  <2> QED  BY <2>2, <2>7
<1> QED  BY <1>3, <1>4

-----------------------------------------------------------------------------
(* From one stage of a job to the next. *)

\* What is left when w puts a request in the place of its main one.
LEMMA SendFacts ==
  ASSUME SysTypeOK, NEW w \in Worker, NEW q \in Call, SendInstead(w, q)
  PROVE  /\ calls' \subseteq Call /\ replies' \subseteq Reply
         /\ \A d \in calls' : d # q => \E c \in calls : Inherits(c, d)
         /\ \A d \in calls' : d # q /\ d.waits /\ d.by = w => d.op = "heartbeat" /\ d \in calls
         /\ \A d \in Finishes' : d # q => \E c \in Finishes : d.lease = c.lease /\ d.status = c.status
         /\ replies' \subseteq replies
         /\ \A r \in replies' : r.to = w => r.op = "heartbeat"
         /\ Offers' \subseteq Offers
<1>1. /\ calls' \subseteq Call
      /\ \A d \in calls' : \/ d \in {q}
                           \/ /\ \E c \in calls : Inherits(c, d)
                              /\ ~(d.waits /\ d.by = w /\ d.op \in Main)
      /\ replies' \subseteq replies
      /\ \A r \in replies' : ~(r.to = w /\ r.op \in Main)
  BY SwapFacts DEF SendInstead
<1>2. \A d \in Call : d.op \in Main \cup {"heartbeat"}
  BY DEF Call, Main
<1>3. \A r \in Reply : r.op \in Main \cup {"heartbeat"}
  BY DEF Reply, Main
<1>4. replies' \subseteq Reply
  BY <1>1 DEF SysTypeOK
<1>5. \A d \in calls' : d # q /\ d.waits /\ d.by = w => d.op = "heartbeat" /\ d \in calls
  BY <1>1, <1>2 DEF Inherits
<1>6. \A r \in replies' : r.to = w => r.op = "heartbeat"
  BY <1>1, <1>3, <1>4
<1>7. \A d \in Finishes' : d # q => \E c \in Finishes : d.lease = c.lease /\ d.status = c.status
  BY <1>1 DEF Finishes, Inherits
<1> QED  BY <1>1, <1>4, <1>5, <1>6, <1>7 DEF Offers

\* A step of w that ends in such a request.
LEMMA SendStep ==
  ASSUME SysIInv, CalmStep, NEW w \in Worker, NEW q \in Call, q.by = w, SendInstead(w, q),
         wk' \in [Worker -> WorkerState], \A v \in Worker \ {w} : wk'[v] = wk[v],
         Held(w) => /\ wk'[w].mode \in Holding \ {"running"}
                    /\ wk'[w].job = wk[w].job /\ wk'[w].lease = wk[w].lease,
         HolderFits(w), CallFits(q)
  PROVE  SysTypeOK' /\ Parts'
<1>1. SysTypeOK'
  BY SendFacts DEF SysIInv, SysTypeOK
<1>2. \A d \in calls' : d.waits /\ d.by = w => WaitFits(d)
  <2> SUFFICES ASSUME NEW d \in calls', d.waits, d.by = w, d # q PROVE WaitFits(d)
    BY DEF CallFits
  <2>1. d.op = "heartbeat" /\ d \in calls
    BY SendFacts DEF SysIInv
  <2> QED  BY <2>1 DEF SysIInv, Parts, Awaiting, WaitFits
<1>3. \A r \in replies' : r.to = w => ReplyFits(r)
  <2> SUFFICES ASSUME NEW r \in replies', r.to = w PROVE ReplyFits(r)
    OBVIOUS
  <2>1. r.op = "heartbeat" /\ r \in replies
    BY SendFacts DEF SysIInv
  <2> QED  BY <2>1 DEF SysIInv, Parts, Answering, ReplyFits, Offers
<1>4. \A d \in calls' : d \in {q} \/ \E c \in calls : Inherits(c, d)
  BY SendFacts DEF SysIInv
<1>5. \A r \in replies' : r \in {} \/ r \in replies
  BY SendFacts DEF SysIInv
<1>6. (\A d \in {q} \cap calls' : CallFits(d)) /\ (\A r \in {} \cap replies' : ReplyFits(r))
  OBVIOUS
<1>7. Parts'
  BY <1>2, <1>3, <1>4, <1>5, <1>6, CalmChange DEF SysIInv
<1> QED  BY <1>1, <1>7

\* What is known of a worker with a job, when nobody is offered another.
LEMMA HolderFacts ==
  ASSUME SysIInv, CalmStep, NEW w \in Worker, Held(w), Offers' \subseteq Offers
  PROVE  /\ wk \in [Worker -> WorkerState] /\ wk[w] \in WorkerState
         /\ wk[w].job \in Job /\ wk[w].beat <= wk[w].age
         /\ GrantFits(wk[w].job, wk[w].lease)
         /\ \A v \in Worker \ {w} : Held(v) => wk[v].lease # wk[w].lease
         /\ \A r \in Offers' : r.lease # wk[w].lease
         /\ wk[w].mode = "running" => LeasedAfter(wk[w].job, wk[w].age)
<1>1. wk \in [Worker -> WorkerState] /\ wk[w] \in WorkerState /\ Granted(wk[w].job, wk[w].lease)
  BY DEF SysIInv, SysTypeOK, Parts, AllGranted
<1>2. GrantFits(wk[w].job, wk[w].lease) /\ wk[w].job \in Job
  BY <1>1, CalmKeeps DEF GrantFits, SysIInv, Granted
<1>3. wk[w].mode = "running" => LeasedAfter(wk[w].job, wk[w].age)
  <2>1. wk[w].age \in 0..(LocalLimit + StopTime)
    BY <1>1 DEF WorkerState
  <2>2. wk[w].mode = "running" => LeasedFor(wk[w].job, wk[w].age)
    BY DEF SysIInv, Parts, LeaseRuns
  <2> QED  BY <1>2, <2>1, <2>2, CalmKeeps DEF LeasedAfter, SysIInv
<1> QED  BY <1>1, <1>2, <1>3 DEF SysIInv, Parts, OneHolder, LeaseRuns

LEMMA ReportStep ==
  ASSUME SysIInv, CalmStep, NEW w \in Worker, wk[w].mode \in Unsent,
         NEW status \in FinalStatus, Report(w, status),
         status = "succeeded" => jobs'[wk[w].job].artifact # Null \/ jobs'[wk[w].job].status = "deleted"
  PROVE  SysTypeOK' /\ Parts'
<1> DEFINE q == Request(w, "finish", wk[w].job, wk[w].lease, status)
<1>1. Held(w) /\ wk[w] \in WorkerState /\ wk \in [Worker -> WorkerState] /\ wk[w].job \in Job
  BY DEF SysIInv, SysTypeOK, Parts, AllGranted, Granted, Held, Holding, Unsent
<1>2. /\ wk'[w] = [wk[w] EXCEPT !.mode = "finishing", !.status = status]
      /\ wk'[w] \in WorkerState
      /\ wk' \in [Worker -> WorkerState]
      /\ \A v \in Worker \ {w} : wk'[v] = wk[v]
  BY <1>1 DEF Report, WorkerState, Mode
<1>3. /\ wk'[w].mode = "finishing" /\ wk'[w].status = status
      /\ wk'[w].job = wk[w].job /\ wk'[w].lease = wk[w].lease
      /\ wk'[w].age = wk[w].age /\ wk'[w].beat = wk[w].beat
  BY <1>1, <1>2 DEF WorkerState
<1>4. /\ q \in Call /\ q.op = "finish" /\ q.by = w /\ q.job = wk[w].job
      /\ q.lease = wk[w].lease /\ q.status = status
  BY <1>1 DEF Request, Call, WorkerState
<1>5. SendInstead(w, q)
  BY DEF Report
<1> HIDE DEF q
<1>6. Offers' \subseteq Offers
  BY <1>4, <1>5, SendFacts DEF SysIInv
<1>7. \A d \in Finishes' : d.lease = wk[w].lease => d = q
  BY <1>4, <1>5, SendFacts DEF SysIInv, Parts, NotReportedYet
<1>8. jobs'[wk[w].job].result \notin Worker
  BY <1>1, CalmKeeps DEF SysIInv, Parts, NotReportedYet
<1>9. HolderFits(w)
  BY <1>1, <1>3, <1>4, <1>6, <1>7, <1>8, HolderFacts DEF HolderFits, Unsent
<1>10. ReportFits(q)
  <2>1. \A v \in Worker : wk'[v].mode \in Holding /\ wk'[v].lease = wk[w].lease => v = w
    BY <1>1, <1>2, <1>6, HolderFacts DEF Held
  <2>2. \A r \in Offers' : r.lease # wk[w].lease
    BY <1>1, <1>6, HolderFacts
  <2> QED  BY <1>3, <1>4, <1>7, <1>8, <2>1, <2>2 DEF ReportFits, Unsent, Holding
<1>11. CallFits(q)
  BY <1>1, <1>3, <1>4, <1>6, <1>10, HolderFacts DEF CallFits, WaitFits
<1> QED  BY <1>1, <1>2, <1>3, <1>4, <1>5, <1>9, <1>11, SendStep DEF Holding

LEMMA UploadStep ==
  ASSUME SysIInv, CalmStep, NEW w \in Worker, wk[w].mode = "running",
         NEW status \in FinalStatus, Upload(w, status)
  PROVE  SysTypeOK' /\ Parts'
<1> DEFINE q == Request(w, "upload", wk[w].job, wk[w].lease, status)
<1>1. Held(w) /\ wk[w] \in WorkerState /\ wk \in [Worker -> WorkerState] /\ wk[w].job \in Job
  BY DEF SysIInv, SysTypeOK, Parts, AllGranted, Granted, Held, Holding
<1>2. /\ wk'[w] = [wk[w] EXCEPT !.mode = "uploading", !.status = status]
      /\ wk'[w] \in WorkerState
      /\ wk' \in [Worker -> WorkerState]
      /\ \A v \in Worker \ {w} : wk'[v] = wk[v]
  BY <1>1 DEF Upload, WorkerState, Mode
<1>3. /\ wk'[w].mode = "uploading"
      /\ wk'[w].job = wk[w].job /\ wk'[w].lease = wk[w].lease
      /\ wk'[w].age = wk[w].age /\ wk'[w].beat = wk[w].beat
  BY <1>1, <1>2 DEF WorkerState
<1>4. /\ q \in Call /\ q.op = "upload" /\ q.by = w /\ q.job = wk[w].job /\ q.lease = wk[w].lease
  BY <1>1 DEF Request, Call, WorkerState
<1>5. SendInstead(w, q)
  BY DEF Upload
<1> HIDE DEF q
<1>6. Offers' \subseteq Offers
  BY <1>4, <1>5, SendFacts DEF SysIInv
<1>7. \A d \in Finishes' : d.lease # wk[w].lease
  <2>1. \A d \in Finishes' : d # q
    BY <1>4 DEF Finishes
  <2> QED  BY <1>4, <1>5, <2>1, SendFacts DEF SysIInv, Parts, NotReportedYet, Unsent
<1>8. jobs'[wk[w].job].result \notin Worker
  BY <1>1, CalmKeeps DEF SysIInv, Parts, NotReportedYet, Unsent
<1>9. HolderFits(w)
  BY <1>1, <1>3, <1>6, <1>7, <1>8, HolderFacts DEF HolderFits
<1>10. CallFits(q)
  BY <1>1, <1>3, <1>4, <1>6, HolderFacts DEF CallFits, WaitFits
<1> QED  BY <1>2, <1>3, <1>4, <1>5, <1>9, <1>10, SendStep DEF Holding

LEMMA RetryStep ==
  ASSUME SysIInv, NEW w \in Worker, Retry(w)
  PROVE  SysTypeOK' /\ Parts'
<1> DEFINE op == IF wk[w].mode = "uploading" THEN "upload" ELSE "finish"
           q  == Request(w, op, wk[w].job, wk[w].lease, wk[w].status)
<1>1. /\ Held(w) /\ wk[w] \in WorkerState /\ wk' \in [Worker -> WorkerState] /\ wk[w].job \in Job
      /\ wk[w].mode \in {"uploading", "finishing"} /\ wk' = wk
  BY DEF Retry, SysIInv, SysTypeOK, Parts, AllGranted, Granted, Held, Holding
<1>2. /\ q \in Call /\ q.by = w /\ q.job = wk[w].job
      /\ q.lease = wk[w].lease /\ q.status = wk[w].status
      /\ q.op \in {"upload", "finish"} /\ (q.op = "upload" <=> wk[w].mode = "uploading")
  BY <1>1 DEF Request, Call, WorkerState
<1>3. SendInstead(w, q) /\ CalmStep
  BY UnchangedCalm DEF Retry, SysIInv
<1> HIDE DEF q
<1>4. Offers' \subseteq Offers
  BY <1>2, <1>3, SendFacts DEF SysIInv
<1>5. wk[w].mode = "uploading" => \A d \in Finishes' : d.lease # wk[w].lease
  BY <1>2, <1>3, SendFacts DEF SysIInv, Parts, NotReportedYet, Unsent, Finishes
<1>6. wk[w].mode = "uploading" => jobs'[wk[w].job].result \notin Worker
  BY <1>1, <1>3, CalmKeeps DEF SysIInv, Parts, NotReportedYet, Unsent
<1>7. ASSUME wk[w].mode = "finishing"
      PROVE  /\ \A d \in Finishes' : d.lease = wk[w].lease => d.status = wk[w].status
             /\ jobs'[wk[w].job].result \in Worker => jobs'[wk[w].job].status \in {wk[w].status, "cancelled"}
             /\ wk[w].status = "succeeded" =>
                  jobs'[wk[w].job].artifact # Null \/ jobs'[wk[w].job].status = "deleted"
  <2>1. \A d \in Finishes' : d.lease = wk[w].lease => d.status = wk[w].status
    BY <1>2, <1>3, <1>7, SendFacts DEF SysIInv, Parts, ReportsAgree
  <2>2. jobs'[wk[w].job].result \in Worker => jobs'[wk[w].job].status \in {wk[w].status, "cancelled"}
    BY <1>1, <1>3, <1>7, CalmKeeps DEF SysIInv, Parts, ReportsAgree
  <2>3. wk[w].status = "succeeded" =>
          jobs'[wk[w].job].artifact # Null \/ jobs'[wk[w].job].status = "deleted"
    BY <1>1, <1>3, <1>7, CalmKeeps DEF SysIInv, Parts, ArtifactFirst
  <2> QED  BY <2>1, <2>2, <2>3
<1>8. HolderFits(w)
  BY <1>1, <1>3, <1>4, <1>5, <1>6, <1>7, HolderFacts DEF HolderFits, Unsent
<1>9. q.op = "finish" => ReportFits(q)
  <2> SUFFICES ASSUME wk[w].mode = "finishing" PROVE ReportFits(q)
    BY <1>1, <1>2
  <2>1. \A v \in Worker : wk[v].mode \in Holding /\ wk[v].lease = wk[w].lease => v = w
    BY <1>1, <1>3, <1>4, HolderFacts DEF Held
  <2>2. \A r \in Offers' : r.lease # wk[w].lease
    BY <1>1, <1>3, <1>4, HolderFacts
  <2>3. \A v \in Worker : wk[v].mode \in Unsent => wk[w].lease # wk[v].lease
    BY <2>1 DEF Unsent, Holding
  <2>4. \A v \in Worker : wk[v].mode = "finishing" /\ wk[w].lease = wk[v].lease => wk[w].status = wk[v].status
    BY <2>1 DEF Holding
  <2> QED  BY <1>1, <1>2, <1>7, <2>2, <2>3, <2>4 DEF ReportFits
<1>10. CallFits(q)
  BY <1>1, <1>2, <1>3, <1>4, <1>9, HolderFacts DEF CallFits, WaitFits
<1> QED  BY <1>1, <1>2, <1>3, <1>8, <1>10, SendStep DEF Holding

\* What is known of the job a worker is offered.
LEMMA OfferFacts ==
  ASSUME SysIInv, CalmStep, NEW w \in Worker, NEW r \in Offers, r.to = w,
         Offers' \subseteq Offers, \A s \in Offers' : s.to # w
  PROVE  /\ wk \in [Worker -> WorkerState] /\ wk[w] \in WorkerState /\ wk[w].mode = "claiming"
         /\ r.job \in Job /\ r.lease \in Nat /\ GrantFits(r.job, r.lease)
         /\ \A v \in Worker : Held(v) => wk[v].lease # r.lease
         /\ \A s \in Offers' : s.lease # r.lease
         /\ \A c \in Finishes : c.lease # r.lease
         /\ jobs'[r.job].result \notin Worker
         /\ LeasedAfter(r.job, wk[w].age) /\ wk[w].beat <= wk[w].age
<1>1. wk \in [Worker -> WorkerState] /\ wk[w] \in WorkerState /\ r \in Reply /\ wk[w].mode = "claiming"
  BY DEF SysIInv, SysTypeOK, Offers, Parts, Answering
<1>2. Granted(r.job, r.lease) /\ r.job \in Job /\ r.lease \in Nat
  BY <1>1 DEF SysIInv, Parts, AllGranted, Granted, Reply
<1>3. GrantFits(r.job, r.lease)
  BY <1>2, CalmKeeps DEF GrantFits, SysIInv
<1>4. jobs'[r.job].result \notin Worker
  BY <1>2, CalmKeeps DEF SysIInv, Parts, NotReportedYet
<1>5. LeasedAfter(r.job, wk[w].age)
  <2>1. wk[w].age \in 0..(LocalLimit + StopTime) /\ LeasedFor(r.job, wk[w].age)
    BY <1>1 DEF WorkerState, SysIInv, Parts, LeaseRuns
  <2> QED  BY <1>2, <2>1, CalmKeeps DEF LeasedAfter, SysIInv
<1>6. /\ \A v \in Worker : Held(v) => wk[v].lease # r.lease
      /\ \A s \in Offers' : s.lease # r.lease
      /\ \A c \in Finishes : c.lease # r.lease
  BY DEF SysIInv, Parts, OneHolder, NotReportedYet
<1> QED  BY <1>1, <1>2, <1>3, <1>4, <1>5, <1>6 DEF SysIInv, Parts, LeaseRuns

LEMMA DeclineStep ==
  ASSUME SysIInv, CalmStep, NEW w \in Worker, NEW r \in replies, r.to = w, r.op = "claim", Decline(w, r)
  PROVE  SysTypeOK' /\ Parts'
<1> DEFINE q == Request(w, "finish", r.job, r.lease, "cancelled")
<1>1. /\ r \in Offers /\ wk[w] \in WorkerState /\ wk \in [Worker -> WorkerState]
      /\ r.job \in Job \cup {Null} /\ r.lease \in Nat /\ wk[w].mode = "claiming"
  BY DEF Decline, Offers, SysIInv, SysTypeOK, Reply, Parts, Answering
<1>2. /\ wk'[w] = [wk[w] EXCEPT !.mode = "declining"]
      /\ wk'[w] \in WorkerState
      /\ wk' \in [Worker -> WorkerState]
      /\ \A v \in Worker \ {w} : wk'[v] = wk[v]
  BY <1>1 DEF Decline, WorkerState, Mode
<1>3. /\ wk'[w].mode = "declining"
      /\ wk'[w].age = wk[w].age /\ wk'[w].beat = wk[w].beat
  BY <1>1, <1>2 DEF WorkerState
<1>4. /\ q \in Call /\ q.op = "finish" /\ q.by = w /\ q.job = r.job
      /\ q.lease = r.lease /\ q.status = "cancelled"
  BY <1>1 DEF Request, Call, FinalStatus
<1>5. SendInstead(w, q)
  BY DEF Decline
<1> HIDE DEF q
<1>6. Offers' \subseteq Offers /\ \A s \in Offers' : s.to # w
  BY <1>4, <1>5, SendFacts DEF SysIInv, Offers
<1>7. \A d \in Finishes' : d.lease = r.lease => d = q
  BY <1>1, <1>4, <1>5, <1>6, OfferFacts, SendFacts DEF SysIInv
<1>8. HolderFits(w)
  BY <1>1, <1>3, <1>6, OfferFacts DEF HolderFits, Holding, Unsent
<1>9. ReportFits(q)
  <2>1. \A v \in Worker : wk'[v].mode \in Holding => wk'[v].lease # r.lease
    <3> SUFFICES ASSUME NEW v \in Worker, wk'[v].mode \in Holding PROVE wk'[v].lease # r.lease
      OBVIOUS
    <3>1. v # w /\ wk'[v] = wk[v]
      BY <1>2, <1>3 DEF Holding
    <3> QED  BY <1>1, <1>6, <3>1, OfferFacts DEF Held
  <2>2. jobs'[r.job].result \notin Worker /\ \A s \in Offers' : s.lease # r.lease
    BY <1>1, <1>6, OfferFacts
  <2> QED  BY <1>4, <1>7, <2>1, <2>2 DEF ReportFits, Holding, Unsent
<1>10. CallFits(q)
  BY <1>1, <1>3, <1>4, <1>6, <1>9, OfferFacts DEF CallFits, WaitFits
<1> QED  BY <1>1, <1>2, <1>4, <1>5, <1>8, <1>10, SendStep DEF Held, Holding

LEMMA StartStep ==
  ASSUME SysIInv, CalmStep, NEW w \in Worker, NEW r \in replies, r.to = w, r.op = "claim", Start(w, r)
  PROVE  SysTypeOK' /\ Parts'
<1>1. /\ r \in Offers /\ wk[w] \in WorkerState /\ wk \in [Worker -> WorkerState]
      /\ r.job \in Job \cup {Null} /\ r.lease \in Nat /\ wk[w].mode = "claiming"
  BY DEF Start, Offers, SysIInv, SysTypeOK, Reply, Parts, Answering
<1>2. /\ wk'[w] = [wk[w] EXCEPT !.mode = "running", !.job = r.job, !.lease = r.lease]
      /\ wk'[w] \in WorkerState
      /\ wk' \in [Worker -> WorkerState]
      /\ \A v \in Worker \ {w} : wk'[v] = wk[v]
  BY <1>1 DEF Start, WorkerState, Mode
<1>3. /\ wk'[w].mode = "running" /\ wk'[w].job = r.job /\ wk'[w].lease = r.lease
      /\ wk'[w].age = wk[w].age /\ wk'[w].beat = wk[w].beat
  BY <1>1, <1>2 DEF WorkerState
<1>4. /\ calls' \subseteq Call
      /\ \A d \in calls' : /\ \E c \in calls : Inherits(c, d)
                           /\ ~(d.waits /\ d.by = w /\ d.op \in Main)
      /\ replies' \subseteq replies
      /\ \A s \in replies' : ~(s.to = w /\ s.op \in Main)
  <2>1. SwapFor(w, Main, {}) /\ {} \in SUBSET Call
    BY DEF Start, HangUp
  <2> QED  BY <2>1, SwapFacts DEF SysIInv
<1>5. SysTypeOK'
  BY <1>2, <1>4 DEF SysIInv, SysTypeOK
<1>6. Offers' \subseteq Offers /\ \A s \in Offers' : s.to # w
  BY <1>4 DEF Offers, Main
<1>7. \A d \in Finishes' : \E c \in Finishes : d.lease = c.lease
  BY <1>4 DEF Finishes, Inherits
<1>8. HolderFits(w)
  BY <1>1, <1>3, <1>6, <1>7, OfferFacts DEF HolderFits, Holding, Unsent
<1>9. \A d \in calls' : ~(d.waits /\ d.by = w)
  BY <1>1, <1>4 DEF Inherits, SysIInv, SysTypeOK, Call, Main, Parts, Awaiting, Held, Holding
<1>10. \A s \in replies' : s.to # w
  BY <1>1, <1>4 DEF SysIInv, SysTypeOK, Reply, Main, Parts, Answering, Held, Holding
<1>11. Parts'
  <2>1. \A d \in calls' : d \in {} \/ \E c \in calls : Inherits(c, d)
    BY <1>4
  <2>2. \A s \in replies' : s \in {} \/ s \in replies
    BY <1>4
  <2>3. (\A d \in {} \cap calls' : CallFits(d)) /\ (\A s \in {} \cap replies' : ReplyFits(s))
    OBVIOUS
  <2>4. /\ \A d \in calls' : d.waits /\ d.by = w => WaitFits(d)
        /\ \A s \in replies' : s.to = w => ReplyFits(s)
    BY <1>9, <1>10
  <2> QED  BY <1>2, <1>8, <2>1, <2>2, <2>3, <2>4, CalmChange DEF SysIInv
<1> QED  BY <1>5, <1>11

-----------------------------------------------------------------------------
(* Letting go of a job, or of requests. *)

LEMMA FreeShrinks ==
  ASSUME SysIInv, NEW w \in Worker, NEW ops, HangUp(w, ops),
         wk' = [wk EXCEPT ![w] = Free("idle")],
         Main \subseteq ops, Beats \subseteq ops \/ ~Held(w)
  PROVE  SysTypeOK' /\ Shrinks
<1>1. /\ calls' \subseteq Call
      /\ \A d \in calls' : /\ \E c \in calls : Inherits(c, d)
                           /\ ~(d.waits /\ d.by = w /\ d.op \in ops)
      /\ replies' \subseteq replies
      /\ \A s \in replies' : ~(s.to = w /\ s.op \in ops)
  <2>1. SwapFor(w, ops, {}) /\ {} \in SUBSET Call
    BY DEF HangUp
  <2> QED  BY <2>1, SwapFacts DEF SysIInv
<1>2. Free("idle") \in WorkerState
  BY FreeFacts DEF Mode
<1>3. SysTypeOK'
  BY <1>1, <1>2 DEF SysIInv, SysTypeOK
<1>4. \A d \in calls' : ~(d.waits /\ d.by = w)
  BY <1>1 DEF Inherits, SysIInv, SysTypeOK, Call, Main, Beats, Parts, Awaiting
<1>5. \A s \in replies' : s.to # w
  BY <1>1 DEF SysIInv, SysTypeOK, Reply, Main, Beats, Parts, Answering
<1>6. \A v \in Worker : wk'[v] = IF v = w THEN Free("idle") ELSE wk[v]
  BY DEF SysIInv, SysTypeOK
<1> QED  BY <1>1, <1>3, <1>4, <1>5, <1>6 DEF Shrinks, AllInherit

LEMMA LeaveShrinks ==
  ASSUME SysIInv, NEW w \in Worker, Leave(w)
  PROVE  SysTypeOK' /\ Shrinks
BY FreeShrinks DEF Leave

LEMMA NoAnswerShrinks ==
  ASSUME SysIInv, NEW c, NoReply(c)
  PROVE  SysTypeOK' /\ Shrinks
BY DEF SysIInv, SysTypeOK, Shrinks, AllInherit, Inherits, NoReply

LEMMA BeatFailsStep ==
  ASSUME SysIInv, NEW w \in Worker, BeatFails(w)
  PROVE  SysTypeOK' /\ Parts'
<1>1. SwapFor(w, Beats, {}) /\ {} \in SUBSET Call /\ wk' = wk /\ CalmStep
  BY UnchangedCalm DEF BeatFails, HangUp, SysIInv
<1>2. /\ calls' \subseteq Call
      /\ \A d \in calls' : \E c \in calls : Inherits(c, d)
      /\ replies' \subseteq replies
  BY <1>1, SwapFacts DEF SysIInv
<1>3. SysTypeOK' /\ Shrinks
  BY <1>1, <1>2 DEF SysIInv, SysTypeOK, Shrinks, AllInherit
<1> QED  BY <1>1, <1>3, CalmShrink DEF SysIInv

-----------------------------------------------------------------------------
(* The lease thread and the watchdog. *)

LEMMA SendClaimStep ==
  ASSUME SysIInv, NEW w \in Worker, SendClaim(w)
  PROVE  SysTypeOK' /\ Parts'
<1> DEFINE q == Request(w, "claim", Null, 0, "failed")
<1>1. /\ wk[w].mode = "idle" /\ calls' = calls \cup {q} /\ replies' = replies /\ CalmStep
      /\ wk' = [wk EXCEPT ![w] = Free("claiming")] /\ wk \in [Worker -> WorkerState]
  BY UnchangedCalm DEF SendClaim, SysIInv, SysTypeOK
<1>2. /\ wk' \in [Worker -> WorkerState]
      /\ wk'[w].mode = "claiming" /\ wk'[w].age = 0 /\ wk'[w].beat = 0
      /\ \A v \in Worker \ {w} : wk'[v] = wk[v]
  BY <1>1, FreeFacts DEF Mode
<1>3. q \in Call /\ q.op = "claim" /\ q.by = w
  BY DEF Request, Call, FinalStatus
<1> HIDE DEF q
<1>4. SysTypeOK'
  BY <1>1, <1>2, <1>3 DEF SysIInv, SysTypeOK
<1>5. HolderFits(w)
  BY <1>2 DEF HolderFits, Holding, Unsent
<1>6. CallFits(q)
  BY <1>2, <1>3 DEF CallFits, WaitFits
<1>7. \A d \in calls : d.waits => d.by # w
  BY <1>1 DEF SysIInv, SysTypeOK, Call, Parts, Awaiting, Held, Holding
<1>8. \A r \in replies : r.to # w
  BY <1>1 DEF SysIInv, SysTypeOK, Reply, Parts, Answering, Held, Holding
<1>9. Parts'
  <2>1. \A d \in calls' : d \in {q} \/ \E c \in calls : Inherits(c, d)
    BY <1>1 DEF Inherits
  <2>2. \A r \in replies' : r \in {} \/ r \in replies
    BY <1>1
  <2>3. (\A d \in {q} \cap calls' : CallFits(d)) /\ (\A r \in {} \cap replies' : ReplyFits(r))
    BY <1>6
  <2>4. /\ \A d \in calls' : d.waits /\ d.by = w => WaitFits(d)
        /\ \A r \in replies' : r.to = w => ReplyFits(r)
    BY <1>1, <1>3, <1>6, <1>7, <1>8 DEF CallFits
  <2> QED  BY <1>1, <1>2, <1>5, <2>1, <2>2, <2>3, <2>4, CalmChange DEF SysIInv
<1> QED  BY <1>4, <1>9

\* A worker whose clocks or cancel event change, and that sends nothing of
\* its main thread: w's heartbeats are new, or were not about.
LEMMA LeaseThreadStep ==
  ASSUME SysIInv, CalmStep, NEW w \in Worker, Held(w),
         wk' \in [Worker -> WorkerState], \A v \in Worker \ {w} : wk'[v] = wk[v],
         wk'[w].mode = wk[w].mode, wk'[w].job = wk[w].job, wk'[w].lease = wk[w].lease,
         wk'[w].status = wk[w].status, wk'[w].beat <= wk'[w].age,
         wk[w].mode = "running" => LeasedAfter(wk[w].job, wk'[w].age),
         calls' \subseteq Call, replies' \subseteq replies,
         NEW C, \A d \in calls' : d \in C \/ \E c \in calls : Inherits(c, d),
         \A d \in C \cap calls' : d.op = "heartbeat" /\ d.by = w /\ d.job = wk[w].job /\ d.lease = wk[w].lease,
         \/ wk'[w].beat = wk[w].beat
         \/ \A r \in replies' : r.to = w => r.op # "heartbeat"
  PROVE  SysTypeOK' /\ Parts'
<1>1. SysTypeOK'
  BY DEF SysIInv, SysTypeOK
<1>2. Offers' \subseteq Offers
  BY DEF Offers
<1>3. \A d \in Finishes' : \E c \in Finishes : d.lease = c.lease /\ d.status = c.status
  BY DEF Finishes, Inherits
<1>4. GrantFits(wk[w].job, wk[w].lease) /\ wk[w].job \in Job
  BY <1>2, HolderFacts
<1>5. HolderFits(w)
  <2>1. wk[w].mode \in Unsent => /\ \A d \in Finishes' : d.lease # wk[w].lease
                                /\ jobs'[wk[w].job].result \notin Worker
    BY <1>3, <1>4, CalmKeeps DEF SysIInv, Parts, NotReportedYet
  <2>2. wk[w].mode = "finishing" =>
          /\ \A d \in Finishes' : d.lease = wk[w].lease => d.status = wk[w].status
          /\ jobs'[wk[w].job].result \in Worker => jobs'[wk[w].job].status \in {wk[w].status, "cancelled"}
    BY <1>3, <1>4, CalmKeeps DEF SysIInv, Parts, ReportsAgree
  <2>3. wk[w].mode = "finishing" /\ wk[w].status = "succeeded" =>
          jobs'[wk[w].job].artifact # Null \/ jobs'[wk[w].job].status = "deleted"
    BY <1>4, CalmKeeps DEF SysIInv, Parts, ArtifactFirst
  <2> QED  BY <1>2, <1>4, <2>1, <2>2, <2>3, HolderFacts DEF HolderFits
<1>6. \A d \in C \cap calls' : CallFits(d)
  BY <1>4 DEF CallFits, WaitFits, Held
<1>7. \A d \in calls' : d.waits /\ d.by = w => WaitFits(d)
  <2> SUFFICES ASSUME NEW d \in calls', d.waits, d.by = w, d \notin C PROVE WaitFits(d)
    BY <1>6 DEF CallFits
  <2>1. d \in calls
    BY DEF Inherits
  <2> QED  BY <2>1 DEF SysIInv, Parts, Awaiting, WaitFits, Held
<1>8. \A r \in replies' : r.to = w => ReplyFits(r)
  <2> SUFFICES ASSUME NEW r \in replies', r.to = w PROVE ReplyFits(r)
    OBVIOUS
  <2>1. r \in replies /\ r.op # "claim" /\ r \notin Offers'
    BY DEF SysIInv, Parts, Answering, Offers, Held, Holding
  <2>2. r.op = "heartbeat" => Held(w) /\ r.job = wk[w].job /\ r.lease = wk[w].lease
    BY <2>1 DEF SysIInv, Parts, Answering
  <2>3. ASSUME r.op = "heartbeat", r.answer # "refused", wk[w].mode = "running"
        PROVE  LeasedAfter(r.job, wk'[w].beat)
    <3>1. wk'[w].beat = wk[w].beat /\ LeasedFor(r.job, wk[w].beat) /\ r.job \in Job
      BY <1>4, <2>1, <2>2, <2>3 DEF SysIInv, Parts, LeaseRuns
    <3>2. wk[w].beat \in 0..(LocalLimit + StopTime)
      BY DEF SysIInv, SysTypeOK, WorkerState
    <3> QED  BY <3>1, <3>2, CalmKeeps DEF LeasedAfter, SysIInv
  <2> QED  BY <2>1, <2>2, <2>3 DEF ReplyFits, Held
<1>9. Parts'
  <2>1. \A d \in calls' : d \in C \/ \E c \in calls : Inherits(c, d)
    OBVIOUS
  <2>2. \A r \in replies' : r \in {} \/ r \in replies
    OBVIOUS
  <2>3. (\A d \in C \cap calls' : CallFits(d)) /\ (\A r \in {} \cap replies' : ReplyFits(r))
    BY <1>6
  <2> QED  BY <1>5, <1>7, <1>8, <2>1, <2>2, <2>3, CalmChange DEF SysIInv
<1> QED  BY <1>1, <1>9

LEMMA BeatStep ==
  ASSUME SysIInv, NEW w \in Worker, Beat(w)
  PROVE  SysTypeOK' /\ Parts'
<1> DEFINE q == Request(w, "heartbeat", wk[w].job, wk[w].lease, "failed")
<1>1. /\ Held(w) /\ CalmStep /\ calls' = calls \cup {q} /\ replies' = replies
      /\ wk' = [wk EXCEPT ![w].beat = 0]
      /\ \A r \in replies : r.to = w => r.op # "heartbeat"
      /\ wk \in [Worker -> WorkerState] /\ wk[w] \in WorkerState
  BY UnchangedCalm DEF Beat, Beating, SysIInv, SysTypeOK, Held
<1>2. /\ wk' \in [Worker -> WorkerState]
      /\ \A v \in Worker \ {w} : wk'[v] = wk[v]
      /\ wk'[w].mode = wk[w].mode /\ wk'[w].job = wk[w].job /\ wk'[w].lease = wk[w].lease
      /\ wk'[w].status = wk[w].status /\ wk'[w].beat = 0 /\ wk'[w].age = wk[w].age
  BY <1>1, LocalAssumption DEF WorkerState
<1>3. wk'[w].beat <= wk'[w].age
  BY <1>1, <1>2, LocalAssumption DEF WorkerState
<1>4. /\ q \in Call /\ q.op = "heartbeat" /\ q.by = w /\ q.job = wk[w].job /\ q.lease = wk[w].lease
  BY <1>1 DEF Request, Call, WorkerState, FinalStatus
<1> HIDE DEF q
<1>5. \A d \in calls' : d \in {q} \/ \E c \in calls : Inherits(c, d)
  <2>1. \A d \in calls : Inherits(d, d)
    BY DEF Inherits
  <2> QED  BY <1>1, <1>4, <2>1
<1>6. wk[w].mode = "running" => LeasedAfter(wk[w].job, wk'[w].age)
  BY <1>1, <1>2, HolderFacts DEF Offers
<1>7. calls' \subseteq Call /\ replies' \subseteq replies
  BY <1>1, <1>4 DEF SysIInv, SysTypeOK
<1>8. \A d \in {q} \cap calls' : d.op = "heartbeat" /\ d.by = w /\ d.job = wk[w].job /\ d.lease = wk[w].lease
  BY <1>4
<1> QED  BY <1>1, <1>2, <1>3, <1>5, <1>6, <1>7, <1>8, LeaseThreadStep

LEMMA TakeBeatStep ==
  ASSUME SysIInv, NEW w \in Worker, TakeBeat(w)
  PROVE  SysTypeOK' /\ Parts'
<1>1. PICK r \in replies :
        /\ r.to = w /\ r.op = "heartbeat"
        /\ wk' = CASE r.answer = "refused" -> [wk EXCEPT ![w].reason = "lease gone"]
                   [] r.answer = "cancel_requested" ->
                        [wk EXCEPT ![w].age = wk[w].beat, ![w].reason = "cancelled"]
                   [] OTHER -> [wk EXCEPT ![w].age = wk[w].beat]
  BY DEF TakeBeat
<1>2. /\ Held(w) /\ CalmStep /\ wk \in [Worker -> WorkerState] /\ wk[w] \in WorkerState
      /\ r.job = wk[w].job
  BY <1>1, UnchangedCalm DEF TakeBeat, SysIInv, SysTypeOK, Parts, Answering
<1>3. /\ wk' \in [Worker -> WorkerState]
      /\ \A v \in Worker \ {w} : wk'[v] = wk[v]
      /\ wk'[w].mode = wk[w].mode /\ wk'[w].job = wk[w].job /\ wk'[w].lease = wk[w].lease
      /\ wk'[w].status = wk[w].status /\ wk'[w].beat = wk[w].beat
      /\ wk'[w].age = IF r.answer = "refused" THEN wk[w].age ELSE wk[w].beat
  BY <1>1, <1>2 DEF WorkerState, Reason
<1>4. wk[w].beat <= wk[w].age /\ wk'[w].beat <= wk'[w].age
  BY <1>2, <1>3 DEF WorkerState, SysIInv, Parts, LeaseRuns
<1>5. SwapFor(w, Beats, {}) /\ {} \in SUBSET Call
  BY DEF TakeBeat, HangUp
<1>6. /\ calls' \subseteq Call /\ replies' \subseteq replies
      /\ \A d \in calls' : \E c \in calls : Inherits(c, d)
      /\ \A s \in replies' : s.to = w => s.op # "heartbeat"
  BY <1>5, SwapFacts DEF SysIInv, Beats
<1>7. wk[w].mode = "running" => LeasedAfter(wk[w].job, wk'[w].age)
  <2>1. CASE r.answer = "refused"
    BY <1>2, <1>3, <1>6, <2>1, HolderFacts DEF Offers
  <2>2. CASE r.answer # "refused"
    <3>1. wk[w].mode = "running" => LeasedFor(wk[w].job, wk[w].beat)
      BY <1>1, <1>2, <2>2 DEF SysIInv, Parts, LeaseRuns
    <3>2. wk[w].beat \in 0..(LocalLimit + StopTime) /\ wk[w].job \in Job
      BY <1>2, <1>6, HolderFacts DEF WorkerState, Offers
    <3> QED  BY <1>2, <1>3, <2>2, <3>1, <3>2, CalmKeeps DEF LeasedAfter, SysIInv
  <2> QED  BY <2>1, <2>2
<1>8. \A d \in calls' : d \in {} \/ \E c \in calls : Inherits(c, d)
  BY <1>6
<1>9. \A d \in {} \cap calls' : d.op = "heartbeat" /\ d.by = w /\ d.job = wk[w].job /\ d.lease = wk[w].lease
  OBVIOUS
<1> QED  BY <1>2, <1>3, <1>4, <1>6, <1>7, <1>8, <1>9, LeaseThreadStep

LEMMA ReasonStep ==
  ASSUME SysIInv, NEW w \in Worker, Watchdog(w) \/ StopLocally(w)
  PROVE  SysTypeOK' /\ Parts'
<1>1. PICK reason \in {"stopped", "lease gone"} : wk' = [wk EXCEPT ![w].reason = reason]
  BY DEF Watchdog, StopLocally
<1>2. Held(w) /\ CalmStep
  BY UnchangedCalm DEF Watchdog, StopLocally, SysIInv, Held
<1>3. /\ calls' = calls /\ replies' = replies
      /\ wk \in [Worker -> WorkerState] /\ wk[w] \in WorkerState
  BY DEF Watchdog, StopLocally, SysIInv, SysTypeOK, network
<1>4. /\ wk' \in [Worker -> WorkerState]
      /\ \A v \in Worker \ {w} : wk'[v] = wk[v]
      /\ wk'[w].mode = wk[w].mode /\ wk'[w].job = wk[w].job /\ wk'[w].lease = wk[w].lease
      /\ wk'[w].status = wk[w].status
  BY <1>1, <1>3 DEF WorkerState, Reason
<1>5. wk'[w].beat = wk[w].beat /\ wk'[w].age = wk[w].age
  BY <1>1, <1>3 DEF WorkerState
<1>6. wk'[w].beat <= wk'[w].age
  BY <1>5 DEF SysIInv, Parts, LeaseRuns
<1>7. \A d \in calls' : d \in {} \/ \E c \in calls : Inherits(c, d)
  BY <1>3 DEF Inherits
<1>8. wk[w].mode = "running" => LeasedAfter(wk[w].job, wk'[w].age)
  BY <1>2, <1>3, <1>5, HolderFacts DEF Offers
<1>9. calls' \subseteq Call /\ replies' \subseteq replies
  BY <1>3 DEF SysIInv, SysTypeOK
<1>10. \A d \in {} \cap calls' : d.op = "heartbeat" /\ d.by = w /\ d.job = wk[w].job /\ d.lease = wk[w].lease
  OBVIOUS
<1>11. wk'[w].beat = wk[w].beat \/ \A r \in replies' : r.to = w => r.op # "heartbeat"
  BY <1>5
<1> QED  BY <1>2, <1>4, <1>6, <1>7, <1>8, <1>9, <1>10, <1>11, LeaseThreadStep

LEMMA WorkerPartsStep ==
  ASSUME SysIInv, NEW w \in Worker, WorkerStep(w)
  PROVE  SysTypeOK' /\ Parts' /\ UNCHANGED store
<1>0. UNCHANGED store
  BY DEF WorkerStep, SendClaim, ClaimFails, TakeClaim, RunEnd, RunEnds, Retry, GiveUp, Beat,
         TakeBeat, BeatFails, Watchdog, StopLocally, Crash
<1>1. CalmStep
  BY <1>0, UnchangedCalm DEF SysIInv
<1>2. CASE SendClaim(w)
  BY <1>0, <1>2, SendClaimStep
<1>3. CASE ClaimFails(w) \/ Crash(w)
  <2>1. SysTypeOK' /\ Shrinks
    BY <1>3, FreeShrinks DEF ClaimFails, Crash, Held, Holding
  <2> QED  BY <1>0, <1>1, <2>1, CalmShrink DEF SysIInv
<1>4. CASE TakeClaim(w)
  <2>1. PICK r \in replies : r.to = w /\ r.op = "claim" /\ (TakeNothing(w, r) \/ Decline(w, r) \/ Start(w, r))
    BY <1>4 DEF TakeClaim
  <2>2. CASE TakeNothing(w, r)
    <3>1. ~Held(w)
      BY <2>1 DEF SysIInv, Parts, Answering, Held, Holding
    <3>2. SysTypeOK' /\ Shrinks
      BY <2>2, <3>1, FreeShrinks DEF TakeNothing
    <3> QED  BY <1>0, <1>1, <3>2, CalmShrink DEF SysIInv
  <2> QED  BY <1>0, <1>1, <2>1, <2>2, DeclineStep, StartStep
<1>5. ASSUME NEW status \in FinalStatus, RunEnds(w, status)
      PROVE  SysTypeOK' /\ Parts'
  <2>1. CASE Upload(w, status)
    BY <1>1, <1>5, <2>1, UploadStep DEF RunEnds
  <2>2. CASE status # "succeeded" /\ Report(w, status)
    BY <1>1, <1>5, <2>2, ReportStep DEF RunEnds, Unsent
  <2> QED  BY <1>5, <2>1, <2>2 DEF RunEnds
<1>6. CASE RunEnd(w)
  BY <1>0, <1>5, <1>6 DEF RunEnd, Stopped, FinalStatus
<1>7. CASE GiveUp(w)
  <2>1. CASE wk[w].mode = "uploading" /\ Report(w, Undelivered(wk[w].status))
    <3>1. Undelivered(wk[w].status) \in FinalStatus \ {"succeeded"}
      BY DEF SysIInv, SysTypeOK, WorkerState, Undelivered, FinalStatus
    <3> QED  BY <1>0, <1>1, <2>1, <3>1, ReportStep DEF Unsent
  <2>2. CASE Leave(w)
    BY <1>0, <1>1, <2>2, LeaveShrinks, CalmShrink DEF SysIInv
  <2> QED  BY <1>7, <2>1, <2>2 DEF GiveUp
<1> QED  BY <1>0, <1>2, <1>3, <1>4, <1>6, <1>7, RetryStep, BeatStep, TakeBeatStep, BeatFailsStep,
            ReasonStep DEF WorkerStep

-----------------------------------------------------------------------------
(* The server's handlers. *)

LEMMA HandleClaimStep ==
  ASSUME SysIInv, NEW c \in calls, HandleClaim(c)
  PROVE  SysTypeOK' /\ Parts'
<1>1. /\ c \in Call /\ c.op = "claim" /\ c.by \in Worker
      /\ c.waits => wk[c.by].mode = "claiming"
      /\ issued \in Nat /\ wk \in [Worker -> WorkerState]
  BY DEF HandleClaim, SysIInv, SysTypeOK, Call, Parts, Awaiting, IInv, TypeOK
<1>2. CASE ClaimNone(Project) /\ Answer(c, "none", Null, 0)
  <2> DEFINE r == [op |-> "claim", to |-> c.by, answer |-> "none", job |-> Null, lease |-> 0]
  <2>1. CalmStep
    BY <1>2, NothingCalm DEF ClaimNone, SysIInv
  <2>2. /\ r \in Reply /\ r.op = "claim" /\ r.to = c.by
        /\ r.answer = "none" /\ r.job = Null /\ r.lease = 0
    BY <1>1 DEF Reply
  <2> HIDE DEF r
  <2>3. wk' = wk
    BY <1>2 DEF Answer
  <2>4. c.waits => ReplyFits(r)
    BY <1>1, <2>2, <2>3 DEF ReplyFits, Offers
  <2>5. Answer(c, r.answer, r.job, r.lease)
    BY <1>2, <2>2
  <2> QED  BY <1>1, <2>1, <2>2, <2>4, <2>5, AnswerStep
<1>3. ASSUME NEW j \in Job, ClaimJob(j, Project), Answer(c, "running", j, issued')
      PROVE  SysTypeOK' /\ Parts'
  <2> DEFINE r == [op |-> "claim", to |-> c.by, answer |-> "running", job |-> j, lease |-> issued']
  <2>1. CalmStep
    BY <1>3, ClaimJobCalm DEF SysIInv
  <2>2. issued' = issued + 1 /\ issued' \in Nat
    BY <1>1, <1>3 DEF ClaimJob
  <2>3. /\ r \in Reply /\ r.op = "claim" /\ r.to = c.by
        /\ r.answer = "running" /\ r.job = j /\ r.lease = issued'
    BY <1>1, <2>2 DEF Reply, Active
  <2>4. /\ wk' = wk /\ calls' \subseteq calls
        /\ \A s \in replies' : s \in replies \/ s = r
    BY <1>1, <1>3 DEF Answer
  <2> HIDE DEF r
  <2>5. /\ jobs'[j].status = "running" /\ jobs'[j].lease = issued'
        /\ jobs'[j].lease_until = LeaseTime /\ jobs'[j].result \notin Worker
    <3>1. db[j] \in Row /\ RowOK(db[j]) /\ db[j].status = "queued"
      BY <1>3, DbRow DEF ClaimJob, Eligible, Queued, SysIInv
    <3>2. jobs'[j] = [db[j] EXCEPT !.status = "running", !.lease = issued + 1, !.lease_until = LeaseTime]
      BY <1>3, DbFacts DEF ClaimJob, SysIInv
    <3> QED  BY <2>2, <3>1, <3>2, Names DEF Row, RowOK
  <2>6. /\ \A v \in Worker : Held(v) => wk[v].lease # issued'
        /\ \A d \in Finishes : d.lease # issued'
        /\ \A s \in Offers : s.lease # issued'
    BY <1>1, <2>2 DEF SysIInv, Parts, AllGranted, Granted, Finishes
  <2>7. GrantFits(j, issued')
    BY <1>1, <2>2, <2>5 DEF GrantFits
  <2>8. LeasedAfter(j, wk'[c.by].age)
    <3>1. wk[c.by].age \in Nat
      BY <1>1, LocalAssumption DEF WorkerState
    <3> QED  BY <2>4, <2>5, <3>1, TimeAssumption DEF LeasedAfter, Active
  <2>9. OfferFits(r)
    <3>1. \A s \in Offers' : r.lease = s.lease => r = s
      BY <2>3, <2>4, <2>6 DEF Offers
    <3>2. \A d \in Finishes' : d.lease # r.lease
      BY <2>3, <2>4, <2>6 DEF Finishes
    <3> QED  BY <2>3, <2>4, <2>5, <2>6, <2>7, <2>8, <3>1, <3>2 DEF OfferFits, Held
  <2>10. c.waits => ReplyFits(r)
    BY <1>1, <2>3, <2>4, <2>9 DEF ReplyFits
  <2>11. Answer(c, r.answer, r.job, r.lease)
    BY <1>3, <2>3
  <2> QED  BY <1>1, <2>1, <2>3, <2>10, <2>11, AnswerStep
<1> QED  BY <1>2, <1>3 DEF HandleClaim

LEMMA HandleHeartbeatStep ==
  ASSUME SysIInv, NEW c \in calls, HandleHeartbeat(c)
  PROVE  SysTypeOK' /\ Parts'
<1>1. /\ c \in Call /\ c.op = "heartbeat" /\ c.by \in Worker /\ c.lease \in Nat
      /\ c.job \in Job
      /\ c.waits => Held(c.by) /\ c.job = wk[c.by].job /\ c.lease = wk[c.by].lease
      /\ wk \in [Worker -> WorkerState]
  BY DEF HandleHeartbeat, SysIInv, SysTypeOK, Call, Parts, Awaiting, AllGranted, Granted
<1>2. CASE Heartbeat(c.job, c.lease) /\ Answer(c, db[c.job].status, c.job, c.lease)
  <2> DEFINE r == [op |-> "heartbeat", to |-> c.by, answer |-> db[c.job].status, job |-> c.job, lease |-> c.lease]
  <2>1. CalmStep /\ jobs'[c.job].status = db[c.job].status /\ jobs'[c.job].lease_until = LeaseTime
    BY <1>1, <1>2, HeartbeatCalm DEF SysIInv
  <2>2. db[c.job].status \in Active
    BY <1>2 DEF Heartbeat, Owned
  <2>3. /\ r \in Reply /\ r.op = "heartbeat" /\ r.to = c.by
        /\ r.answer = db[c.job].status /\ r.job = c.job /\ r.lease = c.lease
    BY <1>1, <2>2 DEF Reply
  <2> HIDE DEF r
  <2>4. wk' = wk
    BY <1>2 DEF Answer
  <2>5. LeasedAfter(c.job, wk'[c.by].beat)
    <3>1. wk[c.by].beat \in Nat
      BY <1>1, LocalAssumption DEF WorkerState
    <3> QED  BY <2>1, <2>2, <2>4, <3>1, TimeAssumption DEF LeasedAfter
  <2>6. c.waits => ReplyFits(r)
    BY <1>1, <2>3, <2>4, <2>5 DEF ReplyFits, Offers, Held
  <2>7. Answer(c, r.answer, r.job, r.lease)
    BY <1>2, <2>3
  <2> QED  BY <1>1, <2>1, <2>3, <2>6, <2>7, AnswerStep
<1>3. CASE Answer(c, "refused", c.job, c.lease) /\ UNCHANGED store
  <2> DEFINE r == [op |-> "heartbeat", to |-> c.by, answer |-> "refused", job |-> c.job, lease |-> c.lease]
  <2>1. CalmStep
    BY <1>3, UnchangedCalm DEF SysIInv
  <2>2. /\ r \in Reply /\ r.op = "heartbeat" /\ r.to = c.by
        /\ r.answer = "refused" /\ r.job = c.job /\ r.lease = c.lease
    BY <1>1 DEF Reply
  <2> HIDE DEF r
  <2>3. wk' = wk
    BY <1>3 DEF Answer
  <2>4. c.waits => ReplyFits(r)
    BY <1>1, <2>2, <2>3 DEF ReplyFits, Offers, Held
  <2>5. Answer(c, r.answer, r.job, r.lease)
    BY <1>3, <2>2
  <2> QED  BY <1>1, <2>1, <2>2, <2>4, <2>5, AnswerStep
<1> QED  BY <1>2, <1>3 DEF HandleHeartbeat

\* A delivery that the worker does, or does not, hear of.
LEMMA DeliveredStep ==
  ASSUME SysIInv, CalmStep, NEW c \in calls, c.op \in {"upload", "publish"}, NEW status \in FinalStatus,
         NoReply(c) \/ (c.waits /\ Report(c.by, status)),
         status = "succeeded" => jobs'[c.job].artifact # Null
  PROVE  SysTypeOK' /\ Parts'
<1>1. CASE NoReply(c)
  BY <1>1, NoReplyStep
<1>2. CASE c.waits /\ Report(c.by, status)
  <2>1. c.by \in Worker /\ wk[c.by].mode = "uploading" /\ c.job = wk[c.by].job
    BY <1>2 DEF SysIInv, SysTypeOK, Call, Parts, Awaiting
  <2> QED  BY <1>2, <2>1, ReportStep DEF Unsent
<1> QED  BY <1>1, <1>2

LEMMA HandleUploadStep ==
  ASSUME SysIInv, NEW c \in calls, HandleUpload(c)
  PROVE  SysTypeOK' /\ Parts'
<1>1. /\ c \in Call /\ c.op = "upload" /\ c.by \in Worker /\ c.status \in FinalStatus
      /\ Granted(c.job, c.lease) /\ c.job \in Job
  BY DEF HandleUpload, SysIInv, SysTypeOK, Call, Parts, AllGranted, Granted
<1>2. CASE /\ Heartbeat(c.job, c.lease)
           /\ calls' = (calls \ {c}) \cup {[c EXCEPT !.op = "publish"]}
           /\ UNCHANGED <<replies, wk>>
  <2> DEFINE q == [c EXCEPT !.op = "publish"]
  <2>1. CalmStep
    BY <1>1, <1>2, HeartbeatCalm DEF SysIInv
  <2>2. /\ q \in Call /\ q.op = "publish" /\ q.by = c.by /\ q.waits = c.waits
        /\ q.job = c.job /\ q.lease = c.lease
    BY <1>1 DEF Call
  <2>3. wk' = wk /\ replies' = replies /\ calls' = (calls \ {c}) \cup {q}
    BY <1>2
  <2> HIDE DEF q
  <2>4. SysTypeOK'
    BY <2>2, <2>3 DEF SysIInv, SysTypeOK
  <2>5. \A d \in Finishes' : d \in Finishes
    BY <2>2, <2>3 DEF Finishes
  <2>6. HolderFits(c.by)
    BY <1>1, <2>1, <2>3, <2>5, HolderKept DEF SysIInv, Offers
  <2>7. GrantFits(c.job, c.lease)
    BY <1>1, <2>1, CalmKeeps DEF SysIInv, GrantFits
  <2>8. CallFits(q)
    BY <1>1, <2>2, <2>3, <2>7 DEF CallFits, WaitFits, SysIInv, Parts, Awaiting
  <2>9. \A d \in calls' : d \in {q} \/ \E e \in calls : Inherits(e, d)
    BY <2>3 DEF Inherits
  <2>10. \A r \in replies' : r \in {} \/ r \in replies
    BY <2>3
  <2>11. (\A d \in {q} \cap calls' : CallFits(d)) /\ (\A r \in {} \cap replies' : ReplyFits(r))
    BY <2>8
  <2> QED  BY <1>1, <2>1, <2>3, <2>4, <2>6, <2>9, <2>10, <2>11, CalmChange DEF SysIInv
<1>3. CASE /\ NoReply(c) \/ (c.waits /\ Report(c.by, Undelivered(c.status)))
           /\ UNCHANGED store
  <2>1. CalmStep /\ Undelivered(c.status) \in FinalStatus \ {"succeeded"}
    BY <1>1, <1>3, UnchangedCalm DEF SysIInv, Undelivered, FinalStatus
  <2> QED  BY <1>1, <1>3, <2>1, DeliveredStep
<1> QED  BY <1>2, <1>3 DEF HandleUpload

LEMMA HandlePublishStep ==
  ASSUME SysIInv, NEW c \in calls, HandlePublish(c)
  PROVE  SysTypeOK' /\ Parts'
<1>1. c.op = "publish" /\ c.by \in Worker /\ c.status \in FinalStatus /\ c.job \in Job
  BY DEF HandlePublish, SysIInv, SysTypeOK, Call, Parts, AllGranted, Granted
<1>2. CASE /\ PublishArtifact(c.job, c.lease, c.by)
           /\ NoReply(c) \/ (c.waits /\ Report(c.by, c.status))
  <2>1. CalmStep /\ jobs'[c.job].artifact # Null
    BY <1>1, <1>2, PublishCalm, Names DEF SysIInv
  <2> QED  BY <1>1, <1>2, <2>1, DeliveredStep
<1>3. CASE /\ NoReply(c) \/ (c.waits /\ Report(c.by, Undelivered(c.status)))
           /\ UNCHANGED store
  <2>1. CalmStep /\ Undelivered(c.status) \in FinalStatus \ {"succeeded"}
    BY <1>1, <1>3, UnchangedCalm DEF SysIInv, Undelivered, FinalStatus
  <2> QED  BY <1>1, <1>3, <2>1, DeliveredStep
<1> QED  BY <1>2, <1>3 DEF HandlePublish

-----------------------------------------------------------------------------
(* A completion: the rows of runs that have not reported yet are others. *)

LEMMA OutcomeStep ==
  ASSUME SysIInv, Shrinks, NEW c \in Finishes, MayFinish(c.job, c.lease, c.status),
         jobs' = [db EXCEPT ![c.job].status = Outcome(c.job, c.status), ![c.job].result = c.by],
         issued' = issued
  PROVE  Parts'
<1> DEFINE j == c.job
           r == [db[j] EXCEPT !.status = Outcome(j, c.status), !.result = c.by]
<1>1. /\ c \in calls /\ c \in Call /\ c.by \in Worker /\ c.status \in FinalStatus
      /\ j \in Job /\ Granted(j, c.lease) /\ db \in [Job -> Row]
  BY DbFacts DEF Finishes, SysIInv, SysTypeOK, Call, Parts, AllGranted, Granted
<1>2. db[j] = jobs[j] /\ jobs[j] \in Row /\ jobs[j].status \in Active /\ jobs[j].lease = c.lease
  BY <1>1, DbRow DEF MayFinish, Owned, Active, SysIInv
<1>3. jobs' = [db EXCEPT ![j] = r] /\ jobs'[j] = r
  BY <1>1
<1>4. /\ jobs'[j].status \in {c.status, "cancelled"} /\ jobs'[j].lease = c.lease
      /\ jobs'[j].artifact = jobs[j].artifact /\ jobs'[j].result = c.by
  <2>1. r.status \in {c.status, "cancelled"}
    BY <1>2 DEF Row, Outcome
  <2>2. r.lease = db[j].lease /\ r.artifact = db[j].artifact /\ r.result = c.by
    BY <1>2 DEF Row
  <2> QED  BY <1>2, <1>3, <2>1, <2>2
<1>5. ASSUME NEW i \in Job, i # j
      PROVE  Calm(jobs[i], jobs'[i])
  <2>1. jobs[i] \in Row /\ RowOK(jobs[i]) /\ jobs'[i] = ReapRow(jobs[i])
    BY <1>1, <1>3, <1>5, DbFacts DEF SysIInv, IInv, TypeOK, RowsOK
  <2> QED  BY <2>1, ReapCalm
<1> HIDE DEF j, r
<1>6. KeptStep
  <2>1. Kept(jobs[j], jobs'[j])
    BY <1>2, <1>4 DEF Kept, Active
  <2>2. issued \in Nat /\ issued' \in Nat /\ issued <= issued'
    BY DEF SysIInv, IInv, TypeOK
  <2> QED  BY <1>5, <2>1, <2>2 DEF KeptStep, Calm
<1>7. /\ AllGranted' /\ Awaiting' /\ Answering' /\ OneHolder' /\ ArtifactFirst'
      /\ \A v \in Worker : wk'[v].beat <= wk'[v].age
  BY <1>6, KeptShrink DEF SysIInv
<1>8. /\ Offers' \subseteq Offers
       /\ \A d \in Finishes' : \E e \in Finishes : d.lease = e.lease /\ d.status = e.status /\ d.job = e.job
  BY <1>6, KeptShrink DEF SysIInv
<1>9. \A v \in Worker : wk'[v].mode \in Unsent \cup {"finishing"} => wk'[v] = wk[v]
  BY <1>6, KeptShrink DEF SysIInv
<1>10. \A i, l : Granted(i, l) => i \in Job /\ (i = j => l = c.lease)
  BY <1>2 DEF Granted, Active
<1>11. ASSUME NEW i \in Job, i # j, NEW t \in 0..(LocalLimit + StopTime), LeasedFor(i, t)
       PROVE  LeasedAfter(i, t)
  BY <1>5, <1>11, LeasedCalm DEF SysIInv
<1>12. ASSUME NEW v \in Worker, wk[v].mode \in Unsent
       PROVE  wk[v].job \in Job /\ wk[v].job # j
  <2>1. Granted(wk[v].job, wk[v].lease)
    BY <1>12 DEF SysIInv, Parts, AllGranted, Held, Holding, Unsent
  <2>2. wk[v].lease # c.lease
    BY <1>12 DEF SysIInv, Parts, NotReportedYet
  <2> QED  BY <1>10, <2>1, <2>2
<1>13. ASSUME NEW o \in Offers
       PROVE  o.job \in Job /\ o.job # j
  <2>1. Granted(o.job, o.lease) /\ o.lease # c.lease
    BY <1>13 DEF SysIInv, Parts, AllGranted, NotReportedYet
  <2> QED  BY <1>10, <2>1
<1>14. \A i \in Job : i # j /\ jobs'[i].result \in Worker =>
         jobs'[i].result = jobs[i].result /\ jobs'[i].status = jobs[i].status
  BY <1>5 DEF Calm, Unreported
<1>15. NotReportedYet'
  <2>1. ASSUME NEW v \in Worker, wk'[v].mode \in Unsent
        PROVE  jobs'[wk'[v].job].result \notin Worker
    <3>1. wk'[v] = wk[v] /\ wk[v].mode \in Unsent
      BY <1>9, <2>1
    <3>2. jobs[wk[v].job].result \notin Worker
      BY <3>1 DEF SysIInv, Parts, NotReportedYet
    <3> QED  BY <1>12, <1>14, <3>1, <3>2
  <2>2. ASSUME NEW o \in Offers'
        PROVE  jobs'[o.job].result \notin Worker
    <3>1. o \in Offers /\ jobs[o.job].result \notin Worker
      BY <1>8 DEF SysIInv, Parts, NotReportedYet
    <3> QED  BY <1>13, <1>14, <3>1
  <2>3. \A d \in Finishes', o \in Offers' : d.lease # o.lease
    BY <1>8 DEF SysIInv, Parts, NotReportedYet
  <2>4. \A d \in Finishes', v \in Worker : wk'[v].mode \in Unsent => d.lease # wk'[v].lease
    BY <1>8, <1>9 DEF SysIInv, Parts, NotReportedYet
  <2> QED  BY <2>1, <2>2, <2>3, <2>4 DEF NotReportedYet
<1>16. ReportsAgree'
  <2>1. \A d, e \in Finishes' : d.lease = e.lease => d.status = e.status
    BY <1>8 DEF SysIInv, Parts, ReportsAgree
  <2>2. \A d \in Finishes', v \in Worker :
          wk'[v].mode = "finishing" /\ d.lease = wk'[v].lease => d.status = wk'[v].status
    BY <1>8, <1>9 DEF SysIInv, Parts, ReportsAgree
  <2>3. ASSUME NEW d \in Finishes', jobs'[d.job].result \in Worker
        PROVE  jobs'[d.job].status \in {d.status, "cancelled"}
    <3>1. PICK e \in Finishes : d.lease = e.lease /\ d.status = e.status /\ d.job = e.job
      BY <1>8
    <3>2. Granted(e.job, e.lease)
      BY DEF SysIInv, Parts, AllGranted, Finishes
    <3>3. CASE e.job = j
      <4>1. e.lease = c.lease
        BY <1>10, <3>2, <3>3
      <4>2. e.status = c.status
        BY <4>1 DEF SysIInv, Parts, ReportsAgree
      <4> QED  BY <1>4, <3>1, <3>3, <4>2
    <3>4. CASE e.job # j
      <4>1. jobs[e.job].result \in Worker => jobs[e.job].status \in {e.status, "cancelled"}
        BY DEF SysIInv, Parts, ReportsAgree
      <4> QED  BY <1>10, <1>14, <2>3, <3>1, <3>2, <3>4, <4>1
    <3> QED  BY <3>3, <3>4
  <2>4. ASSUME NEW v \in Worker, wk'[v].mode = "finishing", jobs'[wk'[v].job].result \in Worker
        PROVE  jobs'[wk'[v].job].status \in {wk'[v].status, "cancelled"}
    <3>1. wk'[v] = wk[v] /\ Granted(wk[v].job, wk[v].lease)
      BY <1>9, <2>4 DEF SysIInv, Parts, AllGranted, Held, Holding
    <3>2. CASE wk[v].job = j
      <4>1. wk[v].lease = c.lease
        BY <1>10, <3>1, <3>2
      <4>2. wk[v].status = c.status
        BY <2>4, <3>1, <4>1 DEF SysIInv, Parts, ReportsAgree
      <4> QED  BY <1>4, <3>1, <3>2, <4>2
    <3>3. CASE wk[v].job # j
      <4>1. jobs[wk[v].job].result \in Worker => jobs[wk[v].job].status \in {wk[v].status, "cancelled"}
        BY <2>4, <3>1 DEF SysIInv, Parts, ReportsAgree
      <4> QED  BY <1>10, <1>14, <2>4, <3>1, <3>3, <4>1
    <3> QED  BY <3>2, <3>3
  <2> QED  BY <2>1, <2>2, <2>3, <2>4 DEF ReportsAgree
<1>17. LeaseRuns'
  <2>1. \A v \in Worker : /\ wk[v].age \in 0..(LocalLimit + StopTime)
                          /\ wk[v].beat \in 0..(LocalLimit + StopTime)
    BY DEF SysIInv, SysTypeOK, WorkerState
  <2>2. ASSUME NEW v \in Worker, wk'[v].mode = "running"
        PROVE  LeasedAfter(wk'[v].job, wk'[v].age)
    <3>1. wk'[v] = wk[v] /\ wk[v].mode \in Unsent
      BY <1>9, <2>2 DEF Unsent
    <3>2. LeasedFor(wk[v].job, wk[v].age)
      BY <2>2, <3>1 DEF SysIInv, Parts, LeaseRuns
    <3> QED  BY <1>11, <1>12, <2>1, <3>1, <3>2
  <2>3. ASSUME NEW o \in Offers'
        PROVE  LeasedAfter(o.job, wk'[o.to].age)
    <3>1. o \in Offers /\ o \in replies /\ o \in replies' /\ o.to \in Worker
      BY <1>8 DEF Offers, SysIInv, SysTypeOK, Reply
    <3>2. LeasedFor(o.job, wk[o.to].age)
      BY <3>1 DEF SysIInv, Parts, LeaseRuns
    <3>3. wk'[o.to] = wk[o.to]
      BY <3>1 DEF Shrinks
    <3> QED  BY <1>11, <1>13, <2>1, <3>1, <3>2, <3>3
  <2>4. ASSUME NEW o \in replies', o.op = "heartbeat", o.answer # "refused", wk'[o.to].mode = "running"
        PROVE  LeasedAfter(o.job, wk'[o.to].beat)
    <3>1. o \in replies /\ o.to \in Worker
      BY DEF Shrinks, SysIInv, SysTypeOK, Reply
    <3>2. wk'[o.to] = wk[o.to] /\ wk[o.to].mode \in Unsent
      BY <1>9, <2>4, <3>1 DEF Unsent
    <3>3. LeasedFor(o.job, wk[o.to].beat) /\ o.job = wk[o.to].job
      BY <2>4, <3>1, <3>2 DEF SysIInv, Parts, LeaseRuns, Answering
    <3> QED  BY <1>11, <1>12, <2>1, <3>1, <3>2, <3>3
  <2> QED  BY <1>7, <2>2, <2>3, <2>4 DEF LeaseRuns, LeasedFor, LeasedAfter
<1> QED  BY <1>7, <1>15, <1>16, <1>17 DEF Parts

LEMMA HandleFinishStep ==
  ASSUME SysIInv, NEW c \in calls, HandleFinish(c)
  PROVE  SysTypeOK' /\ Parts'
<1>1. c \in Finishes /\ c.by \in Worker
  BY DEF HandleFinish, Finishes, SysIInv, SysTypeOK, Call
<1>2. SysTypeOK' /\ Shrinks
  BY <1>1, NoAnswerShrinks, LeaveShrinks DEF HandleFinish
<1>3. CASE jobs' = db /\ issued' = issued
  BY <1>2, <1>3, NothingCalm, CalmShrink DEF SysIInv
<1>4. CASE /\ MayFinish(c.job, c.lease, c.status)
           /\ jobs' = [db EXCEPT ![c.job].status = Outcome(c.job, c.status), ![c.job].result = c.by]
           /\ issued' = issued
  BY <1>1, <1>2, <1>4, OutcomeStep
<1>5. CASE UNCHANGED store
  BY <1>2, <1>5, UnchangedCalm, CalmShrink DEF SysIInv
<1> QED  BY <1>2, <1>3, <1>4, <1>5 DEF HandleFinish, Finish

-----------------------------------------------------------------------------
(* Time: while a run goes on, the worker's clock and the lease tick together. *)

\* A tick takes from the lease what it adds to the worker's clock.
LEMMA TickLeased ==
  ASSUME SysIInv, Tick, NEW j \in Job, NEW t \in 0..(LocalLimit + StopTime), LeasedFor(j, t)
  PROVE  LeasedAfter(j, t + 1)
<1>1. jobs[j] \in Row /\ jobs'[j] = Older(jobs[j])
  BY DEF SysIInv, IInv, TypeOK, Tick
<1>2. /\ jobs[j].lease_until \in Nat /\ jobs[j].status \in Active
      /\ jobs[j].lease_until + t >= LeaseTime
  BY <1>1 DEF LeasedFor, Row
<1>3. t \in Nat /\ t < LeaseTime /\ LeaseTime \in Nat
  BY LocalAssumption, TimeAssumption
<1>4. jobs[j].lease_until > 0
  BY <1>2, <1>3
<1>5. jobs'[j] = [jobs[j] EXCEPT !.lease_until = Dec(@)]
  <2>1. jobs[j].status # "queued" /\ jobs[j].status \notin Terminal
    BY <1>2 DEF Active, Terminal
  <2> QED  BY <1>1, <1>2, <2>1 DEF Older
<1>6. Dec(jobs[j].lease_until) = jobs[j].lease_until - 1
  BY <1>2, <1>4 DEF Dec
<1>7. jobs'[j].status = jobs[j].status /\ jobs'[j].lease_until = jobs[j].lease_until - 1
  BY <1>1, <1>5, <1>6 DEF Row
<1> QED  BY <1>2, <1>3, <1>7 DEF LeasedAfter

LEMMA GrowFacts ==
  ASSUME NEW n \in 0..(LocalLimit + StopTime)
  PROVE  /\ Grow(n) \in 0..(LocalLimit + StopTime)
         /\ n <= Grow(n)
         /\ n < LocalLimit + StopTime => Grow(n) = n + 1
         /\ \A m \in 0..(LocalLimit + StopTime) : m <= n => Grow(m) <= Grow(n)
BY LocalAssumption DEF Grow

LEMMA SysTickStep ==
  ASSUME SysIInv, SysTick
  PROVE  SysTypeOK' /\ Parts'
<1> DEFINE L == LocalLimit + StopTime
<1>1. ASSUME NEW j \in Job
      PROVE  /\ jobs'[j].status = jobs[j].status /\ jobs'[j].lease = jobs[j].lease
             /\ jobs'[j].result = jobs[j].result /\ jobs'[j].artifact = jobs[j].artifact
  <2>1. jobs[j] \in Row /\ jobs'[j] = Older(jobs[j])
    BY DEF SysIInv, IInv, TypeOK, SysTick, Tick
  <2> QED  BY <2>1 DEF Older, Row
<1>2. calls' = calls /\ replies' = replies /\ issued' = issued /\ wk \in [Worker -> WorkerState]
  BY DEF SysTick, network, Tick, SysIInv, SysTypeOK
<1>3. L \in Nat /\ LocalLimit \in Nat /\ LocalLimit <= L
  BY LocalAssumption
<1>4. ASSUME NEW v \in Worker
      PROVE  /\ wk[v] \in WorkerState /\ wk[v].age \in 0..L /\ wk[v].beat \in 0..L
             /\ wk[v].beat <= wk[v].age
             /\ wk'[v] = IF wk[v].mode \in Holding \cup {"claiming"}
                         THEN [wk[v] EXCEPT !.age = Grow(@), !.beat = IF Beating(v) THEN Grow(@) ELSE @]
                         ELSE wk[v]
  BY <1>2 DEF SysTick, WorkerState, SysIInv, Parts, LeaseRuns
<1>5. ASSUME NEW v \in Worker
      PROVE  /\ wk'[v] \in WorkerState
             /\ wk'[v].mode = wk[v].mode /\ wk'[v].job = wk[v].job
             /\ wk'[v].lease = wk[v].lease /\ wk'[v].status = wk[v].status
             /\ wk'[v].age = IF wk[v].mode \in Holding \cup {"claiming"} THEN Grow(wk[v].age) ELSE wk[v].age
             /\ wk'[v].beat = IF wk[v].mode \in Holding \cup {"claiming"} /\ Beating(v)
                              THEN Grow(wk[v].beat) ELSE wk[v].beat
  <2>1. Grow(wk[v].age) \in 0..L /\ Grow(wk[v].beat) \in 0..L
    BY <1>4, GrowFacts
  <2>2. CASE wk[v].mode \in Holding \cup {"claiming"}
    <3> DEFINE b == IF Beating(v) THEN Grow(wk[v].beat) ELSE wk[v].beat
    <3>1. b \in 0..L
      BY <1>4, <2>1
    <3>2. wk'[v] = [wk[v] EXCEPT !.age = Grow(wk[v].age), !.beat = b]
      BY <1>4, <2>2
    <3> HIDE DEF b
    <3>3. /\ wk'[v] \in WorkerState
          /\ wk'[v].mode = wk[v].mode /\ wk'[v].job = wk[v].job
          /\ wk'[v].lease = wk[v].lease /\ wk'[v].status = wk[v].status
          /\ wk'[v].age = Grow(wk[v].age) /\ wk'[v].beat = b
      BY <1>4, <2>1, <3>1, <3>2 DEF WorkerState
    <3> QED  BY <2>2, <3>3 DEF b
  <2>3. CASE wk[v].mode \notin Holding \cup {"claiming"}
    BY <1>4, <2>3
  <2> QED  BY <2>2, <2>3
<1>6. SysTypeOK'
  <2>1. wk' \in [Worker -> WorkerState]
    BY <1>5 DEF SysTick
  <2> QED  BY <1>2, <2>1 DEF SysIInv, SysTypeOK
<1>7. \A v \in Worker : Held(v)' <=> Held(v)
  BY <1>5 DEF Held
<1>8. Offers' = Offers /\ Finishes' = Finishes
  BY <1>2 DEF Offers, Finishes
<1>9. \A j, l : Granted(j, l) => Granted(j, l)'
  BY <1>1, <1>2 DEF Granted
<1>10. /\ \A v \in Worker : Held(v) => wk[v].job \in Job
       /\ \A c \in Finishes : c.job \in Job
       /\ \A r \in Offers : r.job \in Job
  BY DEF SysIInv, Parts, AllGranted, Granted, Finishes
<1>11. AllGranted'
  <2>1. ASSUME NEW v \in Worker, Held(v)'
        PROVE  Granted(wk[v].job, wk[v].lease)'
    <3>1. Granted(wk[v].job, wk[v].lease) /\ wk'[v].job = wk[v].job /\ wk'[v].lease = wk[v].lease
      BY <1>5, <1>7, <2>1 DEF SysIInv, Parts, AllGranted
    <3> QED  BY <1>1, <1>2, <3>1 DEF Granted
  <2>2. \A c \in calls' : c.op # "claim" => Granted(c.job, c.lease)'
    BY <1>2, <1>9 DEF SysIInv, Parts, AllGranted
  <2>3. \A r \in Offers' : Granted(r.job, r.lease)'
    BY <1>8, <1>9 DEF SysIInv, Parts, AllGranted
  <2> QED  BY <2>1, <2>2, <2>3 DEF AllGranted
<1>12. Awaiting'
  <2> SUFFICES ASSUME NEW d \in calls, d.waits PROVE WaitFits(d)
    BY <1>2 DEF Awaiting, WaitFits, Held
  <2>1. d.by \in Worker
    BY DEF SysIInv, SysTypeOK, Call
  <2> QED  BY <1>5, <2>1 DEF SysIInv, Parts, Awaiting, WaitFits, Held
<1>13. Answering'
  <2>1. ASSUME NEW r \in replies
        PROVE  /\ r.op = "claim" => wk'[r.to].mode = "claiming"
               /\ r.op = "heartbeat" => /\ wk'[r.to].mode \in Holding
                                        /\ r.job = wk'[r.to].job /\ r.lease = wk'[r.to].lease
    <3>1. r.to \in Worker
      BY DEF SysIInv, SysTypeOK, Reply
    <3> QED  BY <1>5, <3>1 DEF SysIInv, Parts, Answering, Held
  <2> QED  BY <1>2, <2>1 DEF Answering, Held
<1>14. OneHolder'
  BY <1>5, <1>7, <1>8 DEF SysIInv, Parts, OneHolder
<1>15. NotReportedYet'
  <2>1. \A v \in Worker : wk[v].mode \in Unsent => wk[v].job \in Job
    BY <1>10 DEF Held, Holding, Unsent
  <2> QED  BY <1>1, <1>5, <1>8, <1>10, <2>1 DEF SysIInv, Parts, NotReportedYet
<1>16. \A v \in Worker : wk[v].mode = "finishing" => wk[v].job \in Job
  BY <1>10 DEF Held, Holding
<1>17. ReportsAgree'
  BY <1>1, <1>5, <1>8, <1>10, <1>16 DEF SysIInv, Parts, ReportsAgree
<1>18. ArtifactFirst'
  BY <1>1, <1>5, <1>8, <1>10, <1>16 DEF SysIInv, Parts, ArtifactFirst, HasArtifact
<1>19. LeaseRuns'
  <2>0. Tick /\ \A v \in Worker : MayWait(v)
    BY DEF SysTick
  <2>1. ASSUME NEW v \in Worker
        PROVE  wk'[v].beat <= wk'[v].age
    <3>1. /\ wk[v].age \in 0..(LocalLimit + StopTime) /\ wk[v].beat \in 0..(LocalLimit + StopTime)
          /\ wk[v].beat <= wk[v].age
      BY <1>4
    <3>2. /\ Grow(wk[v].age) \in 0..(LocalLimit + StopTime)
          /\ Grow(wk[v].beat) \in 0..(LocalLimit + StopTime)
      BY <3>1, GrowFacts
    <3>3. wk[v].age <= Grow(wk[v].age)
      BY <3>1, GrowFacts
    <3>4. Grow(wk[v].beat) <= Grow(wk[v].age)
      BY <3>1, GrowFacts
    <3> QED  BY <1>5, <3>1, <3>2, <3>3, <3>4
  <2>2. ASSUME NEW v \in Worker, wk'[v].mode = "running"
        PROVE  LeasedAfter(wk'[v].job, wk'[v].age)
    <3>1. wk[v].mode = "running" /\ wk[v].age < L
      BY <1>5, <2>0, <2>2 DEF MayWait
    <3>2. wk'[v].age = wk[v].age + 1 /\ wk'[v].job = wk[v].job
      BY <1>4, <1>5, <3>1, GrowFacts DEF Holding
    <3>3. wk[v].job \in Job /\ LeasedFor(wk[v].job, wk[v].age)
      BY <1>10, <3>1 DEF Held, Holding, SysIInv, Parts, LeaseRuns
    <3> QED  BY <1>4, <2>0, <3>2, <3>3, TickLeased
  <2>3. ASSUME NEW r \in Offers
        PROVE  LeasedAfter(r.job, wk'[r.to].age)
    <3>1. r.to \in Worker /\ wk[r.to].mode = "claiming" /\ LeasedFor(r.job, wk[r.to].age)
      BY DEF Offers, SysIInv, SysTypeOK, Reply, Parts, Answering, LeaseRuns
    <3>2. wk[r.to].age < LocalLimit /\ wk[r.to].age \in 0..L
      BY <1>4, <2>0, <3>1 DEF MayWait
    <3>3. wk'[r.to].age = wk[r.to].age + 1
      <4>1. Grow(wk[r.to].age) = wk[r.to].age + 1
        BY <1>3, <3>2, GrowFacts
      <4> QED  BY <1>5, <3>1, <4>1
    <3> QED  BY <1>10, <2>0, <3>1, <3>2, <3>3, TickLeased
  <2>4. ASSUME NEW r \in replies, r.op = "heartbeat", r.answer # "refused", wk'[r.to].mode = "running"
        PROVE  LeasedAfter(r.job, wk'[r.to].beat)
    <3>1. r.to \in Worker /\ Beating(r.to)
      BY <2>4 DEF SysIInv, SysTypeOK, Reply, Beating
    <3>2. wk[r.to].mode = "running" /\ wk[r.to].age < L
      BY <1>5, <2>0, <2>4, <3>1 DEF MayWait
    <3>3. wk'[r.to].beat = wk[r.to].beat + 1
      <4>1. /\ wk[r.to].beat \in 0..L /\ wk[r.to].age \in 0..L /\ wk[r.to].beat <= wk[r.to].age
        BY <1>4, <3>1
      <4>2. Grow(wk[r.to].beat) = wk[r.to].beat + 1
        BY <1>3, <3>2, <4>1, GrowFacts
      <4> QED  BY <1>5, <3>1, <3>2, <4>2 DEF Holding
    <3>4. LeasedFor(r.job, wk[r.to].beat) /\ r.job = wk[r.to].job /\ r.job \in Job
      BY <1>10, <2>4, <3>1, <3>2 DEF SysIInv, Parts, LeaseRuns, Answering, Held, Holding
    <3> QED  BY <1>4, <2>0, <3>1, <3>3, <3>4, TickLeased
  <2> QED  BY <1>2, <1>8, <2>1, <2>2, <2>3, <2>4 DEF LeaseRuns, LeasedFor, LeasedAfter
<1> QED  BY <1>6, <1>11, <1>12, <1>13, <1>14, <1>15, <1>17, <1>18, <1>19 DEF Parts

-----------------------------------------------------------------------------
(* Every step of the system is a step of the store, or leaves it alone. *)

LEMMA HandleIsNext ==
  ASSUME SysIInv, NEW c \in calls, Handle(c)
  PROVE  Next \/ UNCHANGED vars
<1>1. c \in Call /\ c.by \in Result /\ c.by \in Sha /\ c.status \in FinalStatus
  BY Names DEF SysIInv, SysTypeOK, Call
<1>2. c.op # "claim" => c.job \in Job /\ c.lease \in 0..issued
  BY DEF SysIInv, Parts, AllGranted, Granted, IInv, TypeOK
<1>3. CASE HandleClaim(c)
  <2>1. Claim(Project)
    BY <1>3 DEF HandleClaim, Claim
  <2> QED  BY <2>1 DEF Next, WorkerNext
<1>4. CASE HandleHeartbeat(c)
  BY <1>2, <1>4 DEF HandleHeartbeat, Next, WorkerNext, store, vars
<1>5. CASE HandleUpload(c)
  BY <1>2, <1>5 DEF HandleUpload, Next, WorkerNext, store, vars
<1>6. CASE HandlePublish(c)
  BY <1>1, <1>2, <1>6 DEF HandlePublish, Next, WorkerNext, store, vars
<1>7. CASE HandleFinish(c)
  <2>1. c.status \in Reported
    BY <1>1 DEF Reported
  <2> QED  BY <1>1, <1>2, <1>7, <2>1 DEF HandleFinish, Next, WorkerNext, store, vars
<1> QED  BY <1>3, <1>4, <1>5, <1>6, <1>7 DEF Handle

LEMMA SubmittersCalm ==
  ASSUME IInv, SubmitterNext \/ Prune
  PROVE  CalmStep
<1>1. ASSUME NEW k \in Key, NEW s \in JobSpec, Submit(k, s) PROVE CalmStep
  BY <1>1, SubmitCalm
<1>2. ASSUME NEW j \in Job, Cancel(j) PROVE CalmStep
  BY <1>2, CancelCalm
<1>3. CASE Read
  BY <1>3, NothingCalm DEF Read
<1>4. CASE Prune
  BY <1>4, PruneCalm
<1> QED  BY <1>1, <1>2, <1>3, <1>4 DEF SubmitterNext

LEMMA SysStep ==
  ASSUME SysIInv, SysNext
  PROVE  SysTypeOK' /\ Parts' /\ (Next \/ UNCHANGED vars)
<1>1. CASE Submitters
  <2>1. CalmStep /\ UNCHANGED <<wk, calls, replies>>
    BY <1>1, SubmittersCalm DEF Submitters, SysIInv
  <2> QED  BY <1>1, <2>1, OthersStep DEF Submitters, Next
<1>2. ASSUME NEW c \in calls, Handle(c)
      PROVE  SysTypeOK' /\ Parts' /\ (Next \/ UNCHANGED vars)
  <2>1. SysTypeOK' /\ Parts'
    BY <1>2, HandleClaimStep, HandleHeartbeatStep, HandleUploadStep, HandlePublishStep,
       HandleFinishStep DEF Handle
  <2> QED  BY <1>2, <2>1, HandleIsNext
<1>3. ASSUME NEW w \in Worker, WorkerStep(w)
      PROVE  SysTypeOK' /\ Parts' /\ (Next \/ UNCHANGED vars)
  BY <1>3, WorkerPartsStep DEF store, vars
<1>4. CASE SysTick
  BY <1>4, SysTickStep DEF SysTick, Next
<1> QED  BY <1>1, <1>2, <1>3, <1>4 DEF SysNext

LEMMA BoxSysStep == SysIInv /\ [SysNext]_sysVars => SysIInv' /\ [Next]_vars
<1> SUFFICES ASSUME SysIInv, [SysNext]_sysVars PROVE SysIInv' /\ [Next]_vars
  OBVIOUS
<1>1. CASE SysNext
  <2>1. SysTypeOK' /\ Parts' /\ (Next \/ UNCHANGED vars)
    BY <1>1, SysStep
  <2>2. IInv'
    BY <2>1, BoxNextStep DEF SysIInv
  <2> QED  BY <2>1, <2>2 DEF SysIInv
<1>2. CASE UNCHANGED sysVars
  <2>1. UNCHANGED vars /\ UNCHANGED <<wk, calls, replies>> /\ UNCHANGED store
    BY <1>2 DEF sysVars, vars, store
  <2>2. SysTypeOK' /\ Parts'
    BY <2>1, UnchangedCalm, OthersStep DEF SysIInv
  <2>3. IInv'
    BY <2>1, BoxNextStep DEF SysIInv
  <2> QED  BY <2>1, <2>2, <2>3 DEF SysIInv
<1> QED  BY <1>1, <1>2

LEMMA SysInitInv == SysInit => SysIInv
<1> SUFFICES ASSUME SysInit PROVE SysIInv
  OBVIOUS
<1>1. IInv
  BY InitInv DEF SysInit
<1>2. wk = [w \in Worker |-> Free("idle")] /\ calls = {} /\ replies = {}
  BY DEF SysInit
<1>3. Free("idle") \in WorkerState /\ \A w \in Worker : wk[w].mode = "idle" /\ wk[w].beat = 0 /\ wk[w].age = 0
  BY <1>2, FreeFacts DEF Mode
<1>4. SysTypeOK
  BY <1>2, <1>3 DEF SysTypeOK
<1>5. Offers = {} /\ Finishes = {} /\ \A w \in Worker : ~Held(w) /\ wk[w].mode \notin Unsent
  BY <1>2, <1>3 DEF Offers, Finishes, Held, Holding, Unsent
<1>6. AllGranted /\ Awaiting /\ Answering /\ OneHolder
  BY <1>2, <1>5 DEF AllGranted, Awaiting, Answering, OneHolder
<1>7. NotReportedYet /\ ReportsAgree /\ ArtifactFirst /\ LeaseRuns
  BY <1>2, <1>3, <1>5 DEF NotReportedYet, ReportsAgree, ArtifactFirst, LeaseRuns
<1> QED  BY <1>1, <1>4, <1>6, <1>7 DEF SysIInv, Parts

-----------------------------------------------------------------------------
(* Theorems. *)

\* SysIInv is an invariant of the system: the strengthening the others rest on.
THEOREM SysInductive == SysSpec => []SysIInv
<1>1. SysInit => SysIInv
  BY SysInitInv
<1>2. SysIInv /\ [SysNext]_sysVars => SysIInv'
  BY BoxSysStep
<1> QED  BY <1>1, <1>2, PTL DEF SysSpec

\* The workers and the network keep their types: clocks stay under their caps,
\* and no request names an outcome that a worker cannot report.
THEOREM SysTypeCorrect == SysSpec => []SysTypeOK
<1>1. SysIInv => SysTypeOK
  BY DEF SysIInv
<1> QED  BY <1>1, SysInductive, PTL

\* Whatever is lost, late, repeated or crashes, a running job is held on the
\* server by its own worker, with lease to spare.
THEOREM RunnerHoldsLeaseHolds == SysSpec => []RunnerHoldsLease
<1>1. SysIInv => RunnerHoldsLease
  <2> SUFFICES ASSUME SysIInv, NEW w \in Worker, wk[w].mode = "running"
               PROVE  LET r == jobs[wk[w].job]
                      IN  r.lease = wk[w].lease /\ r.status \in Active /\ r.lease_until > 0
    BY DEF RunnerHoldsLease
  <2>1. LeasedFor(wk[w].job, wk[w].age) /\ Granted(wk[w].job, wk[w].lease)
    BY DEF SysIInv, Parts, LeaseRuns, AllGranted, Held, Holding
  <2>2. /\ jobs[wk[w].job].status \in Active /\ jobs[wk[w].job].lease = wk[w].lease
        /\ jobs[wk[w].job].lease_until \in Nat
        /\ jobs[wk[w].job].lease_until + wk[w].age >= LeaseTime
    BY <2>1 DEF LeasedFor, Granted, Active, SysIInv, IInv, TypeOK, Row
  <2>3. wk[w].age \in 0..(LocalLimit + StopTime)
    BY DEF SysIInv, SysTypeOK, WorkerState
  <2>4. jobs[wk[w].job].lease_until > 0
    BY <2>2, <2>3, LocalAssumption, TimeAssumption
  <2> QED  BY <2>2, <2>4
<1> QED  BY <1>1, SysInductive, PTL

\* No two workers ever run jobs at the same time, though the server sees
\* nothing of a run but its requests.
THEOREM ExecutionExclusiveHolds == SysSpec => []ExecutionExclusive
<1>1. SysIInv => ExecutionExclusive
  <2> SUFFICES ASSUME SysIInv, NEW u \in Worker, NEW v \in Worker,
                      wk[u].mode = "running", wk[v].mode = "running"
               PROVE  u = v
    BY DEF ExecutionExclusive
  <2>1. /\ Granted(wk[u].job, wk[u].lease) /\ Granted(wk[v].job, wk[v].lease)
        /\ jobs[wk[u].job].status \in Active /\ jobs[wk[v].job].status \in Active
    BY DEF SysIInv, Parts, LeaseRuns, LeasedFor, AllGranted, Held, Holding
  <2>2. wk[u].job = wk[v].job
    BY <2>1 DEF SysIInv, IInv, OneActive, Granted
  <2>3. wk[u].lease = wk[v].lease
    BY <2>1, <2>2 DEF Granted, Active
  <2> QED  BY <2>3 DEF SysIInv, Parts, OneHolder, Held, Holding
<1> QED  BY <1>1, SysInductive, PTL

\* A completion is refused when its lease has run out and for no other reason,
\* and one sent again agrees with what it recorded.
THEOREM CompletionAcceptedHolds == SysSpec => []CompletionAccepted
<1>1. SysIInv => CompletionAccepted
  <2> SUFFICES ASSUME SysIInv, NEW c \in calls, c.op = "finish"
               PROVE  /\ Owned(c.job, c.lease) => MayFinish(c.job, c.lease, c.status)
                      /\ jobs[c.job].result = c.by => IsRecorded(c.job, c.lease, c.status, c.by)
    BY DEF CompletionAccepted
  <2>1. /\ c \in Finishes /\ c.by \in Worker /\ c.status \in FinalStatus
        /\ c.job \in Job /\ Granted(c.job, c.lease)
    BY DEF Finishes, SysIInv, SysTypeOK, Call, Parts, AllGranted, Granted
  <2>2. /\ db[c.job] = ReapRow(jobs[c.job]) /\ jobs[c.job] \in Row
        /\ db[c.job].status \in Active => db[c.job] = jobs[c.job]
    BY <2>1, DbRow DEF SysIInv, IInv, TypeOK, Active
  <2>3. ASSUME Owned(c.job, c.lease) PROVE MayFinish(c.job, c.lease, c.status)
    <3>1. c.status = "succeeded" => HasArtifact(c.job)
      BY <2>1 DEF SysIInv, Parts, ArtifactFirst
    <3> QED  BY <2>2, <2>3, <3>1 DEF MayFinish, Owned, Outcome, HasArtifact, Active
  <2>4. ASSUME jobs[c.job].result = c.by PROVE IsRecorded(c.job, c.lease, c.status, c.by)
    <3>1. jobs[c.job].status \in {c.status, "cancelled"}
      BY <2>1, <2>4 DEF SysIInv, Parts, ReportsAgree
    <3>2. jobs[c.job].status \in Terminal \ {"deleted"}
      BY <2>1, <3>1 DEF FinalStatus, Terminal
    <3>3. db[c.job] = jobs[c.job]
      BY <2>2, <3>2 DEF ReapRow, Terminal
    <3> QED  BY <2>1, <2>4, <3>1, <3>2, <3>3 DEF IsRecorded, Granted
  <2> QED  BY <2>3, <2>4
<1> QED  BY <1>1, SysInductive, PTL

\* The server behind its handlers, with workers and a network, is the Store:
\* every step is one of its transactions or changes nothing of it. So every
\* theorem of StoreProofs is one about the system.
THEOREM MacQueueImplementsStore == SysSpec => ImplementsStore
<1>1. SysInit => Init
  BY DEF SysInit
<1>2. SysIInv /\ [SysNext]_sysVars => [Next]_vars
  BY BoxSysStep
<1> QED  BY <1>1, <1>2, SysInductive, PTL DEF SysSpec, ImplementsStore, Spec
=============================================================================
