---------------------------- MODULE StoreProofs ----------------------------
(***************************************************************************)
(* Proofs about Store, for every value of its constants.                   *)
(*                                                                         *)
(* The table is a function from ids to rows and a transaction moves every  *)
(* row at most once after its reap, so the argument has two layers: RowMove *)
(* says what one step may do to one row, and the row-to-row facts (one     *)
(* active job, tokens and keys not shared) are carried beside it. The log  *)
(* of a job has an invariant of its own, about one row alone.              *)
(***************************************************************************)
EXTENDS Store, SumTheorems, TLAPS

\* A row alone: what its status says about its other fields.
RowOK(r) == /\ r.status = "absent" => r = NoRow
            /\ r.status \in {"queued", "deleted"} => r.lease = 0 /\ r.result = Null
            /\ r.status = "queued" => r.artifact = Null /\ r.finished = 0
            /\ r.status \in Active => r.lease # 0 /\ r.result = Null /\ r.finished = 0
            /\ r.status = "succeeded" => r.artifact # Null

RowsOK == \A j \in Job : RowOK(jobs[j])

\* The inductive invariant.
IInv == TypeOK /\ RowsOK /\ OneActive /\ LeasesDistinct /\ KeysDistinct

\* What the transaction of one step may do to one row, r before and s after.
RowMove(r, s) ==
    \/ s = r
    \/ s = ReapRow(r)
    \/ s = Older(r)
    \/ /\ r.status = "absent"
       /\ s.status = "queued" /\ s.lease = 0 /\ s.result = Null
    \/ /\ r.status = "queued"
       /\ s = [r EXCEPT !.status = "cancelled"]
    \/ /\ r.status = "queued"
       /\ s.status = "running" /\ s.result = r.result
    \/ /\ r.status = "running" /\ r.lease_until # 0
       /\ s = [r EXCEPT !.status = "cancel_requested"]
    \/ /\ r.status \in Active /\ r.lease_until # 0
       /\ s.status = r.status /\ s.lease = r.lease /\ s.result = r.result
    \/ /\ r.status \in Active /\ r.lease_until # 0
       /\ s.status \in FinalStatus /\ s.lease = r.lease
       /\ r.status = "cancel_requested" => s.status = "cancelled"
    \/ /\ r.status \in Terminal
       /\ s = Pruned(r)

-----------------------------------------------------------------------------
(* Rows. *)

LEMMA NoRowFacts == NoRow \in Row /\ RowOK(NoRow)
  BY TimeAssumption DEF NoRow, Row, RowOK, Status, Active, Terminal

\* Reaping keeps a row a row, and only ever ends a job.
LEMMA ReapFacts ==
  ASSUME NEW r \in Row, RowOK(r)
  PROVE  /\ ReapRow(r) \in Row
         /\ RowOK(ReapRow(r))
         /\ ReapRow(r).lease = r.lease
         /\ ReapRow(r).request_key = r.request_key
         /\ ReapRow(r).status \in Active \cup {"queued", "absent", "deleted"} => ReapRow(r) = r
         /\ ReapRow(r).status \in Active => r.lease_until # 0
         /\ ReapRow(r) # r => r.status \in Active \cup {"queued"} /\ ReapRow(r).status \in Terminal
  BY DEF Row, RowOK, ReapRow, Status, Active, Terminal

LEMMA OlderFacts ==
  ASSUME NEW r \in Row, RowOK(r)
  PROVE  /\ Older(r) \in Row
         /\ RowOK(Older(r))
         /\ Older(r).status = r.status
         /\ Older(r).lease = r.lease
         /\ Older(r).request_key = r.request_key
         /\ Older(r).result = r.result
  BY TimeAssumption DEF Row, RowOK, Older, Dec, Status, Active, Terminal

LEMMA PrunedFacts ==
  ASSUME NEW r \in Row
  PROVE  /\ Pruned(r) \in Row
         /\ RowOK(Pruned(r))
         /\ Pruned(r).status = "deleted"
         /\ Pruned(r).lease = 0
<1> DEFINE p == Pruned(r)
<1>1. p \in Row
  BY NoRowFacts DEF Pruned, Row, Status
<1>2. p.status = "deleted" /\ p.lease = 0 /\ p.result = Null
  BY NoRowFacts DEF Pruned, NoRow, Row
<1>3. RowOK(p)
  BY <1>2 DEF RowOK, Active
<1> QED  BY <1>1, <1>2, <1>3

-----------------------------------------------------------------------------
(* Tables. *)

EveryRowMoves == \A j \in Job : RowMove(jobs[j], jobs'[j])

\* The table an operation works on satisfies all that the stored one does.
LEMMA DbFacts ==
  ASSUME IInv
  PROVE  /\ db \in [Job -> Row]
         /\ \A j \in Job :
              /\ db[j] = ReapRow(jobs[j])
              /\ RowOK(db[j])
              /\ db[j].lease = jobs[j].lease
              /\ db[j].lease \in 0..issued
              /\ db[j].request_key = jobs[j].request_key
              /\ Exists(db[j]) => Exists(jobs[j])
              /\ db[j].status \in Active \cup {"queued", "absent", "deleted"} => db[j] = jobs[j]
              /\ db[j].status \in Active => jobs[j].lease_until # 0
         /\ \A i, j \in Job : db[i].status \in Active /\ db[j].status \in Active => i = j
         /\ \A i, j \in Job : db[i].lease = db[j].lease /\ db[i].lease # 0 => i = j
         /\ \A i, j \in Job : Exists(db[i]) /\ Exists(db[j])
                              /\ db[i].request_key = db[j].request_key => i = j
<1>1. ASSUME NEW j \in Job
      PROVE  /\ db[j] = ReapRow(jobs[j])
             /\ db[j] \in Row
             /\ RowOK(db[j])
             /\ db[j].lease = jobs[j].lease
             /\ db[j].lease \in 0..issued
             /\ db[j].request_key = jobs[j].request_key
             /\ Exists(db[j]) => Exists(jobs[j])
             /\ db[j].status \in Active \cup {"queued", "absent", "deleted"} => db[j] = jobs[j]
             /\ db[j].status \in Active => jobs[j].lease_until # 0
  <2>1. jobs[j] \in Row /\ RowOK(jobs[j]) /\ jobs[j].lease \in 0..issued
    BY DEF IInv, TypeOK, RowsOK
  <2>2. db[j] = ReapRow(jobs[j])
    BY DEF db
  <2> QED  BY <2>1, <2>2, ReapFacts DEF Exists, Active
<1>2. db \in [Job -> Row]
  BY <1>1 DEF db
<1> QED  BY <1>1, <1>2 DEF IInv, OneActive, LeasesDistinct, KeysDistinct

\* The part of DbFacts that is about one row.
LEMMA DbRow ==
  ASSUME IInv, NEW j \in Job
  PROVE  /\ db[j] \in Row
         /\ db[j] = ReapRow(jobs[j])
         /\ RowOK(db[j])
         /\ db[j].lease \in 0..issued
         /\ db[j].status \in {"running", "cancel_requested", "queued", "absent", "deleted"} => db[j] = jobs[j]
         /\ db[j].status \in Active => jobs[j].lease_until # 0
  BY DbFacts DEF Active

\* A transaction whose operation writes nothing.
LEMMA NoRowChanges ==
  ASSUME IInv, jobs' = db, issued' = issued
  PROVE  IInv' /\ EveryRowMoves
<1>1. EveryRowMoves
  BY DbFacts DEF EveryRowMoves, RowMove
<1>2. TypeOK' /\ RowsOK'
  BY DbFacts DEF TypeOK, RowsOK, IInv
<1>3. OneActive' /\ LeasesDistinct' /\ KeysDistinct'
  BY DbFacts DEF OneActive, LeasesDistinct, KeysDistinct
<1> QED  BY <1>1, <1>2, <1>3 DEF IInv

\* A transaction whose operation writes the row of job k.
LEMMA OneRowChanges ==
  ASSUME IInv, NEW k \in Job, NEW r \in Row, RowOK(r), RowMove(jobs[k], r),
         jobs' = [db EXCEPT ![k] = r],
         issued' \in Nat, issued <= issued', r.lease \in 0..issued',
         r.status \in Active => \A i \in Job \ {k} : db[i].status \notin Active,
         r.lease # 0 => \A i \in Job \ {k} : db[i].lease # r.lease,
         Exists(r) => \A i \in Job \ {k} : Exists(db[i]) => db[i].request_key # r.request_key
  PROVE  IInv' /\ EveryRowMoves
<1>1. \A j \in Job : jobs'[j] = IF j = k THEN r ELSE db[j]
  BY DbFacts
<1>2. EveryRowMoves
  BY <1>1, DbFacts DEF EveryRowMoves, RowMove
<1>3. TypeOK'
  <2>1. jobs' \in [Job -> Row]
    BY DbFacts
  <2>2. \A j \in Job : jobs'[j].lease \in 0..issued'
    BY <1>1, DbFacts DEF IInv, TypeOK
  <2> QED  BY <2>1, <2>2 DEF TypeOK
<1>4. RowsOK'
  BY <1>1, DbFacts DEF RowsOK
<1>5. OneActive'
  BY <1>1, DbFacts DEF OneActive
<1>6. LeasesDistinct'
  BY <1>1, DbFacts DEF LeasesDistinct
<1>7. KeysDistinct'
  BY <1>1, DbFacts DEF KeysDistinct
<1> QED  BY <1>2, <1>3, <1>4, <1>5, <1>6, <1>7 DEF IInv

\* The same, when the operation leaves the job's token and key alone.
LEMMA SameLeaseChanges ==
  ASSUME IInv, NEW k \in Job, NEW r \in Row, RowOK(r), RowMove(jobs[k], r),
         jobs' = [db EXCEPT ![k] = r], issued' = issued, Exists(db[k]),
         r.lease = db[k].lease, r.request_key = db[k].request_key,
         r.status \in Active => db[k].status \in Active
  PROVE  IInv' /\ EveryRowMoves
<1>1. issued' \in Nat /\ issued <= issued' /\ r.lease \in 0..issued'
  BY DbFacts DEF IInv, TypeOK
<1>2. r.status \in Active => \A i \in Job \ {k} : db[i].status \notin Active
  BY DbFacts
<1>3. r.lease # 0 => \A i \in Job \ {k} : db[i].lease # r.lease
  BY DbFacts
<1>4. \A i \in Job \ {k} : Exists(db[i]) => db[i].request_key # r.request_key
  BY DbFacts
<1> QED  BY <1>1, <1>2, <1>3, <1>4, OneRowChanges

-----------------------------------------------------------------------------
(* Every action preserves the invariant and moves every row legally. *)

LEMMA SubmitStep ==
  ASSUME IInv, NEW k \in Key, NEW s \in JobSpec, Submit(k, s)
  PROVE  IInv' /\ EveryRowMoves
<1>1. CASE Resubmit(k, s)
  BY <1>1, NoRowChanges DEF Resubmit
<1>2. CASE Accept(k, s)
  <2> DEFINE n == Cardinality({i \in Job : db[i].status # "absent"})
             new == [NoRow EXCEPT !.status = "queued", !.spec = s, !.request_key = k,
                                  !.expires = s.expires_in, !.created = n]
  <2>1. PICK j \in Job : db[j].status = "absent" /\ jobs' = [db EXCEPT ![j] = new]
    BY <1>2 DEF Accept
  <2>2. n \in Nat
    <3>1. IsFiniteSet({i \in Job : db[i].status # "absent"})
      BY JobAssumption, FS_Subset
    <3> QED  BY <3>1, FS_CardinalityType
  <2>3. new \in Row
    BY <2>2, NoRowFacts, SpecAssumption DEF Row, Status
  <2>4. /\ new.status = "queued" /\ new.lease = 0 /\ new.result = Null
        /\ new.artifact = Null /\ new.finished = 0 /\ new.request_key = k
    BY NoRowFacts DEF NoRow, Row
  <2>5. RowOK(new)
    BY <2>4 DEF RowOK, Active
  <2>6. RowMove(jobs[j], new)
    BY <2>1, <2>4, DbFacts DEF RowMove
  <2>7. \A i \in Job : Exists(db[i]) => db[i].request_key # new.request_key
    BY <1>2, <2>4 DEF Accept
  <2>8. issued' = issued /\ issued \in Nat
    BY <1>2 DEF Accept, IInv, TypeOK
  <2>9. /\ new.status \notin Active /\ new.lease = 0
        /\ issued' \in Nat /\ issued <= issued' /\ new.lease \in 0..issued'
    BY <2>4, <2>8 DEF Active
  <2> HIDE DEF new
  <2> QED  BY <2>1, <2>3, <2>4, <2>5, <2>6, <2>7, <2>8, <2>9, OneRowChanges
<1> QED  BY <1>1, <1>2 DEF Submit

LEMMA CancelStep ==
  ASSUME IInv, NEW j \in Job, Cancel(j)
  PROVE  IInv' /\ EveryRowMoves
<1>1. CASE db[j].status = "queued"
  <2> DEFINE r == [db[j] EXCEPT !.status = "cancelled"]
  <2>1. jobs' = [db EXCEPT ![j] = r] /\ issued' = issued
    BY <1>1, DbFacts DEF Cancel
  <2>2. r \in Row /\ RowOK(r) /\ RowMove(jobs[j], r) /\ r.lease = db[j].lease
                  /\ r.request_key = db[j].request_key /\ r.status = "cancelled"
    BY <1>1, DbFacts DEF Row, RowOK, RowMove, Status, Active, Terminal
  <2> HIDE DEF r
  <2> QED  BY <1>1, <2>1, <2>2, SameLeaseChanges DEF Active, Exists
<1>2. CASE db[j].status = "running"
  <2> DEFINE r == [db[j] EXCEPT !.status = "cancel_requested"]
  <2>1. jobs' = [db EXCEPT ![j] = r] /\ issued' = issued
    BY <1>2, DbFacts DEF Cancel
  <2>2. r \in Row /\ RowOK(r) /\ RowMove(jobs[j], r) /\ r.lease = db[j].lease
                  /\ r.request_key = db[j].request_key /\ r.status = "cancel_requested"
    BY <1>2, DbFacts DEF Row, RowOK, RowMove, Status, Active, Terminal
  <2> HIDE DEF r
  <2> QED  BY <1>2, <2>1, <2>2, SameLeaseChanges DEF Active, Exists
<1>3. CASE db[j].status \notin {"queued", "running"}
  BY <1>3, NoRowChanges DEF Cancel
<1> QED  BY <1>1, <1>2, <1>3

LEMMA ClaimStep ==
  ASSUME IInv, NEW projects \in SUBSET Project, Claim(projects)
  PROVE  IInv' /\ EveryRowMoves
<1>1. CASE ClaimNone(projects)
  BY <1>1, NoRowChanges DEF ClaimNone
<1>2. ASSUME NEW j \in Job, ClaimJob(j, projects)
      PROVE  IInv' /\ EveryRowMoves
  <2> DEFINE r == [db[j] EXCEPT !.status = "running", !.lease = issued + 1,
                                !.lease_until = LeaseTime]
  <2>1. issued \in Nat /\ db[j].status = "queued"
    BY <1>2 DEF IInv, TypeOK, ClaimJob, Eligible, Queued
  <2>2. jobs' = [db EXCEPT ![j] = r] /\ issued' = issued + 1
    BY <1>2, DbFacts DEF ClaimJob
  <2>3. r \in Row /\ RowOK(r) /\ RowMove(jobs[j], r) /\ r.lease = issued + 1
                  /\ r.request_key = db[j].request_key /\ r.status = "running"
    <3>1. db[j] \in Row /\ RowOK(db[j]) /\ db[j] = jobs[j]
      BY <2>1, DbRow
    <3>2. r \in Row /\ r.lease = issued + 1 /\ r.request_key = db[j].request_key
                    /\ r.status = "running" /\ r.result = db[j].result /\ r.finished = db[j].finished
      <4>1. issued + 1 \in Nat /\ LeaseTime \in Nat /\ "running" \in Status
        BY <2>1, TimeAssumption DEF Status, Active
      <4> QED  BY <3>1, <4>1 DEF Row
    <3>3. RowOK(r)
      BY <2>1, <3>1, <3>2 DEF RowOK, Active
    <3>4. RowMove(jobs[j], r)
      BY <2>1, <3>1, <3>2 DEF RowMove
    <3> QED  BY <3>2, <3>3, <3>4
  <2>4. \A i \in Job : db[i].status \notin Active /\ db[i].lease # issued + 1
    <3>1. \A i \in Job : db[i].status \notin Active
      BY <1>2 DEF ClaimJob
    <3>2. \A i \in Job : db[i].lease \in 0..issued
      BY DbFacts
    <3> QED  BY <2>1, <3>1, <3>2
  <2> HIDE DEF r
  <2>5. \A i \in Job \ {j} : Exists(db[i]) => db[i].request_key # r.request_key
    BY <2>1, <2>3, DbFacts DEF Exists
  <2>6. issued' \in Nat /\ issued <= issued' /\ r.lease \in 0..issued'
    BY <2>1, <2>2, <2>3
  <2> QED  BY <2>2, <2>3, <2>4, <2>5, <2>6, OneRowChanges
<1> QED  BY <1>1, <1>2 DEF Claim

\* The three writes a holder makes while its job stays active.
LEMMA HolderStep ==
  ASSUME IInv, NEW j \in Job, NEW l \in Nat, Owned(j, l), NEW r \in Row,
         jobs' = [db EXCEPT ![j] = r], issued' = issued,
         r.status = db[j].status, r.lease = db[j].lease, r.result = db[j].result,
         r.finished = db[j].finished, r.request_key = db[j].request_key
  PROVE  IInv' /\ EveryRowMoves
<1>1. /\ db[j] = jobs[j] /\ jobs[j].status \in Active /\ jobs[j].lease_until # 0
      /\ db[j].lease # 0 /\ RowOK(db[j]) /\ Exists(db[j])
  BY DbFacts DEF Owned, Exists, Active
<1>2. RowOK(r) /\ RowMove(jobs[j], r)
  BY <1>1 DEF RowOK, RowMove, Active
<1> QED  BY <1>1, <1>2, SameLeaseChanges

LEMMA HeartbeatStep ==
  ASSUME IInv, NEW j \in Job, NEW l \in Nat, Heartbeat(j, l)
  PROVE  IInv' /\ EveryRowMoves
<1> DEFINE r == [db[j] EXCEPT !.lease_until = LeaseTime]
<1>1. db[j] \in Row /\ jobs' = [db EXCEPT ![j] = r] /\ issued' = issued /\ Owned(j, l)
  BY DbFacts DEF Heartbeat
<1>2. /\ r \in Row
      /\ r.status = db[j].status /\ r.lease = db[j].lease /\ r.result = db[j].result
      /\ r.finished = db[j].finished /\ r.request_key = db[j].request_key
  BY <1>1, TimeAssumption DEF Row
<1> HIDE DEF r
<1> QED  BY <1>1, <1>2, HolderStep

LEMMA AppendLogStep ==
  ASSUME IInv, NEW j \in Job, NEW l \in Nat, NEW q \in LogSeq, NEW t \in Text, AppendLog(j, l, q, t)
  PROVE  IInv' /\ EveryRowMoves
<1>1. CASE jobs' = db
  BY <1>1, NoRowChanges DEF AppendLog
<1>2. CASE jobs' # db
  <2> DEFINE r == [db[j] EXCEPT !.log = @ \cup {[seq |-> q, text |-> t]},
                                !.log_bytes = @ + Bytes[t]]
  <2>1. db[j] \in Row /\ jobs' = [db EXCEPT ![j] = r] /\ issued' = issued /\ Owned(j, l)
    BY <1>2, DbFacts DEF AppendLog
  <2>2. /\ r \in Row
        /\ r.status = db[j].status /\ r.lease = db[j].lease /\ r.result = db[j].result
        /\ r.finished = db[j].finished /\ r.request_key = db[j].request_key
    <3>1. [seq |-> q, text |-> t] \in Chunk /\ Bytes[t] \in Nat
      BY LogAssumption DEF Chunk
    <3>2. /\ db[j].log \cup {[seq |-> q, text |-> t]} \in SUBSET Chunk
          /\ db[j].log_bytes + Bytes[t] \in Nat
      BY <2>1, <3>1 DEF Row
    <3> QED  BY <2>1, <3>2 DEF Row
  <2> HIDE DEF r
  <2> QED  BY <2>1, <2>2, HolderStep
<1> QED  BY <1>1, <1>2

LEMMA PublishArtifactStep ==
  ASSUME IInv, NEW j \in Job, NEW l \in Nat, NEW sha \in Sha, PublishArtifact(j, l, sha)
  PROVE  IInv' /\ EveryRowMoves
<1> DEFINE r == [db[j] EXCEPT !.artifact = sha]
<1>1. db[j] \in Row /\ jobs' = [db EXCEPT ![j] = r] /\ issued' = issued /\ Owned(j, l)
  BY DbFacts DEF PublishArtifact
<1>2. /\ r \in Row
      /\ r.status = db[j].status /\ r.lease = db[j].lease /\ r.result = db[j].result
      /\ r.finished = db[j].finished /\ r.request_key = db[j].request_key
  BY <1>1 DEF Row
<1> HIDE DEF r
<1> QED  BY <1>1, <1>2, HolderStep

LEMMA FinishStep ==
  ASSUME IInv, NEW j \in Job, NEW l \in Nat, NEW status \in Reported, NEW result \in Result,
         Finish(j, l, status, result)
  PROVE  IInv' /\ EveryRowMoves
<1>1. CASE jobs' = db
  BY <1>1, NoRowChanges DEF Finish
<1>2. CASE jobs' # db
  <2> DEFINE r == [db[j] EXCEPT !.status = Outcome(j, status), !.result = result]
  <2>1. /\ db[j] \in Row /\ RowOK(db[j]) /\ db[j] = jobs[j] /\ jobs[j].lease_until # 0
        /\ db[j].status \in Active
        /\ jobs' = [db EXCEPT ![j] = r] /\ issued' = issued
    BY <1>2, DbRow, DbFacts DEF Finish, MayFinish, Owned, Active
  <2>2. Outcome(j, status) \in FinalStatus
        /\ (db[j].status = "cancel_requested" => Outcome(j, status) = "cancelled")
        /\ (Outcome(j, status) = "succeeded" => db[j].artifact # Null)
    BY <1>2 DEF Finish, MayFinish, Outcome, FinalStatus
  <2>3. /\ r \in Row /\ r.status = Outcome(j, status) /\ r.lease = db[j].lease
        /\ r.request_key = db[j].request_key /\ r.artifact = db[j].artifact
    BY <2>1, <2>2 DEF Row, FinalStatus, Status, Terminal
  <2>4. RowOK(r) /\ r.status \notin Active
    BY <2>2, <2>3 DEF RowOK, FinalStatus, Active
  <2>5. RowMove(jobs[j], r)
    BY <2>1, <2>2, <2>3 DEF RowMove
  <2>6. Exists(db[j])
    BY <2>1 DEF Exists, Active
  <2> HIDE DEF r
  <2> QED  BY <2>1, <2>3, <2>4, <2>5, <2>6, SameLeaseChanges
<1> QED  BY <1>1, <1>2

LEMMA PruneStep ==
  ASSUME IInv, Prune
  PROVE  IInv' /\ EveryRowMoves
<1>1. ASSUME NEW j \in Job
      PROVE  /\ jobs'[j] \in Row /\ RowOK(jobs'[j]) /\ RowMove(jobs[j], jobs'[j])
             /\ jobs'[j].lease \in 0..issued
             /\ \/ jobs'[j] = db[j]
                \/ jobs'[j].status = "deleted" /\ jobs'[j].lease = 0
  <2>1. CASE db[j].status \in Terminal /\ db[j].finished = Retention
    <3>1. jobs[j] \in Row /\ RowOK(jobs[j]) /\ db[j] = ReapRow(jobs[j])
      BY DEF IInv, TypeOK, RowsOK, db
    <3>2. db[j] = jobs[j]
      BY <2>1, <3>1, TimeAssumption DEF ReapRow, RowOK, Active, Row
    <3>3. jobs'[j] = Pruned(jobs[j])
      BY <2>1, <3>2 DEF Prune
    <3> QED  BY <2>1, <3>1, <3>2, <3>3, PrunedFacts DEF RowMove, IInv, TypeOK
  <2>2. CASE ~(db[j].status \in Terminal /\ db[j].finished = Retention)
    <3>1. jobs'[j] = db[j]
      BY <2>2 DEF Prune
    <3> QED  BY <3>1, DbFacts DEF RowMove
  <2> QED  BY <2>1, <2>2
<1>2. jobs' \in [Job -> Row] /\ issued' = issued
  BY <1>1 DEF Prune
<1>3. EveryRowMoves /\ TypeOK' /\ RowsOK'
  BY <1>1, <1>2 DEF EveryRowMoves, TypeOK, RowsOK, IInv
<1>4. OneActive' /\ LeasesDistinct' /\ KeysDistinct'
  BY <1>1, DbFacts DEF OneActive, LeasesDistinct, KeysDistinct, Active, Exists
<1> QED  BY <1>3, <1>4 DEF IInv

LEMMA TickStep ==
  ASSUME IInv, Tick
  PROVE  IInv' /\ EveryRowMoves
<1>1. ASSUME NEW j \in Job
      PROVE  /\ jobs'[j] = Older(jobs[j])
             /\ jobs'[j] \in Row /\ RowOK(jobs'[j])
             /\ jobs'[j].status = jobs[j].status
             /\ jobs'[j].lease = jobs[j].lease
             /\ jobs'[j].request_key = jobs[j].request_key
  <2>1. jobs'[j] = Older(jobs[j])
    BY DEF Tick
  <2>2. jobs[j] \in Row /\ RowOK(jobs[j])
    BY DEF IInv, TypeOK, RowsOK
  <2> QED  BY <2>1, <2>2, OlderFacts
<1>2. jobs' \in [Job -> Row] /\ issued' = issued
  BY <1>1 DEF Tick
<1>3. EveryRowMoves /\ TypeOK' /\ RowsOK'
  BY <1>1, <1>2 DEF EveryRowMoves, RowMove, TypeOK, RowsOK, IInv
<1>4. OneActive' /\ LeasesDistinct' /\ KeysDistinct'
  BY <1>1 DEF IInv, OneActive, LeasesDistinct, KeysDistinct, Exists
<1> QED  BY <1>3, <1>4 DEF IInv

LEMMA NextStep ==
  ASSUME IInv, Next
  PROVE  IInv' /\ EveryRowMoves
<1>1. CASE SubmitterNext
  BY <1>1, SubmitStep, CancelStep, NoRowChanges DEF SubmitterNext, Read
<1>2. CASE WorkerNext
  <2>1. 0..issued \subseteq Nat
    BY DEF IInv, TypeOK
  <2> QED
    BY <1>2, <2>1, ClaimStep, HeartbeatStep, AppendLogStep, PublishArtifactStep, FinishStep
    DEF WorkerNext
<1> QED  BY <1>1, <1>2, PruneStep, TickStep DEF Next

LEMMA StutterStep ==
  ASSUME IInv, UNCHANGED vars
  PROVE  IInv' /\ EveryRowMoves
BY DEF vars, IInv, TypeOK, RowsOK, OneActive, LeasesDistinct, KeysDistinct, EveryRowMoves, RowMove

LEMMA BoxNextStep == IInv /\ [Next]_vars => IInv' /\ EveryRowMoves
BY NextStep, StutterStep

-----------------------------------------------------------------------------
(* Theorems. *)

LEMMA InitInv == Init => IInv
<1> SUFFICES ASSUME Init PROVE IInv
  OBVIOUS
<1>1. \A j \in Job : jobs[j] = NoRow
  BY DEF Init
<1>2. NoRow.status = "absent" /\ NoRow.lease = 0
  BY DEF NoRow
<1>3. TypeOK
  BY <1>1, <1>2, NoRowFacts DEF Init, TypeOK
<1>4. RowsOK
  BY <1>1, NoRowFacts DEF RowsOK
<1>5. OneActive /\ LeasesDistinct /\ KeysDistinct
  BY <1>1, <1>2 DEF OneActive, LeasesDistinct, KeysDistinct, Exists, Active
<1> QED  BY <1>3, <1>4, <1>5 DEF IInv

\* IInv holds in every reachable state.
THEOREM InductiveInvariant == Spec => []IInv
<1>1. Init => IInv
  BY InitInv
<1>2. IInv /\ [Next]_vars => IInv'
  BY BoxNextStep
<1> QED  BY <1>1, <1>2, PTL DEF Spec

\* The table keeps its types, and no row holds a token that was not drawn.
THEOREM TypeCorrect == Spec => []TypeOK
<1>1. IInv => TypeOK
  BY DEF IInv
<1> QED  BY <1>1, InductiveInvariant, PTL

\* At most one job is being worked on, for any number of jobs and workers.
THEOREM OneActiveHolds == Spec => []OneActive
<1>1. IInv => OneActive
  BY DEF IInv
<1> QED  BY <1>1, InductiveInvariant, PTL

\* A success always has its artifact.
THEOREM SucceededHasArtifactHolds == Spec => []SucceededHasArtifact
<1>1. IInv => SucceededHasArtifact
  BY DEF IInv, RowsOK, RowOK, SucceededHasArtifact
<1> QED  BY <1>1, InductiveInvariant, PTL

\* Tokens and keys each name one job of the table.
THEOREM TokensAndKeysDistinct == Spec => [](LeasesDistinct /\ KeysDistinct)
<1>1. IInv => LeasesDistinct /\ KeysDistinct
  BY DEF IInv
<1> QED  BY <1>1, InductiveInvariant, PTL

\* An outcome is final.
THEOREM OutcomeIsFinalHolds == Spec => OutcomeIsFinal
<1> DEFINE A == \A j \in Job : jobs[j].status \in Terminal =>
                   \/ jobs'[j] = Pruned(jobs[j])
                   \/ jobs'[j] = [jobs[j] EXCEPT !.finished = jobs'[j].finished]
<1>1. IInv /\ IInv' /\ [Next]_vars => A
  <2> SUFFICES ASSUME IInv, IInv', [Next]_vars, NEW j \in Job, jobs[j].status \in Terminal
               PROVE  \/ jobs'[j] = Pruned(jobs[j])
                      \/ jobs'[j] = [jobs[j] EXCEPT !.finished = jobs'[j].finished]
    OBVIOUS
  <2>1. jobs[j] \in Row /\ RowMove(jobs[j], jobs'[j])
    BY BoxNextStep DEF IInv, TypeOK, EveryRowMoves
  <2>2. ReapRow(jobs[j]) = jobs[j]
    BY <2>1 DEF ReapRow, Terminal
  <2>3. \/ jobs'[j] = jobs[j]
        \/ jobs'[j] = Older(jobs[j])
        \/ jobs'[j] = Pruned(jobs[j])
    BY <2>1, <2>2 DEF RowMove, Active, Terminal
  <2>4. jobs[j] = [jobs[j] EXCEPT !.finished = jobs[j].finished]
    BY <2>1 DEF Row
  <2>5. \/ Older(jobs[j]) = jobs[j]
        \/ Older(jobs[j]) = [jobs[j] EXCEPT !.finished = @ + 1]
    BY DEF Older, Active, Terminal
  <2>6. [jobs[j] EXCEPT !.finished = @ + 1]
          = [jobs[j] EXCEPT !.finished = [jobs[j] EXCEPT !.finished = @ + 1].finished]
    BY <2>1 DEF Row
  <2> QED  BY <2>3, <2>4, <2>5, <2>6
<1>2. IInv /\ IInv' /\ [Next]_vars => [A]_vars
  BY <1>1
<1> HIDE DEF A
<1>3. Spec => [][A]_vars
  BY <1>2, InductiveInvariant, PTL DEF Spec
<1> QED  BY <1>3 DEF OutcomeIsFinal, A

\* Cancellation wins every race with completion and with the lease's expiry.
THEOREM CancelWinsHolds == Spec => CancelWins
<1> DEFINE A == \A j \in Job : jobs[j].status = "cancel_requested" =>
                   jobs'[j].status \in {"cancel_requested", "cancelled"}
<1>1. IInv /\ [Next]_vars => [A]_vars
  <2> SUFFICES ASSUME IInv, [Next]_vars, NEW j \in Job, jobs[j].status = "cancel_requested"
               PROVE  jobs'[j].status \in {"cancel_requested", "cancelled"}
    OBVIOUS
  <2>1. jobs[j] \in Row /\ RowMove(jobs[j], jobs'[j])
    BY BoxNextStep DEF IInv, TypeOK, EveryRowMoves
  <2> QED  BY <2>1 DEF RowMove, Row, ReapRow, Older, Active, Terminal
<1> HIDE DEF A
<1>2. Spec => [][A]_vars
  BY <1>1, InductiveInvariant, PTL DEF Spec
<1> QED  BY <1>2 DEF CancelWins, A

\* A holder whose lease ran out changes nothing.
THEOREM LateHolderRefusedHolds == Spec => LateHolderRefused
<1> DEFINE A == \A j \in Job : jobs[j].status \in Active /\ jobs[j].lease_until = 0 =>
                   \/ jobs'[j] = jobs[j]
                   \/ jobs'[j] = ReapRow(jobs[j])
<1>1. IInv /\ [Next]_vars => [A]_vars
  <2> SUFFICES ASSUME IInv, [Next]_vars, NEW j \in Job,
                      jobs[j].status \in Active, jobs[j].lease_until = 0
               PROVE  jobs'[j] = jobs[j] \/ jobs'[j] = ReapRow(jobs[j])
    OBVIOUS
  <2>1. jobs[j] \in Row /\ RowMove(jobs[j], jobs'[j])
    BY BoxNextStep DEF IInv, TypeOK, EveryRowMoves
  <2>2. Older(jobs[j]) = jobs[j]
    <3>1. Older(jobs[j]) = [jobs[j] EXCEPT !.lease_until = Dec(@)]
      BY DEF Older, Active, Terminal
    <3>2. Dec(jobs[j].lease_until) = jobs[j].lease_until
      BY DEF Dec
    <3>3. jobs[j] = [jobs[j] EXCEPT !.lease_until = jobs[j].lease_until]
      BY <2>1 DEF Row
    <3> QED  BY <3>1, <3>2, <3>3
  <2> QED  BY <2>1, <2>2 DEF RowMove, Active, Terminal
<1> HIDE DEF A
<1>2. Spec => [][A]_vars
  BY <1>1, InductiveInvariant, PTL DEF Spec
<1> QED  BY <1>2 DEF LateHolderRefused, A

\* No job is handed out twice or put back into the queue.
THEOREM HandedOutOnceHolds == Spec => HandedOutOnce
<1> DEFINE A == \A j \in Job : jobs[j].lease # 0 =>
                   \/ jobs'[j].status = "deleted"
                   \/ jobs'[j].lease = jobs[j].lease /\ jobs'[j].status # "queued"
<1>1. IInv /\ [Next]_vars => [A]_vars
  <2> SUFFICES ASSUME IInv, [Next]_vars, NEW j \in Job, jobs[j].lease # 0
               PROVE  \/ jobs'[j].status = "deleted"
                      \/ jobs'[j].lease = jobs[j].lease /\ jobs'[j].status # "queued"
    OBVIOUS
  <2>1. /\ jobs[j] \in Row /\ RowOK(jobs[j]) /\ RowMove(jobs[j], jobs'[j])
        /\ jobs'[j] \in Row /\ RowOK(jobs'[j])
    BY BoxNextStep DEF IInv, TypeOK, RowsOK, EveryRowMoves
  <2>2. jobs[j].status \in Active \cup Terminal
    BY <2>1 DEF RowOK, NoRow, Row, Status
  <2>3. /\ Older(jobs[j]).lease = jobs[j].lease /\ Older(jobs[j]).status = jobs[j].status
        /\ ReapRow(jobs[j]).lease = jobs[j].lease
        /\ ReapRow(jobs[j]) # jobs[j] => ReapRow(jobs[j]).status \in Terminal
    BY <2>1, OlderFacts, ReapFacts
  <2>4. [jobs[j] EXCEPT !.status = "cancel_requested"].lease = jobs[j].lease
        /\ [jobs[j] EXCEPT !.status = "cancel_requested"].status = "cancel_requested"
    BY <2>1 DEF Row
  <2>5. jobs'[j] = Pruned(jobs[j]) => jobs'[j].status = "deleted"
    BY <2>1, PrunedFacts
  <2> QED  BY <2>1, <2>2, <2>3, <2>4, <2>5 DEF RowMove, Active, Terminal, FinalStatus
<1> HIDE DEF A
<1>2. Spec => [][A]_vars
  BY <1>1, InductiveInvariant, PTL DEF Spec
<1> QED  BY <1>2 DEF HandedOutOnce, A

-----------------------------------------------------------------------------
(* Store implements JobLifecycle. *)

LEMMA LifecycleInit == Init => Lifecycle!Init
BY DEF Init, Lifecycle!Init, NoRow

LEMMA RowLife ==
  ASSUME NEW r \in Row, RowOK(r), NEW s \in Row, RowOK(s), RowMove(r, s)
  PROVE  \/ s.status = r.status /\ s.result = r.result
         \/ /\ s.status \in Lifecycle!Follows(r.status)
            /\ \/ s.result = r.result
               \/ r.status \in Active /\ s.status \in Terminal
               \/ s.status = "deleted" /\ s.result = Null
<1>1. CASE s = r \/ s = Older(r)
  BY <1>1, OlderFacts
<1>2. CASE s = ReapRow(r)
  BY <1>2 DEF ReapRow, Row, Lifecycle!Follows, Lifecycle!Terminal, Active, Terminal
<1>3. CASE s = Pruned(r) /\ r.status \in Terminal
  BY <1>3, PrunedFacts DEF RowOK, Lifecycle!Follows, Lifecycle!Terminal, Terminal
<1>4. CASE r.status \in Active /\ s.status \in FinalStatus
           /\ (r.status = "cancel_requested" => s.status = "cancelled")
  BY <1>4 DEF Lifecycle!Follows, Lifecycle!Terminal, Active, Terminal, FinalStatus
<1>5. CASE \/ r.status = "absent" /\ s.status = "queued" /\ s.result = Null
           \/ r.status = "queued" /\ s = [r EXCEPT !.status = "cancelled"]
           \/ r.status = "queued" /\ s.status = "running" /\ s.result = r.result
           \/ r.status = "running" /\ s = [r EXCEPT !.status = "cancel_requested"]
           \/ r.status \in Active /\ s.status = r.status /\ s.result = r.result
  BY <1>5 DEF Lifecycle!Follows, Lifecycle!Terminal, Active, Row, RowOK, NoRow
<1> QED  BY <1>1, <1>2, <1>3, <1>4, <1>5 DEF RowMove

LEMMA LifecycleStep ==
  ASSUME IInv, IInv', [Next]_vars
  PROVE  [Lifecycle!Next]_(Lifecycle!vars)
<1> DEFINE p == [j \in Job |-> jobs[j].status]
           a == [j \in Job |-> jobs[j].result]
<1>1. \A j \in Job : Lifecycle!Move(j)
  <2> SUFFICES ASSUME NEW j \in Job PROVE Lifecycle!Move(j)
    OBVIOUS
  <2>1. /\ jobs[j] \in Row /\ RowOK(jobs[j]) /\ RowMove(jobs[j], jobs'[j])
        /\ jobs'[j] \in Row /\ RowOK(jobs'[j])
    BY BoxNextStep DEF IInv, TypeOK, RowsOK, EveryRowMoves
  <2>2. /\ p[j] = jobs[j].status /\ p'[j] = jobs'[j].status
        /\ a[j] = jobs[j].result /\ a'[j] = jobs'[j].result
    OBVIOUS
  <2> HIDE DEF p, a
  <2>3. \/ p'[j] = p[j] /\ a'[j] = a[j]
        \/ /\ p'[j] \in Lifecycle!Follows(p[j])
           /\ \/ a'[j] = a[j]
              \/ p[j] \in Active /\ p'[j] \in Terminal
              \/ p'[j] = "deleted" /\ a'[j] = Null
    BY <2>1, <2>2, RowLife
  <2> QED  BY <2>3 DEF Lifecycle!Move, p, a, Lifecycle!Active, Lifecycle!Terminal, Active, Terminal
<1>2. p' \in [Job -> Lifecycle!Phase] /\ a' \in [Job -> Result \cup {Null, LeaseLost}]
  BY DEF IInv, TypeOK, Row, Status, Active, Terminal,
         Lifecycle!Phase, Lifecycle!Active, Lifecycle!Terminal
<1>3. Lifecycle!AtMostOneActive(p')
  BY DEF IInv, OneActive, Lifecycle!AtMostOneActive, Lifecycle!Active, Active
<1> QED  BY <1>1, <1>2, <1>3 DEF Lifecycle!Next

\* Every behaviour of the table is a life of its jobs as docs/api.md draws it.
THEOREM StoreImplementsLifecycle == Spec => ImplementsLifecycle
<1>1. Init => Lifecycle!Init
  BY LifecycleInit
<1>2. IInv /\ IInv' /\ [Next]_vars => [Lifecycle!Next]_(Lifecycle!vars)
  BY LifecycleStep
<1> QED  BY <1>1, <1>2, InductiveInvariant, PTL DEF Spec, ImplementsLifecycle, Lifecycle!Spec

-----------------------------------------------------------------------------
(* The log. *)

ChunkBytes == [c \in Chunk |-> Bytes[c.text]]

\* A log of finitely many chunks, one to a number, and the count kept beside it.
LogOK(log, n) == /\ IsFiniteSet(log)
                 /\ \A c, d \in log : c.seq = d.seq => c = d
                 /\ n = SumFunctionOnSet(ChunkBytes, log)
                 /\ n <= LogLimit

LogsOK == \A j \in Job : LogOK(jobs[j].log, jobs[j].log_bytes)

\* What one step may do to the log of one row.
LogMove(r, s) ==
    \/ s.log = r.log /\ s.log_bytes = r.log_bytes
    \/ s.log = {} /\ s.log_bytes = 0 /\ ~(Exists(r) /\ Exists(s))
    \/ \E c \in Chunk : /\ \A d \in r.log : d.seq # c.seq
                        /\ s.log = r.log \cup {c}
                        /\ s.log_bytes = r.log_bytes + Bytes[c.text]
                        /\ s.log_bytes <= LogLimit

EveryLogMoves == \A j \in Job : LogMove(jobs[j], jobs'[j])

LEMMA NoLog == LogOK({}, 0)
  BY FS_EmptySet, SumOfNothing, LimitAssumption DEF LogOK

LEMMA LogMoveKeeps ==
  ASSUME NEW r \in Row, LogOK(r.log, r.log_bytes), NEW s, LogMove(r, s)
  PROVE  LogOK(s.log, s.log_bytes)
<1>1. CASE s.log = r.log /\ s.log_bytes = r.log_bytes
  BY <1>1
<1>2. CASE s.log = {} /\ s.log_bytes = 0 /\ ~(Exists(r) /\ Exists(s))
  BY <1>2, NoLog
<1>3. ASSUME NEW c \in Chunk, \A d \in r.log : d.seq # c.seq, s.log = r.log \cup {c},
             s.log_bytes = r.log_bytes + Bytes[c.text], s.log_bytes <= LogLimit
      PROVE  LogOK(s.log, s.log_bytes)
  <2>1. r.log \in SUBSET Chunk /\ IsFiniteSet(r.log) /\ c \notin r.log
    BY <1>3 DEF Row, LogOK
  <2>2. Counts(ChunkBytes, r.log \cup {c}) /\ Counts(ChunkBytes, r.log)
    BY <2>1, LogAssumption DEF Counts, ChunkBytes, Chunk
  <2>3. SumFunctionOnSet(ChunkBytes, r.log \cup {c}) = ChunkBytes[c] + SumFunctionOnSet(ChunkBytes, r.log)
    BY <2>1, <2>2, SumAdd
  <2>4. SumFunctionOnSet(ChunkBytes, r.log) \in Nat /\ ChunkBytes[c] \in Nat /\ ChunkBytes[c] = Bytes[c.text]
    BY <2>1, <2>2, SumType DEF Counts, ChunkBytes
  <2>5. s.log_bytes = SumFunctionOnSet(ChunkBytes, s.log)
    BY <1>3, <2>3, <2>4 DEF LogOK
  <2>6. IsFiniteSet(s.log)
    BY <1>3, <2>1, FS_AddElement
  <2>7. \A d, e \in s.log : d.seq = e.seq => d = e
    BY <1>3 DEF LogOK
  <2> QED BY <1>3, <2>5, <2>6, <2>7 DEF LogOK
<1> QED BY <1>1, <1>2, <1>3 DEF LogMove

LEMMA DbLog ==
  ASSUME IInv, NEW j \in Job
  PROVE  /\ db[j] \in Row /\ jobs[j] \in Row
         /\ db[j].log = jobs[j].log /\ db[j].log_bytes = jobs[j].log_bytes
         /\ Exists(db[j]) <=> Exists(jobs[j])
<1>1. db[j] \in Row /\ jobs[j] \in Row /\ db[j] = ReapRow(jobs[j])
  BY DbFacts DEF IInv, TypeOK
<1>2. /\ ReapRow(jobs[j]).log = jobs[j].log
      /\ ReapRow(jobs[j]).log_bytes = jobs[j].log_bytes
  BY <1>1 DEF ReapRow, Row
<1>3. Exists(ReapRow(jobs[j])) <=> Exists(jobs[j])
  BY <1>1 DEF ReapRow, Row, Exists
<1> QED BY <1>1, <1>2, <1>3

\* A transaction that leaves every log it finds alone, or writes one.
LEMMA LogsFromDb ==
  ASSUME IInv, NEW k \in Job, NEW r, LogMove(db[k], r), jobs' = db \/ jobs' = [db EXCEPT ![k] = r]
  PROVE  EveryLogMoves
<1>1. ASSUME NEW j \in Job
      PROVE  jobs'[j] = db[j] \/ (j = k /\ jobs'[j] = r)
  BY DbFacts
<1>2. ASSUME NEW j \in Job
      PROVE  LogMove(jobs[j], jobs'[j])
  BY <1>1, DbLog DEF LogMove
<1> QED BY <1>2 DEF EveryLogMoves

LEMMA SameLogs ==
  ASSUME IInv, jobs' = db
  PROVE  EveryLogMoves
  BY DbLog DEF EveryLogMoves, LogMove

LEMMA SubmitterLogs ==
  ASSUME IInv, SubmitterNext
  PROVE  EveryLogMoves
<1>1. CASE jobs' = db
  BY <1>1, SameLogs
<1>2. CASE \E k \in Key, s \in JobSpec : Accept(k, s)
  <2>1. PICK k \in Key, s \in JobSpec : Accept(k, s)
    BY <1>2
  <2> DEFINE n == Cardinality({i \in Job : db[i].status # "absent"})
             new == [NoRow EXCEPT !.status = "queued", !.spec = s, !.request_key = k,
                                  !.expires = s.expires_in, !.created = n]
  <2>2. PICK j \in Job : db[j].status = "absent" /\ jobs' = [db EXCEPT ![j] = new]
    BY <2>1 DEF Accept
  <2>3. LogMove(db[j], new)
    BY <2>2 DEF LogMove, NoRow, Exists
  <2> HIDE DEF new
  <2> QED BY <2>2, <2>3, LogsFromDb
<1>3. CASE \E j \in Job : Cancel(j) /\ jobs' # db
  <2>1. PICK j \in Job : Cancel(j) /\ jobs' # db
    BY <1>3
  <2>2. PICK status \in Status : jobs' = [db EXCEPT ![j].status = status]
    BY <2>1 DEF Cancel, Status, Active, Terminal
  <2> DEFINE r == [db[j] EXCEPT !.status = status]
  <2>3. jobs' = [db EXCEPT ![j] = r]
    BY <2>2, DbFacts
  <2>4. LogMove(db[j], r)
    BY DbLog DEF LogMove, Row
  <2> HIDE DEF r
  <2> QED BY <2>3, <2>4, LogsFromDb
<1> QED BY <1>1, <1>2, <1>3 DEF SubmitterNext, Submit, Resubmit, Read

LEMMA ClaimLogs ==
  ASSUME IInv, NEW projects \in SUBSET Project, Claim(projects)
  PROVE  EveryLogMoves
<1>1. CASE ClaimNone(projects)
  BY <1>1, SameLogs DEF ClaimNone
<1>2. ASSUME NEW j \in Job, ClaimJob(j, projects)
      PROVE  EveryLogMoves
  <2> DEFINE r == [db[j] EXCEPT !.status = "running", !.lease = issued + 1, !.lease_until = LeaseTime]
  <2>1. jobs' = [db EXCEPT ![j] = r]
    BY <1>2, DbFacts DEF ClaimJob
  <2>2. LogMove(db[j], r)
    BY DbLog DEF LogMove, Row
  <2> HIDE DEF r
  <2> QED BY <2>1, <2>2, LogsFromDb
<1> QED BY <1>1, <1>2 DEF Claim

\* The writes of a holder that leave the log alone.
LEMMA HolderLogs ==
  ASSUME IInv, NEW j \in Job, NEW l,
         \/ Heartbeat(j, l)
         \/ \E sha \in Sha : PublishArtifact(j, l, sha)
         \/ \E status \in Reported, result \in Result : Finish(j, l, status, result)
  PROVE  EveryLogMoves
<1>1. CASE Heartbeat(j, l)
  <2> DEFINE r == [db[j] EXCEPT !.lease_until = LeaseTime]
  <2>1. LogMove(db[j], r) /\ jobs' = [db EXCEPT ![j] = r]
    BY <1>1, DbFacts DEF Heartbeat, LogMove, Row
  <2> HIDE DEF r
  <2> QED BY <2>1, LogsFromDb
<1>2. ASSUME NEW sha \in Sha, PublishArtifact(j, l, sha)
      PROVE  EveryLogMoves
  <2> DEFINE r == [db[j] EXCEPT !.artifact = sha]
  <2>1. LogMove(db[j], r) /\ jobs' = [db EXCEPT ![j] = r]
    BY <1>2, DbFacts DEF PublishArtifact, LogMove, Row
  <2> HIDE DEF r
  <2> QED BY <2>1, LogsFromDb
<1>3. ASSUME NEW status \in Reported, NEW result \in Result, Finish(j, l, status, result)
      PROVE  EveryLogMoves
  <2> DEFINE r == [db[j] EXCEPT !.status = Outcome(j, status), !.result = result]
  <2>1. LogMove(db[j], r)
    BY DbLog DEF LogMove, Row
  <2>2. jobs' = db \/ jobs' = [db EXCEPT ![j] = r]
    BY <1>3, DbFacts DEF Finish
  <2> HIDE DEF r
  <2> QED BY <2>1, <2>2, LogsFromDb
<1> QED BY <1>1, <1>2, <1>3

LEMMA AppendLogs ==
  ASSUME IInv, NEW j \in Job, NEW l \in Nat, NEW q \in LogSeq, NEW t \in Text, AppendLog(j, l, q, t)
  PROVE  EveryLogMoves
<1>1. CASE jobs' = db
  BY <1>1, SameLogs
<1>2. CASE jobs' # db
  <2> DEFINE c == [seq |-> q, text |-> t]
             r == [db[j] EXCEPT !.log = @ \cup {c}, !.log_bytes = @ + Bytes[t]]
  <2>1. /\ jobs' = [db EXCEPT ![j] = r]
        /\ \A d \in db[j].log : d.seq # q
        /\ db[j].log_bytes + Bytes[t] <= LogLimit
    BY <1>2, DbFacts DEF AppendLog
  <2>2. c \in Chunk /\ c.seq = q /\ c.text = t
    BY DEF Chunk
  <2>3. r.log = db[j].log \cup {c} /\ r.log_bytes = db[j].log_bytes + Bytes[t]
    BY DbLog DEF Row
  <2> HIDE DEF c, r
  <2>4. LogMove(db[j], r)
    BY <2>1, <2>2, <2>3 DEF LogMove
  <2> QED BY <2>1, <2>4, LogsFromDb
<1> QED BY <1>1, <1>2

LEMMA SystemLogs ==
  ASSUME IInv, Prune \/ Tick
  PROVE  EveryLogMoves
<1>1. CASE Prune
  <2>1. ASSUME NEW j \in Job
        PROVE  jobs'[j] = db[j] \/ jobs'[j] = Pruned(db[j])
    BY <1>1 DEF Prune
  <2>2. ASSUME NEW j \in Job
        PROVE  LogMove(jobs[j], jobs'[j])
    BY <2>1, DbLog DEF LogMove, Pruned, NoRow, Exists
  <2> QED BY <2>2 DEF EveryLogMoves
<1>2. CASE Tick
  <2>1. ASSUME NEW j \in Job
        PROVE  LogMove(jobs[j], jobs'[j])
    <3>1. jobs'[j] = Older(jobs[j]) /\ jobs[j] \in Row
      BY <1>2 DEF Tick, IInv, TypeOK
    <3> QED BY <3>1 DEF Older, LogMove, Row
  <2> QED BY <2>1 DEF EveryLogMoves
<1> QED BY <1>1, <1>2

LEMMA LogsStep == ASSUME IInv, [Next]_vars PROVE EveryLogMoves
<1>1. CASE SubmitterNext
  BY <1>1, SubmitterLogs
<1>2. CASE WorkerNext
  <2>1. 0..issued \subseteq Nat
    BY DEF IInv, TypeOK
  <2>2. ASSUME NEW projects \in SUBSET Project, Claim(projects)
        PROVE  EveryLogMoves
    BY <2>2, ClaimLogs
  <2>3. ASSUME NEW j \in Job, NEW l \in 0..issued, NEW q \in LogSeq, NEW t \in Text, AppendLog(j, l, q, t)
        PROVE  EveryLogMoves
    BY <2>1, <2>3, AppendLogs
  <2>4. ASSUME NEW j \in Job, NEW l \in 0..issued,
               \/ Heartbeat(j, l)
               \/ \E sha \in Sha : PublishArtifact(j, l, sha)
               \/ \E status \in Reported, result \in Result : Finish(j, l, status, result)
        PROVE  EveryLogMoves
    BY <2>4, HolderLogs
  <2> QED BY <1>2, <2>2, <2>3, <2>4 DEF WorkerNext
<1>3. CASE Prune \/ Tick
  BY <1>3, SystemLogs
<1>4. CASE UNCHANGED vars
  BY <1>4 DEF vars, EveryLogMoves, LogMove
<1> QED BY <1>1, <1>2, <1>3, <1>4 DEF Next

\* The log is what was sent, once, its size is the count kept beside it, and it
\* stops at the limit, for any number of chunks and any sizes.
THEOREM LogExactHolds == Spec => []LogExact
<1>1. Init => LogsOK
  <2> SUFFICES ASSUME Init PROVE LogsOK
    OBVIOUS
  <2>1. \A j \in Job : jobs[j].log = {} /\ jobs[j].log_bytes = 0
    BY DEF Init, NoRow
  <2> QED BY <2>1, NoLog DEF LogsOK
<1>2. IInv /\ LogsOK /\ [Next]_vars => LogsOK'
  <2> SUFFICES ASSUME IInv, LogsOK, [Next]_vars PROVE LogsOK'
    OBVIOUS
  <2>1. \A j \in Job : jobs[j] \in Row /\ LogMove(jobs[j], jobs'[j])
    BY LogsStep DEF EveryLogMoves, IInv, TypeOK
  <2>2. \A j \in Job : LogOK(jobs'[j].log, jobs'[j].log_bytes)
    BY <2>1, LogMoveKeeps DEF LogsOK
  <2> QED BY <2>2 DEF LogsOK
<1>3. LogsOK => LogExact
  BY DEF LogsOK, LogOK, LogExact, ChunkBytes
<1> QED BY <1>1, <1>2, <1>3, InductiveInvariant, PTL DEF Spec
=============================================================================
