---------------------------- MODULE InputsProofs ----------------------------
(***************************************************************************)
(* Proofs about Inputs, for every value of its constants.                  *)
(*                                                                         *)
(* While prune is in its transaction, what it has read covers every job    *)
(* that is waiting, for rows are deleted of jobs that are over, and no job *)
(* is submitted. That is the first part.                                   *)
(*                                                                         *)
(* The second part is about the budget. An upload is charged for from its  *)
(* admission until its bytes are in the directory under the final name, or *)
(* its temporary file is gone. The charges and what is stored never exceed *)
(* the limit: an admission makes sure of that, for what it finds on disk   *)
(* and what is reserved together cover the charges, and every other step   *)
(* turns a charge into a stored package, or one name of a package into the *)
(* other, or gives something up.                                           *)
(***************************************************************************)
EXTENDS Inputs, SumTheorems, TLAPS

KeepsLive == pruning.on => \A j \in Job : jobs[j].phase = "live" => jobs[j].package \in pruning.keep

JobsTyped == jobs \in [Job -> [phase : Phase, package : Package]]

IInv == JobsTyped /\ KeepsLive

LEMMA IInvInit == ASSUME Init PROVE IInv
  BY InputAssumption DEF Init, IInv, JobsTyped, KeepsLive, Phase, NotPruning

\* Steps that change neither the jobs nor what prune knows.
LEMMA ElsewhereStep ==
  ASSUME IInv, UNCHANGED <<jobs, pruning>>
  PROVE  IInv'
  BY DEF IInv, JobsTyped, KeepsLive

LEMMA UploadStep ==
  ASSUME UploadNext
  PROVE  UNCHANGED <<jobs, pruning>> /\ stored \subseteq stored'
  BY Zenon DEF UploadNext, Admit, Open, Fill, Fail, Link, Unlink, Release, Sweep, Crash, Keep

LEMMA JobStep ==
  ASSUME IInv, JobNext
  PROVE  IInv' /\ ~pruning.on /\ UNCHANGED <<stored, pruning>>
<1>1. PICK j \in Job : End(j) \/ \E p \in Package : Submit(j, p)
  BY DEF JobNext
<1>2. ~pruning.on /\ UNCHANGED <<stored, pruning>>
  BY <1>1 DEF End, Submit, Locked
<1>3. JobsTyped'
  BY <1>1 DEF IInv, JobsTyped, End, Submit, Phase
<1> QED BY <1>2, <1>3 DEF IInv, KeepsLive

LEMMA PruneBegins ==
  ASSUME IInv, Prune
  PROVE  IInv' /\ UNCHANGED <<stored, jobs>>
<1>1. PICK rows \in SUBSET {j \in Job : jobs[j].phase = "over"} :
        pruning' = [on |-> TRUE, rows |-> rows, keep |-> Referenced(rows), look |-> stored]
  BY DEF Prune
<1>2. UNCHANGED <<stored, jobs>>
  BY DEF Prune
<1>3. ASSUME NEW j \in Job, jobs[j].phase = "live"
      PROVE  jobs[j].package \in Referenced(rows)
  BY <1>1, <1>3 DEF Referenced
<1> QED BY <1>1, <1>2, <1>3 DEF IInv, JobsTyped, KeepsLive

\* A look spares what a live job names.
LEMMA LookStep ==
  ASSUME IInv, NEW p \in Package, Look(p)
  PROVE  /\ IInv'
         /\ UNCHANGED jobs
         /\ \A j \in Job : jobs[j].phase = "live" /\ jobs[j].package \in stored
                             => jobs[j].package \in stored'
<1>1. UNCHANGED jobs /\ pruning' = [pruning EXCEPT !.look = @ \ {p}]
  BY DEF Look
<1>2. stored' = stored \/ (p \notin pruning.keep /\ stored' = stored \ {p})
  BY DEF Look, Old
<1>3. pruning.on
  BY DEF Look
<1> QED BY <1>1, <1>2, <1>3 DEF IInv, JobsTyped, KeepsLive

LEMMA PruneEnds ==
  ASSUME IInv, Commit \/ PruneDies
  PROVE  IInv' /\ UNCHANGED stored
<1>1. UNCHANGED stored /\ ~pruning'.on
  BY DEF Commit, PruneDies, NotPruning
<1>2. JobsTyped'
  BY DEF IInv, JobsTyped, Commit, PruneDies, Phase
<1> QED BY <1>1, <1>2 DEF IInv, KeepsLive

Spared == \A j \in Job : jobs[j].phase = "live" /\ jobs[j].package \in stored
                           => jobs[j].package \in stored'

LEMMA IInvStep == ASSUME IInv, [Next]_vars PROVE IInv' /\ Spared
<1>1. CASE UploadNext
  BY <1>1, UploadStep, ElsewhereStep DEF Spared
<1>2. CASE JobNext
  BY <1>2, JobStep DEF Spared
<1>3. CASE PruneNext
  <2>1. CASE Prune
    BY <2>1, PruneBegins DEF Spared
  <2>2. CASE \E p \in Package : Look(p)
    BY <2>2, LookStep DEF Spared
  <2>3. CASE Commit \/ PruneDies
    BY <2>3, PruneEnds DEF Spared
  <2> QED BY <1>3, <2>1, <2>2, <2>3 DEF PruneNext
<1>4. CASE Tick
  <2>1. UNCHANGED <<jobs, pruning, stored>>
    BY <1>4 DEF Tick
  <2> QED BY <2>1, ElsewhereStep DEF Spared
<1>5. CASE UNCHANGED vars
  <2>1. UNCHANGED <<jobs, pruning, stored>>
    BY <1>5 DEF vars
  <2> QED BY <2>1, ElsewhereStep DEF Spared
<1> QED BY <1>1, <1>2, <1>3, <1>4, <1>5 DEF Next

\* Prune never takes a package that a job in the queue or on the worker names
\* (store.py:184-199), for any packages, jobs, limits and retention.
THEOREM LiveInputStaysHolds == Spec => LiveInputStays
<1>1. Init => IInv
  BY IInvInit
<1>2. IInv /\ [Next]_vars => IInv' /\ [Spared]_vars
  BY IInvStep
<1>3. [][Spared]_vars => LiveInputStays
  BY DEF Spared, LiveInputStays
<1> QED BY <1>1, <1>2, <1>3, PTL DEF Spec

-----------------------------------------------------------------------------
(* The budget: what one upload reserves, is charged for and has on disk.     *)

UploadRecord == [stage : Stage, package : Package, full : BOOLEAN, shared : BOOLEAN]

Uploads == [Upload -> UploadRecord]

Reserve(r) == IF r.stage \in Reserving THEN Size[r.package] ELSE 0

Charge(r) == IF r.stage \in {"admitted", "open"} \/ (r.full /\ ~r.shared) THEN Size[r.package] ELSE 0

OnDisk(r) == IF r.stage \in HasTemp /\ r.full THEN Size[r.package] ELSE 0

ReserveSum(w) == SumFunctionOnSet([u \in Upload |-> Reserve(w[u])], Upload)

ChargeSum(w) == SumFunctionOnSet([u \in Upload |-> Charge(w[u])], Upload)

StoredSum(s) == SumFunctionOnSet(Size, s)

\* What an upload's place says of its temporary file.
RecordOK(r, s) ==
    /\ r.full => r.stage \in {"filled", "settled", "orphan"}
    /\ r.stage = "filled" => r.full
    /\ r.shared => r.full /\ r.stage \in {"settled", "orphan"} /\ r.package \in s

RecordsOK == \A u \in Upload : RecordOK(up[u], stored)

\* A stored package has one temporary name at most: it was linked once.
OneSharer == \A u, v \in Upload :
               up[u].shared /\ up[v].shared /\ up[u].package = up[v].package => u = v

Within == StoredSum(stored) + ChargeSum(up) <= ByteLimit

\* The inductive invariant.
BudgetIInv == TypeOK /\ RecordsOK /\ OneSharer /\ reserved = ReserveSum(up) /\ Within

LEMMA ChargeTyped ==
  ASSUME NEW r \in UploadRecord
  PROVE  Reserve(r) \in Nat /\ Charge(r) \in Nat /\ OnDisk(r) \in Nat /\ Size[r.package] \in Nat \ {0}
  BY InputAssumption DEF UploadRecord, Reserve, Charge, OnDisk

LEMMA SumsTyped ==
  ASSUME NEW w \in Uploads
  PROVE  ReserveSum(w) \in Nat /\ ChargeSum(w) \in Nat
<1>1. IsFiniteSet(Upload)
  BY InputAssumption
<1>2. \A u \in Upload : Reserve(w[u]) \in Nat /\ Charge(w[u]) \in Nat
  BY ChargeTyped DEF Uploads
<1>3. Counts([u \in Upload |-> Reserve(w[u])], Upload) /\ Counts([u \in Upload |-> Charge(w[u])], Upload)
  BY <1>2 DEF Counts
<1> QED BY <1>1, <1>3, SumType DEF ReserveSum, ChargeSum

LEMMA StoredTyped ==
  ASSUME NEW s \in SUBSET Package
  PROVE  StoredSum(s) \in Nat /\ IsFiniteSet(s) /\ Counts(Size, s)
<1>1. IsFiniteSet(s)
  BY InputAssumption, FS_Subset
<1>2. Counts(Size, s)
  BY InputAssumption DEF Counts
<1> QED BY <1>1, <1>2, SumType DEF StoredSum

\* A step of one upload changes the sums by what it changes for that one.
LEMMA OneUpload ==
  ASSUME NEW w \in Uploads, NEW x \in Uploads, NEW u \in Upload, \A v \in Upload \ {u} : x[v] = w[v]
  PROVE  /\ ReserveSum(x) = ReserveSum(w) - Reserve(w[u]) + Reserve(x[u])
         /\ ChargeSum(x) = ChargeSum(w) - Charge(w[u]) + Charge(x[u])
<1> DEFINE rw == [v \in Upload |-> Reserve(w[v])]
           rx == [v \in Upload |-> Reserve(x[v])]
           cw == [v \in Upload |-> Charge(w[v])]
           cx == [v \in Upload |-> Charge(x[v])]
<1>1. IsFiniteSet(Upload)
  BY InputAssumption
<1>2. /\ Counts(rw, Upload) /\ rx[u] \in Nat
      /\ Counts(cw, Upload) /\ cx[u] \in Nat
  BY ChargeTyped DEF Uploads, Counts
<1>3. \A v \in Upload \ {u} : rx[v] = rw[v] /\ cx[v] = cw[v]
  OBVIOUS
<1>4. rw[u] = Reserve(w[u]) /\ rx[u] = Reserve(x[u]) /\ cw[u] = Charge(w[u]) /\ cx[u] = Charge(x[u])
  OBVIOUS
<1>5. ReserveSum(w) = SumFunctionOnSet(rw, Upload) /\ ReserveSum(x) = SumFunctionOnSet(rx, Upload)
  BY DEF ReserveSum
<1>6. ChargeSum(w) = SumFunctionOnSet(cw, Upload) /\ ChargeSum(x) = SumFunctionOnSet(cx, Upload)
  BY DEF ChargeSum
<1> HIDE DEF rw, rx, cw, cx
<1>7. SumFunctionOnSet(rx, Upload) = SumFunctionOnSet(rw, Upload) - rw[u] + rx[u]
  BY <1>1, <1>2, <1>3, SumChange
<1>8. SumFunctionOnSet(cx, Upload) = SumFunctionOnSet(cw, Upload) - cw[u] + cx[u]
  BY <1>1, <1>2, <1>3, SumChange
<1> QED BY <1>4, <1>5, <1>6, <1>7, <1>8

\* Nobody is charged more.
LEMMA ChargeLess ==
  ASSUME NEW w \in Uploads, NEW x \in Uploads, \A u \in Upload : Charge(x[u]) <= Charge(w[u])
  PROVE  ChargeSum(x) <= ChargeSum(w)
<1> DEFINE cw == [v \in Upload |-> Charge(w[v])]
           cx == [v \in Upload |-> Charge(x[v])]
<1>1. IsFiniteSet(Upload)
  BY InputAssumption
<1>2. Counts(cw, Upload) /\ Counts(cx, Upload)
  BY ChargeTyped DEF Uploads, Counts
<1>3. \A u \in Upload : cx[u] <= cw[u]
  OBVIOUS
<1> HIDE DEF cw, cx
<1>4. SumFunctionOnSet(cx, Upload) <= SumFunctionOnSet(cw, Upload)
  BY <1>1, <1>2, <1>3, SumMonotone
<1> QED BY <1>4 DEF ChargeSum, cw, cx

\* What an admission finds on disk, with what is reserved, covers the charges.
LEMMA ChargesCovered ==
  ASSUME TypeOK, RecordsOK, reserved = ReserveSum(up)
  PROVE  /\ StoredSum(stored) + ChargeSum(up) <= ListedBytes + reserved
         /\ ListedBytes \in Nat /\ reserved \in Nat
<1> DEFINE c == [u \in Upload |-> Charge(up[u])]
           r == [u \in Upload |-> Reserve(up[u])]
           d == [u \in Upload |-> OnDisk(up[u])]
           b == [u \in Upload |-> d[u] + r[u]]
<1>1. IsFiniteSet(Upload) /\ Temps \in SUBSET Upload /\ up \in Uploads
  BY InputAssumption DEF Temps, TypeOK, Uploads, UploadRecord
<1>2. \A u \in Upload : /\ Reserve(up[u]) \in Nat /\ Charge(up[u]) \in Nat /\ OnDisk(up[u]) \in Nat
                        /\ Size[up[u].package] \in Nat
  BY <1>1, ChargeTyped DEF Uploads
<1>3. Counts(c, Upload) /\ Counts(r, Upload) /\ Counts(d, Upload) /\ Counts(b, Upload)
  BY <1>2 DEF Counts
<1>4. ASSUME NEW u \in Upload
      PROVE  c[u] <= b[u]
  <2>1. up[u].full => up[u].stage \in HasTemp
    BY DEF RecordsOK, RecordOK, HasTemp
  <2>2. up[u].stage \in {"admitted", "open"} => up[u].stage \in Reserving
    BY DEF Reserving
  <2>3. Charge(up[u]) <= OnDisk(up[u]) + Reserve(up[u])
    BY <1>2, <2>1, <2>2 DEF Charge, OnDisk, Reserve
  <2> QED BY <2>3
<1>5. \A u \in Upload : d[u] = IF u \in Temps THEN TempBytes[u] ELSE 0
  BY DEF OnDisk, Temps, TempBytes
<1>6. Counts(TempBytes, Temps)
  BY <1>1, <1>2 DEF Counts, TempBytes
<1>7. \A u \in Upload : b[u] = d[u] + r[u]
  OBVIOUS
<1>8. ChargeSum(up) = SumFunctionOnSet(c, Upload) /\ ReserveSum(up) = SumFunctionOnSet(r, Upload)
  BY DEF ChargeSum, ReserveSum
<1> HIDE DEF c, r, d, b
<1>9. SumFunctionOnSet(c, Upload) <= SumFunctionOnSet(b, Upload)
  BY <1>1, <1>3, <1>4, SumMonotone
<1>10. SumFunctionOnSet(b, Upload) = SumFunctionOnSet(d, Upload) + SumFunctionOnSet(r, Upload)
  BY <1>1, <1>3, <1>7, SumPlus
<1>11. SumFunctionOnSet(d, Upload) = SumFunctionOnSet(TempBytes, Temps)
  BY <1>1, <1>5, <1>6, SumRestrict
<1>12. /\ SumFunctionOnSet(c, Upload) \in Nat /\ SumFunctionOnSet(d, Upload) \in Nat
       /\ SumFunctionOnSet(r, Upload) \in Nat
  BY <1>1, <1>3, SumType
<1>13. StoredSum(stored) \in Nat
  BY StoredTyped DEF TypeOK
<1>14. ListedBytes = StoredSum(stored) + SumFunctionOnSet(d, Upload)
  BY <1>11 DEF ListedBytes, StoredSum
<1> QED BY <1>8, <1>9, <1>10, <1>12, <1>13, <1>14

\* A step of one upload keeps the invariant, if what it takes is there.
LEMMA UploadMoves ==
  ASSUME BudgetIInv, NEW u \in Upload, NEW r \in UploadRecord, up' = [up EXCEPT ![u] = r],
         stored' \in SUBSET Package, age' \in [Package -> 0..Retention], UNCHANGED <<jobs, pruning>>,
         stored \subseteq stored', RecordOK(r, stored'),
         r.shared => \A v \in Upload \ {u} : up[v].shared => up[v].package # r.package,
         reserved' = reserved - Reserve(up[u]) + Reserve(r),
         \/ StoredSum(stored') + Charge(r) <= StoredSum(stored) + Charge(up[u])
         \/ StoredSum(stored') + ChargeSum(up) + Charge(r) <= ByteLimit
  PROVE  BudgetIInv'
<1>1. up \in Uploads /\ up' \in Uploads
  BY DEF BudgetIInv, TypeOK, Uploads, UploadRecord
<1>2. up'[u] = r /\ \A v \in Upload \ {u} : up'[v] = up[v]
  BY <1>1 DEF Uploads
<1>3. /\ ReserveSum(up') = ReserveSum(up) - Reserve(up[u]) + Reserve(r)
      /\ ChargeSum(up') = ChargeSum(up) - Charge(up[u]) + Charge(r)
  <2>1. ASSUME NEW x \in Uploads, \A v \in Upload \ {u} : x[v] = up[v]
        PROVE  /\ ReserveSum(x) = ReserveSum(up) - Reserve(up[u]) + Reserve(x[u])
               /\ ChargeSum(x) = ChargeSum(up) - Charge(up[u]) + Charge(x[u])
    BY <1>1, <2>1, OneUpload
  <2> QED BY <1>1, <1>2, <2>1
<1>4. ReserveSum(up') \in Nat /\ ChargeSum(up') \in Nat /\ ReserveSum(up) \in Nat /\ ChargeSum(up) \in Nat
  BY <1>1, SumsTyped
<1>5. StoredSum(stored') \in Nat /\ StoredSum(stored) \in Nat
  BY StoredTyped DEF BudgetIInv, TypeOK
<1>6. Charge(r) \in Nat /\ Charge(up[u]) \in Nat /\ Reserve(r) \in Nat /\ Reserve(up[u]) \in Nat
  BY <1>1, ChargeTyped DEF Uploads
<1>7. reserved' = ReserveSum(up')
  BY <1>3, <1>4, <1>6 DEF BudgetIInv
<1>8. Within'
  <2>1. StoredSum(stored) + ChargeSum(up) <= ByteLimit /\ ByteLimit \in Nat
    BY InputAssumption DEF BudgetIInv, Within
  <2>2. StoredSum(stored') + ChargeSum(up') <= ByteLimit
    BY <1>3, <1>4, <1>5, <1>6, <2>1
  <2> QED BY <2>2 DEF Within
<1>9. TypeOK'
  BY <1>1, <1>4, <1>7 DEF BudgetIInv, TypeOK, Uploads, UploadRecord
<1>10. RecordsOK'
  <2>1. ASSUME NEW v \in Upload \ {u}
        PROVE  RecordOK(up'[v], stored')
    BY <1>2 DEF BudgetIInv, RecordsOK, RecordOK
  <2> QED BY <1>2, <2>1 DEF RecordsOK
<1>11. OneSharer'
  BY <1>2 DEF BudgetIInv, OneSharer
<1> QED BY <1>7, <1>8, <1>9, <1>10, <1>11 DEF BudgetIInv

LEMMA AdmitKeeps ==
  ASSUME BudgetIInv, NEW u \in Upload, NEW p \in Package, Admit(u, p)
  PROVE  BudgetIInv'
<1> DEFINE r == [stage |-> "admitted", package |-> p, full |-> FALSE, shared |-> FALSE]
<1>1. r \in UploadRecord /\ RecordOK(r, stored) /\ Charge(r) = Size[p] /\ Reserve(r) = Size[p] /\ ~r.shared
  BY DEF UploadRecord, Stage, RecordOK, Charge, Reserve, Reserving
<1>2. up' = [up EXCEPT ![u] = r] /\ UNCHANGED <<stored, age, jobs, pruning>> /\ up[u].stage = "idle"
  BY DEF Admit
<1>3. Reserve(up[u]) = 0
  BY <1>2 DEF Reserve, Reserving
<1>4. Size[p] \in Nat /\ ByteLimit \in Nat
  BY InputAssumption
<1>5. reserved \in Nat /\ ListedBytes \in Nat /\ StoredSum(stored) + ChargeSum(up) <= ListedBytes + reserved
  BY ChargesCovered DEF BudgetIInv
<1>6. StoredSum(stored) \in Nat /\ ChargeSum(up) \in Nat
  BY StoredTyped, SumsTyped DEF BudgetIInv, TypeOK, Uploads, UploadRecord
<1>7. ListedBytes + reserved + Size[p] <= ByteLimit /\ reserved' = reserved + Size[p]
  BY DEF Admit
<1>8. StoredSum(stored) + ChargeSum(up) + Charge(r) <= ByteLimit
  BY <1>1, <1>4, <1>5, <1>6, <1>7
<1>9. reserved' = reserved - Reserve(up[u]) + Reserve(r)
  BY <1>1, <1>3, <1>4, <1>5, <1>7
<1>10. stored \in SUBSET Package /\ age \in [Package -> 0..Retention]
  BY DEF BudgetIInv, TypeOK
<1> HIDE DEF r
<1> QED BY <1>1, <1>2, <1>8, <1>9, <1>10, UploadMoves

\* The steps of one upload that leave the directory's final names alone.
LEMMA TempKeeps ==
  ASSUME BudgetIInv, NEW u \in Upload,
         Open(u) \/ Fill(u) \/ Fail(u) \/ Unlink(u) \/ Release(u) \/ Sweep(u)
  PROVE  BudgetIInv'
<1> DEFINE r == up'[u]
<1>1. up \in Uploads /\ up[u] \in UploadRecord /\ RecordOK(up[u], stored)
  BY DEF BudgetIInv, TypeOK, RecordsOK, Uploads, UploadRecord
<1>2. UNCHANGED <<stored, age, jobs, pruning>>
  BY DEF Open, Fill, Fail, Unlink, Release, Sweep
<1>3. r \in UploadRecord /\ up' = [up EXCEPT ![u] = r] /\ r.package = up[u].package
  BY <1>1 DEF Open, Fill, Fail, Unlink, Release, Sweep, Keep, Uploads, UploadRecord, Stage
<1>4. RecordOK(r, stored) /\ r.shared = (up[u].shared /\ r.stage = "settled")
  BY <1>1 DEF Open, Fill, Fail, Unlink, Release, Sweep, Keep, Uploads, UploadRecord, Stage, RecordOK
<1>5. r.stage \in {"admitted", "open"} \/ (r.full /\ ~r.shared)
        => up[u].stage \in {"admitted", "open"} \/ (up[u].full /\ ~up[u].shared)
  BY <1>1 DEF Open, Fill, Fail, Unlink, Release, Sweep, Keep, Uploads, UploadRecord, RecordOK
<1>6. Charge(r) <= Charge(up[u])
  BY <1>1, <1>3, <1>5, ChargeTyped DEF Charge
<1>7. reserved' = reserved - Reserve(up[u]) + Reserve(r)
  <2>1. Size[up[u].package] \in Nat /\ reserved \in Nat
    BY <1>1, ChargeTyped DEF BudgetIInv, TypeOK
  <2>2. CASE Release(u)
    <3>1. up[u].stage = "releasing" /\ r.stage = "idle" /\ reserved' = reserved - Size[up[u].package]
      BY <1>1, <2>2 DEF Release, Keep, Uploads
    <3> QED BY <2>1, <3>1 DEF Reserve, Reserving
  <2>3. CASE ~Release(u)
    <3>1. reserved' = reserved
      BY <2>3 DEF Open, Fill, Fail, Unlink, Sweep
    <3>2. (r.stage \in Reserving) = (up[u].stage \in Reserving)
      BY <1>1, <2>3 DEF Open, Fill, Fail, Unlink, Sweep, Keep, Uploads, UploadRecord, Reserving
    <3>3. Reserve(r) = Reserve(up[u])
      BY <1>3, <3>2 DEF Reserve
    <3> QED BY <1>1, <2>1, <3>1, <3>3, ChargeTyped
  <2> QED BY <2>2, <2>3
<1>8. r.shared => \A v \in Upload \ {u} : up[v].shared => up[v].package # r.package
  BY <1>3, <1>4 DEF BudgetIInv, OneSharer
<1>9. StoredSum(stored) \in Nat /\ Charge(r) \in Nat /\ Charge(up[u]) \in Nat
  BY <1>1, <1>3, StoredTyped, ChargeTyped DEF BudgetIInv, TypeOK
<1>10. StoredSum(stored) + Charge(r) <= StoredSum(stored) + Charge(up[u])
  BY <1>6, <1>9
<1>11. stored \in SUBSET Package /\ age \in [Package -> 0..Retention]
  BY DEF BudgetIInv, TypeOK
<1>12. up'[u] = r
  OBVIOUS
<1> HIDE DEF r
<1> QED BY <1>2, <1>3, <1>4, <1>7, <1>8, <1>10, <1>11, UploadMoves

LEMMA LinkKeeps ==
  ASSUME BudgetIInv, NEW u \in Upload, Link(u)
  PROVE  BudgetIInv'
<1> DEFINE p == up[u].package
           r == up'[u]
<1>1. up \in Uploads /\ up[u] \in UploadRecord /\ RecordOK(up[u], stored) /\ p \in Package
  BY DEF BudgetIInv, TypeOK, RecordsOK, Uploads, UploadRecord
<1>2. UNCHANGED <<reserved, jobs, pruning>> /\ stored' = stored \cup {p} /\ up[u].stage = "filled"
  BY DEF Link
<1>3. r \in UploadRecord /\ up' = [up EXCEPT ![u] = r]
  BY <1>1 DEF Link, Uploads, UploadRecord, Stage
<1>4. r.package = p /\ r.stage = "settled" /\ r.full /\ r.shared = (p \notin stored) /\ up[u].full /\ ~up[u].shared
  BY <1>1 DEF Link, Uploads, UploadRecord, RecordOK
<1>5. RecordOK(r, stored')
  BY <1>2, <1>4 DEF RecordOK
<1>6. \A v \in Upload : up[v].shared => up[v].package \in stored
  BY DEF BudgetIInv, RecordsOK, RecordOK
<1>7. r.shared => \A v \in Upload \ {u} : up[v].shared => up[v].package # r.package
  BY <1>4, <1>6
<1>8. stored' \in SUBSET Package /\ age' \in [Package -> 0..Retention]
  BY <1>1, <1>2, InputAssumption DEF BudgetIInv, TypeOK, Link
<1>9. Reserve(r) = Reserve(up[u])
  BY <1>2, <1>4 DEF Reserve, Reserving
<1>10. reserved' = reserved - Reserve(up[u]) + Reserve(r)
  <2>1. reserved \in Nat /\ Reserve(up[u]) \in Nat
    BY <1>1, ChargeTyped DEF BudgetIInv, TypeOK
  <2> QED BY <1>2, <1>9, <2>1
<1>11. Charge(up[u]) = Size[p] /\ Size[p] \in Nat
  BY <1>1, <1>4, ChargeTyped DEF Charge
<1>12. StoredSum(stored) \in Nat /\ IsFiniteSet(stored) /\ Counts(Size, stored')
  BY <1>8, StoredTyped DEF BudgetIInv, TypeOK
<1>13. StoredSum(stored') + Charge(r) <= StoredSum(stored) + Charge(up[u])
  <2>1. CASE p \in stored
    <3>1. stored' = stored /\ Charge(r) = Size[p]
      BY <1>2, <1>4, <2>1 DEF Charge
    <3> QED BY <1>11, <1>12, <3>1
  <2>2. CASE p \notin stored
    <3>1. Charge(r) = 0
      BY <1>4, <2>2 DEF Charge
    <3>2. SumFunctionOnSet(Size, stored') = Size[p] + SumFunctionOnSet(Size, stored)
      BY <1>2, <1>12, <2>2, SumAdd
    <3> QED BY <1>11, <1>12, <3>1, <3>2 DEF StoredSum
  <2> QED BY <2>1, <2>2
<1>14. stored \subseteq stored'
  BY <1>2
<1> HIDE DEF r, p
<1> QED BY <1>2, <1>3, <1>5, <1>7, <1>8, <1>10, <1>13, <1>14, UploadMoves

\* The server's reservations die with it, and so do the charges they were for.
LEMMA CrashKeeps ==
  ASSUME BudgetIInv, Crash
  PROVE  BudgetIInv'
<1>1. up \in Uploads /\ \A u \in Upload : RecordOK(up[u], stored)
  BY DEF BudgetIInv, TypeOK, RecordsOK, Uploads, UploadRecord
<1>2. up' \in Uploads /\ UNCHANGED <<stored, age, jobs, pruning>> /\ reserved' = 0
  BY <1>1 DEF Crash, Uploads, UploadRecord, Stage
<1>3. ASSUME NEW u \in Upload
      PROVE  /\ up'[u].package = up[u].package /\ up'[u].full = up[u].full /\ up'[u].shared = up[u].shared
             /\ up'[u].stage = IF up[u].stage \in HasTemp THEN "orphan" ELSE "idle"
  BY <1>1 DEF Crash, Uploads, UploadRecord
<1>4. ASSUME NEW u \in Upload
      PROVE  RecordOK(up'[u], stored) /\ Charge(up'[u]) <= Charge(up[u]) /\ Reserve(up'[u]) = 0
  <2>1. RecordOK(up'[u], stored)
    BY <1>1, <1>3 DEF RecordOK, HasTemp
  <2>2. Size[up[u].package] \in Nat
    BY <1>1, ChargeTyped DEF Uploads
  <2>3. Charge(up'[u]) <= Charge(up[u])
    BY <1>3, <2>2 DEF Charge
  <2>4. Reserve(up'[u]) = 0
    BY <1>3 DEF Reserve, Reserving
  <2> QED BY <2>1, <2>3, <2>4
<1>5. ChargeSum(up') <= ChargeSum(up)
  BY <1>1, <1>2, <1>4, ChargeLess
<1>6. ReserveSum(up') = 0
  <2> DEFINE z == [u \in Upload |-> Reserve(up'[u])]
  <2>1. \A u \in Upload : z[u] = 0
    BY <1>4
  <2>2. IsFiniteSet(Upload)
    BY InputAssumption
  <2> HIDE DEF z
  <2>3. SumFunctionOnSet(z, Upload) = 0
    BY <2>1, <2>2, SumOfZeroes
  <2> QED BY <2>3 DEF ReserveSum, z
<1>7. ChargeSum(up') \in Nat /\ ChargeSum(up) \in Nat /\ StoredSum(stored) \in Nat /\ ByteLimit \in Nat
  BY <1>1, <1>2, SumsTyped, StoredTyped, InputAssumption DEF BudgetIInv, TypeOK
<1>8. Within'
  <2>1. StoredSum(stored) + ChargeSum(up') <= ByteLimit
    BY <1>5, <1>7 DEF BudgetIInv, Within
  <2> QED BY <1>2, <2>1 DEF Within
<1>9. TypeOK'
  BY <1>2 DEF BudgetIInv, TypeOK, Uploads, UploadRecord
<1>10. RecordsOK' /\ OneSharer'
  BY <1>2, <1>3, <1>4 DEF BudgetIInv, RecordsOK, OneSharer
<1> QED BY <1>2, <1>6, <1>8, <1>9, <1>10 DEF BudgetIInv

\* A final name goes. If the package has a temporary name still, the file stays
\* on disk, and the upload is charged for it again.
LEMMA LookKeeps ==
  ASSUME BudgetIInv, NEW p \in Package, Look(p)
  PROVE  BudgetIInv'
<1>1. up \in Uploads /\ stored \in SUBSET Package /\ \A u \in Upload : RecordOK(up[u], stored)
  BY DEF BudgetIInv, TypeOK, RecordsOK, Uploads, UploadRecord
<1>2. UNCHANGED <<age, reserved, jobs>> /\ pruning' \in [on : BOOLEAN, rows : SUBSET Job, keep : SUBSET Package, look : SUBSET Package]
  BY DEF Look, BudgetIInv, TypeOK
<1>3. CASE UNCHANGED <<stored, up>>
  <2>1. TypeOK'
    BY <1>2, <1>3 DEF BudgetIInv, TypeOK
  <2>2. RecordsOK' /\ OneSharer' /\ Within' /\ reserved' = ReserveSum(up')
    BY <1>2, <1>3 DEF BudgetIInv, RecordsOK, OneSharer, Within
  <2> QED BY <2>1, <2>2 DEF BudgetIInv
<1>4. CASE Old(p)
  <2> DEFINE Sharer == \E v \in Upload : up[v].shared /\ up[v].package = p
  <2> DEFINE Unshared(u) == IF up[u].package = p THEN [up[u] EXCEPT !.shared = FALSE] ELSE up[u]
  <2>1. stored' = stored \ {p} /\ up' = [u \in Upload |-> Unshared(u)]
    BY <1>4 DEF Look
  <2>2. up' \in Uploads
    <3>1. ASSUME NEW u \in Upload
          PROVE  Unshared(u) \in UploadRecord
      <4>1. up[u] \in UploadRecord
        BY <1>1 DEF Uploads
      <4> QED BY <4>1 DEF UploadRecord
    <3> HIDE DEF Unshared
    <3> QED BY <2>1, <3>1 DEF Uploads
  <2>3. ASSUME NEW u \in Upload
        PROVE  /\ up'[u].package = up[u].package /\ up'[u].full = up[u].full /\ up'[u].stage = up[u].stage
               /\ up'[u].shared = (up[u].shared /\ up[u].package # p)
    BY <1>1, <2>1 DEF Uploads, UploadRecord
  <2>4. RecordsOK'
    <3>1. ASSUME NEW u \in Upload
          PROVE  RecordOK(up'[u], stored')
      BY <1>1, <2>1, <2>3 DEF RecordOK
    <3> QED BY <3>1 DEF RecordsOK
  <2>5. OneSharer'
    BY <2>3 DEF BudgetIInv, OneSharer
  <2>6. TypeOK'
    BY <1>1, <1>2, <2>1, <2>2 DEF BudgetIInv, TypeOK, Uploads, UploadRecord
  <2>7. /\ StoredSum(stored) \in Nat /\ StoredSum(stored') \in Nat /\ IsFiniteSet(stored)
        /\ Counts(Size, stored) /\ Size[p] \in Nat
    BY <1>1, <2>1, StoredTyped, InputAssumption
  <2>8. ChargeSum(up) \in Nat /\ ChargeSum(up') \in Nat /\ ReserveSum(up) \in Nat
    BY <1>1, <2>2, SumsTyped
  <2>9. CASE Sharer
    <3>1. PICK v \in Upload : up[v].shared /\ up[v].package = p
      BY <2>9
    <3>2. p \in stored /\ up[v].full /\ up[v].stage \in {"settled", "orphan"}
      BY <1>1, <3>1 DEF RecordOK
    <3>3. \A u \in Upload \ {v} : up'[u] = up[u]
      <4>1. ASSUME NEW u \in Upload \ {v}, up[u].package = p
            PROVE  up[u].shared = FALSE /\ up[u] \in UploadRecord
        <5>1. up[u] \in UploadRecord /\ u # v
          BY <1>1 DEF Uploads
        <5>2. ~up[u].shared
          BY <3>1, <4>1, <5>1 DEF BudgetIInv, OneSharer
        <5> QED BY <5>1, <5>2 DEF UploadRecord
      <4> QED BY <2>1, <4>1 DEF UploadRecord
    <3>4. /\ ReserveSum(up') = ReserveSum(up) - Reserve(up[v]) + Reserve(up'[v])
          /\ ChargeSum(up') = ChargeSum(up) - Charge(up[v]) + Charge(up'[v])
      <4>1. ASSUME NEW x \in Uploads, \A u \in Upload \ {v} : x[u] = up[u]
            PROVE  /\ ReserveSum(x) = ReserveSum(up) - Reserve(up[v]) + Reserve(x[v])
                   /\ ChargeSum(x) = ChargeSum(up) - Charge(up[v]) + Charge(x[v])
        BY <1>1, <4>1, OneUpload
      <4> QED BY <2>2, <3>3, <4>1
    <3>5. Reserve(up'[v]) = Reserve(up[v]) /\ Charge(up[v]) = 0 /\ Charge(up'[v]) = Size[p]
      BY <2>3, <3>1, <3>2 DEF Reserve, Charge
    <3>6. StoredSum(stored) = Size[p] + StoredSum(stored')
      BY <2>1, <2>7, <3>2, SumSplit DEF StoredSum
    <3>7. Reserve(up[v]) \in Nat
      BY <1>1, ChargeTyped DEF Uploads
    <3>8. reserved' = ReserveSum(up')
      BY <1>2, <2>8, <3>4, <3>5, <3>7 DEF BudgetIInv
    <3>9. StoredSum(stored') + ChargeSum(up') = StoredSum(stored) + ChargeSum(up)
      BY <2>7, <2>8, <3>4, <3>5, <3>6
    <3> QED BY <2>4, <2>5, <2>6, <3>8, <3>9 DEF BudgetIInv, Within
  <2>10. CASE ~Sharer
    <3>1. \A u \in Upload : up'[u] = up[u]
      <4>1. ASSUME NEW u \in Upload, up[u].package = p
            PROVE  up[u].shared = FALSE /\ up[u] \in UploadRecord
        BY <1>1, <2>10, <4>1 DEF Uploads, UploadRecord
      <4> QED BY <2>1, <4>1 DEF UploadRecord
    <3>2. up' = up
      BY <1>1, <2>2, <3>1 DEF Uploads
    <3>3. StoredSum(stored') <= StoredSum(stored)
      <4>1. CASE p \in stored
        <5>1. StoredSum(stored) = Size[p] + StoredSum(stored')
          BY <2>1, <2>7, <4>1, SumSplit DEF StoredSum
        <5> QED BY <2>7, <5>1
      <4>2. CASE p \notin stored
        <5>1. stored' = stored
          BY <2>1, <4>2
        <5> QED BY <2>7, <5>1
      <4> QED BY <4>1, <4>2
    <3>4. StoredSum(stored') + ChargeSum(up) <= ByteLimit
      BY <2>7, <2>8, <3>3, InputAssumption DEF BudgetIInv, Within
    <3>5. reserved' = ReserveSum(up') /\ Within'
      BY <1>2, <3>2, <3>4 DEF BudgetIInv, Within
    <3> QED BY <2>4, <2>5, <2>6, <3>5 DEF BudgetIInv
  <2> QED BY <2>9, <2>10
<1> QED BY <1>3, <1>4 DEF Look

\* The steps that touch neither the directory nor the uploads.
LEMMA BesideKeeps ==
  ASSUME BudgetIInv, JobNext \/ Prune \/ Commit \/ PruneDies \/ Tick \/ UNCHANGED vars
  PROVE  BudgetIInv'
<1>1. UNCHANGED <<stored, up, reserved>>
  BY DEF JobNext, Submit, End, Prune, Commit, PruneDies, Tick, vars
<1>2. age' \in [Package -> 0..Retention]
  <2>1. CASE Tick
    <3>1. ASSUME NEW p \in Package
          PROVE  (IF p \in stored /\ age[p] < Retention THEN age[p] + 1 ELSE age[p]) \in 0..Retention
      BY InputAssumption DEF BudgetIInv, TypeOK
    <3> QED BY <2>1, <3>1 DEF Tick
  <2>2. CASE ~Tick
    <3>1. age' = age
      BY <2>2 DEF JobNext, Submit, End, Prune, Commit, PruneDies, vars
    <3> QED BY <3>1 DEF BudgetIInv, TypeOK
  <2> QED BY <2>1, <2>2
<1>3. jobs' \in [Job -> [phase : Phase, package : Package]]
  BY DEF BudgetIInv, TypeOK, JobNext, Submit, End, Prune, Commit, PruneDies, Tick, vars, Phase
<1>4. pruning' \in [on : BOOLEAN, rows : SUBSET Job, keep : SUBSET Package, look : SUBSET Package]
  <2>1. CASE Prune
    <3>1. PICK rows \in SUBSET {j \in Job : jobs[j].phase = "over"} :
            pruning' = [on |-> TRUE, rows |-> rows, keep |-> Referenced(rows), look |-> stored]
      BY <2>1 DEF Prune
    <3>2. Referenced(rows) \in SUBSET Package
      BY DEF Referenced, BudgetIInv, TypeOK
    <3> QED BY <3>1, <3>2 DEF BudgetIInv, TypeOK
  <2>2. CASE ~Prune
    <3>1. pruning' = pruning \/ pruning' = NotPruning
      <4>1. CASE JobNext
        BY <4>1 DEF JobNext, Submit, End
      <4>2. CASE Commit \/ PruneDies \/ Tick \/ UNCHANGED vars
        BY <4>2 DEF Commit, PruneDies, Tick, vars
      <4> QED BY <2>2, <4>1, <4>2
    <3>2. NotPruning \in [on : BOOLEAN, rows : SUBSET Job, keep : SUBSET Package, look : SUBSET Package]
      BY DEF NotPruning
    <3> QED BY <3>1, <3>2 DEF BudgetIInv, TypeOK
  <2> QED BY <2>1, <2>2
<1>5. TypeOK'
  BY <1>1, <1>2, <1>3, <1>4 DEF BudgetIInv, TypeOK
<1>6. RecordsOK' /\ OneSharer' /\ Within' /\ reserved' = ReserveSum(up')
  BY <1>1 DEF BudgetIInv, RecordsOK, OneSharer, Within
<1> QED BY <1>5, <1>6 DEF BudgetIInv

LEMMA BudgetInit == ASSUME Init PROVE BudgetIInv
<1> DEFINE p0 == CHOOSE p \in Package : TRUE
           r == [stage |-> "idle", package |-> p0, full |-> FALSE, shared |-> FALSE]
<1>1. p0 \in Package
  BY InputAssumption
<1>2. r \in UploadRecord /\ up = [u \in Upload |-> r]
  BY <1>1 DEF Init, UploadRecord, Stage
<1>3. TypeOK
  BY <1>1, <1>2, InputAssumption DEF Init, TypeOK, UploadRecord, NotPruning, Phase
<1>4. RecordsOK /\ OneSharer
  BY <1>2 DEF RecordsOK, RecordOK, OneSharer
<1>5. \A u \in Upload : Reserve(up[u]) = 0 /\ Charge(up[u]) = 0
  BY <1>2 DEF Reserve, Charge, Reserving
<1>6. ReserveSum(up) = 0 /\ ChargeSum(up) = 0
  <2> DEFINE z == [u \in Upload |-> Reserve(up[u])]
             c == [u \in Upload |-> Charge(up[u])]
  <2>1. \A u \in Upload : z[u] = 0 /\ c[u] = 0
    BY <1>5
  <2>2. IsFiniteSet(Upload)
    BY InputAssumption
  <2> HIDE DEF z, c
  <2>3. SumFunctionOnSet(z, Upload) = 0 /\ SumFunctionOnSet(c, Upload) = 0
    BY <2>1, <2>2, SumOfZeroes
  <2> QED BY <2>3 DEF ReserveSum, ChargeSum, z, c
<1>7. StoredSum(stored) = 0
  BY SumOfNothing DEF Init, StoredSum
<1>8. Within /\ reserved = ReserveSum(up)
  BY <1>6, <1>7, InputAssumption DEF Init, Within
<1> QED BY <1>3, <1>4, <1>8 DEF BudgetIInv

LEMMA BudgetStep == ASSUME BudgetIInv, [Next]_vars PROVE BudgetIInv'
<1>1. CASE UploadNext
  <2>1. CASE Crash
    BY <2>1, CrashKeeps
  <2>2. ASSUME NEW u \in Upload, NEW p \in Package, Admit(u, p)
        PROVE  BudgetIInv'
    BY <2>2, AdmitKeeps
  <2>3. ASSUME NEW u \in Upload, Link(u)
        PROVE  BudgetIInv'
    BY <2>3, LinkKeeps
  <2>4. ASSUME NEW u \in Upload, Open(u) \/ Fill(u) \/ Fail(u) \/ Unlink(u) \/ Release(u) \/ Sweep(u)
        PROVE  BudgetIInv'
    BY <2>4, TempKeeps
  <2> QED BY <1>1, <2>1, <2>2, <2>3, <2>4 DEF UploadNext
<1>2. CASE PruneNext
  <2>1. CASE \E p \in Package : Look(p)
    BY <2>1, LookKeeps
  <2>2. CASE Prune \/ Commit \/ PruneDies
    BY <2>2, BesideKeeps
  <2> QED BY <1>2, <2>1, <2>2 DEF PruneNext
<1>3. CASE JobNext \/ Tick \/ UNCHANGED vars
  BY <1>3, BesideKeeps
<1> QED BY <1>1, <1>2, <1>3 DEF Next

THEOREM BudgetInductive == Spec => []BudgetIInv
  BY BudgetInit, BudgetStep, PTL DEF Spec

\* Every variable has its type, and the reservation never falls below zero
\* (server.py:107-135), for any packages, sizes, uploads and limits.
THEOREM InputsTypeCorrect == Spec => []TypeOK
<1>1. BudgetIInv => TypeOK
  BY DEF BudgetIInv
<1> QED BY <1>1, BudgetInductive, PTL

\* The reservation is the sum of what the uploads under way reserved, after any
\* number of failures, crashes and uploads of the same package.
THEOREM ReservedExactHolds == Spec => []ReservedExact
<1>1. ASSUME BudgetIInv PROVE ReservedExact
  <2> DEFINE S == {u \in Upload : up[u].stage \in Reserving}
             f == [u \in Upload |-> Size[up[u].package]]
             g == [u \in Upload |-> Reserve(up[u])]
  <2>1. S \in SUBSET Upload /\ IsFiniteSet(Upload)
    BY InputAssumption
  <2>2. Counts(f, S)
    BY <1>1, ChargeTyped DEF Counts, BudgetIInv, TypeOK, UploadRecord
  <2>3. \A u \in Upload : g[u] = IF u \in S THEN f[u] ELSE 0
    BY DEF Reserve
  <2>4. reserved = SumFunctionOnSet(g, Upload)
    BY <1>1 DEF BudgetIInv, ReserveSum
  <2> HIDE DEF S, f, g
  <2>5. reserved = SumFunctionOnSet(f, S)
    BY <2>1, <2>2, <2>3, <2>4, SumRestrict
  <2> QED BY <2>5 DEF ReservedExact, S, f
<1> QED BY <1>1, BudgetInductive, PTL

\* The directory stays within its byte budget: the lock is held for the look at
\* the directory and the reservation alone (server.py:105-111), and yet no
\* order of uploads, prunes, crashes and clean-ups gets past the limit.
THEOREM DiskWithinBudgetHolds == Spec => []DiskWithinBudget
<1>1. ASSUME BudgetIInv PROVE DiskWithinBudget
  <2> DEFINE S == {u \in Temps : ~up[u].shared}
             g == [u \in Upload |-> IF u \in S THEN TempBytes[u] ELSE 0]
             c == [u \in Upload |-> Charge(up[u])]
  <2>1. S \in SUBSET Upload /\ IsFiniteSet(Upload) /\ up \in Uploads
    BY <1>1, InputAssumption DEF Temps, BudgetIInv, TypeOK, Uploads, UploadRecord
  <2>2. \A u \in Upload : Size[up[u].package] \in Nat /\ Charge(up[u]) \in Nat
    BY <2>1, ChargeTyped DEF Uploads
  <2>3. Counts(TempBytes, S) /\ Counts(g, Upload) /\ Counts(c, Upload)
    BY <2>1, <2>2 DEF Counts, TempBytes
  <2>4. \A u \in Upload : g[u] <= c[u]
    BY <2>2 DEF TempBytes, Charge, Temps
  <2>5. \A u \in Upload : g[u] = IF u \in S THEN TempBytes[u] ELSE 0
    OBVIOUS
  <2>6. ChargeSum(up) = SumFunctionOnSet(c, Upload)
    BY DEF ChargeSum
  <2> HIDE DEF S, g, c
  <2>7. SumFunctionOnSet(g, Upload) = SumFunctionOnSet(TempBytes, S)
    BY <2>1, <2>3, <2>5, SumRestrict
  <2>8. SumFunctionOnSet(g, Upload) <= SumFunctionOnSet(c, Upload)
    BY <2>1, <2>3, <2>4, SumMonotone
  <2>9. SumFunctionOnSet(g, Upload) \in Nat /\ SumFunctionOnSet(c, Upload) \in Nat /\ StoredSum(stored) \in Nat
    BY <1>1, <2>1, <2>3, SumType, StoredTyped DEF BudgetIInv, TypeOK
  <2>10. StoredSum(stored) + SumFunctionOnSet(TempBytes, S) <= ByteLimit
    BY <1>1, <2>6, <2>7, <2>8, <2>9, InputAssumption DEF BudgetIInv, Within
  <2> QED BY <2>10 DEF DiskWithinBudget, StoredSum, S
<1> QED BY <1>1, BudgetInductive, PTL
=============================================================================
