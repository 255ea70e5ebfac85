---------------------------- MODULE SetupProofs ----------------------------
(***************************************************************************)
(* Proofs about Setup. It has no constants: TLC visits all of its states.  *)
(* What the proofs add is the argument, as inductive invariants of the two *)
(* scripts' control: what is true before each of their steps, so that they *)
(* may be killed there.                                                    *)
(***************************************************************************)
EXTENDS Setup, FiniteSetTheorems, TLAPS

-----------------------------------------------------------------------------
(* The installation *)

Owners == {"none", "ours", "foreign", "unmarked"}

InstallerTypeOK ==
    /\ host \in {"mac", "debian"}
    /\ script \in {"none", "apply", "rollback"}
    /\ pc \in Nat
    /\ owner \in [Things -> Owners]
    /\ enabled \in BOOLEAN
    /\ loaded \in BOOLEAN
    /\ stuck \in BOOLEAN
    /\ journal.present \in BOOLEAN
    /\ journal.tracked \in SUBSET Things
    /\ value \in SUBSET Things

\* Nobody else has these, and a Mac has no files of Debian's.
OwnerOK ==
    /\ \A t \in {"base", "plist", "config", "state", "unit"} : owner[t] # "foreign"
    /\ host = "mac" => \A t \in Dirs \cup Files : owner[t] = "none"
    /\ host = "debian" => owner["plist"] = "none"
    /\ \A t \in Things : owner[t] = "unmarked" => t \in {"group", "agent"} /\ host = "debian"

\* apply has made what comes before its step. A script finds no accounts of others.
ApplyOK ==
    /\ script = "apply" =>
         /\ pc \in 1 .. Len(ApplySteps)
         /\ pc >= 2 => owner["base"] = "ours"
         /\ pc >= 4 => owner["group"] = "ours"
         /\ pc >= 5 => owner["user"] = "ours"
    /\ script # "none" => \A t \in {"user", "group"} : owner[t] # "foreign"

\* What starts at boot has its account, and rollback disables it before it takes that, or
\* goes on with it stuck until the link is gone.
ServiceOK ==
    /\ stuck => host = "debian" /\ script # "apply" /\ owner["base"] = "ours"
    /\ (enabled \/ loaded) /\ ~stuck => \A t \in {"base", "user", "group"} : owner[t] = "ours"
    /\ script = "rollback" /\ pc >= 2 => ~loaded /\ (host = "debian" /\ ~stuck => ~enabled)
    /\ script = "rollback" /\ pc >= 3 /\ host = "mac" => ~enabled
    /\ script = "rollback" /\ pc >= 5 => ~enabled /\ ~stuck

\* What rollback has removed.
RollbackOK ==
    script = "rollback" =>
      /\ pc \in 1 .. Len(RollbackSteps)
      /\ host = "mac" => /\ pc >= 3 => owner["plist"] = "none"
                         /\ pc >= 4 => owner["user"] = "none"
                         /\ pc >= 5 => owner["group"] = "none"
      /\ host = "debian" => /\ pc >= 3 => owner["user"] = "none"
                            /\ pc >= 4 => owner["group"] = "none"
                            /\ pc >= 6 /\ "config" \in value => owner["config"] = "none"
                            /\ pc >= 7 /\ "state" \in value => owner["state"] = "none"
                            /\ pc >= 8 /\ "agent" \in value => owner["agent"] = "none"
                            /\ pc >= 9 /\ "unit" \in value => owner["unit"] = "none"
                            /\ pc >= 10 /\ "wrapper" \in value => owner["wrapper"] = "none"
                            /\ \A t \in value \cap {"agent", "wrapper"} : owner[t] # "foreign"

\* Things of Debian's that are not in the journal.
Untracked(tracked) == {t \in Dirs \cup Files : owner[t] = "ours" /\ t \notin tracked}

\* At most a directory.
OneDir(set) == set \subseteq Dirs /\ \A t, u \in set : t = u

TrackedOK ==
    /\ journal.present => owner["base"] = "ours"
    /\ host = "debian" /\ journal.present => OneDir(Untracked(journal.tracked))
    /\ host = "debian" /\ script = "rollback" => OneDir(Untracked(value))
    /\ host = "debian" /\ script = "apply" =>
         /\ pc <= 2 => value = {} /\ ~journal.present
         /\ pc >= 3 => journal.present /\ journal.tracked = value
         /\ pc = 6 => Untracked(value) \subseteq {"config"}
         /\ pc = 8 => Untracked(value) \subseteq {"state"}
         /\ pc = 10 => Untracked(value) \subseteq {"agent"}
         /\ pc \notin {6, 8, 10} => Untracked(value) = {}
         /\ pc = 12 => "unit" \in value
         /\ pc = 14 => "wrapper" \in value

\* A script starts at its first step, and apply finds nothing tracked.
IdleOK == script = "none" => pc = 1 /\ (value = {} \/ owner["base"] = "ours")

InstallerInv == InstallerTypeOK /\ OwnerOK /\ ApplyOK /\ ServiceOK /\ RollbackOK /\ TrackedOK /\ IdleOK

-----------------------------------------------------------------------------
(* The provisioning *)

Provisioned == Moved \cup Copied

Statuses == {"none", "installing", "installed", "active", "rolled-back"}

Receipts == [status : Statuses, moved : SUBSET Moved, hashed : BOOLEAN]

\* What a task changes.
DataOK ==
    /\ live \in [Provisioned -> {"old", "new", "none"}]
    /\ backup \in [Provisioned -> {"old", "none"}]
    /\ receipt \in Receipts
    /\ memory \in Receipts
    /\ running \in {"old", "new", "none"}

ProvisionTypeOK ==
    /\ DataOK
    /\ task \in {"none", "apply", "rollback"}
    /\ at \in Nat
    /\ cut \in BOOLEAN /\ paused \in BOOLEAN /\ ended \in BOOLEAN /\ marker \in BOOLEAN
    /\ worker \in {"down", "idle", "entering", "active", "missed", "late"}

\* What is not in its place is in the backup, and the receipt knows of what was moved there.
BackupOK ==
    /\ \A x \in Provisioned : live[x] = "old" \/ backup[x] = "old"
    /\ \A x \in Moved : backup[x] = "old" => x \in receipt.moved
    /\ receipt.status # "none" => \A x \in Copied : backup[x] = "old"
    /\ receipt.status \in {"none", "rolled-back"} => live = All("old")
    /\ receipt.status = "none" => receipt = NoReceipt

\* What apply has done when its step a is next.
AppliedTo(a) ==
    /\ memory.moved = receipt.moved
    /\ a # 16 => memory.status = receipt.status
    /\ a <= 3 => receipt.status = "none"
    /\ a >= 4 => /\ receipt.status \notin {"none", "rolled-back"}
                 /\ memory.status \notin {"none", "rolled-back"}
    /\ a >= 2 => backup["config"] = "old"
    /\ a >= 3 => backup["token"] = "old"
    /\ a >= 5 => "mirror" \in receipt.moved
    /\ a >= 6 => backup["mirror"] = "old"
    /\ a >= 7 => live["mirror"] = "new"
    /\ a >= 8 => "cargo" \in receipt.moved
    /\ a >= 9 => backup["cargo"] = "old"
    /\ a >= 10 => live["cargo"] = "new"
    /\ a >= 11 => live["config"] = "new"
    /\ a >= 12 => live["token"] = "new"
    /\ a >= 15 => running = "new"

\* What rollback has put back when its step a is next.
RestoredTo(a) ==
    /\ memory.moved = receipt.moved
    /\ receipt.status \notin {"none", "rolled-back"}
    /\ a >= 4 => live["mirror"] = "old"
    /\ a >= 6 => live["cargo"] = "old"
    /\ a >= 7 => live["config"] = "old"
    /\ a >= 8 => live["token"] = "old"
    /\ a >= 9 => running = "old"

TaskOK ==
    /\ task = "apply" => at \in 1 .. 17 /\ AppliedTo(at)
    /\ task = "rollback" => at \in 1 .. 9 /\ RestoredTo(at)

Consistent == \E v \in {"old", "new"} : live = All(v) /\ running = v

MayRun == ~paused \/ worker \in {"entering", "active"}

\* No script, or one that has nothing more to change, or has not yet looked at ACTIVE.json.
Quiet ==
    \/ task = "none"
    \/ task = "apply" /\ at >= 16
    \/ task = "rollback" /\ at = 1

\* Only then can the worker take jobs, or have one that was not missed.
PausedOK ==
    /\ ended => task = "none" /\ Consistent
    /\ MayRun => Quiet /\ Consistent
    /\ worker \in {"active", "late"} => marker

\* A task starts at its first step, with what the receipt says.
IdleTaskOK == task = "none" => at = 1 /\ (receipt.status = "none" => memory = NoReceipt)

ProvisionInv == ProvisionTypeOK /\ BackupOK /\ TaskOK /\ PausedOK /\ IdleTaskOK

SetupInv == InstallerInv /\ ProvisionInv

-----------------------------------------------------------------------------
(* The steps of the scripts, one by one *)

On(h, n) == host = h /\ pc = n

\* One step of apply on a Mac, and where it leads.
MacApply ==
    \/ On("mac", 1) /\ Make("base")
    \/ On("mac", 2) /\ Write("installing", value) /\ UNCHANGED <<owner, enabled, loaded, value>>
    \/ On("mac", 3) /\ Make("group")
    \/ On("mac", 4) /\ Make("user")
    \/ On("mac", 5) /\ Make("plist")
    \/ On("mac", 6) /\ Track("plist")
    \/ On("mac", 7) /\ Start
    \/ On("mac", 8) /\ Verify
    \/ On("mac", 9) /\ Write("installed", value) /\ UNCHANGED <<owner, enabled, loaded, value>>

DebianApply ==
    \/ On("debian", 1) /\ Make("base")
    \/ On("debian", 2) /\ Write("installing", value) /\ UNCHANGED <<owner, enabled, loaded, value>>
    \/ On("debian", 3) /\ Make("group")
    \/ On("debian", 4) /\ Make("user")
    \/ On("debian", 5) /\ Make("config")
    \/ On("debian", 6) /\ Track("config")
    \/ On("debian", 7) /\ Make("state")
    \/ On("debian", 8) /\ Track("state")
    \/ On("debian", 9) /\ Make("agent")
    \/ On("debian", 10) /\ Track("agent")
    \/ On("debian", 11) /\ Track("unit")
    \/ On("debian", 12) /\ Make("unit")
    \/ On("debian", 13) /\ Track("wrapper")
    \/ On("debian", 14) /\ Make("wrapper")
    \/ On("debian", 15) /\ Start
    \/ On("debian", 16) /\ Verify
    \/ On("debian", 17) /\ Write("installed", value) /\ UNCHANGED <<owner, enabled, loaded, value>>

LEMMA MacApplyCases ==
  ASSUME host = "mac", ApplyStep, pc \in 1 .. Len(ApplySteps)
  PROVE  /\ MacApply /\ script = "apply" /\ UNCHANGED host
         /\ IF pc = 9 THEN script' = "none" /\ pc' = 1 ELSE script' = "apply" /\ pc' = pc + 1
<1>1. ApplySteps = MacSteps
  BY DEF ApplySteps
<1>2. Len(MacSteps) = 9 /\ pc \in 1 .. 9
  BY <1>1 DEF MacSteps
<1>3. /\ MacSteps[1] = Do("make", "base") /\ MacSteps[2] = Do("journal", "installing")
      /\ MacSteps[3] = Do("make", "group") /\ MacSteps[4] = Do("make", "user")
      /\ MacSteps[5] = Do("make", "plist") /\ MacSteps[6] = Do("track", "plist")
      /\ MacSteps[7] = Do("start", "service") /\ MacSteps[8] = Do("verify", "service")
      /\ MacSteps[9] = Do("journal", "installed")
  BY DEF MacSteps
<1>4. /\ script = "apply" /\ UNCHANGED host
      /\ IF pc = 9 THEN script' = "none" /\ pc' = 1 ELSE script' = "apply" /\ pc' = pc + 1
  BY <1>1, <1>2 DEF ApplyStep, Advance
<1>5. LET s == MacSteps[pc] IN
      \/ s.act = "make" /\ Make(s.thing)
      \/ s.act = "track" /\ Track(s.thing)
      \/ s.act = "start" /\ Start
      \/ s.act = "verify" /\ Verify
      \/ s.act = "journal" /\ Write(s.thing, value) /\ UNCHANGED <<owner, enabled, loaded, value>>
  BY <1>1 DEF ApplyStep
<1> HIDE DEF MacSteps
<1>6. MacApply
  BY <1>2, <1>3, <1>5 DEF MacApply, On, Do
<1> QED BY <1>4, <1>6

LEMMA DebianApplyCases ==
  ASSUME host = "debian", ApplyStep, pc \in 1 .. Len(ApplySteps)
  PROVE  /\ DebianApply /\ script = "apply" /\ UNCHANGED host
         /\ IF pc = 17 THEN script' = "none" /\ pc' = 1 ELSE script' = "apply" /\ pc' = pc + 1
<1>1. ApplySteps = DebianSteps
  BY DEF ApplySteps
<1>2. Len(DebianSteps) = 17 /\ pc \in 1 .. 17
  BY <1>1 DEF DebianSteps
<1>3. /\ DebianSteps[1] = Do("make", "base") /\ DebianSteps[2] = Do("journal", "installing")
      /\ DebianSteps[3] = Do("make", "group") /\ DebianSteps[4] = Do("make", "user")
      /\ DebianSteps[5] = Do("make", "config") /\ DebianSteps[6] = Do("track", "config")
      /\ DebianSteps[7] = Do("make", "state") /\ DebianSteps[8] = Do("track", "state")
      /\ DebianSteps[9] = Do("make", "agent") /\ DebianSteps[10] = Do("track", "agent")
      /\ DebianSteps[11] = Do("track", "unit") /\ DebianSteps[12] = Do("make", "unit")
      /\ DebianSteps[13] = Do("track", "wrapper") /\ DebianSteps[14] = Do("make", "wrapper")
      /\ DebianSteps[15] = Do("start", "service") /\ DebianSteps[16] = Do("verify", "service")
      /\ DebianSteps[17] = Do("journal", "installed")
  BY DEF DebianSteps
<1>4. /\ script = "apply" /\ UNCHANGED host
      /\ IF pc = 17 THEN script' = "none" /\ pc' = 1 ELSE script' = "apply" /\ pc' = pc + 1
  BY <1>1, <1>2 DEF ApplyStep, Advance
<1>5. LET s == DebianSteps[pc] IN
      \/ s.act = "make" /\ Make(s.thing)
      \/ s.act = "track" /\ Track(s.thing)
      \/ s.act = "start" /\ Start
      \/ s.act = "verify" /\ Verify
      \/ s.act = "journal" /\ Write(s.thing, value) /\ UNCHANGED <<owner, enabled, loaded, value>>
  BY <1>1 DEF ApplyStep
<1> HIDE DEF DebianSteps
<1>6. DebianApply
  BY <1>2, <1>3, <1>5 DEF DebianApply, On, Do
<1> QED BY <1>4, <1>6

MacRollback ==
    \/ On("mac", 1) /\ Stop
    \/ On("mac", 2) /\ Remove("plist")
    \/ On("mac", 3) /\ Remove("user")
    \/ On("mac", 4) /\ Remove("group")
    \/ On("mac", 5) /\ Empty
    \/ On("mac", 6) /\ Remove("base")

DebianRollback ==
    \/ On("debian", 1) /\ Stop
    \/ On("debian", 2) /\ Remove("user")
    \/ On("debian", 3) /\ Remove("group")
    \/ On("debian", 4) /\ Unlink
    \/ On("debian", 5) /\ Remove("config")
    \/ On("debian", 6) /\ Remove("state")
    \/ On("debian", 7) /\ Remove("agent")
    \/ On("debian", 8) /\ Remove("unit")
    \/ On("debian", 9) /\ Remove("wrapper")
    \/ On("debian", 10) /\ Empty
    \/ On("debian", 11) /\ Remove("base")

LEMMA MacRollbackCases ==
  ASSUME host = "mac", RollbackStep, pc \in 1 .. Len(RollbackSteps)
  PROVE  /\ MacRollback /\ script = "rollback" /\ UNCHANGED host
         /\ IF pc = 6 THEN script' = "none" /\ pc' = 1 /\ value' = {}
                      ELSE script' = "rollback" /\ pc' = pc + 1 /\ value' = value
<1>1. RollbackSteps = MacRemovals
  BY DEF RollbackSteps
<1>2. Len(MacRemovals) = 6 /\ pc \in 1 .. 6
  BY <1>1 DEF MacRemovals
<1>3. /\ MacRemovals[1] = Do("stop", "service") /\ MacRemovals[2] = Do("remove", "plist")
      /\ MacRemovals[3] = Do("remove", "user") /\ MacRemovals[4] = Do("remove", "group")
      /\ MacRemovals[5] = Do("empty", "base") /\ MacRemovals[6] = Do("remove", "base")
  BY DEF MacRemovals
<1>4. /\ script = "rollback" /\ UNCHANGED host
      /\ IF pc = 6 THEN script' = "none" /\ pc' = 1 /\ value' = {}
                   ELSE script' = "rollback" /\ pc' = pc + 1 /\ value' = value
  BY <1>1, <1>2 DEF RollbackStep, Advance
<1>5. LET s == MacRemovals[pc] IN
      \/ s.act = "stop" /\ Stop
      \/ s.act = "remove" /\ Remove(s.thing)
      \/ s.act = "unlink" /\ Unlink
      \/ s.act = "empty" /\ Empty
  BY <1>1 DEF RollbackStep
<1> HIDE DEF MacRemovals
<1>6. MacRollback
  BY <1>2, <1>3, <1>5 DEF MacRollback, On, Do
<1> QED BY <1>4, <1>6

LEMMA DebianRollbackCases ==
  ASSUME host = "debian", RollbackStep, pc \in 1 .. Len(RollbackSteps)
  PROVE  /\ DebianRollback /\ script = "rollback" /\ UNCHANGED host
         /\ IF pc = 11 THEN script' = "none" /\ pc' = 1 /\ value' = {}
                       ELSE script' = "rollback" /\ pc' = pc + 1 /\ value' = value
<1>1. RollbackSteps = DebianRemovals
  BY DEF RollbackSteps
<1>2. Len(DebianRemovals) = 11 /\ pc \in 1 .. 11
  BY <1>1 DEF DebianRemovals
<1>3. /\ DebianRemovals[1] = Do("stop", "service") /\ DebianRemovals[2] = Do("remove", "user")
      /\ DebianRemovals[3] = Do("remove", "group") /\ DebianRemovals[4] = Do("unlink", "service")
      /\ DebianRemovals[5] = Do("remove", "config") /\ DebianRemovals[6] = Do("remove", "state")
      /\ DebianRemovals[7] = Do("remove", "agent") /\ DebianRemovals[8] = Do("remove", "unit")
      /\ DebianRemovals[9] = Do("remove", "wrapper") /\ DebianRemovals[10] = Do("empty", "base")
      /\ DebianRemovals[11] = Do("remove", "base")
  BY DEF DebianRemovals
<1>4. /\ script = "rollback" /\ UNCHANGED host
      /\ IF pc = 11 THEN script' = "none" /\ pc' = 1 /\ value' = {}
                    ELSE script' = "rollback" /\ pc' = pc + 1 /\ value' = value
  BY <1>1, <1>2 DEF RollbackStep, Advance
<1>5. LET s == DebianRemovals[pc] IN
      \/ s.act = "stop" /\ Stop
      \/ s.act = "remove" /\ Remove(s.thing)
      \/ s.act = "unlink" /\ Unlink
      \/ s.act = "empty" /\ Empty
  BY <1>1 DEF RollbackStep
<1> HIDE DEF DebianRemovals
<1>6. DebianRollback
  BY <1>2, <1>3, <1>5 DEF DebianRollback, On, Do
<1> QED BY <1>4, <1>6

LEMMA Lengths == /\ host = "mac" => Len(ApplySteps) = 9 /\ Len(RollbackSteps) = 6
                 /\ host = "debian" => Len(ApplySteps) = 17 /\ Len(RollbackSteps) = 11
  BY DEF ApplySteps, MacSteps, DebianSteps, RollbackSteps, MacRemovals, DebianRemovals

-----------------------------------------------------------------------------
(* apply keeps the invariant *)

\* What every step of apply has in common.
LEMMA MakeEffect ==
  ASSUME InstallerTypeOK, NEW t \in Things, Make(t)
  PROVE  /\ owner[t] = "none" /\ owner'[t] = "ours"
         /\ \A u \in Things \ {t} : owner'[u] = owner[u]
         /\ owner' \in [Things -> Owners]
         /\ enabled' = (enabled \/ t = "plist") /\ enabled' \in BOOLEAN
         /\ loaded' = loaded /\ journal' = journal /\ value' = value
  BY DEF InstallerTypeOK, Make, Owners

LEMMA TrackEffect ==
  ASSUME InstallerTypeOK, NEW t \in Things, Track(t)
  PROVE  /\ owner' = owner /\ enabled' = enabled /\ loaded' = loaded
         /\ value' = value \cup {t} /\ value' \in SUBSET Things
         /\ journal'.present = TRUE /\ journal'.tracked = value'
  BY DEF InstallerTypeOK, Track, Write

\* What a step of apply may be, and what it may do.
ApplyMove ==
    \/ \E t \in Things : Make(t) /\ (t = "plist" => pc = 5)
    \/ \E t \in Things : Track(t) /\ pc >= 2
    \/ Start /\ pc >= 5
    \/ Verify
    \/ \E status \in {"installing", "installed"} : /\ Write(status, value) /\ pc >= 2
                              /\ UNCHANGED <<owner, enabled, loaded, value>>

Grows ==
    /\ owner' \in [Things -> Owners]
    /\ \A u \in Things : owner'[u] = owner[u] \/ (owner[u] = "none" /\ owner'[u] = "ours")
    /\ enabled' \in BOOLEAN /\ loaded' \in BOOLEAN /\ value' \in SUBSET Things
    /\ enabled' => enabled \/ pc >= 5
    /\ loaded' => loaded \/ pc >= 5
    /\ journal'.present \in BOOLEAN /\ journal'.tracked \in SUBSET Things
    /\ journal'.present => journal.present \/ pc >= 2

LEMMA ApplyGrows ==
  ASSUME InstallerTypeOK, pc \in Nat, ApplyMove
  PROVE  Grows
<1>1. ASSUME NEW t \in Things, Make(t), t = "plist" => pc = 5
      PROVE  Grows
  <2>1. \A u \in Things : owner'[u] = owner[u] \/ (owner[u] = "none" /\ owner'[u] = "ours")
    BY <1>1, MakeEffect
  <2>2. enabled' => enabled \/ t = "plist"
    BY <1>1, MakeEffect
  <2>3. t = "plist" => pc >= 5
    BY <1>1
  <2>4. enabled' => enabled \/ pc >= 5
    BY <2>2, <2>3, Zenon
  <2> QED BY <1>1, <2>1, <2>4, MakeEffect DEF Grows, InstallerTypeOK
<1>2. ASSUME NEW t \in Things, Track(t), pc >= 2
      PROVE  Grows
  BY <1>2, TrackEffect DEF Grows, InstallerTypeOK
<1>3. CASE Start /\ pc >= 5
  BY <1>3 DEF Start, Grows, InstallerTypeOK
<1>4. CASE Verify
  BY <1>4 DEF Verify, Grows, InstallerTypeOK
<1>5. ASSUME NEW status \in {"installing", "installed"}, Write(status, value), pc >= 2,
             UNCHANGED <<owner, enabled, loaded, value>>
      PROVE  Grows
  BY <1>5 DEF Write, Grows, InstallerTypeOK
<1> QED BY <1>1, <1>2, <1>3, <1>4, <1>5 DEF ApplyMove

LEMMA MacApplyStep ==
  ASSUME InstallerInv, host = "mac", ApplyStep
  PROVE  InstallerInv'
<1>1. pc \in 1 .. 9 /\ InstallerTypeOK
  BY Lengths DEF InstallerInv, ApplyOK, ApplyStep
<1>2. /\ MacApply /\ script = "apply" /\ host' = "mac"
      /\ IF pc = 9 THEN script' = "none" /\ pc' = 1 ELSE script' = "apply" /\ pc' = pc + 1
  BY <1>1, MacApplyCases, Lengths
<1>3. {"base", "group", "user", "plist"} \subseteq Things
  BY DEF Things
<1>4. ApplyMove
  <2>2. ASSUME NEW t \in {"base", "group", "user", "plist"}, Make(t), t = "plist" => pc = 5
        PROVE  ApplyMove
    BY <1>3, <2>2, Zenon DEF ApplyMove
  <2>3. ASSUME Track("plist"), pc = 6
        PROVE  ApplyMove
    <3>1. pc >= 2 /\ "plist" \in Things
      BY <1>3, <2>3
    <3> QED BY <2>3, <3>1, Zenon DEF ApplyMove
  <2>4. ASSUME NEW status \in {"installing", "installed"}, Write(status, value), pc \in {2, 9},
               UNCHANGED <<owner, enabled, loaded, value>>
        PROVE  ApplyMove
    <3>1. pc >= 2
      BY <2>4
    <3> QED BY <2>4, <3>1, Zenon DEF ApplyMove
  <2>5. ASSUME Start, pc = 7
        PROVE  ApplyMove
    <3>1. pc >= 5
      BY <2>5
    <3> QED BY <2>5, <3>1, Zenon DEF ApplyMove
  <2>6. \/ Make("base") \/ Make("group") \/ Make("user")
        \/ pc = 5 /\ Make("plist")
        \/ pc = 6 /\ Track("plist")
        \/ pc = 7 /\ Start
        \/ Verify
        \/ pc = 2 /\ Write("installing", value) /\ UNCHANGED <<owner, enabled, loaded, value>>
        \/ pc = 9 /\ Write("installed", value) /\ UNCHANGED <<owner, enabled, loaded, value>>
    BY <1>2, Zenon DEF MacApply, On
  <2>7. Verify => ApplyMove
    BY Zenon DEF ApplyMove
  <2> QED BY <2>2, <2>3, <2>4, <2>5, <2>6, <2>7
<1>5. Grows
  BY <1>1, <1>4, ApplyGrows
<1>6. /\ pc = 1 => owner'["base"] = "ours"
      /\ pc = 3 => owner'["group"] = "ours"
      /\ pc = 4 => owner'["user"] = "ours"
  BY <1>1, <1>2, <1>3, MakeEffect DEF MacApply, On
<1>7. \A u \in Dirs \cup Files : owner'[u] = owner[u]
  <2>1. ASSUME NEW t \in {"base", "group", "user", "plist"}, Make(t)
        PROVE  \A u \in Dirs \cup Files : owner'[u] = owner[u]
    BY <1>1, <1>3, <2>1, MakeEffect DEF Dirs, Files, Things
  <2>2. \/ \E t \in {"base", "group", "user", "plist"} : Make(t)
        \/ owner' = owner
    BY <1>2 DEF MacApply, Track, Start, Verify
  <2> QED BY <2>1, <2>2
<1>8. ~stuck /\ ~stuck' /\ stuck' \in BOOLEAN
  BY Zenon DEF ApplyStep, InstallerInv, InstallerTypeOK, ServiceOK
<1>9. InstallerTypeOK'
  <2>1. pc' \in Nat /\ script' \in {"none", "apply", "rollback"}
    BY <1>1, <1>2
  <2> QED BY <1>1, <1>2, <1>5, <1>8, <2>1 DEF InstallerTypeOK, Grows
<1>10. OwnerOK'
  BY <1>2, <1>3, <1>5, <1>7 DEF InstallerInv, OwnerOK, Things, Dirs, Files, Grows
<1>11. /\ pc >= 2 => owner["base"] = "ours"
       /\ pc >= 4 => owner["group"] = "ours"
       /\ pc >= 5 => owner["user"] = "ours"
       /\ owner["user"] # "foreign" /\ owner["group"] # "foreign"
  BY <1>2 DEF InstallerInv, ApplyOK
<1>12. \A u \in {"base", "group", "user"} : owner[u] = "ours" => owner'[u] = "ours"
  BY <1>3, <1>5 DEF Grows
<1>13. ApplyOK'
  <2>1. owner'["user"] # "foreign" /\ owner'["group"] # "foreign"
    BY <1>3, <1>5, <1>11 DEF Grows
  <2>2. script' = "apply" =>
          /\ pc' \in 1 .. 9
          /\ pc' >= 2 => owner'["base"] = "ours"
          /\ pc' >= 4 => owner'["group"] = "ours"
          /\ pc' >= 5 => owner'["user"] = "ours"
    BY <1>1, <1>2, <1>6, <1>11, <1>12
  <2>3. Len(ApplySteps)' = 9
    <3>1. host = "mac" => Len(ApplySteps) = 9
      BY Lengths
    <3>2. (host = "mac" => Len(ApplySteps) = 9)'
      BY Lengths, PTL
    <3> QED BY <1>2, <3>2
  <2> QED BY <2>1, <2>2, <2>3 DEF ApplyOK
<1>14. ServiceOK'
  <2>1. enabled' \/ loaded' => enabled \/ loaded \/ pc >= 5
    BY <1>5, Zenon DEF Grows
  <2>2. pc >= 5 => \A u \in {"base", "user", "group"} : owner[u] = "ours"
    BY <1>1, <1>11
  <2>3. enabled' \/ loaded' => \A u \in {"base", "user", "group"} : owner[u] = "ours"
    BY <1>8, <2>1, <2>2, Zenon DEF InstallerInv, ServiceOK
  <2>4. \A u \in {"base", "user", "group"} : owner'[u] = "ours" \/ ~(enabled' \/ loaded')
    BY <1>12, <2>3, Zenon
  <2>5. script' # "rollback"
    BY <1>2
  <2> QED BY <1>8, <2>4, <2>5, Zenon DEF ServiceOK
<1>15. RollbackOK'
  BY <1>2 DEF RollbackOK
<1>16. TrackedOK'
  <2>1. journal'.present => owner'["base"] = "ours"
    BY <1>5, <1>11, <1>12 DEF InstallerInv, TrackedOK, Grows
  <2> QED BY <1>2, <2>1 DEF TrackedOK
<1>17. IdleOK'
  BY <1>1, <1>2, <1>11, <1>12 DEF IdleOK
<1> QED BY <1>9, <1>10, <1>13, <1>14, <1>15, <1>16, <1>17 DEF InstallerInv

(* What is not in the journal, after a step of Debian's apply. *)
LEMMA MakeUntracked ==
  ASSUME InstallerTypeOK, NEW t \in Things, Make(t)
  PROVE  Untracked(value)' \subseteq Untracked(value) \cup ({t} \ value)
<1>1. value' = value /\ \A u \in Things \ {t} : owner'[u] = owner[u]
  BY MakeEffect
<1>2. Dirs \cup Files \subseteq Things
  BY DEF Things
<1> QED BY <1>1, <1>2 DEF Untracked

LEMMA TrackUntracked ==
  ASSUME InstallerTypeOK, NEW t \in Things, Track(t)
  PROVE  Untracked(value)' \subseteq Untracked(value) \ {t}
  BY TrackEffect DEF Untracked

LEMMA SameUntracked ==
  ASSUME UNCHANGED <<owner, value>>
  PROVE  Untracked(value)' = Untracked(value)
  BY DEF Untracked

LEMMA DebianUntracked ==
  ASSUME InstallerTypeOK, TrackedOK, host = "debian", script = "apply", pc \in 1 .. 17, DebianApply
  PROVE  /\ pc = 1 => journal' = journal /\ value' = value
         /\ pc >= 2 => journal'.present /\ journal'.tracked = value'
         /\ pc \in {1, 2} => value' = {}
         /\ pc = 5 => Untracked(value)' \subseteq {"config"}
         /\ pc = 7 => Untracked(value)' \subseteq {"state"}
         /\ pc = 9 => Untracked(value)' \subseteq {"agent"}
         /\ pc \notin {5, 7, 9} => Untracked(value)' = {}
         /\ pc = 11 => "unit" \in value'
         /\ pc = 13 => "wrapper" \in value'
<1>1. /\ pc <= 2 => value = {}
      /\ pc >= 3 => journal.present /\ journal.tracked = value
      /\ pc = 6 => Untracked(value) \subseteq {"config"}
      /\ pc = 8 => Untracked(value) \subseteq {"state"}
      /\ pc = 10 => Untracked(value) \subseteq {"agent"}
      /\ pc \notin {6, 8, 10} => Untracked(value) = {}
      /\ pc = 12 => "unit" \in value
      /\ pc = 14 => "wrapper" \in value
  BY DEF TrackedOK
<1>2. /\ {"base", "group", "user"} \cup Dirs \cup Files \subseteq Things
      /\ {"base", "group", "user"} \cap (Dirs \cup Files) = {}
      /\ Dirs = {"config", "state", "agent"} /\ Files = {"unit", "wrapper"}
  BY DEF Things, Dirs, Files
<1>3. ASSUME NEW t \in {"base", "group", "user"}, Make(t)
      PROVE  journal' = journal /\ value' = value /\ Untracked(value)' \subseteq Untracked(value)
  BY <1>2, <1>3, MakeEffect DEF Untracked
<1>4. ASSUME NEW t \in Dirs \cup Files, Make(t)
      PROVE  /\ journal' = journal /\ value' = value
             /\ Untracked(value)' \subseteq Untracked(value) \cup ({t} \ value)
  BY <1>2, <1>4, MakeEffect, MakeUntracked
<1>5. ASSUME NEW t \in Dirs \cup Files, Track(t)
      PROVE  /\ journal'.present /\ journal'.tracked = value' /\ t \in value'
             /\ Untracked(value)' \subseteq Untracked(value) \ {t}
  <2>1. t \in Things
    BY <1>2
  <2>2. journal'.present
    BY <1>5, <2>1, TrackEffect, Zenon
  <2>3. journal'.tracked = value' /\ t \in value'
    BY <1>5, <2>1, TrackEffect
  <2> QED BY <1>5, <2>1, <2>2, <2>3, TrackUntracked
<1>6. ASSUME NEW status, Write(status, value), UNCHANGED <<owner, value>>
      PROVE  /\ journal'.present /\ journal'.tracked = value' /\ value' = value
             /\ Untracked(value)' = Untracked(value)
  BY <1>6, SameUntracked DEF Write
<1>7. ASSUME Start \/ Verify
      PROVE  journal' = journal /\ value' = value /\ Untracked(value)' = Untracked(value)
  BY <1>7, SameUntracked DEF Start, Verify
<1>8. CASE \/ On("debian", 1) /\ Make("base")
           \/ On("debian", 3) /\ Make("group")
           \/ On("debian", 4) /\ Make("user")
  BY <1>1, <1>3, <1>8 DEF On
<1>9. CASE \/ On("debian", 5) /\ Make("config")
           \/ On("debian", 7) /\ Make("state")
           \/ On("debian", 9) /\ Make("agent")
           \/ On("debian", 12) /\ Make("unit")
           \/ On("debian", 14) /\ Make("wrapper")
  BY <1>1, <1>2, <1>4, <1>9 DEF On
<1>10. CASE \/ On("debian", 6) /\ Track("config")
            \/ On("debian", 8) /\ Track("state")
            \/ On("debian", 10) /\ Track("agent")
            \/ On("debian", 11) /\ Track("unit")
            \/ On("debian", 13) /\ Track("wrapper")
  BY <1>1, <1>2, <1>5, <1>10 DEF On
<1>11. CASE \/ On("debian", 2) /\ Write("installing", value) /\ UNCHANGED <<owner, enabled, loaded, value>>
            \/ On("debian", 17) /\ Write("installed", value) /\ UNCHANGED <<owner, enabled, loaded, value>>
  BY <1>1, <1>6, <1>11 DEF On
<1>12. CASE \/ On("debian", 15) /\ Start
            \/ On("debian", 16) /\ Verify
  BY <1>1, <1>7, <1>12 DEF On
<1> QED BY <1>8, <1>9, <1>10, <1>11, <1>12, Zenon DEF DebianApply

LEMMA DebianApplyStep ==
  ASSUME InstallerInv, host = "debian", ApplyStep
  PROVE  InstallerInv'
<1>1. pc \in 1 .. 17 /\ InstallerTypeOK /\ TrackedOK
  BY Lengths DEF InstallerInv, ApplyOK, ApplyStep
<1>2. /\ DebianApply /\ script = "apply" /\ host' = "debian"
      /\ IF pc = 17 THEN script' = "none" /\ pc' = 1 ELSE script' = "apply" /\ pc' = pc + 1
  BY <1>1, DebianApplyCases, Lengths
<1>3. /\ {"base", "group", "user", "plist"} \cup Dirs \cup Files \subseteq Things
      /\ {"config", "state", "agent"} \subseteq Dirs /\ {"unit", "wrapper"} \subseteq Files
      /\ "plist" \notin {"base", "group", "user"} \cup Dirs \cup Files
  BY DEF Things, Dirs, Files
<1>4. ApplyMove
  <2>1. ASSUME NEW t \in {"base", "group", "user"} \cup Dirs \cup Files, Make(t)
        PROVE  ApplyMove
    <3>1. t \in Things /\ t # "plist"
      BY <1>3
    <3> QED BY <2>1, <3>1, Zenon DEF ApplyMove
  <2>2. ASSUME NEW t \in Dirs \cup Files, Track(t), pc \in 6 .. 13
        PROVE  ApplyMove
    <3>1. pc >= 2 /\ t \in Things
      BY <1>3, <2>2
    <3> QED BY <2>2, <3>1, Zenon DEF ApplyMove
  <2>3. ASSUME NEW status \in {"installing", "installed"}, Write(status, value), pc \in {2, 17},
               UNCHANGED <<owner, enabled, loaded, value>>
        PROVE  ApplyMove
    <3>1. pc >= 2
      BY <2>3
    <3> QED BY <2>3, <3>1, Zenon DEF ApplyMove
  <2>4. ASSUME Start, pc = 15
        PROVE  ApplyMove
    <3>1. pc >= 5
      BY <2>4
    <3> QED BY <2>4, <3>1, Zenon DEF ApplyMove
  <2>5. Verify => ApplyMove
    BY Zenon DEF ApplyMove
  <2>6. \/ Make("base") \/ Make("group") \/ Make("user")
        \/ Make("config") \/ Make("state") \/ Make("agent") \/ Make("unit") \/ Make("wrapper")
        \/ pc \in {6, 8, 10, 11, 13}
             /\ (Track("config") \/ Track("state") \/ Track("agent") \/ Track("unit") \/ Track("wrapper"))
        \/ pc = 15 /\ Start
        \/ Verify
        \/ pc = 2 /\ Write("installing", value) /\ UNCHANGED <<owner, enabled, loaded, value>>
        \/ pc = 17 /\ Write("installed", value) /\ UNCHANGED <<owner, enabled, loaded, value>>
    BY <1>2, Zenon DEF DebianApply, On
  <2>7. pc \in {6, 8, 10, 11, 13} => pc \in 6 .. 13
    OBVIOUS
  <2> QED BY <1>3, <2>1, <2>2, <2>3, <2>4, <2>5, <2>6, <2>7
<1>5. Grows
  BY <1>1, <1>4, ApplyGrows
<1>6. /\ pc = 1 => owner'["base"] = "ours"
      /\ pc = 3 => owner'["group"] = "ours"
      /\ pc = 4 => owner'["user"] = "ours"
  BY <1>1, <1>2, <1>3, MakeEffect DEF DebianApply, On
<1>7. owner'["plist"] = owner["plist"]
  <2>1. ASSUME NEW t \in {"base", "group", "user"} \cup Dirs \cup Files, Make(t)
        PROVE  owner'["plist"] = owner["plist"]
    BY <1>1, <1>3, <2>1, MakeEffect
  <2>2. \/ \E t \in {"base", "group", "user"} \cup Dirs \cup Files : Make(t)
        \/ owner' = owner
    BY <1>2, <1>3 DEF DebianApply, Track, Start, Verify
  <2> QED BY <2>1, <2>2
<1>8. ~stuck /\ ~stuck' /\ stuck' \in BOOLEAN
  BY Zenon DEF ApplyStep, InstallerInv, InstallerTypeOK, ServiceOK
<1>9. InstallerTypeOK'
  <2>1. pc' \in Nat /\ script' \in {"none", "apply", "rollback"}
    BY <1>1, <1>2
  <2> QED BY <1>1, <1>2, <1>5, <1>8, <2>1 DEF InstallerTypeOK, Grows
<1>10. OwnerOK'
  BY <1>2, <1>3, <1>5, <1>7 DEF InstallerInv, OwnerOK, Things, Dirs, Files, Grows
<1>11. /\ pc >= 2 => owner["base"] = "ours"
       /\ pc >= 4 => owner["group"] = "ours"
       /\ pc >= 5 => owner["user"] = "ours"
       /\ owner["user"] # "foreign" /\ owner["group"] # "foreign"
  BY <1>2 DEF InstallerInv, ApplyOK
<1>12. \A u \in {"base", "group", "user"} : owner[u] = "ours" => owner'[u] = "ours"
  BY <1>3, <1>5 DEF Grows
<1>13. ApplyOK'
  <2>1. owner'["user"] # "foreign" /\ owner'["group"] # "foreign"
    BY <1>3, <1>5, <1>11 DEF Grows
  <2>2. script' = "apply" =>
          /\ pc' \in 1 .. 17
          /\ pc' >= 2 => owner'["base"] = "ours"
          /\ pc' >= 4 => owner'["group"] = "ours"
          /\ pc' >= 5 => owner'["user"] = "ours"
    BY <1>1, <1>2, <1>6, <1>11, <1>12
  <2>3. Len(ApplySteps)' = 17
    <3>1. (host = "debian" => Len(ApplySteps) = 17)'
      BY Lengths, PTL
    <3> QED BY <1>2, <3>1
  <2> QED BY <2>1, <2>2, <2>3 DEF ApplyOK
<1>14. ServiceOK'
  <2>1. enabled' \/ loaded' => enabled \/ loaded \/ pc >= 5
    BY <1>5, Zenon DEF Grows
  <2>2. pc >= 5 => \A u \in {"base", "user", "group"} : owner[u] = "ours"
    BY <1>1, <1>11
  <2>3. enabled' \/ loaded' => \A u \in {"base", "user", "group"} : owner[u] = "ours"
    BY <1>8, <2>1, <2>2, Zenon DEF InstallerInv, ServiceOK
  <2>4. \A u \in {"base", "user", "group"} : owner'[u] = "ours" \/ ~(enabled' \/ loaded')
    BY <1>12, <2>3, Zenon
  <2>5. script' # "rollback"
    BY <1>2
  <2> QED BY <1>8, <2>4, <2>5, Zenon DEF ServiceOK
<1>15. RollbackOK'
  BY <1>2 DEF RollbackOK
<1>16. TrackedOK'
  <2> DEFINE left == Untracked(value)'
  <2>1. /\ pc = 1 => journal' = journal /\ value' = value
        /\ pc >= 2 => journal'.present /\ journal'.tracked = value'
        /\ pc \in {1, 2} => value' = {}
        /\ pc = 5 => left \subseteq {"config"}
        /\ pc = 7 => left \subseteq {"state"}
        /\ pc = 9 => left \subseteq {"agent"}
        /\ pc \notin {5, 7, 9} => left = {}
        /\ pc = 11 => "unit" \in value'
        /\ pc = 13 => "wrapper" \in value'
    BY <1>1, <1>2, DebianUntracked
  <2>2. left = {t \in Dirs \cup Files : owner'[t] = "ours" /\ t \notin value'}
    BY DEF Untracked
  <2> HIDE DEF left
  <2>3. OneDir(left)
    BY <1>3, <2>1 DEF OneDir
  <2>4. journal'.present => owner'["base"] = "ours"
    BY <1>5, <1>11, <1>12 DEF InstallerInv, TrackedOK, Grows
  <2>5. pc = 1 => ~journal.present
    BY <1>1, <1>2 DEF TrackedOK
  <2>6. journal'.present => journal'.tracked = value'
    BY <1>1, <2>1, <2>5
  <2>7. journal'.present => OneDir(Untracked(journal.tracked)')
    BY <2>2, <2>3, <2>6 DEF Untracked
  <2>8. script' = "apply" =>
         /\ pc' <= 2 => value' = {} /\ ~journal'.present
         /\ pc' >= 3 => journal'.present /\ journal'.tracked = value'
         /\ pc' = 6 => left \subseteq {"config"}
         /\ pc' = 8 => left \subseteq {"state"}
         /\ pc' = 10 => left \subseteq {"agent"}
         /\ pc' \notin {6, 8, 10} => left = {}
         /\ pc' = 12 => "unit" \in value'
         /\ pc' = 14 => "wrapper" \in value'
    BY <1>1, <1>2, <2>1, <2>5
  <2>9. script' # "rollback"
    BY <1>2
  <2> QED BY <2>4, <2>7, <2>8, <2>9 DEF TrackedOK, OneDir, left
<1>17. IdleOK'
  BY <1>1, <1>2, <1>11, <1>12 DEF IdleOK
<1> QED BY <1>9, <1>10, <1>13, <1>14, <1>15, <1>16, <1>17 DEF InstallerInv

-----------------------------------------------------------------------------
(* rollback keeps the invariant *)

LEMMA RemoveEffect ==
  ASSUME InstallerTypeOK, NEW t \in Things, Remove(t)
  PROVE  /\ \A u \in Things \ {t} : owner'[u] = owner[u]
         /\ IF Removes(t) THEN owner'[t] = "none" ELSE owner'[t] = owner[t]
         /\ owner' \in [Things -> Owners]
         /\ (enabled' => enabled) /\ (t = "plist" => ~enabled') /\ enabled' \in BOOLEAN
         /\ loaded' = loaded
         /\ IF t = "base" THEN journal' = NoJournal ELSE journal' = journal
  BY DEF InstallerTypeOK, Remove, Owners

\* What a step of rollback may do.
Shrinks ==
    /\ owner' \in [Things -> Owners]
    /\ \A u \in Things : owner'[u] = owner[u] \/ owner'[u] = "none"
    /\ (enabled' => enabled) /\ (loaded' => loaded)
    /\ enabled' \in BOOLEAN /\ loaded' \in BOOLEAN
    /\ journal' = journal \/ journal' = NoJournal
    /\ owner'["base"] = owner["base"] \/ journal' = NoJournal

LEMMA RemoveShrinks ==
  ASSUME InstallerTypeOK, NEW t \in Things, Remove(t)
  PROVE  Shrinks
<1>1. "base" \in Things
  BY DEF Things
<1>2. \A u \in Things : owner'[u] = owner[u] \/ owner'[u] = "none"
  BY RemoveEffect
<1>3. owner'["base"] = owner["base"] \/ journal' = NoJournal
  BY <1>1, RemoveEffect
<1>4. journal' = journal \/ journal' = NoJournal
  BY RemoveEffect
<1>5. owner' \in [Things -> Owners] /\ (enabled' => enabled) /\ enabled' \in BOOLEAN
  BY RemoveEffect, Zenon
<1>6. (loaded' => loaded) /\ loaded' \in BOOLEAN
  BY RemoveEffect DEF InstallerTypeOK
<1> QED BY <1>2, <1>3, <1>4, <1>5, <1>6 DEF Shrinks

LEMMA StopShrinks ==
  ASSUME InstallerTypeOK, Stop
  PROVE  /\ Shrinks /\ owner' = owner /\ ~loaded'
         /\ stuck' \in BOOLEAN /\ (stuck' => host = "debian" /\ enabled)
         /\ host = "debian" /\ ~stuck' => ~enabled'
<1>1. Shrinks /\ owner' = owner
  <2>1. (enabled' => enabled) /\ enabled' \in BOOLEAN
    <3>1. \/ enabled' = (enabled /\ host = "mac")
          \/ enabled' = enabled
      BY Zenon DEF Stop
    <3>2. enabled \in BOOLEAN
      BY DEF InstallerTypeOK
    <3>3. CASE enabled' = (enabled /\ host = "mac")
      BY <3>3
    <3>4. CASE enabled' = enabled
      BY <3>2, <3>4
    <3> QED BY <3>1, <3>3, <3>4, Zenon
  <2>2. (loaded' => loaded) /\ loaded' \in BOOLEAN
    BY Zenon DEF Stop
  <2>3. owner' = owner /\ journal' = journal
    BY DEF Stop
  <2> QED BY <2>1, <2>2, <2>3, Zenon DEF Shrinks, InstallerTypeOK
<1>2. ~loaded' /\ stuck' \in BOOLEAN
  BY Zenon DEF InstallerTypeOK, Stop
<1>3. stuck' => host = "debian" /\ enabled
  BY Zenon DEF Stop
<1>4. ASSUME host = "debian", ~stuck'
      PROVE  ~enabled'
  <2>1. host # "mac"
    BY <1>4
  <2>2. CASE enabled' = (enabled /\ host = "mac")
    BY <2>1, <2>2, Zenon
  <2>3. CASE enabled' = enabled /\ stuck' = enabled
    BY <1>4, <2>3, Zenon
  <2> QED BY <2>2, <2>3, Zenon DEF Stop
<1> QED BY <1>1, <1>2, <1>3, <1>4

LEMMA UnlinkShrinks ==
  ASSUME InstallerTypeOK, Unlink
  PROVE  Shrinks /\ owner' = owner /\ ~enabled' /\ ~stuck'
  BY DEF InstallerTypeOK, Unlink, Shrinks

LEMMA EmptyShrinks ==
  ASSUME InstallerTypeOK, Empty
  PROVE  Shrinks /\ owner' = owner
  BY DEF InstallerTypeOK, Empty, Shrinks

\* What a step of rollback keeps because it only takes things away.
LEMMA ShrinksKeep ==
  ASSUME InstallerInv, Shrinks, UNCHANGED host, script = "rollback", stuck' \in BOOLEAN,
         \/ script' = "rollback" /\ pc' \in Nat /\ value' = value
         \/ script' = "none" /\ pc' = 1 /\ value' = {}
  PROVE  InstallerTypeOK' /\ OwnerOK' /\ ApplyOK' /\ TrackedOK' /\ IdleOK'
<1>1. {"base", "plist", "config", "state", "unit", "user", "group"} \cup Dirs \cup Files \subseteq Things
  BY DEF Things, Dirs, Files
<1>2. journal'.present \in BOOLEAN /\ journal'.tracked \in SUBSET Things
  <2>1. CASE journal' = journal
    BY <2>1 DEF InstallerInv, InstallerTypeOK
  <2>2. CASE journal' = NoJournal
    <3>1. NoJournal.present = FALSE /\ NoJournal.tracked = {}
      BY DEF NoJournal
    <3> QED BY <2>2, <3>1
  <2> QED BY <2>1, <2>2 DEF Shrinks
<1>3. InstallerTypeOK'
  BY <1>2 DEF InstallerInv, InstallerTypeOK, Shrinks
<1>4. OwnerOK'
  BY <1>1 DEF InstallerInv, OwnerOK, Shrinks
<1>5. ApplyOK'
  BY <1>1 DEF InstallerInv, ApplyOK, Shrinks
<1>6. \A set : Untracked(set)' \subseteq Untracked(set)
  BY <1>1 DEF Untracked, Shrinks
<1>7. journal'.present => journal' = journal /\ owner'["base"] = owner["base"]
  BY DEF Shrinks, NoJournal
<1>8. TrackedOK'
  <2>1. journal'.present => owner'["base"] = "ours"
    BY <1>7 DEF InstallerInv, TrackedOK
  <2>2. host' = "debian" /\ journal'.present => OneDir(Untracked(journal.tracked)')
    <3>1. host' = "debian" /\ journal'.present => OneDir(Untracked(journal.tracked))
      BY <1>7 DEF InstallerInv, TrackedOK
    <3>2. journal'.present => Untracked(journal.tracked)' \subseteq Untracked(journal.tracked)
      BY <1>1, <1>7 DEF Untracked, Shrinks
    <3> QED BY <3>1, <3>2 DEF OneDir
  <2>3. host' = "debian" /\ script' = "rollback" => OneDir(Untracked(value)')
    <3>1. host' = "debian" => OneDir(Untracked(value))
      BY DEF InstallerInv, TrackedOK
    <3>2. script' = "rollback" => Untracked(value)' \subseteq Untracked(value)
      BY <1>1 DEF Untracked, Shrinks
    <3> QED BY <3>1, <3>2 DEF OneDir
  <2> QED BY <2>1, <2>2, <2>3 DEF TrackedOK, OneDir
<1>9. IdleOK'
  BY DEF IdleOK
<1> QED BY <1>3, <1>4, <1>5, <1>8, <1>9

LEMMA MacRollbackStep ==
  ASSUME InstallerInv, host = "mac", RollbackStep
  PROVE  InstallerInv'
<1>1. pc \in 1 .. 6 /\ InstallerTypeOK
  BY Lengths DEF InstallerInv, RollbackOK, RollbackStep
<1>2. /\ MacRollback /\ script = "rollback" /\ host' = host
      /\ IF pc = 6 THEN script' = "none" /\ pc' = 1 /\ value' = {}
                   ELSE script' = "rollback" /\ pc' = pc + 1 /\ value' = value
  BY <1>1, MacRollbackCases, Lengths
<1>3. {"base", "plist", "user", "group"} \subseteq Things
  BY DEF Things
<1>0. ~stuck /\ ~stuck' /\ stuck' \in BOOLEAN
  <2>1. ~stuck /\ host # "debian"
    BY DEF InstallerInv, ServiceOK
  <2>2. Stop \/ UNCHANGED stuck
    BY <1>2, Zenon DEF MacRollback, Remove, Empty
  <2>3. Stop => ~stuck' /\ stuck' \in BOOLEAN
    BY <1>1, <2>1, StopShrinks, Zenon
  <2>4. UNCHANGED stuck => ~stuck' /\ stuck' \in BOOLEAN
    <3>1. stuck \in BOOLEAN
      BY <1>1 DEF InstallerTypeOK
    <3> QED BY <2>1, <3>1
  <2> QED BY <2>1, <2>2, <2>3, <2>4, Zenon
<1>4. Shrinks
  <2>1. ASSUME NEW t \in {"base", "plist", "user", "group"}, Remove(t)
        PROVE  Shrinks
    BY <1>1, <1>3, <2>1, RemoveShrinks
  <2> QED BY <1>1, <1>2, <2>1, StopShrinks, EmptyShrinks, Zenon DEF MacRollback
<1>5. InstallerTypeOK' /\ OwnerOK' /\ ApplyOK' /\ TrackedOK' /\ IdleOK'
  <2>1. \/ script' = "rollback" /\ pc' \in Nat /\ value' = value
        \/ script' = "none" /\ pc' = 1 /\ value' = {}
    BY <1>1, <1>2
  <2> QED BY <1>0, <1>2, <1>4, <2>1, ShrinksKeep
<1>6. ASSUME NEW t \in {"plist", "user", "group"}, Remove(t)
      PROVE  owner'[t] = "none"
  BY <1>1, <1>3, <1>6, RemoveEffect DEF Removes
<1>7. /\ pc = 2 => owner'["plist"] = "none"
      /\ pc = 3 => owner'["user"] = "none"
      /\ pc = 4 => owner'["group"] = "none"
  BY <1>2, <1>6 DEF MacRollback, On
<1>8. RollbackOK'
  <2>1. \A t \in {"plist", "user", "group"} : owner[t] = "none" => owner'[t] = "none"
    BY <1>3, <1>4 DEF Shrinks
  <2>2. script' = "rollback" =>
          /\ pc' >= 3 => owner'["plist"] = "none"
          /\ pc' >= 4 => owner'["user"] = "none"
          /\ pc' >= 5 => owner'["group"] = "none"
          /\ pc' \in 1 .. 6
    BY <1>1, <1>2, <1>7, <2>1 DEF InstallerInv, RollbackOK
  <2>3. Len(RollbackSteps)' = 6
    <3>1. (host = "mac" => Len(RollbackSteps) = 6)'
      BY Lengths, PTL
    <3> QED BY <1>2, <3>1
  <2> QED BY <1>2, <2>2, <2>3 DEF RollbackOK
<1>9. ServiceOK'
  <2>1. pc = 1 => owner' = owner /\ ~loaded'
    <3>1. pc = 1 => Stop
      BY <1>2 DEF MacRollback, On
    <3> QED BY <1>1, <3>1, StopShrinks, Zenon
  <2>2. pc >= 2 => ~loaded'
    BY <1>2, <1>4, Zenon DEF InstallerInv, ServiceOK, Shrinks
  <2>3. pc = 2 => ~enabled'
    <3>1. pc = 2 => Remove("plist")
      BY <1>2 DEF MacRollback, On
    <3>2. "plist" \in Things
      BY <1>3
    <3> QED BY <1>1, <3>1, <3>2, RemoveEffect, Zenon
  <2>4. pc >= 3 => ~enabled'
    BY <1>0, <1>2, <1>4, Zenon DEF InstallerInv, ServiceOK, Shrinks
  <2>5. pc >= 2 => ~enabled' /\ ~loaded'
    <3>1. pc >= 2 => pc = 2 \/ pc >= 3
      BY <1>1
    <3> QED BY <2>2, <2>3, <2>4, <3>1, Zenon
  <2>6. pc = 1 \/ pc >= 2
    BY <1>1
  <2>7. ~loaded'
    BY <2>1, <2>2, <2>6, Zenon
  <2>8. enabled' \/ loaded' => \A t \in {"base", "user", "group"} : owner'[t] = "ours"
    <3>1. CASE pc = 1
      <4>1. enabled' => enabled
        BY <1>4, Zenon DEF Shrinks
      <4>2. enabled => \A t \in {"base", "user", "group"} : owner[t] = "ours"
        BY <1>0, Zenon DEF InstallerInv, ServiceOK
      <4>3. owner' = owner
        BY <2>1, <3>1
      <4> QED BY <2>7, <4>1, <4>2, <4>3, Zenon
    <3>2. CASE pc >= 2
      BY <2>5, <3>2, Zenon
    <3> QED BY <2>6, <3>1, <3>2
  <2>9. script' = "rollback" /\ pc' >= 3 => ~enabled'
    <3>1. script' = "rollback" /\ pc' >= 3 => pc >= 2
      BY <1>1, <1>2
    <3> QED BY <2>5, <3>1, Zenon
  <2>10. host' # "debian"
    BY <1>2
  <2>11. script' = "rollback" /\ pc' >= 5 => ~enabled'
    <3>1. script' = "rollback" /\ pc' >= 5 => pc >= 2
      BY <1>1, <1>2
    <3> QED BY <2>5, <3>1, Zenon
  <2> QED BY <1>0, <2>7, <2>8, <2>9, <2>10, <2>11, Zenon DEF ServiceOK
<1> QED BY <1>5, <1>8, <1>9 DEF InstallerInv

LEMMA DebianRollbackStep ==
  ASSUME InstallerInv, host = "debian", RollbackStep
  PROVE  InstallerInv'
<1>1. pc \in 1 .. 11 /\ InstallerTypeOK
  BY Lengths DEF InstallerInv, RollbackOK, RollbackStep
<1>2. /\ DebianRollback /\ script = "rollback" /\ host' = host
      /\ IF pc = 11 THEN script' = "none" /\ pc' = 1 /\ value' = {}
                    ELSE script' = "rollback" /\ pc' = pc + 1 /\ value' = value
  BY <1>1, DebianRollbackCases, Lengths
<1> DEFINE Gone == {"base", "user", "group", "config", "state", "agent", "unit", "wrapper"}
<1>3. Gone \subseteq Things /\ "plist" \notin Gone
  BY DEF Things, Dirs, Files
<1>4. Shrinks
  <2>1. ASSUME NEW t \in Gone, Remove(t)
        PROVE  Shrinks
    BY <1>1, <1>3, <2>1, RemoveShrinks
  <2>2. Stop \/ Unlink \/ Empty \/ \E t \in Gone : Remove(t)
    BY <1>2, Zenon DEF DebianRollback
  <2> QED BY <1>1, <2>1, <2>2, StopShrinks, UnlinkShrinks, EmptyShrinks
<1>0. /\ stuck' \in BOOLEAN
      /\ pc = 1 => Stop
      /\ pc = 4 => Unlink
      /\ pc \notin {1, 4} => UNCHANGED stuck
  <2>1. (pc = 1 => Stop) /\ (pc = 4 => Unlink)
    BY <1>2 DEF DebianRollback, On
  <2>2. pc \notin {1, 4} => UNCHANGED stuck
    BY <1>2 DEF DebianRollback, On, Remove, Empty
  <2>3. stuck' \in BOOLEAN
    <3>0. stuck \in BOOLEAN
      BY <1>1 DEF InstallerTypeOK
    <3>1. UNCHANGED stuck => stuck' \in BOOLEAN
      BY <3>0
    <3>2. Stop => stuck' \in BOOLEAN
      BY <1>1, StopShrinks, Zenon
    <3>4. Unlink => stuck' \in BOOLEAN
      BY DEF Unlink
    <3>3. pc = 1 \/ pc = 4 \/ pc \notin {1, 4}
      OBVIOUS
    <3> QED BY <2>1, <2>2, <3>1, <3>2, <3>3, <3>4, Zenon
  <2> QED BY <2>1, <2>2, <2>3
<1>5. InstallerTypeOK' /\ OwnerOK' /\ ApplyOK' /\ TrackedOK' /\ IdleOK'
  <2>1. \/ script' = "rollback" /\ pc' \in Nat /\ value' = value
        \/ script' = "none" /\ pc' = 1 /\ value' = {}
    BY <1>1, <1>2
  <2> QED BY <1>0, <1>2, <1>4, <2>1, ShrinksKeep
<1>6. ASSUME NEW t \in Gone, Remove(t), t \in {"user", "group"} \/ t \in value
      PROVE  owner'[t] = "none"
  BY <1>1, <1>3, <1>6, RemoveEffect DEF Removes
<1>7. /\ pc = 2 => owner'["user"] = "none"
      /\ pc = 3 => owner'["group"] = "none"
      /\ pc = 5 /\ "config" \in value => owner'["config"] = "none"
      /\ pc = 6 /\ "state" \in value => owner'["state"] = "none"
      /\ pc = 7 /\ "agent" \in value => owner'["agent"] = "none"
      /\ pc = 8 /\ "unit" \in value => owner'["unit"] = "none"
      /\ pc = 9 /\ "wrapper" \in value => owner'["wrapper"] = "none"
  BY <1>2, <1>6 DEF DebianRollback, On
<1>8. RollbackOK'
  <2>1. \A t \in Gone : owner[t] = "none" => owner'[t] = "none"
    BY <1>3, <1>4 DEF Shrinks
  <2>2. script' = "rollback" =>
          /\ pc' \in 1 .. 11
          /\ pc' >= 3 => owner'["user"] = "none"
          /\ pc' >= 4 => owner'["group"] = "none"
          /\ pc' >= 6 /\ "config" \in value' => owner'["config"] = "none"
          /\ pc' >= 7 /\ "state" \in value' => owner'["state"] = "none"
          /\ pc' >= 8 /\ "agent" \in value' => owner'["agent"] = "none"
          /\ pc' >= 9 /\ "unit" \in value' => owner'["unit"] = "none"
          /\ pc' >= 10 /\ "wrapper" \in value' => owner'["wrapper"] = "none"
    BY <1>1, <1>2, <1>7, <2>1 DEF InstallerInv, RollbackOK
  <2>3. script' = "rollback" => \A t \in value' \cap {"agent", "wrapper"} : owner'[t] # "foreign"
    BY <1>2, <1>3, <1>4 DEF InstallerInv, RollbackOK, Shrinks
  <2>4. Len(RollbackSteps)' = 11
    <3>1. (host = "debian" => Len(RollbackSteps) = 11)'
      BY Lengths, PTL
    <3> QED BY <1>2, <3>1
  <2> QED BY <1>2, <2>2, <2>3, <2>4 DEF RollbackOK
<1>9. ServiceOK'
  <2>1. host' = "debian" /\ script' # "apply"
    BY <1>2
  <2>2. ~loaded'
    <3>1. pc = 1 => ~loaded'
      BY <1>0, <1>1, StopShrinks, Zenon
    <3>2. pc >= 2 => ~loaded'
      BY <1>2, <1>4, Zenon DEF InstallerInv, ServiceOK, Shrinks
    <3>3. pc = 1 \/ pc >= 2
      BY <1>1
    <3> QED BY <3>1, <3>2, <3>3, Zenon
  <2>3. pc >= 4 => ~enabled' /\ ~stuck'
    <3>1. pc = 4 => ~enabled' /\ ~stuck'
      BY <1>0, <1>1, UnlinkShrinks, Zenon
    <3>2. pc >= 5 => ~enabled /\ ~stuck
      BY <1>2, Zenon DEF InstallerInv, ServiceOK
    <3>3. pc >= 5 => UNCHANGED stuck
      BY <1>0
    <3>4. pc >= 5 => ~enabled' /\ ~stuck'
      BY <1>4, <3>2, <3>3, Zenon DEF Shrinks
    <3>5. pc >= 4 => pc = 4 \/ pc >= 5
      BY <1>1
    <3> QED BY <3>1, <3>4, <3>5, Zenon
  <2>4. ~stuck' => ~enabled'
    <3>1. pc = 1 => (~stuck' => ~enabled')
      BY <1>0, <1>1, <1>2, StopShrinks, Zenon
    <3>2. pc \in {2, 3} => (~stuck' => ~enabled')
      <4>1. pc >= 2 => (~stuck => ~enabled)
        BY <1>2, Zenon DEF InstallerInv, ServiceOK
      <4>2. pc \in {2, 3} => pc >= 2 /\ UNCHANGED stuck
        BY <1>0
      <4> QED BY <1>4, <4>1, <4>2, Zenon DEF Shrinks
    <3>3. pc = 1 \/ pc \in {2, 3} \/ pc >= 4
      BY <1>1
    <3> QED BY <2>3, <3>1, <3>2, <3>3, Zenon
  <2>5. stuck' => owner'["base"] = "ours"
    <3>1. stuck' => pc \in {1, 2, 3}
      <4>1. pc \in {1, 2, 3} \/ pc >= 4
        BY <1>1
      <4> QED BY <2>3, <4>1, Zenon
    <3>2. pc \in {1, 2, 3} => owner'["base"] = owner["base"]
      <4>1. "base" \in Things \ {"user", "group"} /\ {"user", "group"} \subseteq Things
        BY DEF Things
      <4>2. Remove("user") \/ Remove("group") => owner'["base"] = owner["base"]
        BY <1>1, <4>1, RemoveEffect
      <4>3. Stop => owner' = owner
        BY <1>1, StopShrinks
      <4>4. pc \in {1, 2, 3} => Stop \/ Remove("user") \/ Remove("group")
        BY <1>2 DEF DebianRollback, On
      <4> QED BY <4>2, <4>3, <4>4
    <3>3. stuck' => enabled \/ stuck
      <4>1. pc = 1 => (stuck' => enabled)
        BY <1>0, <1>1, StopShrinks, Zenon
      <4>2. pc \in {2, 3} => UNCHANGED stuck
        BY <1>0
      <4>3. stuck' => pc = 1 \/ pc \in {2, 3}
        BY <3>1
      <4> QED BY <4>1, <4>2, <4>3, Zenon
    <3>4. enabled \/ stuck => owner["base"] = "ours"
      BY Zenon DEF InstallerInv, ServiceOK
    <3> QED BY <3>1, <3>2, <3>3, <3>4
  <2>6. script' = "rollback" /\ pc' >= 5 => ~enabled' /\ ~stuck'
    <3>1. script' = "rollback" /\ pc' >= 5 => pc >= 4
      BY <1>1, <1>2
    <3> QED BY <2>3, <3>1, Zenon
  <2>7. host' # "mac"
    BY <2>1
  <2> QED BY <2>1, <2>2, <2>4, <2>5, <2>6, <2>7, Zenon DEF ServiceOK
<1> QED BY <1>5, <1>8, <1>9 DEF InstallerInv

-----------------------------------------------------------------------------
(* The ends of a script, its beginnings, and the others *)

\* The script ends with its files as they are; apply may write down what it tracked.
LEMMA EndKeeps ==
  ASSUME InstallerInv, script # "none", End, UNCHANGED <<host, owner, enabled, loaded, stuck>>,
         \/ journal' = journal
         \/ host = "debian" /\ script = "apply" /\ pc >= 3 /\ Write("incomplete", value)
  PROVE  InstallerInv'
<1>1. script' = "none" /\ pc' = 1 /\ value' = {}
  BY DEF End
<1>2. journal'.present = journal.present /\ journal'.tracked = journal.tracked
  <2>1. CASE journal' = journal
    BY <2>1
  <2>2. CASE host = "debian" /\ script = "apply" /\ pc >= 3 /\ Write("incomplete", value)
    <3>1. journal.present /\ journal.tracked = value
      BY <2>2 DEF InstallerInv, TrackedOK
    <3>2. journal.present = TRUE
      BY <3>1 DEF InstallerInv, InstallerTypeOK
    <3> QED BY <2>2, <3>1, <3>2 DEF Write
  <2> QED BY <2>1, <2>2
<1>3. InstallerTypeOK' /\ OwnerOK' /\ ApplyOK' /\ ServiceOK' /\ RollbackOK' /\ IdleOK'
  BY <1>1, <1>2 DEF InstallerInv, InstallerTypeOK, OwnerOK, ApplyOK, ServiceOK, RollbackOK, IdleOK
<1>4. TrackedOK'
  BY <1>1, <1>2 DEF InstallerInv, TrackedOK, Untracked, OneDir
<1> QED BY <1>3, <1>4 DEF InstallerInv

LEMMA ApplyKeeps ==
  ASSUME InstallerInv, Apply
  PROVE  InstallerInv'
<1>1. script' = "apply" /\ pc' = 1 /\ UNCHANGED <<host, owner, enabled, loaded, stuck, journal, value>>
  BY DEF Apply, InstallerInv, IdleOK
<1>2. \A t \in {"base", "user", "group"} : owner[t] = "none"
  BY DEF Apply, MacFree, DebianFree
<1>3. value = {}
  BY <1>2 DEF Apply, InstallerInv, IdleOK
<1>4. ~journal.present
  BY <1>2 DEF InstallerInv, TrackedOK
<1>5. ServiceOK'
  <2>1. ~stuck
    <3>1. "none" # "ours"
      OBVIOUS
    <3> QED BY <1>2, <3>1 DEF InstallerInv, ServiceOK
  <2>2. script' # "rollback"
    BY <1>1
  <2> QED BY <1>1, <2>1, <2>2, Zenon DEF InstallerInv, ServiceOK
<1>6. InstallerTypeOK' /\ OwnerOK' /\ RollbackOK' /\ IdleOK'
  BY <1>1 DEF InstallerInv, InstallerTypeOK, OwnerOK, RollbackOK, IdleOK
<1>7. ApplyOK'
  <2>1. Len(ApplySteps)' = Len(ApplySteps)
    BY <1>1 DEF ApplySteps
  <2>2. pc' \in 1 .. Len(ApplySteps)
    <3>1. host = "mac" \/ host = "debian"
      BY DEF InstallerInv, InstallerTypeOK
    <3>2. CASE host = "mac"
      <4>1. Len(ApplySteps) = 9
        BY <3>2, Lengths
      <4> QED BY <1>1, <4>1
    <3>3. CASE host = "debian"
      <4>1. Len(ApplySteps) = 17
        BY <3>3, Lengths
      <4> QED BY <1>1, <4>1
    <3> QED BY <3>1, <3>2, <3>3
  <2> QED BY <1>1, <1>2, <2>1, <2>2 DEF ApplyOK
<1>8. TrackedOK'
  <2>1. host = "debian" => Untracked(value)' = {}
    <3>1. host = "debian" => \A t \in Dirs \cup Files : owner[t] = "none"
      BY DEF Apply, DebianFree, InstallerInv, InstallerTypeOK
    <3> QED BY <1>1, <3>1 DEF Untracked
  <2> QED BY <1>1, <1>3, <1>4, <2>1 DEF TrackedOK
<1> QED BY <1>5, <1>6, <1>7, <1>8 DEF InstallerInv

LEMMA ApplyRaisesKeeps ==
  ASSUME InstallerInv, ApplyRaises
  PROVE  InstallerInv'
<1>1. CASE pc <= 2
  <2>1. End /\ journal' = journal /\ script # "none" /\ UNCHANGED <<host, owner, enabled, loaded, stuck>>
    BY <1>1 DEF ApplyRaises, InstallerInv, InstallerTypeOK
  <2> QED BY <2>1, EndKeeps
<1>2. CASE ~(pc <= 2) /\ host = "mac"
  <2>1. /\ script' = "rollback" /\ pc' = 1 /\ script = "apply"
        /\ UNCHANGED <<host, owner, enabled, loaded, stuck, journal, value>>
    BY <1>2 DEF ApplyRaises, InstallerInv, InstallerTypeOK
  <2>2. InstallerTypeOK' /\ OwnerOK' /\ ApplyOK' /\ ServiceOK' /\ IdleOK'
    BY <2>1 DEF InstallerInv, InstallerTypeOK, OwnerOK, ApplyOK, ServiceOK, IdleOK
  <2>3. RollbackOK'
    <3>1. (host = "mac" => Len(RollbackSteps) = 6)'
      BY Lengths, PTL
    <3> QED BY <1>2, <2>1, <3>1 DEF RollbackOK
  <2>4. TrackedOK'
    BY <1>2, <2>1 DEF InstallerInv, TrackedOK
  <2> QED BY <2>2, <2>3, <2>4 DEF InstallerInv
<1>3. CASE ~(pc <= 2) /\ host # "mac"
  <2>1. /\ End /\ Write("incomplete", value) /\ script = "apply"
        /\ UNCHANGED <<host, owner, enabled, loaded, stuck>>
    BY <1>3 DEF ApplyRaises
  <2>2. host = "debian" /\ pc >= 3
    BY <1>3 DEF InstallerInv, InstallerTypeOK
  <2> QED BY <2>1, <2>2, EndKeeps
<1> QED BY <1>1, <1>2, <1>3

LEMMA RollbackKeeps ==
  ASSUME InstallerInv, Rollback
  PROVE  InstallerInv'
<1>1. /\ script' = "rollback" /\ pc' = 1 /\ value' = journal.tracked /\ script = "none"
      /\ UNCHANGED <<host, owner, enabled, loaded, stuck, journal>>
  BY DEF Rollback, InstallerInv, IdleOK
<1>2. journal.present /\ journal.tracked \in SUBSET Things
  BY DEF Rollback, InstallerInv, InstallerTypeOK
<1>3. owner["user"] # "foreign" /\ owner["group"] # "foreign"
  BY DEF Rollback, MacOurs, DebianOurs
<1>4. host = "debian" => \A t \in value' \cap {"agent", "wrapper"} : owner'[t] # "foreign"
  BY <1>1 DEF Rollback, DebianOurs, Files
<1>5. InstallerTypeOK' /\ OwnerOK' /\ ApplyOK' /\ ServiceOK' /\ IdleOK'
  BY <1>1, <1>2, <1>3 DEF InstallerInv, InstallerTypeOK, OwnerOK, ApplyOK, ServiceOK, IdleOK
<1>6. RollbackOK'
  <2>1. pc' \in 1 .. Len(RollbackSteps)'
    <3>1. (host = "mac" => Len(RollbackSteps) = 6)'
      BY Lengths, PTL
    <3>2. (host = "debian" => Len(RollbackSteps) = 11)'
      BY Lengths, PTL
    <3>3. host' = "mac" \/ host' = "debian"
      BY <1>1 DEF InstallerInv, InstallerTypeOK
    <3>4. CASE host' = "mac"
      <4>1. Len(RollbackSteps)' = 6
        BY <3>1, <3>4
      <4> QED BY <1>1, <4>1
    <3>5. CASE host' = "debian"
      <4>1. Len(RollbackSteps)' = 11
        BY <3>2, <3>5
      <4> QED BY <1>1, <4>1
    <3> QED BY <3>3, <3>4, <3>5
  <2> QED BY <1>1, <1>4, <2>1 DEF RollbackOK
<1>7. TrackedOK'
  BY <1>1, <1>2 DEF InstallerInv, TrackedOK, Untracked, OneDir
<1> QED BY <1>5, <1>6, <1>7 DEF InstallerInv

\* The service is started by the boot, or ends.
LEMMA BootKeeps ==
  ASSUME InstallerInv, Boot \/ Halt
  PROVE  InstallerInv'
<1>1. UNCHANGED <<host, script, pc, owner, enabled, stuck, journal, value>>
  BY DEF Boot, Halt
<1>2. loaded' \in BOOLEAN /\ (loaded' => script = "none" /\ enabled)
  <2>1. CASE Boot
    BY <2>1, Zenon DEF Boot, InstallerInv, InstallerTypeOK
  <2>2. CASE Halt
    BY <2>2, Zenon DEF Halt
  <2> QED BY <2>1, <2>2
<1>3. InstallerTypeOK' /\ OwnerOK' /\ IdleOK'
  BY <1>1, <1>2 DEF InstallerInv, InstallerTypeOK, OwnerOK, IdleOK
<1>4. ApplySteps' = ApplySteps /\ RollbackSteps' = RollbackSteps
  BY <1>1 DEF ApplySteps, RollbackSteps
<1>5. ApplyOK' /\ RollbackOK'
  BY <1>1, <1>4 DEF InstallerInv, ApplyOK, RollbackOK
<1>6. ServiceOK'
  <2>1. script = "none" => script # "rollback"
    OBVIOUS
  <2>2. script' = "rollback" => ~loaded'
    BY <1>1, <1>2, <2>1, Zenon
  <2> QED BY <1>1, <1>2, <2>2, Zenon DEF InstallerInv, ServiceOK
<1>7. TrackedOK'
  BY <1>1 DEF InstallerInv, TrackedOK, Untracked, OneDir
<1> QED BY <1>3, <1>5, <1>6, <1>7 DEF InstallerInv

LEMMA IntrudeKeeps ==
  ASSUME InstallerInv, Intrude
  PROVE  InstallerInv'
<1>1. PICK t \in {"user", "group", "wrapper", "agent"}, whose \in {"foreign", "unmarked"} :
        /\ t \in {"user", "group"} => owner[t] = "none"
        /\ t \in {"wrapper", "agent"} => host = "debian"
        /\ whose = "unmarked" => host = "debian" /\ t \in {"group", "agent"}
        /\ owner' = [owner EXCEPT ![t] = whose]
  BY DEF Intrude
<1>2. script = "none" /\ UNCHANGED <<host, script, pc, enabled, loaded, stuck, journal, value>>
  BY DEF Intrude
<1>3. t \in Things /\ {"base", "plist", "config", "state", "unit", "user", "group"} \cup Dirs \cup Files \subseteq Things
  BY <1>1 DEF Things, Dirs, Files
<1>4. /\ owner' \in [Things -> Owners]
      /\ owner'[t] = whose /\ \A u \in Things \ {t} : owner'[u] = owner[u]
  BY <1>1, <1>3 DEF InstallerInv, InstallerTypeOK, Owners
<1>5. InstallerTypeOK'
  BY <1>2, <1>4 DEF InstallerInv, InstallerTypeOK
<1>6. OwnerOK'
  <2>1. t \notin {"base", "plist", "config", "state", "unit"}
    BY <1>1
  <2>2. host = "mac" => t \notin Dirs \cup Files
    BY <1>1, <1>2 DEF Dirs, Files, InstallerInv, InstallerTypeOK
  <2>3. owner'[t] = "unmarked" => t \in {"group", "agent"} /\ host = "debian"
    BY <1>1, <1>4
  <2> QED BY <1>2, <1>3, <1>4, <2>1, <2>2, <2>3 DEF InstallerInv, OwnerOK
<1>7. ApplyOK' /\ RollbackOK'
  BY <1>2 DEF ApplyOK, RollbackOK
<1>8. ServiceOK'
  <2>1. (enabled \/ loaded) /\ ~stuck => t \notin {"base", "user", "group"}
    BY <1>1 DEF InstallerInv, ServiceOK
  <2>2. \A u \in {"base", "user", "group"} : u # t => owner'[u] = owner[u]
    BY <1>3, <1>4
  <2>3. \A u \in {"base", "user", "group"} : owner[u] = "ours" => owner'[u] = "ours" \/ u = t
    BY <2>2
  <2>4. (enabled' \/ loaded') /\ ~stuck' => \A u \in {"base", "user", "group"} : owner'[u] = "ours"
    BY <1>2, <2>1, <2>3, Zenon DEF InstallerInv, ServiceOK
  <2>5. stuck' => host' = "debian" /\ script' # "apply" /\ owner'["base"] = "ours"
    <3>1. "base" # t
      BY <1>1
    <3>2. stuck => host = "debian" /\ script # "apply" /\ owner["base"] = "ours"
      BY Zenon DEF InstallerInv, ServiceOK
    <3> QED BY <1>2, <2>2, <3>1, <3>2, Zenon
  <2>6. script' # "rollback"
    BY <1>2
  <2> QED BY <2>4, <2>5, <2>6, Zenon DEF ServiceOK
<1>9. TrackedOK'
  <2>1. Untracked(journal.tracked)' \subseteq Untracked(journal.tracked)
    BY <1>2, <1>3, <1>4 DEF Untracked
  <2>2. owner'["base"] = owner["base"]
    BY <1>1, <1>3, <1>4
  <2> QED BY <1>2, <2>1, <2>2 DEF InstallerInv, TrackedOK, OneDir
<1>10. IdleOK'
  <2>1. owner'["base"] = owner["base"]
    BY <1>1, <1>3, <1>4
  <2> QED BY <1>2, <2>1 DEF InstallerInv, IdleOK
<1> QED BY <1>5, <1>6, <1>7, <1>8, <1>9, <1>10 DEF InstallerInv

LEMMA InstallerStep ==
  ASSUME InstallerInv, InstallerNext
  PROVE  InstallerInv'
<1>1. CASE ApplyStep
  BY <1>1, MacApplyStep, DebianApplyStep DEF InstallerInv, InstallerTypeOK
<1>2. CASE RollbackStep
  BY <1>2, MacRollbackStep, DebianRollbackStep DEF InstallerInv, InstallerTypeOK
<1>3. CASE RollbackRaises \/ Kill
  <2>1. script # "none" /\ End /\ UNCHANGED <<host, owner, enabled, loaded, stuck, journal>>
    BY <1>3 DEF RollbackRaises, Kill
  <2> QED BY <2>1, EndKeeps
<1> QED BY <1>1, <1>2, <1>3, ApplyKeeps, ApplyRaisesKeeps, RollbackKeeps, BootKeeps, IntrudeKeeps DEF InstallerNext

\* The base directory is removed last.
BaseGoes == owner["base"] = "ours" /\ owner'["base"] = "none"

LEMMA LastIsBase ==
  ASSUME InstallerInv, InstallerNext, BaseGoes
  PROVE  \/ host = "mac" /\ script = "rollback" /\ pc = 6
         \/ host = "debian" /\ script = "rollback" /\ pc = 11
<1>1. "base" \in Things /\ InstallerTypeOK
  BY DEF Things, InstallerInv
<1>2. CASE ApplyStep
  <2>1. \A t \in Things : Make(t) => t # "base"
    BY DEF Make, BaseGoes
  <2>2. \A t \in Things \ {"base"} : Make(t) => owner'["base"] = owner["base"]
    BY <1>1, MakeEffect
  <2>3. \A t \in Things : ~Make(t)
    BY <2>1, <2>2 DEF BaseGoes
  <2>4. owner' # owner
    BY DEF BaseGoes
  <2>5. MacApply \/ DebianApply
    BY <1>1, <1>2, MacApplyCases, DebianApplyCases DEF InstallerInv, InstallerTypeOK, ApplyOK, ApplyStep
  <2>6. {"base", "group", "user", "plist", "config", "state", "agent", "unit", "wrapper"} \subseteq Things
    BY DEF Things, Dirs, Files
  <2>7. \A t : ~Track(t)
    BY <2>4 DEF Track
  <2>8. ~Start /\ ~Verify
    BY <2>4 DEF Start, Verify
  <2>9. ~UNCHANGED <<owner, enabled, loaded, value>>
    BY <2>4
  <2> QED BY <2>3, <2>5, <2>6, <2>7, <2>8, <2>9, Zenon DEF MacApply, DebianApply
<1>3. CASE RollbackStep
  <2>1. ASSUME NEW t \in Things \ {"base"}, Remove(t)
        PROVE  FALSE
    BY <1>1, <2>1, RemoveEffect DEF BaseGoes
  <2>2. ~Stop /\ ~Unlink /\ ~Empty
    BY DEF Stop, Unlink, Empty, BaseGoes
  <2>3. {"group", "user", "plist", "config", "state", "agent", "unit", "wrapper"} \subseteq Things \ {"base"}
    BY DEF Things, Dirs, Files
  <2>4. CASE host = "mac"
    <3>1. MacRollback /\ script = "rollback"
      BY <1>3, <2>4, MacRollbackCases DEF InstallerInv, RollbackOK, RollbackStep
    <3> QED BY <2>1, <2>2, <2>3, <3>1, Zenon DEF MacRollback, On
  <2>5. CASE host = "debian"
    <3>1. DebianRollback /\ script = "rollback"
      BY <1>3, <2>5, DebianRollbackCases DEF InstallerInv, RollbackOK, RollbackStep
    <3> QED BY <2>1, <2>2, <2>3, <3>1, Zenon DEF DebianRollback, On
  <2> QED BY <1>1, <2>4, <2>5 DEF InstallerTypeOK
<1>4. CASE Intrude
  <2>1. owner'["base"] = owner["base"]
    BY <1>1, <1>4 DEF Intrude, InstallerTypeOK
  <2> QED BY <2>1 DEF BaseGoes
<1>5. CASE Apply \/ ApplyRaises \/ Rollback \/ RollbackRaises \/ Kill \/ Boot \/ Halt
  <2>1. owner' = owner
    BY <1>5, Zenon DEF Apply, ApplyRaises, Rollback, RollbackRaises, Kill, Boot, Halt
  <2> QED BY <2>1 DEF BaseGoes
<1> QED BY <1>2, <1>3, <1>4, <1>5, Zenon DEF InstallerNext

LEMMA AtMostOne ==
  ASSUME NEW S, \A x, y \in S : x = y
  PROVE  Cardinality(S) <= 1
<1>1. CASE S = {}
  BY <1>1, FS_EmptySet
<1>2. CASE S # {}
  <2>1. PICK x : x \in S
    BY <1>2
  <2>2. S = {x}
    BY <2>1
  <2> QED BY <2>2, FS_Singleton
<1> QED BY <1>1, <1>2

LEMMA BaseLastStep ==
  ASSUME InstallerInv, InstallerNext, BaseGoes
  PROVE  Left \subseteq Dirs /\ Cardinality(Left) <= 1
<1>1. CASE host = "mac" /\ script = "rollback" /\ pc = 6
  <2>1. owner["plist"] = "none" /\ owner["user"] = "none" /\ owner["group"] = "none"
    BY <1>1 DEF InstallerInv, RollbackOK
  <2>2. \A t \in Dirs \cup Files : owner[t] = "none"
    BY <1>1 DEF InstallerInv, OwnerOK
  <2>3. Left = {}
    BY <2>1, <2>2 DEF Left, Things
  <2> QED BY <2>3, AtMostOne
<1>2. CASE host = "debian" /\ script = "rollback" /\ pc = 11
  <2>1. owner["plist"] = "none" /\ owner["user"] = "none" /\ owner["group"] = "none"
    BY <1>2 DEF InstallerInv, RollbackOK, OwnerOK
  <2>2. \A t \in (Dirs \cup Files) \cap value : owner[t] = "none"
    BY <1>2 DEF InstallerInv, RollbackOK, Dirs, Files
  <2>3. Left \subseteq Untracked(value)
    BY <2>1, <2>2 DEF Left, Things, Untracked
  <2>4. OneDir(Untracked(value))
    BY <1>2 DEF InstallerInv, TrackedOK
  <2>5. Left \subseteq Dirs /\ \A t, u \in Left : t = u
    BY <2>3, <2>4 DEF OneDir
  <2> QED BY <2>5, AtMostOne
<1> QED BY <1>1, <1>2, LastIsBase

LEMMA ForeignKeptStep ==
  ASSUME InstallerInv, InstallerNext, NEW u \in Things, owner[u] \in {"foreign", "unmarked"}
  PROVE  owner'[u] \in {"foreign", "unmarked"} \/ TakenForOurs(u)
<1>1. InstallerTypeOK
  BY DEF InstallerInv
<1>2. CASE ApplyStep
  <2>1. ASSUME NEW t \in Things, Make(t)
        PROVE  owner'[u] = owner[u]
    BY <1>1, <2>1, MakeEffect
  <2>2. MacApply \/ DebianApply
    BY <1>1, <1>2, MacApplyCases, DebianApplyCases DEF InstallerInv, InstallerTypeOK, ApplyOK, ApplyStep
  <2>3. {"base", "group", "user", "plist", "config", "state", "agent", "unit", "wrapper"} \subseteq Things
    BY DEF Things, Dirs, Files
  <2>4. owner' = owner \/ \E t \in Things : Make(t)
    BY <2>2, <2>3, Zenon DEF MacApply, DebianApply, Track, Start, Verify
  <2> QED BY <2>1, <2>4
<1>3. CASE RollbackStep
  <2>1. script = "rollback"
    BY <1>3 DEF RollbackStep
  <2>2. ~Removes(u) \/ TakenForOurs(u)
    <3>1. CASE owner[u] = "foreign"
      BY <2>1, <3>1 DEF InstallerInv, InstallerTypeOK, OwnerOK, ApplyOK, RollbackOK, Removes, Things, Dirs, Files
    <3>2. CASE owner[u] = "unmarked"
      <4>1. u \in {"group", "agent"} /\ host = "debian"
        BY <3>2 DEF InstallerInv, OwnerOK
      <4> QED BY <2>1, <3>2, <4>1 DEF Removes, TakenForOurs
    <3> QED BY <3>1, <3>2
  <2>3. ASSUME NEW t \in Things, Remove(t)
        PROVE  owner'[u] = owner[u] \/ TakenForOurs(u)
    BY <1>1, <2>2, <2>3, RemoveEffect
  <2>4. MacRollback \/ DebianRollback
    BY <1>1, <1>3, MacRollbackCases, DebianRollbackCases DEF InstallerInv, InstallerTypeOK, RollbackOK, RollbackStep
  <2>5. {"base", "group", "user", "plist", "config", "state", "agent", "unit", "wrapper"} \subseteq Things
    BY DEF Things, Dirs, Files
  <2>6. owner' = owner \/ \E t \in Things : Remove(t)
    BY <2>4, <2>5, Zenon DEF MacRollback, DebianRollback, Stop, Unlink, Empty
  <2> QED BY <2>3, <2>6
<1>4. CASE Intrude
  BY <1>1, <1>4 DEF Intrude, InstallerTypeOK
<1>5. CASE Apply \/ ApplyRaises \/ Rollback \/ RollbackRaises \/ Kill \/ Boot \/ Halt
  <2>1. owner' = owner
    BY <1>5, Zenon DEF Apply, ApplyRaises, Rollback, RollbackRaises, Kill, Boot, Halt
  <2> QED BY <2>1
<1> QED BY <1>2, <1>3, <1>4, <1>5, Zenon DEF InstallerNext

-----------------------------------------------------------------------------
(* The steps of provisioning *)

LEMMA ProvisionStepsAre ==
  /\ Len(ProvisionSteps) = 17
  /\ ProvisionSteps[1] = PDo("copy", "config") /\ ProvisionSteps[2] = PDo("copy", "token")
  /\ ProvisionSteps[3] = PDo("save", "installing")
  /\ ProvisionSteps[4] = PDo("note", "mirror") /\ ProvisionSteps[5] = PDo("away", "mirror")
  /\ ProvisionSteps[6] = PDo("place", "mirror")
  /\ ProvisionSteps[7] = PDo("note", "cargo") /\ ProvisionSteps[8] = PDo("away", "cargo")
  /\ ProvisionSteps[9] = PDo("place", "cargo")
  /\ ProvisionSteps[10] = PDo("place", "config") /\ ProvisionSteps[11] = PDo("place", "token")
  /\ ProvisionSteps[12] = PDo("hash", "config") /\ ProvisionSteps[13] = PDo("save", "installed")
  /\ ProvisionSteps[14] = PDo("restart", "worker") /\ ProvisionSteps[15] = PDo("resume", "worker")
  /\ ProvisionSteps[16] = PDo("keep", "receipt") /\ ProvisionSteps[17] = PDo("report", "result")
  BY DEF ProvisionSteps, Move

LEMMA RestoreStepsAre ==
  /\ Len(RestoreSteps) = 9
  /\ RestoreSteps[1] = PDo("idle", "worker")
  /\ RestoreSteps[2] = PDo("clear", "mirror") /\ RestoreSteps[3] = PDo("restore", "mirror")
  /\ RestoreSteps[4] = PDo("clear", "cargo") /\ RestoreSteps[5] = PDo("restore", "cargo")
  /\ RestoreSteps[6] = PDo("restore", "config") /\ RestoreSteps[7] = PDo("restore", "token")
  /\ RestoreSteps[8] = PDo("restart", "worker") /\ RestoreSteps[9] = PDo("save", "rolled-back")
  BY DEF RestoreSteps

LEMMA Effects ==
  ASSUME NEW x
  PROVE  /\ Effect(PDo("idle", x)) =>
              Look /\ UNCHANGED <<live, backup, receipt, memory, paused, running>>
         /\ Effect(PDo("copy", x)) =>
              backup' = [backup EXCEPT ![x] = "old"] /\ UNCHANGED <<live, receipt, memory, paused, running, worker>>
         /\ Effect(PDo("save", x)) =>
              /\ memory' = [memory EXCEPT !.status = x] /\ receipt' = memory'
              /\ UNCHANGED <<live, backup, paused, running, worker>>
         /\ Effect(PDo("note", x)) =>
              /\ memory' = [memory EXCEPT !.moved = @ \cup {x}] /\ receipt' = memory'
              /\ UNCHANGED <<live, backup, paused, running, worker>>
         /\ Effect(PDo("away", x)) =>
              /\ live' = [live EXCEPT ![x] = "none"] /\ backup' = [backup EXCEPT ![x] = "old"]
              /\ UNCHANGED <<receipt, memory, paused, running, worker>>
         /\ Effect(PDo("place", x)) =>
              live' = [live EXCEPT ![x] = "new"] /\ UNCHANGED <<backup, receipt, memory, paused, running, worker>>
         /\ Effect(PDo("hash", x)) =>
              /\ memory' = [memory EXCEPT !.hashed = TRUE]
              /\ UNCHANGED <<live, backup, receipt, paused, running, worker>>
         /\ Effect(PDo("restart", x)) =>
              /\ worker' = "idle" /\ running' = live["config"]
              /\ UNCHANGED <<live, backup, receipt, memory, paused>>
         /\ Effect(PDo("resume", x)) =>
              /\ \/ paused' = FALSE /\ memory' = [memory EXCEPT !.status = "active"]
                 \/ UNCHANGED <<paused, memory>>
              /\ UNCHANGED <<live, backup, receipt, running, worker>>
         /\ Effect(PDo("keep", x)) =>
              memory' = memory /\ receipt' = memory /\ UNCHANGED <<live, backup, paused, running, worker>>
         /\ Effect(PDo("report", x)) =>
              UNCHANGED <<live, backup, receipt, memory, paused, running, worker>>
         /\ Effect(PDo("clear", x)) =>
              /\ live' = IF Restorable(x) THEN [live EXCEPT ![x] = "none"] ELSE live
              /\ UNCHANGED <<backup, receipt, memory, paused, running, worker>>
         /\ Effect(PDo("restore", x)) =>
              /\ IF Restorable(x) /\ backup[x] = "old"
                   THEN /\ live' = [live EXCEPT ![x] = "old"]
                        /\ backup' = IF x \in Moved THEN [backup EXCEPT ![x] = "none"] ELSE backup
                   ELSE UNCHANGED <<live, backup>>
              /\ UNCHANGED <<receipt, memory, paused, running, worker>>
<1>1. PDo("copy", x).act = "copy" /\ \A a : PDo(a, x).act = a /\ PDo(a, x).what = x
  BY DEF PDo
<1> HIDE DEF PDo
<1> QED BY <1>1, Zenon DEF Effect, Save, Set, Fresh

LEMMA ReceiptChanges ==
  ASSUME NEW m \in Receipts
  PROVE  /\ \A s \in Statuses : LET n == [m EXCEPT !.status = s] IN
              n \in Receipts /\ n.status = s /\ n.moved = m.moved
         /\ \A x \in Moved : LET n == [m EXCEPT !.moved = @ \cup {x}] IN
              n \in Receipts /\ n.status = m.status /\ n.moved = m.moved \cup {x}
         /\ LET n == [m EXCEPT !.hashed = TRUE] IN
              n \in Receipts /\ n.status = m.status /\ n.moved = m.moved
         /\ m.status \in Statuses /\ m.moved \in SUBSET Moved
  BY DEF Receipts

LEMMA AppliedStep ==
  ASSUME DataOK, BackupOK, NEW n \in 1 .. 17, AppliedTo(n), Effect(ProvisionSteps[n])
  PROVE  /\ DataOK' /\ BackupOK' /\ AppliedTo(n + 1)' /\ (n # 15 => paused' = paused)
         /\ n = 15 => paused' \in {paused, FALSE}
         /\ worker' = worker \/ worker' = "idle"
<1>1. /\ Moved \cup Copied = Provisioned
      /\ Moved = {"mirror", "cargo"} /\ Copied = {"config", "token"}
      /\ {"installing", "installed", "active"} \subseteq Statuses
  BY DEF Provisioned, Moved, Copied, Statuses
<1>2. live = All("old") <=> \A x \in Provisioned : live[x] = "old"
  BY <1>1 DEF All, DataOK
<1>3. memory \in Receipts /\ receipt \in Receipts
  BY DEF DataOK
<1>4. n \in {1, 2} => \E x \in Copied :
        /\ backup' = [backup EXCEPT ![x] = "old"] /\ UNCHANGED <<live, receipt, memory, paused, running, worker>>
        /\ n = 1 => x = "config"
        /\ n = 2 => x = "token"
  <2>1. n = 1 => Effect(PDo("copy", "config"))
    BY ProvisionStepsAre
  <2>2. n = 2 => Effect(PDo("copy", "token"))
    BY ProvisionStepsAre
  <2>0. "config" \in Copied /\ "token" \in Copied
    BY <1>1
  <2>3. CASE n = 1
    <3>1. /\ backup' = [backup EXCEPT !["config"] = "old"]
          /\ UNCHANGED <<live, receipt, memory, paused, running, worker>>
      BY <2>0, <2>1, <2>3, Effects
    <3>2. n # 2
      BY <2>3
    <3> QED BY <2>0, <3>1, <3>2, Zenon
  <2>4. CASE n = 2
    <3>1. /\ backup' = [backup EXCEPT !["token"] = "old"]
          /\ UNCHANGED <<live, receipt, memory, paused, running, worker>>
      BY <2>0, <2>2, <2>4, Effects
    <3>2. n # 1
      BY <2>4
    <3> QED BY <2>0, <3>1, <3>2, Zenon
  <2>5. n \in {1, 2} => n = 1 \/ n = 2
    OBVIOUS
  <2> QED BY <2>3, <2>4, <2>5, Zenon
<1>5. CASE n \in {1, 2}
  <2>1. PICK x \in Copied :
        /\ backup' = [backup EXCEPT ![x] = "old"] /\ UNCHANGED <<live, receipt, memory, paused, running, worker>>
        /\ n = 1 => x = "config"
        /\ n = 2 => x = "token"
    BY <1>4, <1>5
  <2>2. x \in Provisioned /\ x \notin Moved
    BY <1>1
  <2>3. DataOK'
    BY <2>1, <2>2 DEF DataOK
  <2>4. backup'[x] = "old" /\ \A y \in Provisioned \ {x} : backup'[y] = backup[y]
    BY <2>1, <2>2 DEF DataOK
  <2>5. BackupOK'
    BY <1>1, <2>1, <2>2, <2>4 DEF BackupOK
  <2>6. AppliedTo(n + 1)'
    BY <1>1, <1>5, <2>1, <2>4 DEF AppliedTo
  <2> QED BY <1>5, <2>1, <2>3, <2>5, <2>6
<1>6. CASE n \in {3, 13}
  <2>1. \E s \in {"installing", "installed"} : Effect(PDo("save", s))
    BY <1>6, ProvisionStepsAre
  <2>2. PICK s \in {"installing", "installed"} :
          /\ memory' = [memory EXCEPT !.status = s] /\ receipt' = memory'
          /\ UNCHANGED <<live, backup, paused, running, worker>>
    BY <2>1, Effects
  <2>3. memory' \in Receipts /\ memory'.status = s /\ memory'.moved = memory.moved
    <3>1. s \in Statuses
      BY <1>1
    <3> QED BY <1>3, <2>2, <3>1, ReceiptChanges
  <2>4. DataOK'
    BY <2>2, <2>3 DEF DataOK
  <2>5. \A x \in Copied : backup[x] = "old"
    BY <1>1, <1>6 DEF AppliedTo
  <2>6. BackupOK'
    BY <2>2, <2>3, <2>5 DEF BackupOK, AppliedTo
  <2>7. AppliedTo(n + 1)'
    BY <1>6, <2>2, <2>3 DEF AppliedTo
  <2> QED BY <1>6, <2>2, <2>4, <2>6, <2>7
<1>7. CASE n \in {4, 7}
  <2>1. \E x \in Moved : Effect(PDo("note", x)) /\ (n = 4 => x = "mirror") /\ (n = 7 => x = "cargo")
    BY <1>1, <1>7, ProvisionStepsAre
  <2>2. PICK x \in Moved :
          /\ memory' = [memory EXCEPT !.moved = @ \cup {x}] /\ receipt' = memory'
          /\ UNCHANGED <<live, backup, paused, running, worker>>
          /\ (n = 4 => x = "mirror") /\ (n = 7 => x = "cargo")
    BY <2>1, Effects
  <2>3. memory' \in Receipts /\ memory'.status = memory.status /\ memory'.moved = memory.moved \cup {x}
    BY <1>3, <2>2, ReceiptChanges
  <2>4. DataOK'
    BY <2>2, <2>3 DEF DataOK
  <2>5. receipt.status \notin {"none", "rolled-back"}
    BY <1>7 DEF AppliedTo
  <2>6. BackupOK'
    BY <2>2, <2>3, <2>5 DEF BackupOK, AppliedTo
  <2>7. AppliedTo(n + 1)'
    BY <1>7, <2>2, <2>3 DEF AppliedTo
  <2> QED BY <1>7, <2>2, <2>4, <2>6, <2>7
<1>8. CASE n \in {5, 8}
  <2>1. \E x \in Moved : Effect(PDo("away", x)) /\ (n = 5 => x = "mirror") /\ (n = 8 => x = "cargo")
    BY <1>1, <1>8, ProvisionStepsAre
  <2>2. PICK x \in Moved :
          /\ live' = [live EXCEPT ![x] = "none"] /\ backup' = [backup EXCEPT ![x] = "old"]
          /\ UNCHANGED <<receipt, memory, paused, running, worker>>
          /\ (n = 5 => x = "mirror") /\ (n = 8 => x = "cargo")
    BY <2>1, Effects
  <2>3. x \in Provisioned
    BY <1>1
  <2>4. DataOK'
    BY <2>2, <2>3 DEF DataOK
  <2>5. /\ live'[x] = "none" /\ \A y \in Provisioned \ {x} : live'[y] = live[y]
        /\ backup'[x] = "old" /\ \A y \in Provisioned \ {x} : backup'[y] = backup[y]
    BY <2>2, <2>3 DEF DataOK
  <2>6. receipt.status \notin {"none", "rolled-back"} /\ x \in receipt.moved
    BY <1>8, <2>2 DEF AppliedTo
  <2>7. BackupOK'
    BY <1>1, <2>2, <2>5, <2>6 DEF BackupOK
  <2>8. AppliedTo(n + 1)'
    BY <1>1, <1>8, <2>2, <2>5 DEF AppliedTo
  <2> QED BY <1>8, <2>2, <2>4, <2>7, <2>8
<1>9. CASE n \in {6, 9, 10, 11}
  <2>1. \E x \in Provisioned : /\ Effect(PDo("place", x))
                               /\ n = 6 => x = "mirror"
                               /\ n = 9 => x = "cargo"
                               /\ n = 10 => x = "config"
                               /\ n = 11 => x = "token"
    BY <1>1, <1>9, ProvisionStepsAre
  <2>2. PICK x \in Provisioned :
          /\ live' = [live EXCEPT ![x] = "new"] /\ UNCHANGED <<backup, receipt, memory, paused, running, worker>>
          /\ n = 6 => x = "mirror"
          /\ n = 9 => x = "cargo"
          /\ n = 10 => x = "config"
          /\ n = 11 => x = "token"
    BY <2>1, Effects
  <2>3. DataOK'
    BY <2>2 DEF DataOK
  <2>4. live'[x] = "new" /\ \A y \in Provisioned \ {x} : live'[y] = live[y]
    BY <2>2 DEF DataOK
  <2>5. receipt.status \notin {"none", "rolled-back"} /\ backup[x] = "old"
    BY <1>9, <2>2 DEF AppliedTo
  <2>6. BackupOK'
    BY <1>1, <2>2, <2>4, <2>5 DEF BackupOK
  <2>7. AppliedTo(n + 1)'
    BY <1>1, <1>9, <2>2, <2>4 DEF AppliedTo
  <2> QED BY <1>9, <2>2, <2>3, <2>6, <2>7
<1>10. CASE n = 12
  <2>1. /\ memory' = [memory EXCEPT !.hashed = TRUE]
        /\ UNCHANGED <<live, backup, receipt, paused, running, worker>>
    BY <1>10, ProvisionStepsAre, Effects
  <2>2. memory' \in Receipts /\ memory'.status = memory.status /\ memory'.moved = memory.moved
    BY <1>3, <2>1, ReceiptChanges
  <2>3. DataOK' /\ BackupOK'
    BY <2>1, <2>2 DEF DataOK, BackupOK
  <2>4. AppliedTo(n + 1)'
    BY <1>10, <2>1, <2>2 DEF AppliedTo
  <2> QED BY <1>10, <2>1, <2>3, <2>4
<1>11. CASE n = 14
  <2>1. worker' = "idle" /\ running' = live["config"] /\ UNCHANGED <<live, backup, receipt, memory, paused>>
    BY <1>11, ProvisionStepsAre, Effects
  <2>2. DataOK' /\ BackupOK'
    BY <1>1, <2>1 DEF DataOK, BackupOK
  <2>3. AppliedTo(n + 1)'
    BY <1>11, <2>1 DEF AppliedTo
  <2> QED BY <1>11, <2>1, <2>2, <2>3
<1>12. CASE n = 15
  <2>1. /\ \/ paused' = FALSE /\ memory' = [memory EXCEPT !.status = "active"]
           \/ paused' = paused /\ memory' = memory
        /\ UNCHANGED <<live, backup, receipt, running, worker>>
    BY <1>12, ProvisionStepsAre, Effects
  <2>2. /\ memory' \in Receipts /\ memory'.moved = memory.moved
        /\ memory'.status = memory.status \/ memory'.status = "active"
    <3>1. CASE memory' = [memory EXCEPT !.status = "active"]
      BY <1>1, <1>3, <3>1, ReceiptChanges
    <3>2. CASE memory' = memory
      BY <1>3, <3>2
    <3> QED BY <2>1, <3>1, <3>2
  <2>3. DataOK' /\ BackupOK'
    BY <2>1, <2>2 DEF DataOK, BackupOK
  <2>4. AppliedTo(n + 1)'
    BY <1>12, <2>1, <2>2 DEF AppliedTo
  <2> QED BY <1>12, <2>1, <2>3, <2>4
<1>13. CASE n = 16
  <2>1. memory' = memory /\ receipt' = memory /\ UNCHANGED <<live, backup, paused, running, worker>>
    BY <1>13, ProvisionStepsAre, Effects
  <2>2. DataOK'
    BY <1>3, <2>1 DEF DataOK
  <2>3. BackupOK'
    BY <1>13, <2>1 DEF BackupOK, AppliedTo
  <2>4. AppliedTo(n + 1)'
    BY <1>13, <2>1 DEF AppliedTo
  <2> QED BY <1>13, <2>1, <2>2, <2>3, <2>4
<1>14. CASE n = 17
  <2>1. /\ UNCHANGED <<live, backup, receipt, memory, running>>
        /\ paused' = paused
        /\ worker' = worker
    BY <1>14, ProvisionStepsAre, Effects
  <2>2. DataOK' /\ BackupOK'
    BY <2>1 DEF DataOK, BackupOK
  <2>3. AppliedTo(n + 1)'
    BY <1>14, <2>1 DEF AppliedTo
  <2>4. n # 15
    BY <1>14
  <2> QED BY <2>1, <2>2, <2>3, <2>4, Zenon
<1>15. \/ n \in {1, 2} \/ n \in {3, 13} \/ n \in {4, 7} \/ n \in {5, 8} \/ n \in {6, 9, 10, 11}
       \/ n = 12 \/ n = 14 \/ n = 15 \/ n = 16 \/ n = 17
  OBVIOUS
<1> QED BY <1>5, <1>6, <1>7, <1>8, <1>9, <1>10, <1>11, <1>12, <1>13, <1>14, <1>15, Zenon

LEMMA AllOld ==
  ASSUME DataOK
  PROVE  live = All("old") <=> \A x \in Provisioned : live[x] = "old"
<1>1. Moved \cup Copied = Provisioned
  BY DEF Provisioned
<1> QED BY <1>1 DEF All, DataOK

LEMMA RestoredStep ==
  ASSUME DataOK, BackupOK, NEW n \in 1 .. 9, RestoredTo(n), Effect(RestoreSteps[n])
  PROVE  /\ DataOK' /\ BackupOK' /\ paused' = paused
         /\ n = 1 => Look
         /\ n # 1 => worker' = worker \/ worker' = "idle"
         /\ n # 9 => RestoredTo(n + 1)'
         /\ n = 9 => live' = All("old") /\ running' = "old" /\ receipt'.status # "none"
<1>1. /\ Moved \cup Copied = Provisioned
      /\ Moved = {"mirror", "cargo"} /\ Copied = {"config", "token"}
      /\ "rolled-back" \in Statuses
  BY DEF Provisioned, Moved, Copied, Statuses
<1>2. memory \in Receipts /\ receipt \in Receipts
  BY DEF DataOK
<1>3. receipt.status \notin {"none", "rolled-back"}
  BY DEF RestoredTo
<1>4. \A x \in Moved : ~Restorable(x) => live[x] = "old"
  BY <1>1 DEF Restorable, BackupOK, RestoredTo
<1>5. CASE n \in {2, 4}
  <2>1. \E x \in Moved : Effect(PDo("clear", x)) /\ (n = 2 => x = "mirror") /\ (n = 4 => x = "cargo")
    BY <1>1, <1>5, RestoreStepsAre
  <2>2. PICK x \in Moved :
          /\ live' = IF Restorable(x) THEN [live EXCEPT ![x] = "none"] ELSE live
          /\ UNCHANGED <<backup, receipt, memory, paused, running, worker>>
          /\ (n = 2 => x = "mirror") /\ (n = 4 => x = "cargo")
    BY <2>1, Effects
  <2>3. x \in Provisioned
    BY <1>1
  <2>4. DataOK'
    BY <2>2, <2>3 DEF DataOK
  <2>5. \A y \in Provisioned \ {x} : live'[y] = live[y]
    BY <2>2, <2>3 DEF DataOK
  <2>6. backup[x] = "old" \/ live'[x] = "old"
    BY <1>1, <1>4, <2>2 DEF Restorable, BackupOK
  <2>7. BackupOK'
    BY <1>1, <1>3, <2>2, <2>5, <2>6 DEF BackupOK
  <2>8. RestoredTo(n + 1)'
    BY <1>1, <1>5, <2>2, <2>5 DEF RestoredTo
  <2> QED BY <1>5, <2>2, <2>4, <2>7, <2>8
<1>6. CASE n \in {3, 5, 6, 7}
  <2>1. \E x \in Provisioned : /\ Effect(PDo("restore", x))
                               /\ n = 3 => x = "mirror"
                               /\ n = 5 => x = "cargo"
                               /\ n = 6 => x = "config"
                               /\ n = 7 => x = "token"
    BY <1>1, <1>6, RestoreStepsAre
  <2>2. PICK x \in Provisioned :
          /\ IF Restorable(x) /\ backup[x] = "old"
               THEN /\ live' = [live EXCEPT ![x] = "old"]
                    /\ backup' = IF x \in Moved THEN [backup EXCEPT ![x] = "none"] ELSE backup
               ELSE UNCHANGED <<live, backup>>
          /\ UNCHANGED <<receipt, memory, paused, running, worker>>
          /\ n = 3 => x = "mirror"
          /\ n = 5 => x = "cargo"
          /\ n = 6 => x = "config"
          /\ n = 7 => x = "token"
    BY <2>1, Effects
  <2>3. DataOK'
    BY <2>2 DEF DataOK
  <2>4. /\ \A y \in Provisioned \ {x} : live'[y] = live[y] /\ backup'[y] = backup[y]
        /\ backup'[x] = "old" => backup[x] = "old"
        /\ x \in Copied => backup'[x] = backup[x]
    BY <1>1, <2>2 DEF DataOK
  <2>5. \A y \in Copied : backup[y] = "old"
    BY <1>3 DEF BackupOK
  <2>6. live'[x] = "old"
    <3>1. CASE Restorable(x) /\ backup[x] = "old"
      BY <2>2, <3>1 DEF DataOK
    <3>2. CASE ~(Restorable(x) /\ backup[x] = "old")
      <4>1. x \in Moved
        BY <1>1, <2>5, <3>2 DEF Restorable
      <4>2. live[x] = "old"
        BY <1>1, <1>4, <3>2, <4>1 DEF BackupOK
      <4> QED BY <2>2, <3>2, <4>2
    <3> QED BY <3>1, <3>2
  <2>7. BackupOK'
    BY <1>1, <1>3, <2>2, <2>4, <2>5, <2>6 DEF BackupOK
  <2>8. RestoredTo(n + 1)'
    BY <1>1, <1>6, <2>2, <2>4, <2>6 DEF RestoredTo
  <2> QED BY <1>6, <2>2, <2>3, <2>7, <2>8
<1>7. CASE n = 8
  <2>1. worker' = "idle" /\ running' = live["config"] /\ UNCHANGED <<live, backup, receipt, memory, paused>>
    BY <1>7, RestoreStepsAre, Effects
  <2>2. DataOK' /\ BackupOK'
    BY <1>1, <2>1 DEF DataOK, BackupOK
  <2>3. RestoredTo(n + 1)'
    BY <1>7, <2>1 DEF RestoredTo
  <2> QED BY <1>7, <2>1, <2>2, <2>3
<1>8. CASE n = 9
  <2>1. /\ memory' = [memory EXCEPT !.status = "rolled-back"] /\ receipt' = memory'
        /\ UNCHANGED <<live, backup, paused, running, worker>>
    BY <1>8, RestoreStepsAre, Effects
  <2>2. memory' \in Receipts /\ memory'.status = "rolled-back" /\ memory'.moved = memory.moved
    BY <1>1, <1>2, <2>1, ReceiptChanges
  <2>3. DataOK'
    BY <2>1, <2>2 DEF DataOK
  <2>4. live = All("old") /\ running = "old"
    BY <1>1, <1>8, AllOld DEF RestoredTo
  <2>5. BackupOK'
    BY <1>3, <2>1, <2>2, <2>4 DEF BackupOK, RestoredTo
  <2> QED BY <1>8, <2>1, <2>2, <2>3, <2>4, <2>5
<1>9. CASE n = 1
  <2>1. Look /\ UNCHANGED <<live, backup, receipt, memory, paused, running>>
    BY <1>9, RestoreStepsAre, Effects
  <2>2. DataOK' /\ BackupOK'
    BY <2>1 DEF DataOK, BackupOK
  <2>3. RestoredTo(n + 1)'
    BY <1>9, <2>1 DEF RestoredTo
  <2> QED BY <1>9, <2>1, <2>2, <2>3
<1> QED BY <1>5, <1>6, <1>7, <1>8, <1>9

-----------------------------------------------------------------------------
(* Provisioning keeps its invariant *)

\* What the worker and PAUSED have to do with the scripts, after a step.
LEMMA KeepsPaused ==
  ASSUME ended' => task' = "none" /\ Consistent',
         MayRun' => Quiet' /\ Consistent',
         worker' \in {"active", "late"} => marker'
  PROVE  PausedOK'
  BY Zenon DEF PausedOK

LEMMA ApplyTaskKeeps ==
  ASSUME ProvisionInv, TaskStep, task = "apply"
  PROVE  ProvisionInv'
<1>1. DataOK /\ BackupOK /\ ~ended
  BY DEF ProvisionInv, ProvisionTypeOK, PausedOK
<1>2. PICK n \in 1 .. 17 : n = at /\ AppliedTo(n)
  BY DEF ProvisionInv, TaskOK
<1>3. /\ Effect(ProvisionSteps[n]) /\ UNCHANGED <<cut, marker>>
      /\ IF n < 17 THEN at' = n + 1 /\ UNCHANGED <<task, ended>>
                   ELSE at' = 1 /\ task' = "none" /\ ended' = TRUE
  BY <1>2, ProvisionStepsAre DEF TaskStep, TaskSteps
<1>4. /\ DataOK' /\ BackupOK' /\ AppliedTo(n + 1)' /\ (n # 15 => paused' = paused)
      /\ n = 15 => paused' \in {paused, FALSE}
      /\ worker' = worker \/ worker' = "idle"
  BY <1>1, <1>2, <1>3, AppliedStep
<1>5. paused' \in {paused, FALSE}
  BY <1>4
<1>6. paused' \in BOOLEAN /\ cut' \in BOOLEAN /\ marker' \in BOOLEAN /\ ended' \in BOOLEAN
  <2>1. ended' = TRUE \/ UNCHANGED ended
    BY <1>3
  <2>2. paused' = paused \/ paused' = FALSE
    BY <1>5
  <2> QED BY <1>3, <2>1, <2>2, Zenon DEF ProvisionInv, ProvisionTypeOK
<1>7. worker' \in {"down", "idle", "entering", "active", "missed", "late"}
  BY <1>4 DEF ProvisionInv, ProvisionTypeOK
<1>8. at' \in Nat /\ task' \in {"none", "apply", "rollback"}
  BY <1>3
<1>9. ProvisionTypeOK'
  BY <1>4, <1>6, <1>7, <1>8, Zenon DEF ProvisionTypeOK
<1>10. TaskOK' /\ IdleTaskOK'
  <2>1. CASE n < 17
    <3>1. at' = n + 1 /\ task' = "apply" /\ n + 1 \in 1 .. 17
      BY <1>3, <2>1
    <3>2. AppliedTo(at)'
      BY <1>4, <3>1 DEF AppliedTo
    <3> QED BY <3>1, <3>2 DEF TaskOK, IdleTaskOK
  <2>2. CASE n = 17
    <3>1. at' = 1 /\ task' = "none"
      BY <1>3, <2>2
    <3>2. receipt'.status # "none"
      BY <1>4, <2>2 DEF AppliedTo
    <3> QED BY <3>1, <3>2 DEF TaskOK, IdleTaskOK
  <2> QED BY <2>1, <2>2
<1>11. worker' \in {"active", "late"} => marker'
  <2>1. worker' \in {"active", "late"} => worker \in {"active", "late"}
    BY <1>4
  <2> QED BY <1>3, <2>1, Zenon DEF ProvisionInv, PausedOK
<1>12. CASE n >= 15
  <2>1. Consistent'
    <3>1. /\ live'["mirror"] = "new" /\ live'["cargo"] = "new" /\ live'["config"] = "new"
          /\ live'["token"] = "new" /\ running' = "new"
      BY <1>4, <1>12 DEF AppliedTo
    <3>2. live' = All("new")
      BY <1>4, <3>1 DEF DataOK, Provisioned, All, Moved, Copied
    <3> QED BY <3>1, <3>2 DEF Consistent, All
  <2>2. Quiet'
    BY <1>3, <1>12 DEF Quiet
  <2>3. ended' => task' = "none"
    <3>1. n < 17 => ended' = ended
      BY <1>3
    <3>2. ~(n < 17) => task' = "none"
      BY <1>3
    <3> QED BY <1>1, <3>1, <3>2, Zenon
  <2>4. PausedOK'
    BY <1>11, <2>1, <2>2, <2>3, KeepsPaused, Zenon
  <2> QED BY <1>4, <1>9, <1>10, <2>4 DEF ProvisionInv
<1>13. CASE n < 15
  <2>1. ~MayRun
    <3>1. ~Quiet
      BY <1>2, <1>13 DEF Quiet
    <3> QED BY <3>1, Zenon DEF ProvisionInv, PausedOK
  <2>2. ~MayRun'
    <3>1. n # 15
      BY <1>13
    <3>2. worker' \in {"entering", "active"} => worker \in {"entering", "active"}
      BY <1>4
    <3> QED BY <1>4, <2>1, <3>1, <3>2, Zenon DEF MayRun
  <2>3. ~ended'
    <3>1. n < 17
      BY <1>13
    <3> QED BY <1>1, <1>3, <3>1, Zenon
  <2>4. PausedOK'
    BY <1>11, <2>2, <2>3, KeepsPaused, Zenon
  <2> QED BY <1>4, <1>9, <1>10, <2>4 DEF ProvisionInv
<1> QED BY <1>12, <1>13

LEMMA RollbackTaskKeeps ==
  ASSUME ProvisionInv, TaskStep, task = "rollback"
  PROVE  ProvisionInv'
<1>1. DataOK /\ BackupOK /\ ~ended
  BY DEF ProvisionInv, ProvisionTypeOK, PausedOK
<1>2. PICK n \in 1 .. 9 : n = at /\ RestoredTo(n)
  BY DEF ProvisionInv, TaskOK
<1>3. /\ Effect(RestoreSteps[n]) /\ UNCHANGED <<cut, marker>>
      /\ IF n < 9 THEN at' = n + 1 /\ UNCHANGED <<task, ended>>
                  ELSE at' = 1 /\ task' = "none" /\ ended' = TRUE
  BY <1>2, RestoreStepsAre DEF TaskStep, TaskSteps
<1>4. /\ DataOK' /\ BackupOK' /\ paused' = paused
      /\ n = 1 => Look
      /\ n # 1 => worker' = worker \/ worker' = "idle"
      /\ n # 9 => RestoredTo(n + 1)'
      /\ n = 9 => live' = All("old") /\ running' = "old" /\ receipt'.status # "none"
  BY <1>1, <1>2, <1>3, RestoredStep
<1>5. ~MayRun'
  <2>1. CASE n = 1
    <3>1. paused /\ ~marker
      BY <1>4, <2>1, Zenon DEF Look, Idle
    <3>2. worker \notin {"active", "late"}
      BY <3>1, Zenon DEF ProvisionInv, PausedOK
    <3>3. worker' \notin {"entering", "active"}
      BY <1>4, <2>1, <3>2 DEF Look
    <3> QED BY <1>4, <3>1, <3>3, Zenon DEF MayRun
  <2>2. CASE n # 1
    <3>1. ~Quiet
      BY <1>2, <2>2 DEF Quiet
    <3>2. ~MayRun
      BY <3>1, Zenon DEF ProvisionInv, PausedOK
    <3>3. worker' \in {"entering", "active"} => worker \in {"entering", "active"}
      BY <1>4, <2>2
    <3> QED BY <1>4, <3>2, <3>3, Zenon DEF MayRun
  <2> QED BY <2>1, <2>2
<1>6. paused' \in BOOLEAN /\ cut' \in BOOLEAN /\ marker' \in BOOLEAN /\ ended' \in BOOLEAN
  <2>1. ended' = TRUE \/ UNCHANGED ended
    BY <1>3
  <2> QED BY <1>3, <1>4, <2>1, Zenon DEF ProvisionInv, ProvisionTypeOK
<1>7. /\ worker' \in {"down", "idle", "entering", "active", "missed", "late"}
      /\ worker' \in {"active", "late"} => worker \in {"active", "late"}
  <2>1. n = 1 => worker' = "missed" \/ worker' = worker
    BY <1>4 DEF Look
  <2> QED BY <1>4, <2>1 DEF ProvisionInv, ProvisionTypeOK
<1>8. at' \in Nat /\ task' \in {"none", "apply", "rollback"}
  BY <1>3
<1>9. ProvisionTypeOK'
  BY <1>4, <1>6, <1>7, <1>8, Zenon DEF ProvisionTypeOK
<1>10. TaskOK' /\ IdleTaskOK'
  <2>1. CASE n < 9
    <3>1. at' = n + 1 /\ task' = "rollback" /\ n + 1 \in 1 .. 9
      BY <1>3, <2>1
    <3>2. RestoredTo(at)'
      BY <1>4, <2>1, <3>1 DEF RestoredTo
    <3> QED BY <3>1, <3>2 DEF TaskOK, IdleTaskOK
  <2>2. CASE n = 9
    BY <1>3, <1>4, <2>2 DEF TaskOK, IdleTaskOK
  <2> QED BY <2>1, <2>2
<1>11. worker' \in {"active", "late"} => marker'
  BY <1>3, <1>7, Zenon DEF ProvisionInv, PausedOK
<1>12. ended' => task' = "none" /\ Consistent'
  <2>1. n < 9 => ended' = ended
    BY <1>3
  <2>2. ~(n < 9) => task' = "none" /\ n = 9
    BY <1>3
  <2>3. n = 9 => Consistent'
    BY <1>4 DEF Consistent, All
  <2> QED BY <1>1, <2>1, <2>2, <2>3, Zenon
<1>13. PausedOK'
  BY <1>5, <1>11, <1>12, KeepsPaused, Zenon
<1> QED BY <1>4, <1>9, <1>10, <1>13 DEF ProvisionInv

LEMMA TaskStepKeeps ==
  ASSUME ProvisionInv, TaskStep
  PROVE  ProvisionInv'
  BY ApplyTaskKeeps, RollbackTaskKeeps DEF TaskStep, ProvisionInv, ProvisionTypeOK

\* A script that raises or is killed: nothing changes but that PAUSED may be there again.
LEMMA QuitKeeps ==
  ASSUME ProvisionInv, TaskRaises \/ TaskKilled
  PROVE  ProvisionInv'
<1>1. /\ task # "none" /\ Quit /\ UNCHANGED <<live, backup, receipt, running, workers>>
      /\ CutSave
      /\ paused' = TRUE \/ paused' = paused
  BY DEF TaskRaises, TaskKilled
<1>2. task' = "none" /\ at' = 1 /\ memory' = NoReceipt /\ ended' = FALSE /\ UNCHANGED <<worker, marker>>
  BY <1>1 DEF Quit, workers
<1>3. NoReceipt \in Receipts
  BY DEF NoReceipt, Receipts, Statuses
<1>4. DataOK' /\ BackupOK'
  BY <1>1, <1>2, <1>3 DEF ProvisionInv, ProvisionTypeOK, DataOK, BackupOK
<1>5. at' \in Nat
  BY <1>2
<1>6. cut' \in BOOLEAN
  <2>1. UNCHANGED cut \/ cut' = TRUE
    BY <1>1, Zenon DEF CutSave
  <2> QED BY <2>1, Zenon DEF ProvisionInv, ProvisionTypeOK
<1>7. ProvisionTypeOK'
  BY <1>1, <1>2, <1>4, <1>5, <1>6, Zenon DEF ProvisionInv, ProvisionTypeOK
<1>8. TaskOK' /\ IdleTaskOK'
  BY <1>2 DEF TaskOK, IdleTaskOK
<1>9. Consistent => Consistent'
  BY <1>1 DEF Consistent, All
<1>10. Quiet'
  BY <1>2 DEF Quiet
<1>11. MayRun' => MayRun
  BY <1>1, <1>2, Zenon DEF MayRun
<1>12. PausedOK'
  BY <1>2, <1>9, <1>10, <1>11, Zenon DEF ProvisionInv, PausedOK
<1> QED BY <1>4, <1>7, <1>8, <1>12 DEF ProvisionInv

LEMMA BeginKeeps ==
  ASSUME ProvisionInv, Begin
  PROVE  ProvisionInv'
<1>1. /\ task = "none" /\ Look /\ task' = "apply" /\ ended' = FALSE /\ receipt.status = "none"
      /\ UNCHANGED <<at, live, backup, receipt, memory, cut, paused, running, marker>>
  BY DEF Begin, files
<1>2. at = 1 /\ memory = NoReceipt /\ receipt = NoReceipt
  BY <1>1 DEF ProvisionInv, IdleTaskOK, BackupOK
<1>3. paused /\ ~marker
  BY <1>1, Zenon DEF Look, Idle
<1>4. worker \notin {"active", "late"}
  BY <1>3, Zenon DEF ProvisionInv, PausedOK
<1>5. /\ worker' \notin {"entering", "active", "late"}
      /\ worker' \in {"down", "idle", "entering", "active", "missed", "late"}
  BY <1>1, <1>4 DEF Look, ProvisionInv, ProvisionTypeOK
<1>6. DataOK' /\ BackupOK'
  BY <1>1 DEF ProvisionInv, ProvisionTypeOK, DataOK, BackupOK
<1>7. ProvisionTypeOK'
  BY <1>1, <1>5, <1>6, Zenon DEF ProvisionInv, ProvisionTypeOK
<1>8. TaskOK'
  BY <1>1, <1>2 DEF TaskOK, AppliedTo, NoReceipt
<1>9. worker' \notin {"entering", "active"} /\ worker' \notin {"active", "late"}
  BY <1>5
<1>10. ~MayRun'
  BY <1>1, <1>3, <1>9, Zenon DEF MayRun
<1>11. PausedOK' /\ IdleTaskOK'
  BY <1>1, <1>9, <1>10, Zenon DEF PausedOK, IdleTaskOK
<1> QED BY <1>6, <1>7, <1>8, <1>11 DEF ProvisionInv

LEMMA UndoKeeps ==
  ASSUME ProvisionInv, Undo
  PROVE  ProvisionInv'
<1>1. /\ task = "none" /\ task' = "rollback" /\ ended' = FALSE /\ paused' = TRUE
      /\ receipt.status \notin {"none", "rolled-back"} /\ memory' = receipt
      /\ UNCHANGED <<at, live, backup, receipt, cut, running, worker, marker>>
  BY DEF Undo, workers
<1>2. at = 1
  BY <1>1 DEF ProvisionInv, IdleTaskOK
<1>3. DataOK' /\ BackupOK'
  BY <1>1 DEF ProvisionInv, ProvisionTypeOK, DataOK, BackupOK
<1>4. ProvisionTypeOK'
  BY <1>1, <1>3, Zenon DEF ProvisionInv, ProvisionTypeOK
<1>5. TaskOK' /\ Quiet'
  BY <1>1, <1>2 DEF TaskOK, RestoredTo, Quiet
<1>6. Consistent => Consistent'
  BY <1>1 DEF Consistent, All
<1>7. PausedOK' /\ IdleTaskOK'
  BY <1>1, <1>5, <1>6, Zenon DEF ProvisionInv, PausedOK, IdleTaskOK, MayRun
<1> QED BY <1>3, <1>4, <1>5, <1>7 DEF ProvisionInv

LEMMA StartsKeep ==
  ASSUME ProvisionInv, WorkerStarts
  PROVE  ProvisionInv'
<1>1. /\ worker' = "idle" /\ running' = live["config"]
      /\ UNCHANGED <<task, at, live, backup, receipt, memory, cut, paused, marker, ended>>
  BY DEF WorkerStarts, Fresh
<1>2. "config" \in Provisioned
  BY DEF Provisioned, Copied
<1>3. DataOK' /\ BackupOK'
  BY <1>1, <1>2 DEF ProvisionInv, ProvisionTypeOK, DataOK, BackupOK
<1>4. worker' \in {"down", "idle", "entering", "active", "missed", "late"}
  BY <1>1
<1>5. ProvisionTypeOK'
  BY <1>1, <1>3, <1>4, Zenon DEF ProvisionInv, ProvisionTypeOK
<1>6. TaskOK'
  <2>1. CASE task = "apply"
    <3>1. at \in 1 .. 17 /\ AppliedTo(at)
      BY <2>1 DEF ProvisionInv, TaskOK
    <3> QED BY <1>1, <2>1, <3>1 DEF TaskOK, AppliedTo
  <2>2. CASE task = "rollback"
    <3>1. at \in 1 .. 9 /\ RestoredTo(at)
      BY <2>2 DEF ProvisionInv, TaskOK
    <3> QED BY <1>1, <2>2, <3>1 DEF TaskOK, RestoredTo
  <2>3. CASE task = "none"
    BY <1>1, <2>3 DEF TaskOK
  <2> QED BY <2>1, <2>2, <2>3 DEF ProvisionInv, ProvisionTypeOK
<1>7. Consistent => Consistent'
  BY <1>1, <1>2 DEF Consistent, All, Provisioned
<1>8. Quiet => Quiet'
  BY <1>1 DEF Quiet
<1>9. worker' \notin {"entering", "active"} /\ worker' \notin {"active", "late"}
  BY <1>1
<1>10. PausedOK' /\ IdleTaskOK'
  BY <1>1, <1>7, <1>8, <1>9, Zenon DEF ProvisionInv, PausedOK, IdleTaskOK, MayRun
<1> QED BY <1>3, <1>5, <1>6, <1>10 DEF ProvisionInv

\* What the worker and the operator do leaves the scripts and their files as they are.
Outside ==
    /\ UNCHANGED <<task, at, live, backup, receipt, memory, cut, running, ended>>
    /\ paused' \in BOOLEAN /\ marker' \in BOOLEAN
    /\ worker' \in {"down", "idle", "entering", "active", "missed", "late"}
    /\ worker' \in {"active", "late"} => marker'

LEMMA OutsideKeeps ==
  ASSUME ProvisionInv, Outside, MayRun' => MayRun \/ ended
  PROVE  ProvisionInv'
<1>1. UNCHANGED <<task, at, live, backup, receipt, memory, cut, running, ended>>
  BY DEF Outside
<1>2. DataOK' /\ BackupOK'
  BY <1>1 DEF ProvisionInv, ProvisionTypeOK, DataOK, BackupOK
<1>3. ProvisionTypeOK'
  BY <1>1, <1>2, Zenon DEF Outside, ProvisionInv, ProvisionTypeOK
<1>4. TaskOK' /\ IdleTaskOK'
  BY <1>1 DEF ProvisionInv, TaskOK, IdleTaskOK, AppliedTo, RestoredTo
<1>5. Consistent => Consistent'
  BY <1>1 DEF Consistent, All
<1>6. Quiet \/ task = "none" => Quiet'
  BY <1>1 DEF Quiet
<1>7. /\ ended => task = "none" /\ Consistent
      /\ MayRun => Quiet /\ Consistent
  BY Zenon DEF ProvisionInv, PausedOK
<1>8. ended' => task' = "none" /\ Consistent'
  BY <1>1, <1>5, <1>7, Zenon
<1>9. MayRun' => Quiet' /\ Consistent'
  BY <1>5, <1>6, <1>7, Zenon
<1>10. worker' \in {"active", "late"} => marker'
  BY Zenon DEF Outside
<1>11. PausedOK'
  BY <1>8, <1>9, <1>10, KeepsPaused, Zenon
<1> QED BY <1>2, <1>3, <1>4, <1>11 DEF ProvisionInv

LEMMA WorkerKeeps ==
  ASSUME ProvisionInv, WorkerEnds \/ TakeJob \/ MarkJob \/ EndJob \/ OperatorResets
  PROVE  ProvisionInv'
<1>1. UNCHANGED <<task, at, live, backup, receipt, memory, cut, running, ended>> /\ paused' = paused
  BY Zenon DEF WorkerEnds, TakeJob, MarkJob, EndJob, OperatorResets, files
<1>2. paused' \in BOOLEAN /\ marker \in BOOLEAN /\ (worker \in {"active", "late"} => marker)
  BY <1>1, Zenon DEF ProvisionInv, ProvisionTypeOK, PausedOK
<1>3. CASE WorkerEnds
  <2>1. worker' = "down" /\ marker' = marker
    BY <1>3 DEF WorkerEnds
  <2>2. worker' \notin {"active", "late"} /\ worker' \notin {"entering", "active"}
    BY <2>1
  <2>3. Outside
    BY <1>1, <1>2, <2>1, <2>2, Zenon DEF Outside
  <2>4. MayRun' => MayRun
    BY <1>1, <2>2, Zenon DEF MayRun
  <2> QED BY <2>3, <2>4, OutsideKeeps
<1>4. CASE TakeJob
  <2>1. worker' = "entering" /\ marker' = marker /\ ~paused
    BY <1>4 DEF TakeJob
  <2>2. worker' \notin {"active", "late"}
    BY <2>1
  <2>3. Outside
    BY <1>1, <1>2, <2>1, <2>2, Zenon DEF Outside
  <2> QED BY <2>1, <2>3, OutsideKeeps DEF MayRun
<1>5. CASE MarkJob
  <2>1. /\ marker' = TRUE
        /\ worker' \in {"down", "idle", "entering", "active", "missed", "late"}
        /\ worker' \in {"entering", "active"} => worker \in {"entering", "active"}
    BY <1>5 DEF MarkJob
  <2>2. Outside
    BY <1>1, <1>2, <2>1, Zenon DEF Outside
  <2>3. MayRun' => MayRun
    BY <1>1, <2>1, Zenon DEF MayRun
  <2> QED BY <2>2, <2>3, OutsideKeeps
<1>6. CASE EndJob
  <2>1. worker' = "idle" /\ marker' = FALSE
    BY <1>6 DEF EndJob
  <2>2. worker' \notin {"active", "late"} /\ worker' \notin {"entering", "active"}
    BY <2>1
  <2>3. Outside
    BY <1>1, <1>2, <2>1, <2>2, Zenon DEF Outside
  <2>4. MayRun' => MayRun
    BY <1>1, <2>2, Zenon DEF MayRun
  <2> QED BY <2>3, <2>4, OutsideKeeps
<1>7. CASE OperatorResets
  <2>1. worker = "down" /\ worker' = worker /\ marker' = FALSE
    BY <1>7 DEF OperatorResets
  <2>2. worker' = "down"
    BY <2>1
  <2>3. worker' \notin {"active", "late"} /\ worker' \notin {"entering", "active"}
    BY <2>2
  <2>4. Outside
    BY <1>1, <1>2, <2>1, <2>2, <2>3, Zenon DEF Outside
  <2>5. MayRun' => MayRun
    BY <1>1, <2>3, Zenon DEF MayRun
  <2> QED BY <2>4, <2>5, OutsideKeeps
<1> QED BY <1>3, <1>4, <1>5, <1>6, <1>7

LEMMA OperatorKeeps ==
  ASSUME ProvisionInv, OperatorPauses \/ OperatorResumes
  PROVE  ProvisionInv'
<1>1. /\ UNCHANGED <<task, at, live, backup, receipt, memory, cut, running, ended, worker, marker>>
      /\ paused' = TRUE \/ (paused' = FALSE /\ ended)
  BY Zenon DEF OperatorPauses, OperatorResumes, files, workers
<1>2. Outside
  BY <1>1, Zenon DEF Outside, ProvisionInv, ProvisionTypeOK, PausedOK
<1>3. MayRun' => MayRun \/ ended
  BY <1>1, Zenon DEF MayRun
<1> QED BY <1>2, <1>3, OutsideKeeps

LEMMA ProvisionStep ==
  ASSUME ProvisionInv, ProvisionNext
  PROVE  ProvisionInv'
  BY Zenon, BeginKeeps, UndoKeeps, TaskStepKeeps, QuitKeeps, StartsKeep, WorkerKeeps, OperatorKeeps
  DEF ProvisionNext

-----------------------------------------------------------------------------
(* The machine *)

LEMMA InstallerFresh == ASSUME InstallerInit PROVE InstallerInv
<1>1. InstallerTypeOK
  BY DEF InstallerInit, InstallerTypeOK, NoJournal, Owners
<1>2. OwnerOK
  BY DEF InstallerInit, OwnerOK, Things, Dirs, Files
<1>3. ApplyOK /\ RollbackOK /\ IdleOK
  BY DEF InstallerInit, ApplyOK, RollbackOK, IdleOK
<1>4. ServiceOK
  BY DEF InstallerInit, ServiceOK
<1>5. TrackedOK
  BY DEF InstallerInit, TrackedOK, NoJournal
<1> QED BY <1>1, <1>2, <1>3, <1>4, <1>5 DEF InstallerInv

LEMMA ProvisionFresh == ASSUME ProvisionInit PROVE ProvisionInv
<1>1. NoReceipt \in Receipts /\ NoReceipt.status = "none"
  BY DEF NoReceipt, Receipts, Statuses
<1>2. DataOK
  BY <1>1 DEF ProvisionInit, DataOK, All, Provisioned
<1>3. BackupOK
  BY <1>1 DEF ProvisionInit, BackupOK, All, Provisioned, NoReceipt
<1>4. Consistent
  BY DEF ProvisionInit, Consistent
<1>5. ProvisionTypeOK
  BY <1>2 DEF ProvisionInit, ProvisionTypeOK
<1>6. TaskOK /\ PausedOK /\ IdleTaskOK
  BY <1>4 DEF ProvisionInit, TaskOK, PausedOK, IdleTaskOK, Quiet
<1> QED BY <1>2, <1>3, <1>5, <1>6 DEF ProvisionInv

LEMMA RenewKeeps == ASSUME Renew PROVE ProvisionInv'
<1>1. ProvisionInit'
  BY DEF Renew, ProvisionInit
<1>2. (ProvisionInit => ProvisionInv)'
  BY ProvisionFresh, PTL
<1> QED BY <1>1, <1>2

LEMMA InstallerStays == ASSUME InstallerInv, UNCHANGED ivars PROVE InstallerInv'
<1>1. UNCHANGED <<host, script, pc, owner, enabled, loaded, stuck, journal, value>>
  BY DEF ivars
<1>2. ApplySteps' = ApplySteps /\ RollbackSteps' = RollbackSteps
  BY <1>1 DEF ApplySteps, RollbackSteps
<1>3. InstallerTypeOK' /\ OwnerOK' /\ IdleOK'
  BY <1>1 DEF InstallerInv, InstallerTypeOK, OwnerOK, IdleOK
<1>4. ApplyOK' /\ RollbackOK'
  BY <1>1, <1>2 DEF InstallerInv, ApplyOK, RollbackOK
<1>5. ServiceOK'
  BY <1>1, Zenon DEF InstallerInv, ServiceOK
<1>6. TrackedOK'
  BY <1>1 DEF InstallerInv, TrackedOK, Untracked, OneDir
<1> QED BY <1>3, <1>4, <1>5, <1>6 DEF InstallerInv

LEMMA ProvisionStays == ASSUME ProvisionInv, UNCHANGED pvars PROVE ProvisionInv'
<1>1. UNCHANGED <<task, at, live, backup, receipt, memory, cut, running, ended, paused, worker, marker>>
  BY DEF pvars, files, workers
<1>2. Outside
  BY <1>1, Zenon DEF Outside, ProvisionInv, ProvisionTypeOK, PausedOK
<1>3. MayRun' => MayRun
  BY <1>1, Zenon DEF MayRun
<1> QED BY <1>2, <1>3, OutsideKeeps

LEMMA SetupStep == ASSUME SetupInv, [Next]_vars PROVE SetupInv'
<1>1. CASE InstallerTurn
  <2>1. InstallerInv'
    BY <1>1, InstallerStep DEF InstallerTurn, SetupInv
  <2>2. ProvisionInv'
    BY <1>1, RenewKeeps, ProvisionStays DEF InstallerTurn, SetupInv
  <2> QED BY <2>1, <2>2 DEF SetupInv
<1>2. CASE ProvisionTurn
  BY <1>2, ProvisionStep, InstallerStays DEF ProvisionTurn, SetupInv
<1>3. CASE UNCHANGED vars
  BY <1>3, ProvisionStays, InstallerStays DEF vars, SetupInv
<1> QED BY <1>1, <1>2, <1>3 DEF Next

(* What is true before every step of the four scripts, wherever they were  *)
(* killed and whoever came in between (deploy/macos/install.py,            *)
(* deploy/debian/install.py, deploy/macos/provision.py).                   *)
THEOREM SetupInductive == Spec => []SetupInv
<1>1. Init => SetupInv
  BY InstallerFresh, ProvisionFresh DEF Init, SetupInv
<1>2. SetupInv /\ [Next]_vars => SetupInv'
  BY SetupStep
<1> QED BY <1>1, <1>2, PTL DEF Spec

(* The service is never started without its account or base directory,     *)
(* also when the machine is booted in the middle of a rollback, unless     *)
(* systemctl could not disable it there.                                   *)
THEOREM ServiceWholeHolds == Spec => []ServiceWhole
<1>1. SetupInv => ServiceWhole
  BY Zenon DEF SetupInv, InstallerInv, ServiceOK, ServiceWhole
<1> QED BY <1>1, SetupInductive, PTL

(* The originals of what was provisioned are in place or in the backup,    *)
(* and a rollback that says so has put all of them back.                   *)
THEOREM OriginalsKeptHolds == Spec => []OriginalsKept
<1>1. SetupInv => OriginalsKept
  BY DEF SetupInv, ProvisionInv, BackupOK, OriginalsKept, Provisioned
<1> QED BY <1>1, SetupInductive, PTL

(* A worker that may take a job, has decided to or is in it finds          *)
(* everything of one version, unless the one look at ACTIVE.json missed it.*)
THEOREM ActiveConsistentHolds == Spec => []ActiveConsistent
<1>1. SetupInv => ActiveConsistent
  BY Zenon DEF SetupInv, ProvisionInv, PausedOK, MayRun, Consistent, ActiveConsistent
<1> QED BY <1>1, SetupInductive, PTL

\* Of a step of Setup, what it does to the installation.
LEMMA InstallerPart == ASSUME [Next]_vars PROVE InstallerNext \/ UNCHANGED ivars
  BY Zenon DEF Next, InstallerTurn, ProvisionTurn, vars

(* When the base directory goes, nothing else of the installation is left, *)
(* but for one directory that was not yet in the journal.                  *)
THEOREM BaseLastHolds == Spec => BaseLast
<1> DEFINE Last == owner["base"] = "ours" /\ owner'["base"] = "none" =>
                     Left \subseteq Dirs /\ Cardinality(Left) <= 1
<1>1. SetupInv /\ [Next]_vars => [Last]_ivars
  BY BaseLastStep, InstallerPart DEF SetupInv, BaseGoes
<1>2. Spec => [][Last]_ivars
  BY <1>1, SetupInductive, PTL DEF Spec
<1> QED BY <1>2 DEF BaseLast

(* Neither script takes away what is not of the installation, but for what *)
(* Debian's rollback cannot tell from it: a client directory without an    *)
(* installation-id, and a group with the number of ours.                   *)
THEOREM ForeignKeptHolds == Spec => ForeignKept
<1> DEFINE Kept == \A t \in Things :
       owner[t] \in {"foreign", "unmarked"} => owner'[t] \in {"foreign", "unmarked"} \/ TakenForOurs(t)
<1>1. SetupInv /\ [Next]_vars => [Kept]_ivars
  BY ForeignKeptStep, InstallerPart DEF SetupInv
<1>2. Spec => [][Kept]_ivars
  BY <1>1, SetupInductive, PTL DEF Spec
<1> QED BY <1>2 DEF ForeignKept
=============================================================================
