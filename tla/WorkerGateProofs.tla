--------------------------- MODULE WorkerGateProofs ---------------------------
(***************************************************************************)
(* Proofs about WorkerGate. It has no constants: TLC visits all of its     *)
(* states. What the proofs add is the argument, as an inductive invariant. *)
(***************************************************************************)
EXTENDS WorkerGate, TLAPS

-----------------------------------------------------------------------------
(* The invariant *)

\* The marker goes with a run; a worker that keeps it goes nowhere but out.
MarkerOK ==
    /\ main \in {"marked", "running", "delivering"} => marker
    /\ marker => \/ main \in {"down", "import", "marked", "running", "delivering"}
                 \/ main = "loop" /\ stopping

\* Processes exist from a run until its cleanup is confirmed.
AliveOK ==
    /\ alive => marker
    /\ main = "marked" => ~alive
    /\ main \in {"marked", "running"} => clean
    /\ main = "delivering" /\ alive => ~clean
    /\ main = "delivering" /\ ~clean => stopping

\* PAUSED from the moment the updater touches it until it is put back.
DrainOK ==
    /\ upd.stage \in {"drain", "unload", "lock", "check", "replace", "start", "ready", "logged"} => paused
    /\ UpdateQuiet

\* launchd has nothing to start while files are replaced, so what its worker has
\* read before it asks for the lock is what is installed.
LoadedOK ==
    /\ upd.stage \in {"lock", "check", "replace", "start"} => ~loaded
    /\ main = "import" /\ running.service => loaded /\ running.code = installed

\* Who of launchd's workers reads a mixture finds PAUSED, and it stays until the
\* mixture is gone.
MixedOK ==
    /\ upd.stage \in {"start", "ready", "logged", "done"} => installed = upd.to
    /\ installed = "mixed" => paused
    /\ main \notin {"down", "import"} /\ running.service /\ running.code = "mixed" =>
         installed = "mixed" /\ main \in {"boot", "loop"}

\* The parts of TypeOK.
FlagsOK ==
    /\ main \in Main
    /\ stopping \in BOOLEAN /\ armed \in BOOLEAN /\ cancelled \in BOOLEAN /\ clean \in BOOLEAN
    /\ alive \in BOOLEAN /\ paused \in BOOLEAN /\ marker \in BOOLEAN
    /\ loaded \in BOOLEAN /\ wish \in BOOLEAN

FilesOK ==
    /\ installed \in Files /\ running \in [code : Files, service : BOOLEAN]
    /\ upd \in [stage : Stage, to : {"old", "new"}]
    /\ receipt \in [status : {"none", "prepared", "installed", "rolled-back"}, was : BOOLEAN]

LockOK ==
    /\ lock \in {"none", "worker", "updater"}
    /\ lock = "worker" <=> main \notin {"down", "import"}
    /\ lock = "updater" <=> upd.stage \in {"check", "replace", "start"}

GateInv == FlagsOK /\ FilesOK /\ LockOK /\ MarkerOK /\ AliveOK /\ DrainOK /\ LoadedOK /\ MixedOK

-----------------------------------------------------------------------------
(* Every action keeps it *)

LEMMA WorkerKeeps ==
  ASSUME GateInv, WorkerNext
  PROVE  GateInv'
<1> USE DEF GateInv, FlagsOK, FilesOK, LockOK, Main, Files, Stage, MarkerOK, AliveOK, DrainOK, UpdateQuiet, LoadedOK, MixedOK
<1>1. CASE Launch
  <2>1. FlagsOK'
    BY <1>1 DEF Launch, machine, update
  <2>2. FilesOK'
    BY <1>1 DEF Launch, machine, update
  <2>3. LockOK'
    BY <1>1 DEF Launch, machine, update
  <2>4. MarkerOK'
    BY <1>1 DEF Launch, machine, update
  <2>5. AliveOK'
    BY <1>1 DEF Launch, machine, update
  <2>6. DrainOK'
    BY <1>1 DEF Launch, machine, update
  <2>7. LoadedOK'
    BY <1>1 DEF Launch, machine, update
  <2>8. MixedOK'
    BY <1>1 DEF Launch, machine, update
  <2>9. QED
    BY <2>1, <2>2, <2>3, <2>4, <2>5, <2>6, <2>7, <2>8
<1>2. CASE Own
  <2>1. FlagsOK'
    BY <1>2 DEF Own, LoadRest, machine, update
  <2>2. FilesOK'
    BY <1>2 DEF Own, LoadRest, machine, update
  <2>3. LockOK'
    BY <1>2 DEF Own, LoadRest, machine, update
  <2>4. MarkerOK'
    BY <1>2 DEF Own, LoadRest, machine, update
  <2>5. AliveOK'
    BY <1>2 DEF Own, LoadRest, machine, update
  <2>6. DrainOK'
    BY <1>2 DEF Own, LoadRest, machine, update
  <2>7. LoadedOK'
    BY <1>2 DEF Own, LoadRest, machine, update
  <2>8. MixedOK'
    BY <1>2 DEF Own, LoadRest, machine, update
  <2>9. QED
    BY <2>1, <2>2, <2>3, <2>4, <2>5, <2>6, <2>7, <2>8
<1>3. CASE Refused
  <2>1. FlagsOK'
    BY <1>3 DEF Refused, Gone, machine, update
  <2>2. FilesOK'
    BY <1>3 DEF Refused, Gone, machine, update
  <2>3. LockOK'
    BY <1>3 DEF Refused, Gone, machine, update
  <2>4. MarkerOK'
    BY <1>3 DEF Refused, Gone, machine, update
  <2>5. AliveOK'
    BY <1>3 DEF Refused, Gone, machine, update
  <2>6. DrainOK'
    BY <1>3 DEF Refused, Gone, machine, update
  <2>7. LoadedOK'
    BY <1>3 DEF Refused, Gone, machine, update
  <2>8. MixedOK'
    BY <1>3 DEF Refused, Gone, machine, update
  <2>9. QED
    BY <2>1, <2>2, <2>3, <2>4, <2>5, <2>6, <2>7, <2>8
<1>4. CASE Ready
  <2>1. FlagsOK'
    BY <1>4 DEF Ready, machine
  <2>2. FilesOK'
    BY <1>4 DEF Ready, machine
  <2>3. LockOK'
    BY <1>4 DEF Ready, machine
  <2>4. MarkerOK'
    BY <1>4 DEF Ready, machine
  <2>5. AliveOK'
    BY <1>4 DEF Ready, machine
  <2>6. DrainOK'
    BY <1>4 DEF Ready, machine
  <2>7. LoadedOK'
    BY <1>4 DEF Ready, machine
  <2>8. MixedOK'
    BY <1>4 DEF Ready, machine
  <2>9. QED
    BY <2>1, <2>2, <2>3, <2>4, <2>5, <2>6, <2>7, <2>8
<1>5. CASE Exit
  <2>1. FlagsOK'
    BY <1>5 DEF Exit, Gone, machine, update
  <2>2. FilesOK'
    BY <1>5 DEF Exit, Gone, machine, update
  <2>3. LockOK'
    BY <1>5 DEF Exit, Gone, machine, update
  <2>4. MarkerOK'
    BY <1>5 DEF Exit, Gone, machine, update
  <2>5. AliveOK'
    BY <1>5 DEF Exit, Gone, machine, update
  <2>6. DrainOK'
    BY <1>5 DEF Exit, Gone, machine, update
  <2>7. LoadedOK'
    BY <1>5 DEF Exit, Gone, machine, update
  <2>8. MixedOK'
    BY <1>5 DEF Exit, Gone, machine, update
  <2>9. QED
    BY <2>1, <2>2, <2>3, <2>4, <2>5, <2>6, <2>7, <2>8
<1>6. CASE SendClaim
  <2>1. FlagsOK'
    BY <1>6 DEF SendClaim, Untouched, machine, update
  <2>2. FilesOK'
    BY <1>6 DEF SendClaim, Untouched, machine, update
  <2>3. LockOK'
    BY <1>6 DEF SendClaim, Untouched, machine, update
  <2>4. MarkerOK'
    BY <1>6 DEF SendClaim, Untouched, machine, update
  <2>5. AliveOK'
    BY <1>6 DEF SendClaim, Untouched, machine, update
  <2>6. DrainOK'
    BY <1>6 DEF SendClaim, Untouched, machine, update
  <2>7. LoadedOK'
    BY <1>6 DEF SendClaim, Untouched, machine, update
  <2>8. MixedOK'
    BY <1>6 DEF SendClaim, Untouched, machine, update
  <2>9. QED
    BY <2>1, <2>2, <2>3, <2>4, <2>5, <2>6, <2>7, <2>8
<1>7. CASE TakeAnswer
  <2>1. FlagsOK'
    BY <1>7 DEF TakeAnswer, Untouched, machine, update
  <2>2. FilesOK'
    BY <1>7 DEF TakeAnswer, Untouched, machine, update
  <2>3. LockOK'
    BY <1>7 DEF TakeAnswer, Untouched, machine, update
  <2>4. MarkerOK'
    BY <1>7 DEF TakeAnswer, Untouched, machine, update
  <2>5. AliveOK'
    BY <1>7 DEF TakeAnswer, Untouched, machine, update
  <2>6. DrainOK'
    BY <1>7 DEF TakeAnswer, Untouched, machine, update
  <2>7. LoadedOK'
    BY <1>7 DEF TakeAnswer, Untouched, machine, update
  <2>8. MixedOK'
    BY <1>7 DEF TakeAnswer, Untouched, machine, update
  <2>9. QED
    BY <2>1, <2>2, <2>3, <2>4, <2>5, <2>6, <2>7, <2>8
<1>8. CASE LookAgain
  <2>1. FlagsOK'
    BY <1>8 DEF LookAgain, Untouched, machine, update
  <2>2. FilesOK'
    BY <1>8 DEF LookAgain, Untouched, machine, update
  <2>3. LockOK'
    BY <1>8 DEF LookAgain, Untouched, machine, update
  <2>4. MarkerOK'
    BY <1>8 DEF LookAgain, Untouched, machine, update
  <2>5. AliveOK'
    BY <1>8 DEF LookAgain, Untouched, machine, update
  <2>6. DrainOK'
    BY <1>8 DEF LookAgain, Untouched, machine, update
  <2>7. LoadedOK'
    BY <1>8 DEF LookAgain, Untouched, machine, update
  <2>8. MixedOK'
    BY <1>8 DEF LookAgain, Untouched, machine, update
  <2>9. QED
    BY <2>1, <2>2, <2>3, <2>4, <2>5, <2>6, <2>7, <2>8
<1>9. CASE Declined
  <2>1. FlagsOK'
    BY <1>9 DEF Declined, Untouched, machine, update
  <2>2. FilesOK'
    BY <1>9 DEF Declined, Untouched, machine, update
  <2>3. LockOK'
    BY <1>9 DEF Declined, Untouched, machine, update
  <2>4. MarkerOK'
    BY <1>9 DEF Declined, Untouched, machine, update
  <2>5. AliveOK'
    BY <1>9 DEF Declined, Untouched, machine, update
  <2>6. DrainOK'
    BY <1>9 DEF Declined, Untouched, machine, update
  <2>7. LoadedOK'
    BY <1>9 DEF Declined, Untouched, machine, update
  <2>8. MixedOK'
    BY <1>9 DEF Declined, Untouched, machine, update
  <2>9. QED
    BY <2>1, <2>2, <2>3, <2>4, <2>5, <2>6, <2>7, <2>8
<1>10. CASE Mark
  <2>1. FlagsOK'
    BY <1>10 DEF Mark, Untouched, update
  <2>2. FilesOK'
    BY <1>10 DEF Mark, Untouched, update
  <2>3. LockOK'
    BY <1>10 DEF Mark, Untouched, update
  <2>4. MarkerOK'
    BY <1>10 DEF Mark, Untouched, update
  <2>5. AliveOK'
    BY <1>10 DEF Mark, Untouched, update
  <2>6. DrainOK'
    BY <1>10 DEF Mark, Untouched, update
  <2>7. LoadedOK'
    BY <1>10 DEF Mark, Untouched, update
  <2>8. MixedOK'
    BY <1>10 DEF Mark, Untouched, update
  <2>9. QED
    BY <2>1, <2>2, <2>3, <2>4, <2>5, <2>6, <2>7, <2>8
<1>11. CASE Arm
  <2>1. FlagsOK'
    BY <1>11 DEF Arm, Untouched, machine, update
  <2>2. FilesOK'
    BY <1>11 DEF Arm, Untouched, machine, update
  <2>3. LockOK'
    BY <1>11 DEF Arm, Untouched, machine, update
  <2>4. MarkerOK'
    BY <1>11 DEF Arm, Untouched, machine, update
  <2>5. AliveOK'
    BY <1>11 DEF Arm, Untouched, machine, update
  <2>6. DrainOK'
    BY <1>11 DEF Arm, Untouched, machine, update
  <2>7. LoadedOK'
    BY <1>11 DEF Arm, Untouched, machine, update
  <2>8. MixedOK'
    BY <1>11 DEF Arm, Untouched, machine, update
  <2>9. QED
    BY <2>1, <2>2, <2>3, <2>4, <2>5, <2>6, <2>7, <2>8
<1>12. CASE Execute
  <2>1. FlagsOK'
    BY <1>12 DEF Execute, Untouched, process, update
  <2>2. FilesOK'
    BY <1>12 DEF Execute, Untouched, process, update
  <2>3. LockOK'
    BY <1>12 DEF Execute, Untouched, process, update
  <2>4. MarkerOK'
    BY <1>12 DEF Execute, Untouched, process, update
  <2>5. AliveOK'
    BY <1>12 DEF Execute, Untouched, process, update
  <2>6. DrainOK'
    BY <1>12 DEF Execute, Untouched, process, update
  <2>7. LoadedOK'
    BY <1>12 DEF Execute, Untouched, process, update
  <2>8. MixedOK'
    BY <1>12 DEF Execute, Untouched, process, update
  <2>9. QED
    BY <2>1, <2>2, <2>3, <2>4, <2>5, <2>6, <2>7, <2>8
<1>13. CASE KillGroup
  <2>1. FlagsOK'
    BY <1>13 DEF KillGroup, Untouched, process, update
  <2>2. FilesOK'
    BY <1>13 DEF KillGroup, Untouched, process, update
  <2>3. LockOK'
    BY <1>13 DEF KillGroup, Untouched, process, update
  <2>4. MarkerOK'
    BY <1>13 DEF KillGroup, Untouched, process, update
  <2>5. AliveOK'
    BY <1>13 DEF KillGroup, Untouched, process, update
  <2>6. DrainOK'
    BY <1>13 DEF KillGroup, Untouched, process, update
  <2>7. LoadedOK'
    BY <1>13 DEF KillGroup, Untouched, process, update
  <2>8. MixedOK'
    BY <1>13 DEF KillGroup, Untouched, process, update
  <2>9. QED
    BY <2>1, <2>2, <2>3, <2>4, <2>5, <2>6, <2>7, <2>8
<1>14. CASE EndRun
  <2>1. FlagsOK'
    BY <1>14 DEF EndRun, Untouched, update
  <2>2. FilesOK'
    BY <1>14 DEF EndRun, Untouched, update
  <2>3. LockOK'
    BY <1>14 DEF EndRun, Untouched, update
  <2>4. MarkerOK'
    BY <1>14 DEF EndRun, Untouched, update
  <2>5. AliveOK'
    BY <1>14 DEF EndRun, Untouched, update
  <2>6. DrainOK'
    BY <1>14 DEF EndRun, Untouched, update
  <2>7. LoadedOK'
    BY <1>14 DEF EndRun, Untouched, update
  <2>8. MixedOK'
    BY <1>14 DEF EndRun, Untouched, update
  <2>9. QED
    BY <2>1, <2>2, <2>3, <2>4, <2>5, <2>6, <2>7, <2>8
<1>15. CASE LetGo
  <2>1. FlagsOK'
    BY <1>15 DEF LetGo, Untouched, update
  <2>2. FilesOK'
    BY <1>15 DEF LetGo, Untouched, update
  <2>3. LockOK'
    BY <1>15 DEF LetGo, Untouched, update
  <2>4. MarkerOK'
    BY <1>15 DEF LetGo, Untouched, update
  <2>5. AliveOK'
    BY <1>15 DEF LetGo, Untouched, update
  <2>6. DrainOK'
    BY <1>15 DEF LetGo, Untouched, update
  <2>7. LoadedOK'
    BY <1>15 DEF LetGo, Untouched, update
  <2>8. MixedOK'
    BY <1>15 DEF LetGo, Untouched, update
  <2>9. QED
    BY <2>1, <2>2, <2>3, <2>4, <2>5, <2>6, <2>7, <2>8
<1>16. CASE CancelRun
  <2>1. FlagsOK'
    BY <1>16 DEF CancelRun, Untouched, machine, update
  <2>2. FilesOK'
    BY <1>16 DEF CancelRun, Untouched, machine, update
  <2>3. LockOK'
    BY <1>16 DEF CancelRun, Untouched, machine, update
  <2>4. MarkerOK'
    BY <1>16 DEF CancelRun, Untouched, machine, update
  <2>5. AliveOK'
    BY <1>16 DEF CancelRun, Untouched, machine, update
  <2>6. DrainOK'
    BY <1>16 DEF CancelRun, Untouched, machine, update
  <2>7. LoadedOK'
    BY <1>16 DEF CancelRun, Untouched, machine, update
  <2>8. MixedOK'
    BY <1>16 DEF CancelRun, Untouched, machine, update
  <2>9. QED
    BY <2>1, <2>2, <2>3, <2>4, <2>5, <2>6, <2>7, <2>8
<1>17. CASE Terminate
  <2>1. FlagsOK'
    BY <1>17 DEF Terminate, HandleSignal, Gone, machine, update
  <2>2. FilesOK'
    BY <1>17 DEF Terminate, HandleSignal, Gone, machine, update
  <2>3. LockOK'
    BY <1>17 DEF Terminate, HandleSignal, Gone, machine, update
  <2>4. MarkerOK'
    BY <1>17 DEF Terminate, HandleSignal, Gone, machine, update
  <2>5. AliveOK'
    BY <1>17 DEF Terminate, HandleSignal, Gone, machine, update
  <2>6. DrainOK'
    BY <1>17 DEF Terminate, HandleSignal, Gone, machine, update
  <2>7. LoadedOK'
    BY <1>17 DEF Terminate, HandleSignal, Gone, machine, update
  <2>8. MixedOK'
    BY <1>17 DEF Terminate, HandleSignal, Gone, machine, update
  <2>9. QED
    BY <2>1, <2>2, <2>3, <2>4, <2>5, <2>6, <2>7, <2>8
<1>18. CASE Kill
  <2>1. FlagsOK'
    BY <1>18 DEF Kill, Gone, machine, update
  <2>2. FilesOK'
    BY <1>18 DEF Kill, Gone, machine, update
  <2>3. LockOK'
    BY <1>18 DEF Kill, Gone, machine, update
  <2>4. MarkerOK'
    BY <1>18 DEF Kill, Gone, machine, update
  <2>5. AliveOK'
    BY <1>18 DEF Kill, Gone, machine, update
  <2>6. DrainOK'
    BY <1>18 DEF Kill, Gone, machine, update
  <2>7. LoadedOK'
    BY <1>18 DEF Kill, Gone, machine, update
  <2>8. MixedOK'
    BY <1>18 DEF Kill, Gone, machine, update
  <2>9. QED
    BY <2>1, <2>2, <2>3, <2>4, <2>5, <2>6, <2>7, <2>8
<1>19. QED
  BY <1>1, <1>2, <1>3, <1>4, <1>5, <1>6, <1>7, <1>8, <1>9, <1>10, <1>11, <1>12, <1>13, <1>14, <1>15, <1>16, <1>17, <1>18 DEF WorkerNext

LEMMA OperatorKeeps ==
  ASSUME GateInv, OperatorNext
  PROVE  GateInv'
<1> USE DEF GateInv, FlagsOK, FilesOK, LockOK, Main, Files, Stage, MarkerOK, AliveOK, DrainOK, UpdateQuiet, LoadedOK, MixedOK
<1>1. CASE Pause
  <2>1. FlagsOK'
    BY <1>1 DEF Pause, process, update
  <2>2. FilesOK'
    BY <1>1 DEF Pause, process, update
  <2>3. LockOK'
    BY <1>1 DEF Pause, process, update
  <2>4. MarkerOK'
    BY <1>1 DEF Pause, process, update
  <2>5. AliveOK'
    BY <1>1 DEF Pause, process, update
  <2>6. DrainOK'
    BY <1>1 DEF Pause, process, update
  <2>7. LoadedOK'
    BY <1>1 DEF Pause, process, update
  <2>8. MixedOK'
    BY <1>1 DEF Pause, process, update
  <2>9. QED
    BY <2>1, <2>2, <2>3, <2>4, <2>5, <2>6, <2>7, <2>8
<1>2. CASE Resume
  <2>1. FlagsOK'
    BY <1>2 DEF Resume, process, update
  <2>2. FilesOK'
    BY <1>2 DEF Resume, process, update
  <2>3. LockOK'
    BY <1>2 DEF Resume, process, update
  <2>4. MarkerOK'
    BY <1>2 DEF Resume, process, update
  <2>5. AliveOK'
    BY <1>2 DEF Resume, process, update
  <2>6. DrainOK'
    BY <1>2 DEF Resume, process, update
  <2>7. LoadedOK'
    BY <1>2 DEF Resume, process, update
  <2>8. MixedOK'
    BY <1>2 DEF Resume, process, update
  <2>9. QED
    BY <2>1, <2>2, <2>3, <2>4, <2>5, <2>6, <2>7, <2>8
<1>3. CASE Reset
  <2>1. FlagsOK'
    BY <1>3 DEF Reset, process, Untouched, update
  <2>2. FilesOK'
    BY <1>3 DEF Reset, process, Untouched, update
  <2>3. LockOK'
    BY <1>3 DEF Reset, process, Untouched, update
  <2>4. MarkerOK'
    BY <1>3 DEF Reset, process, Untouched, update
  <2>5. AliveOK'
    BY <1>3 DEF Reset, process, Untouched, update
  <2>6. DrainOK'
    BY <1>3 DEF Reset, process, Untouched, update
  <2>7. LoadedOK'
    BY <1>3 DEF Reset, process, Untouched, update
  <2>8. MixedOK'
    BY <1>3 DEF Reset, process, Untouched, update
  <2>9. QED
    BY <2>1, <2>2, <2>3, <2>4, <2>5, <2>6, <2>7, <2>8
<1>4. CASE Reboot
  <2>1. FlagsOK'
    BY <1>4 DEF Reboot, update
  <2>2. FilesOK'
    BY <1>4 DEF Reboot, update
  <2>3. LockOK'
    BY <1>4 DEF Reboot, update
  <2>4. MarkerOK'
    BY <1>4 DEF Reboot, update
  <2>5. AliveOK'
    BY <1>4 DEF Reboot, update
  <2>6. DrainOK'
    BY <1>4 DEF Reboot, update
  <2>7. LoadedOK'
    BY <1>4 DEF Reboot, update
  <2>8. MixedOK'
    BY <1>4 DEF Reboot, update
  <2>9. QED
    BY <2>1, <2>2, <2>3, <2>4, <2>5, <2>6, <2>7, <2>8
<1>5. QED
  BY <1>1, <1>2, <1>3, <1>4 DEF OperatorNext

LEMMA UpdaterKeeps ==
  ASSUME GateInv, UpdaterNext
  PROVE  GateInv'
<1> USE DEF GateInv, FlagsOK, FilesOK, LockOK, Main, Files, Stage, MarkerOK, AliveOK, DrainOK, UpdateQuiet, LoadedOK, MixedOK
<1>1. CASE Apply
  <2>1. FlagsOK'
    BY <1>1 DEF Apply, process, machine
  <2>2. FilesOK'
    BY <1>1 DEF Apply, process, machine
  <2>3. LockOK'
    BY <1>1 DEF Apply, process, machine
  <2>4. MarkerOK'
    BY <1>1 DEF Apply, process, machine
  <2>5. AliveOK'
    BY <1>1 DEF Apply, process, machine
  <2>6. DrainOK'
    BY <1>1 DEF Apply, process, machine
  <2>7. LoadedOK'
    BY <1>1 DEF Apply, process, machine
  <2>8. MixedOK'
    BY <1>1 DEF Apply, process, machine
  <2>9. QED
    BY <2>1, <2>2, <2>3, <2>4, <2>5, <2>6, <2>7, <2>8
<1>2. CASE Rollback
  <2>1. FlagsOK'
    BY <1>2 DEF Rollback, process, machine
  <2>2. FilesOK'
    BY <1>2 DEF Rollback, process, machine
  <2>3. LockOK'
    BY <1>2 DEF Rollback, process, machine
  <2>4. MarkerOK'
    BY <1>2 DEF Rollback, process, machine
  <2>5. AliveOK'
    BY <1>2 DEF Rollback, process, machine
  <2>6. DrainOK'
    BY <1>2 DEF Rollback, process, machine
  <2>7. LoadedOK'
    BY <1>2 DEF Rollback, process, machine
  <2>8. MixedOK'
    BY <1>2 DEF Rollback, process, machine
  <2>9. QED
    BY <2>1, <2>2, <2>3, <2>4, <2>5, <2>6, <2>7, <2>8
<1>3. CASE TouchPaused
  <2>1. FlagsOK'
    BY <1>3 DEF TouchPaused, Enter, process
  <2>2. FilesOK'
    BY <1>3 DEF TouchPaused, Enter, process
  <2>3. LockOK'
    BY <1>3 DEF TouchPaused, Enter, process
  <2>4. MarkerOK'
    BY <1>3 DEF TouchPaused, Enter, process
  <2>5. AliveOK'
    BY <1>3 DEF TouchPaused, Enter, process
  <2>6. DrainOK'
    BY <1>3 DEF TouchPaused, Enter, process
  <2>7. LoadedOK'
    BY <1>3 DEF TouchPaused, Enter, process
  <2>8. MixedOK'
    BY <1>3 DEF TouchPaused, Enter, process
  <2>9. QED
    BY <2>1, <2>2, <2>3, <2>4, <2>5, <2>6, <2>7, <2>8
<1>4. CASE Drained
  <2>1. FlagsOK'
    BY <1>4 DEF Drained, Enter, process, machine
  <2>2. FilesOK'
    BY <1>4 DEF Drained, Enter, process, machine
  <2>3. LockOK'
    BY <1>4 DEF Drained, Enter, process, machine
  <2>4. MarkerOK'
    BY <1>4 DEF Drained, Enter, process, machine
  <2>5. AliveOK'
    BY <1>4 DEF Drained, Enter, process, machine
  <2>6. DrainOK'
    BY <1>4 DEF Drained, Enter, process, machine
  <2>7. LoadedOK'
    BY <1>4 DEF Drained, Enter, process, machine
  <2>8. MixedOK'
    BY <1>4 DEF Drained, Enter, process, machine
  <2>9. QED
    BY <2>1, <2>2, <2>3, <2>4, <2>5, <2>6, <2>7, <2>8
<1>5. CASE Bootout
  <2>1. FlagsOK'
    BY <1>5 DEF Bootout, Enter, process, machine, HandleSignal, Gone
  <2>2. FilesOK'
    BY <1>5 DEF Bootout, Enter, process, machine, HandleSignal, Gone
  <2>3. LockOK'
    BY <1>5 DEF Bootout, Enter, process, machine, HandleSignal, Gone
  <2>4. MarkerOK'
    BY <1>5 DEF Bootout, Enter, process, machine, HandleSignal, Gone
  <2>5. AliveOK'
    BY <1>5 DEF Bootout, Enter, process, machine, HandleSignal, Gone
  <2>6. DrainOK'
    BY <1>5 DEF Bootout, Enter, process, machine, HandleSignal, Gone
  <2>7. LoadedOK'
    BY <1>5 DEF Bootout, Enter, process, machine, HandleSignal, Gone
  <2>8. MixedOK'
    BY <1>5 DEF Bootout, Enter, process, machine, HandleSignal, Gone
  <2>9. QED
    BY <2>1, <2>2, <2>3, <2>4, <2>5, <2>6, <2>7, <2>8
<1>6. CASE TakeLock
  <2>1. FlagsOK'
    BY <1>6 DEF TakeLock, Enter, process, machine
  <2>2. FilesOK'
    BY <1>6 DEF TakeLock, Enter, process, machine
  <2>3. LockOK'
    BY <1>6 DEF TakeLock, Enter, process, machine
  <2>4. MarkerOK'
    BY <1>6 DEF TakeLock, Enter, process, machine
  <2>5. AliveOK'
    BY <1>6 DEF TakeLock, Enter, process, machine
  <2>6. DrainOK'
    BY <1>6 DEF TakeLock, Enter, process, machine
  <2>7. LoadedOK'
    BY <1>6 DEF TakeLock, Enter, process, machine
  <2>8. MixedOK'
    BY <1>6 DEF TakeLock, Enter, process, machine
  <2>9. QED
    BY <2>1, <2>2, <2>3, <2>4, <2>5, <2>6, <2>7, <2>8
<1>7. CASE ReplaceSome
  <2>1. FlagsOK'
    BY <1>7 DEF ReplaceSome, Enter, process, machine
  <2>2. FilesOK'
    BY <1>7 DEF ReplaceSome, Enter, process, machine
  <2>3. LockOK'
    BY <1>7 DEF ReplaceSome, Enter, process, machine
  <2>4. MarkerOK'
    BY <1>7 DEF ReplaceSome, Enter, process, machine
  <2>5. AliveOK'
    BY <1>7 DEF ReplaceSome, Enter, process, machine
  <2>6. DrainOK'
    BY <1>7 DEF ReplaceSome, Enter, process, machine
  <2>7. LoadedOK'
    BY <1>7 DEF ReplaceSome, Enter, process, machine
  <2>8. MixedOK'
    BY <1>7 DEF ReplaceSome, Enter, process, machine
  <2>9. QED
    BY <2>1, <2>2, <2>3, <2>4, <2>5, <2>6, <2>7, <2>8
<1>8. CASE ReplaceRest
  <2>1. FlagsOK'
    BY <1>8 DEF ReplaceRest, Enter, process, machine
  <2>2. FilesOK'
    BY <1>8 DEF ReplaceRest, Enter, process, machine
  <2>3. LockOK'
    BY <1>8 DEF ReplaceRest, Enter, process, machine
  <2>4. MarkerOK'
    BY <1>8 DEF ReplaceRest, Enter, process, machine
  <2>5. AliveOK'
    BY <1>8 DEF ReplaceRest, Enter, process, machine
  <2>6. DrainOK'
    BY <1>8 DEF ReplaceRest, Enter, process, machine
  <2>7. LoadedOK'
    BY <1>8 DEF ReplaceRest, Enter, process, machine
  <2>8. MixedOK'
    BY <1>8 DEF ReplaceRest, Enter, process, machine
  <2>9. QED
    BY <2>1, <2>2, <2>3, <2>4, <2>5, <2>6, <2>7, <2>8
<1>9. CASE Bootstrap
  <2>1. FlagsOK'
    BY <1>9 DEF Bootstrap, Enter, process, machine
  <2>2. FilesOK'
    BY <1>9 DEF Bootstrap, Enter, process, machine
  <2>3. LockOK'
    BY <1>9 DEF Bootstrap, Enter, process, machine
  <2>4. MarkerOK'
    BY <1>9 DEF Bootstrap, Enter, process, machine
  <2>5. AliveOK'
    BY <1>9 DEF Bootstrap, Enter, process, machine
  <2>6. DrainOK'
    BY <1>9 DEF Bootstrap, Enter, process, machine
  <2>7. LoadedOK'
    BY <1>9 DEF Bootstrap, Enter, process, machine
  <2>8. MixedOK'
    BY <1>9 DEF Bootstrap, Enter, process, machine
  <2>9. QED
    BY <2>1, <2>2, <2>3, <2>4, <2>5, <2>6, <2>7, <2>8
<1>10. CASE RestorePause
  <2>1. FlagsOK'
    BY <1>10 DEF RestorePause, Enter, process
  <2>2. FilesOK'
    BY <1>10 DEF RestorePause, Enter, process
  <2>3. LockOK'
    BY <1>10 DEF RestorePause, Enter, process
  <2>4. MarkerOK'
    BY <1>10 DEF RestorePause, Enter, process
  <2>5. AliveOK'
    BY <1>10 DEF RestorePause, Enter, process
  <2>6. DrainOK'
    BY <1>10 DEF RestorePause, Enter, process
  <2>7. LoadedOK'
    BY <1>10 DEF RestorePause, Enter, process
  <2>8. MixedOK'
    BY <1>10 DEF RestorePause, Enter, process
  <2>9. QED
    BY <2>1, <2>2, <2>3, <2>4, <2>5, <2>6, <2>7, <2>8
<1>11. CASE Complete
  <2>1. FlagsOK'
    BY <1>11 DEF Complete, Enter, process, machine
  <2>2. FilesOK'
    BY <1>11 DEF Complete, Enter, process, machine
  <2>3. LockOK'
    BY <1>11 DEF Complete, Enter, process, machine
  <2>4. MarkerOK'
    BY <1>11 DEF Complete, Enter, process, machine
  <2>5. AliveOK'
    BY <1>11 DEF Complete, Enter, process, machine
  <2>6. DrainOK'
    BY <1>11 DEF Complete, Enter, process, machine
  <2>7. LoadedOK'
    BY <1>11 DEF Complete, Enter, process, machine
  <2>8. MixedOK'
    BY <1>11 DEF Complete, Enter, process, machine
  <2>9. QED
    BY <2>1, <2>2, <2>3, <2>4, <2>5, <2>6, <2>7, <2>8
<1>12. CASE UpdaterFails
  <2>1. FlagsOK'
    BY <1>12 DEF UpdaterFails, process, machine
  <2>2. FilesOK'
    BY <1>12 DEF UpdaterFails, process, machine
  <2>3. LockOK'
    BY <1>12 DEF UpdaterFails, process, machine
  <2>4. MarkerOK'
    BY <1>12 DEF UpdaterFails, process, machine
  <2>5. AliveOK'
    BY <1>12 DEF UpdaterFails, process, machine
  <2>6. DrainOK'
    BY <1>12 DEF UpdaterFails, process, machine
  <2>7. LoadedOK'
    BY <1>12 DEF UpdaterFails, process, machine
  <2>8. MixedOK'
    BY <1>12 DEF UpdaterFails, process, machine
  <2>9. QED
    BY <2>1, <2>2, <2>3, <2>4, <2>5, <2>6, <2>7, <2>8
<1>13. QED
  BY <1>1, <1>2, <1>3, <1>4, <1>5, <1>6, <1>7, <1>8, <1>9, <1>10, <1>11, <1>12 DEF UpdaterNext

-----------------------------------------------------------------------------
(* The theorems *)

(* The inductive invariant of the gate. *)
THEOREM GateInductive == Spec => []GateInv
<1>1. Init => GateInv
  <2>1. Init => FlagsOK
    BY DEF Init, FlagsOK, Main
  <2>2. Init => MarkerOK /\ AliveOK
    BY DEF Init, MarkerOK, AliveOK
  <2>3. Init => DrainOK /\ LoadedOK /\ MixedOK
    BY DEF Init, DrainOK, UpdateQuiet, LoadedOK, MixedOK
  <2>4. Init => FilesOK /\ LockOK
    BY DEF Init, FilesOK, LockOK, Files, Stage
  <2>5. QED
    BY <2>1, <2>2, <2>3, <2>4 DEF GateInv
<1>2. GateInv /\ UNCHANGED vars => GateInv'
  BY DEF vars, process, machine, update, GateInv, FlagsOK, FilesOK, LockOK, MarkerOK, AliveOK, DrainOK, UpdateQuiet, LoadedOK, MixedOK
<1>3. GateInv /\ [Next]_vars => GateInv'
  BY <1>2, WorkerKeeps, OperatorKeeps, UpdaterKeeps DEF Next
<1>4. QED
  BY <1>1, <1>3, PTL DEF Spec

(* worker.lock belongs to the process that is there, worker or updater. *)
THEOREM GateTypeCorrect == Spec => []TypeOK
<1>1. GateInv => TypeOK
  BY DEF GateInv, FlagsOK, FilesOK, LockOK, TypeOK
<1>2. QED
  BY <1>1, GateInductive, PTL

(* No process of a job is alive without ACTIVE.json (worker.py:223, 274). *)
THEOREM MarkedWhileAliveHolds == Spec => []MarkedWhileAlive
<1>1. GateInv => MarkedWhileAlive
  BY DEF GateInv, AliveOK, MarkedWhileAlive
<1>2. QED
  BY <1>1, GateInductive, PTL

(* A drained worker stays drained until the updater is done                *)
(* (docs/rollout.md:5; deploy/update.py:63-86).                            *)
THEOREM UpdateQuietHolds == Spec => []UpdateQuiet
<1>1. GateInv => UpdateQuiet
  BY DEF GateInv, DrainOK
<1>2. QED
  BY <1>1, GateInductive, PTL

(* No worker that launchd started executes a job with half of an update in *)
(* it, although it reads the program before it takes the lock (cli.py:109,  *)
(* worker.py:288; deploy/update.py:172).                                    *)
THEOREM NoMixedCodeHolds == Spec => []NoMixedCode
<1>1. GateInv => NoMixedCode
  BY DEF GateInv, MixedOK, NoMixedCode
<1>2. QED
  BY <1>1, GateInductive, PTL

\* Only Arm enters a run.
LEMMA ArmEnters ==
  ASSUME [Next]_vars, main # "running", main' = "running"
  PROVE  main = "marked"
<1>1. CASE UNCHANGED vars
  BY <1>1 DEF vars, process
<1>2. CASE WorkerNext
  BY <1>2 DEF WorkerNext, Launch, Own, Refused, Ready, Exit, SendClaim, TakeAnswer, LookAgain, Declined, Mark, Arm,
              Execute, KillGroup, EndRun, LetGo, CancelRun, Terminate, Kill, HandleSignal, Gone, process
<1>3. CASE OperatorNext
  BY <1>3 DEF OperatorNext, Pause, Resume, Reset, Reboot, process
<1>4. CASE UpdaterNext
  <2>1. UNCHANGED main \/ HandleSignal
    BY <1>4 DEF UpdaterNext, Apply, Rollback, TouchPaused, Drained, Bootout, TakeLock, ReplaceSome,
                ReplaceRest, Bootstrap, RestorePause, Complete, UpdaterFails, process
  <2>2. QED
    BY <2>1 DEF HandleSignal, Gone
<1>5. QED
  BY <1>1, <1>2, <1>3, <1>4 DEF Next

(* A job never starts beside processes that an earlier job left            *)
(* (worker.py:239-240, 291).                                               *)
THEOREM OneJobsProcessesHolds == Spec => OneJobsProcesses
<1>1. GateInv /\ [Next]_vars => [main # "running" /\ main' = "running" => ~alive]_vars
  BY ArmEnters DEF GateInv, AliveOK
<1>2. QED
  BY <1>1, GateInductive, PTL DEF Spec, OneJobsProcesses
=============================================================================
