---------------------------- MODULE JobLifecycle ----------------------------
(***************************************************************************)
(* What the queue promises about a job, without saying how: the life of a  *)
(* job that docs/api.md:26 draws, that at most one job is being worked on, *)
(* and that an outcome, once recorded, stands until the job is pruned.     *)
(* Store implements this specification.                                    *)
(***************************************************************************)
EXTENDS Integers

CONSTANTS Job,          \* job ids
          Answer,       \* what a job's result column may hold
          NoAnswer      \* the result of a job that has none

VARIABLES phase,        \* phase[j]: where job j is in its life
          answer        \* answer[j]: the result recorded for it

vars == <<phase, answer>>

Active   == {"running", "cancel_requested"}
Terminal == {"succeeded", "failed", "cancelled", "expired", "lost"}
Phase    == {"absent", "queued", "deleted"} \cup Active \cup Terminal

\* The phases one step may lead to; "absent" is an id not handed out yet and
\* "deleted" an id whose row was pruned, which is never handed out again.
Follows(p) ==
    CASE p = "absent"           -> {"queued"}
      [] p = "queued"           -> {"running", "cancelled", "expired"}
      [] p = "running"          -> {"cancel_requested"} \cup (Terminal \ {"expired"})
      [] p = "cancel_requested" -> {"cancelled"}
      [] p \in Terminal         -> {"deleted"}
      [] OTHER                  -> {}

TypeOK == /\ phase \in [Job -> Phase]
          /\ answer \in [Job -> Answer]

\* Two jobs are never worked on at the same time.
AtMostOneActive(p) == \A i, j \in Job : p[i] \in Active /\ p[j] \in Active => i = j

Init == /\ phase = [j \in Job |-> "absent"]
        /\ answer = [j \in Job |-> NoAnswer]

\* One transaction may move several jobs, each by one edge of its life; an
\* answer appears only as its job stops being worked on, and goes with the row.
Move(j) == \/ /\ phase'[j] = phase[j]
              /\ answer'[j] = answer[j]
           \/ /\ phase'[j] \in Follows(phase[j])
              /\ \/ answer'[j] = answer[j]
                 \/ phase[j] \in Active /\ phase'[j] \in Terminal
                 \/ phase'[j] = "deleted" /\ answer'[j] = NoAnswer

Next == /\ phase' \in [Job -> Phase]
        /\ answer' \in [Job -> Answer]
        /\ \A j \in Job : Move(j)
        /\ AtMostOneActive(phase')

Spec == Init /\ [][Next]_vars
=============================================================================
