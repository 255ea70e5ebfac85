------------------------------ MODULE Sessions ------------------------------
(***************************************************************************)
(* The children of a job: process.py and the four ways in which runner.py  *)
(* uses it. "run" is a single command (execute), "compare" a pair of       *)
(* sessions with one outstanding request between them, "train" a single    *)
(* session, "profile" a target with a sampler beside it.                   *)
(*                                                                         *)
(* A pipe holds what a child wrote and the worker has not read. Bytes are  *)
(* abstracted to records; reading may take any number of those that are    *)
(* there. Deadlines and the cancel event are one thing here: either may    *)
(* end any wait (Process.check).                                           *)
(***************************************************************************)
EXTENDS Integers, Sequences

CONSTANTS
    Rounds,     \* rounds of requests of a comparison or a training
    MaxLines,   \* complete records kept unread; 64 in process.py
    MaxFaults   \* bound: misbehaviours of the children of one step

ASSUME SessionsAssumption ==
    /\ Rounds \in Nat \ {0}
    /\ MaxLines \in Nat \ {0}
    /\ MaxFaults \in Nat

VARIABLES
    use,      \* what the children are for
    step,     \* where the coordinator is
    who,      \* index of the child that is started, drained or closed
    turn,     \* the request that is next or outstanding
    rows,     \* the responses that were recorded, in order
    child,    \* the processes and their pipes
    faults,   \* bound: misbehaviours so far
    verdict   \* how the use ended

svars == <<use, step, who, turn, rows, child, faults, verdict>>

Child == {"first", "second"}

Uses == {"run", "compare", "train", "profile"}

\* The children in the order in which they are started; of a profile the target is first.
Cast(u) == IF u \in {"compare", "profile"} THEN <<"first", "second">> ELSE <<"first">>

\* A `finally' or `with' closes them; nested `with's do so inside out.
CloseOrder(u) == IF u = "profile" THEN <<"second", "first">> ELSE Cast(u)

KeepsLines == use \in {"compare", "train"}

\* The rounds of a comparison alternate AB, BA.
Turns == CASE use = "compare" -> 2 * Rounds
           [] use = "train"   -> Rounds
           [] OTHER           -> 0

RoundOf(t) == IF use = "compare" THEN (t + 1) \div 2 ELSE t

To(t) ==
    IF use = "train" \/ (t % 2 = 1) = (RoundOf(t) % 2 = 1) THEN "first" ELSE "second"

\* Records on a pipe: the answer to request n is n.
Ready == 0
Extra == -1
Cut   == -2   \* bytes without a newline

Unstarted ==
    [life |-> "none", group |-> FALSE, greeted |-> FALSE, inbox |-> <<>>,
     pipe |-> <<>>, lines |-> <<>>, partial |-> FALSE, open |-> FALSE, said |-> <<>>]

\* Popen in a session of its own: `group' says that a process of it is alive and holds the
\* pipes. `said' is all that was ever written, which the worker does not know.
Started ==
    [Unstarted EXCEPT !.life = "up", !.group = TRUE, !.open = TRUE]

-----------------------------------------------------------------------------
(* The coordinator *)

\* A step of runner.py begins to use children.
Begin(u) ==
    /\ step = "off"
    /\ use' = u
    /\ step' = "start"
    /\ who' = 1
    /\ turn' = 1
    /\ rows' = <<>>
    /\ child' = [c \in Child |-> Unstarted]
    /\ faults' = 0
    /\ verdict' = "ok"

\* Mutant: the shutdown of a session waits without its deadline.
WaitingForOutput == step \in {"start", "ready", "request", "await"}

Waiting == step \in {"start", "ready", "request", "await", "drain"}

\* The child whose pipes are pumped. Both are while a sampler runs.
Pumped ==
    CASE step \in {"ready", "drain"} /\ use # "profile" -> {Cast(use)[who]}
      [] step \in {"request", "await"}                  -> {To(turn)}
      [] step = "drain" /\ use = "profile"              -> Child
      [] OTHER                                          -> {}

\* An exception leaves the use through its `finally'.
Raise(kind) ==
    /\ step' = "close"
    /\ who' = 1
    /\ verdict' = kind

Start ==
    /\ step = "start"
    /\ child' = [child EXCEPT ![Cast(use)[who]] = Started]
    /\ step' = CASE KeepsLines                    -> "ready"
                 [] use = "profile" /\ who = 1    -> "start"
                 [] OTHER                         -> "drain"
    /\ who' = IF use = "profile" THEN 2 ELSE who
    /\ UNCHANGED <<use, turn, rows, faults, verdict>>

\* A check that refuses, or an error of the system.
StartFails ==
    /\ step = "start"
    /\ \E kind \in {"invalid", "failed"} : Raise(kind)
    /\ UNCHANGED <<use, turn, rows, child, faults>>

\* Without keep_lines what is read goes to the output file only. Bytes without
\* an end are the last that a child writes.
Pump(c) ==
    /\ c \in Pumped
    /\ child[c].open
    /\ \E n \in 1 .. Len(child[c].pipe) :
         LET cut   == child[c].pipe[n] = Cut
             lines == child[c].lines \o SubSeq(child[c].pipe, 1, IF cut THEN n - 1 ELSE n)
         IN  /\ child' = [child EXCEPT ![c].pipe = SubSeq(@, n + 1, Len(@)),
                                       ![c].lines = lines,
                                       ![c].partial = @ \/ cut]
             /\ IF Len(lines) > MaxLines
                  THEN Raise("invalid")
                  ELSE UNCHANGED <<step, who, verdict>>
    /\ UNCHANGED <<use, turn, rows, faults>>

\* End of file comes when nobody of the group holds the pipe any more.
PumpEOF(c) ==
    /\ c \in Pumped
    /\ child[c].open
    /\ child[c].pipe = <<>>
    /\ ~child[c].group
    /\ child' = [child EXCEPT ![c].open = FALSE]
    /\ UNCHANGED <<use, step, who, turn, rows, faults, verdict>>

\* More output than max_output, a record that is too long or no JSON object.
OverLimit ==
    /\ \E c \in Pumped : child[c].life # "none" /\ child[c].open
    /\ Raise("invalid")
    /\ UNCHANGED <<use, turn, rows, child, faults>>

\* The deadline passed, or the cancel event is set.
Expire ==
    /\ Waiting
    /\ Raise("stopped")
    /\ UNCHANGED <<use, turn, rows, child, faults>>

\* record() took a line; with `ready' in the step a wrong one is refused.
TakeReady ==
    LET c == Cast(use)[who] IN
    /\ step = "ready"
    /\ child[c].lines # <<>>
    /\ child' = [child EXCEPT ![c].lines = Tail(@)]
    /\ \/ /\ step' = IF who < Len(Cast(use)) THEN "start" ELSE "request"
          /\ who' = IF who < Len(Cast(use)) THEN who + 1 ELSE who
          /\ UNCHANGED verdict
       \/ Head(child[c].lines) # Ready /\ Raise("invalid")
    /\ UNCHANGED <<use, turn, rows, faults>>

\* record() finds neither a line nor an open pipe.
NoRecord ==
    /\ step \in {"ready", "await"}
    /\ \E c \in Pumped : child[c].lines = <<>> /\ ~child[c].open
    /\ Raise("invalid")
    /\ UNCHANGED <<use, turn, rows, child, faults>>

Request ==
    LET c == To(turn) IN
    /\ step = "request"
    /\ child[c].lines = <<>>
    /\ child[c].group
    /\ child' = [child EXCEPT ![c].inbox = Append(@, RoundOf(turn))]
    /\ step' = "await"
    /\ UNCHANGED <<use, who, turn, rows, faults, verdict>>

\* Output before the request, or nobody to read it.
RequestFails ==
    LET c == To(turn) IN
    /\ step = "request"
    /\ child[c].lines # <<>> \/ ~child[c].group
    /\ Raise("invalid")
    /\ UNCHANGED <<use, turn, rows, child, faults>>

\* After the last one the sessions are drained in turn (finish_session).
TakeResponse ==
    LET c == To(turn) IN
    /\ step = "await"
    /\ child[c].lines # <<>>
    /\ rows' = Append(rows, Head(child[c].lines))
    /\ turn' = turn + 1
    /\ child' = [child EXCEPT ![c].lines = Tail(@)]
    /\ IF turn < Turns THEN step' = "request" /\ UNCHANGED who
                       ELSE step' = "drain" /\ who' = 1
    /\ UNCHANGED <<use, faults, verdict>>

\* A profile ends with its sampler.
Drained ==
    LET c == Cast(use)[who] IN
    step = "drain" /\ ~child[c].open /\ child[c].life # "up"

\* Mutant: what was printed after the last response is not looked at.
CleanEndUnread(c) ==
    child[c].life = "zero" /\ ~child[c].partial

CleanEnd(c) ==
    /\ child[c].life = "zero"
    /\ child[c].lines = <<>>
    /\ ~child[c].partial

Finish ==
    /\ Drained
    /\ CleanEnd(Cast(use)[who])
    /\ IF KeepsLines /\ who < Len(Cast(use))
         THEN who' = who + 1 /\ UNCHANGED <<step, verdict>>
         ELSE Raise("ok")
    /\ UNCHANGED <<use, turn, rows, child, faults>>

FinishFails ==
    /\ Drained
    /\ ~CleanEnd(Cast(use)[who])
    /\ Raise("invalid")
    /\ UNCHANGED <<use, turn, rows, child, faults>>

NextClose ==
    IF who < Len(CloseOrder(use)) THEN who' = who + 1 /\ UNCHANGED step
                                  ELSE step' = "over" /\ UNCHANGED who

\* SIGTERM, SIGKILL to the group, and the wait for the child confirmed.
Close ==
    LET c == CloseOrder(use)[who] IN
    /\ step = "close"
    /\ child' = [child EXCEPT ![c].group = FALSE, ![c].open = FALSE,
                              ![c].life = IF @ = "up" THEN "bad" ELSE @]
    /\ NextClose
    /\ UNCHANGED <<use, turn, rows, faults, verdict>>

\* CleanupError. It ends the loop over the sessions of a comparison; nested `with's go on.
CloseFails ==
    LET c == CloseOrder(use)[who] IN
    /\ step = "close"
    /\ child[c].group
    /\ verdict' = "unclean"
    /\ IF use = "profile" THEN NextClose ELSE step' = "over" /\ UNCHANGED who
    /\ UNCHANGED <<use, turn, rows, child, faults>>

Coordinator ==
    \/ Start \/ StartFails
    \/ \E c \in Child : Pump(c) \/ PumpEOF(c)
    \/ Expire
    \/ TakeReady \/ NoRecord
    \/ Request \/ RequestFails \/ TakeResponse
    \/ Finish \/ FinishFails
    \/ Close \/ CloseFails

-----------------------------------------------------------------------------
(* The children. They run whenever they like, pumped or not, and so long as *)
(* their step lasts.                                                        *)

Runs(c) == step \notin {"off", "over"} /\ child[c].life = "up"

Say(c, record) ==
    [child EXCEPT ![c].pipe = Append(@, record), ![c].said = Append(@, record)]

ChildStep == UNCHANGED <<use, step, who, turn, rows, verdict>>

Greet(c) ==
    /\ Runs(c) /\ KeepsLines /\ ~child[c].greeted
    /\ child' = [Say(c, Ready) EXCEPT ![c].greeted = TRUE]
    /\ ChildStep /\ UNCHANGED faults

Answer(c) ==
    /\ Runs(c) /\ child[c].greeted /\ child[c].inbox # <<>>
    /\ child' = [Say(c, Head(child[c].inbox)) EXCEPT ![c].inbox = Tail(@)]
    /\ ChildStep /\ UNCHANGED faults

\* It ends with status zero, perhaps before its stdin does, perhaps leaving a process behind.
Quit(c) ==
    /\ Runs(c)
    /\ \E left \in BOOLEAN :
         child' = [child EXCEPT ![c].life = "zero", ![c].group = left]
    /\ ChildStep /\ UNCHANGED faults

\* What a session may not do: a record nobody asked for, a failed exit, bytes without an end.
Misbehave(c) ==
    /\ Runs(c) /\ KeepsLines /\ faults < MaxFaults
    /\ faults' = faults + 1
    /\ \/ child' = Say(c, Extra)
       \/ child' = [child EXCEPT ![c].life = "bad", ![c].group = FALSE]
       \/ child' = [Say(c, Cut) EXCEPT ![c].life = "zero", ![c].group = FALSE]
    /\ ChildStep

\* A command or a sampler fails.
Fail(c) ==
    /\ Runs(c) /\ ~KeepsLines
    /\ child' = [child EXCEPT ![c].life = "bad", ![c].group = FALSE]
    /\ ChildStep /\ UNCHANGED faults

\* What a child left behind ends by itself.
LeftoverEnds(c) ==
    /\ step \notin {"off", "over"} /\ child[c].life \in {"zero", "bad"} /\ child[c].group
    /\ child' = [child EXCEPT ![c].group = FALSE]
    /\ ChildStep /\ UNCHANGED faults

Children ==
    \E c \in Child : \/ Greet(c) \/ Answer(c) \/ Quit(c)
                     \/ Misbehave(c) \/ Fail(c) \/ LeftoverEnds(c)

SessionsInit ==
    /\ use = "run" /\ step = "off" /\ who = 1 /\ turn = 1
    /\ rows = <<>>
    /\ child = [c \in Child |-> Unstarted]
    /\ faults = 0
    /\ verdict = "ok"

\* What is reset when the runner goes on, so that nothing of a use outlives it.
Reset ==
    /\ use' = "run" /\ step' = "off" /\ who' = 1 /\ turn' = 1
    /\ rows' = <<>>
    /\ child' = [c \in Child |-> Unstarted]
    /\ faults' = 0
    /\ verdict' = "ok"

Alive == \E c \in Child : child[c].group

-----------------------------------------------------------------------------
(* Properties *)

Passed == step \in {"close", "over"} /\ verdict = "ok" /\ KeepsLines

(* What a comparison or training records when it passes is all that its     *)
(* sessions wrote, in order and to the last record: one to be ready and one *)
(* for each request, none left in a pipe when a session was believed to be  *)
(* at its end, no bytes without an end, no failed exit (process.py:119,     *)
(* 136-144). A session that only ever answers is thereby recorded request   *)
(* by request. That a record was written after the request it is taken for, *)
(* the program cannot tell; see ExtraFails.                                 *)
RowsPaired ==
    Passed =>
      /\ Len(rows) = Turns
      /\ \A t \in 1 .. Turns : rows[t] = child[To(t)].said[RoundOf(t) + 1]
      /\ \A i \in 1 .. Len(Cast(use)) :
           LET c == child[Cast(use)[i]] IN
           /\ c.life = "zero"
           /\ Len(c.said) = Rounds + 1
           /\ \A n \in 1 .. Len(c.said) : c.said[n] # Cut

(* "Each request must produce one complete JSON object" and "Extra          *)
(* unsolicited stdout records ... fail the job" (docs/jobs.md:94), whenever *)
(* they are written after the readiness record.                             *)
ExtraFails ==
    Passed => \A c \in Child : \A n \in 2 .. Len(child[c].said) : child[c].said[n] # Extra
=============================================================================
