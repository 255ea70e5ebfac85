----------------------------- MODULE LogStream -----------------------------
(***************************************************************************)
(* The live log of one job, from its runner to a reader: the bounded queue *)
(* of events, the lease thread that sends it in numbered chunks, requests  *)
(* that are lost, late or handled twice, the table of Store, and the pages *)
(* of `logs --follow' (cli.py). Everybody else who uses Store does as he   *)
(* likes. Events are numbered as they happen; a chunk is a set of them.    *)
(***************************************************************************)
EXTENDS Store, Sequences

CONSTANTS
    Watched,     \* the job
    MaxEvents,   \* bound: events of the job
    QueueSize,   \* 256 in worker.py
    PageSize     \* 100 in store.py

ASSUME StreamAssumption ==
    /\ Watched \in Job
    /\ MaxEvents \in Nat /\ QueueSize \in Nat \ {0} /\ PageSize \in Nat \ {0}
    /\ Text = (SUBSET (1 .. MaxEvents)) \ {{}}
    /\ LogSeq = 0 .. MaxEvents - 1

VARIABLES
    emitted,    \* events so far
    events,     \* Lease.events
    pending,    \* the chunk that is being sent, or {}
    sequence,   \* its number
    net,        \* requests the server may yet handle
    reader,     \* "read", "print", "status" or "done"
    page,       \* the records it has fetched and not printed
    after,      \* its cursor
    short,      \* its last page was not full
    printed     \* the texts it printed

wvars == <<emitted, events, pending, sequence>>

fvars == <<reader, page, after, short, printed>>

lvars == <<wvars, net, fvars>>

\* The worker got the claim and its lease thread runs.
Streaming == jobs[Watched].status \in Active

StreamInit ==
    /\ Init
    /\ emitted = 0 /\ events = <<>> /\ pending = {} /\ sequence = 0
    /\ net = {}
    /\ reader = "read" /\ page = {} /\ after = -1 /\ short = TRUE /\ printed = <<>>

\* A full queue drops the event.
Emit ==
    /\ Streaming /\ emitted < MaxEvents
    /\ emitted' = emitted + 1
    /\ events' = IF Len(events) < QueueSize THEN Append(events, emitted + 1) ELSE events
    /\ UNCHANGED <<vars, pending, sequence, net, fvars>>

\* As many events as fit into a chunk.
Collect ==
    /\ Streaming /\ pending = {}
    /\ \E n \in 1 .. Len(events) :
         /\ pending' = {events[i] : i \in 1 .. n}
         /\ events' = SubSeq(events, n + 1, Len(events))
    /\ UNCHANGED <<vars, emitted, sequence, net, fvars>>

Current == [seq |-> sequence, text |-> pending]

Acknowledged ==
    /\ sequence' = sequence + 1
    /\ pending' = {}

\* Mutant: the chunk counts as sent when the request was made.
SendOnce ==
    /\ Streaming /\ pending # {}
    /\ net' = net \cup {Current}
    /\ Acknowledged
    /\ UNCHANGED <<vars, emitted, events, fvars>>

\* Sent until it is acknowledged, and not after a cancellation.
Send ==
    /\ Streaming /\ pending # {}
    /\ net' = net \cup {Current}
    /\ UNCHANGED <<vars, wvars, fvars>>

\* The server handles a request; another copy of it may be left, and the answer be lost.
Deliver ==
    \E m \in net :
      /\ AppendLog(Watched, jobs[Watched].lease, m.seq, m.text)
      /\ net' \in {net, net \ {m}}
      /\ \/ UNCHANGED <<pending, sequence>>
         \/ m = Current /\ Acknowledged
      /\ UNCHANGED <<emitted, events, fvars>>

-----------------------------------------------------------------------------
(* The reader *)

Rest == {c \in jobs[Watched].log : c.seq > after}

Page == {c \in Rest : Cardinality({d \in Rest : d.seq < c.seq}) < PageSize}

FetchPage ==
    /\ reader = "read" /\ Exists(db[Watched])
    /\ Read
    /\ page' = Page
    /\ short' = (Cardinality(Page) < PageSize)
    /\ reader' = IF Page = {} THEN "status" ELSE "print"
    /\ UNCHANGED <<wvars, net, after, printed>>

\* One record after the other, in the order of their numbers.
PrintRecord ==
    /\ reader = "print"
    /\ \E c \in page :
         /\ \A d \in page : c.seq <= d.seq
         /\ printed' = Append(printed, c.text)
         /\ after' = c.seq
         /\ page' = page \ {c}
    /\ reader' = IF page' = {} THEN "status" ELSE "print"
    /\ UNCHANGED <<vars, wvars, net, short>>

\* The status is asked for after the records.
ReadStatus ==
    /\ reader = "status" /\ Exists(db[Watched])
    /\ Read
    /\ reader' = IF db[Watched].status \in Terminal /\ short THEN "done" ELSE "read"
    /\ UNCHANGED <<wvars, net, page, after, short, printed>>

\* The job was pruned.
ReadFails ==
    /\ reader \in {"read", "status"} /\ jobs[Watched].status = "deleted"
    /\ reader' = "done"
    /\ UNCHANGED <<vars, wvars, net, page, after, short, printed>>

-----------------------------------------------------------------------------
\* Only who holds the lease of the job appends to its log.
Others ==
    /\ Next
    /\ jobs'[Watched].log \in {jobs[Watched].log, {}}
    /\ UNCHANGED lvars

StreamNext ==
    \/ Others
    \/ Emit \/ Collect \/ Send \/ Deliver
    \/ FetchPage \/ PrintRecord \/ ReadStatus \/ ReadFails

StreamSpec == StreamInit /\ [][StreamNext]_<<vars, lvars>>

FairStreamSpec ==
    /\ StreamSpec
    /\ WF_<<vars, lvars>>(Tick /\ UNCHANGED lvars)
    /\ WF_<<vars, lvars>>(Claim({}) /\ UNCHANGED lvars)

-----------------------------------------------------------------------------
(* Properties *)

(* What a reader printed are events in the order in which they happened,   *)
(* each once, and everything the table has up to his cursor: no chunk is   *)
(* stored behind his back, although they are sent again after a lost       *)
(* answer and handled late (worker.py:139-144, cli.py:186-189).            *)
PreviewInOrder ==
    /\ \A i, j \in DOMAIN printed : i < j => \A e \in printed[i], f \in printed[j] : e < f
    /\ Exists(jobs[Watched]) =>
         UNION Range(printed) = UNION {c.text : c \in {d \in jobs[Watched].log : d.seq <= after}}
=============================================================================
