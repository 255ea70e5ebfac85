--------------------------- MODULE LogStreamProofs ---------------------------
(***************************************************************************)
(* Proofs about LogStream: the reader of a live log sees it in order, for  *)
(* any number of events, any sizes of the queue and of the pages.          *)
(***************************************************************************)
EXTENDS LogStream, StoreProofs, SequenceTheorems

-----------------------------------------------------------------------------
(* The invariant *)

Table == jobs[Watched].log

\* All events of t are before those of u.
Before(t, u) == \A e \in t, f \in u : e < f

StreamTypeOK ==
    /\ emitted \in 0 .. MaxEvents
    /\ events \in Seq(1 .. emitted)
    /\ pending \in SUBSET (1 .. emitted)
    /\ sequence \in Nat
    /\ \A m \in net : m \in Chunk
    /\ after \in Int
    /\ printed \in Seq(Text)
    /\ page \in SUBSET Chunk

\* What is queued is after what is being sent, and at least as many have gone before.
QueueOK ==
    /\ sequence <= emitted
    /\ \A i, j \in DOMAIN events : i < j => events[i] < events[j]
    /\ Before(pending, Range(events))
    /\ \A e \in pending \cup Range(events) : sequence < e

\* No request is ahead of the chunk that is being sent.
NetOK == \A m \in net : /\ m.seq <= sequence
                        /\ m.seq = sequence => pending # {} /\ m = Current

\* A table t of chunks, all of them acknowledged but perhaps the one that is
\* being sent, of number q and text p.
StoredOK(t, q, p) ==
    /\ \A c \in t : /\ c.seq <= q
                    /\ c.seq = q => p # {} /\ c = [seq |-> q, text |-> p]
                    /\ c.seq < q => Before(c.text, p) /\ Before(c.text, Range(events))
                    /\ c.text \in SUBSET (1 .. emitted)
    /\ \A c, d \in t : /\ c.seq = d.seq => c = d
                       /\ c.seq < d.seq => Before(c.text, d.text)

\* The table has every chunk that was acknowledged.
TableOK ==
    /\ Table \in SUBSET Chunk /\ IsFiniteSet(Table)
    /\ StoredOK(Table, sequence, pending)
    /\ Exists(jobs[Watched]) => \A s \in 0 .. sequence - 1 : \E c \in Table : c.seq = s
    /\ ~Exists(jobs[Watched]) => Table = {}

FreshOK == jobs[Watched].status = "absent" =>
             sequence = 0 /\ after = -1 /\ printed = <<>> /\ page = {}

\* What the reader has fetched is what comes next in the table.
ReaderOK ==
    /\ \A c \in page : after < c.seq
    /\ \A c \in page, i \in DOMAIN printed : Before(printed[i], c.text)
    /\ \A c, d \in page : /\ c.seq = d.seq => c = d
                          /\ c.seq < d.seq => Before(c.text, d.text)
    /\ \A i, j \in DOMAIN printed : i < j => Before(printed[i], printed[j])
    /\ Exists(jobs[Watched]) =>
         /\ page \in SUBSET Table
         /\ \A c \in page, d \in Table : after < d.seq /\ d.seq < c.seq => d \in page
         /\ after = -1 \/ \E c \in Table : c.seq = after
         /\ \A i \in DOMAIN printed : \E c \in Table : c.seq <= after /\ c.text = printed[i]
         /\ \A c \in Table : c.seq <= after => \E i \in DOMAIN printed : printed[i] = c.text

StreamInv == IInv /\ StreamTypeOK /\ QueueOK /\ NetOK /\ TableOK /\ FreshOK /\ ReaderOK

-----------------------------------------------------------------------------
(* Queues. *)

LEMMA RangeAppend ==
  ASSUME NEW S, NEW s \in Seq(S), NEW x \in S
  PROVE  /\ Append(s, x) \in Seq(S)
         /\ Range(Append(s, x)) = Range(s) \cup {x}
         /\ DOMAIN Append(s, x) = DOMAIN s \cup {Len(s) + 1}
         /\ \A i \in DOMAIN s : Append(s, x)[i] = s[i] /\ i # Len(s) + 1 /\ i < Len(s) + 1
         /\ Append(s, x)[Len(s) + 1] = x
<1>1. Append(s, x) \in Seq(S) /\ Len(Append(s, x)) = Len(s) + 1 /\ Len(s) \in Nat
  OBVIOUS
<1>2. DOMAIN s = 1 .. Len(s) /\ DOMAIN Append(s, x) = 1 .. Len(s) + 1
  BY <1>1
<1>3. \A i \in DOMAIN s : Append(s, x)[i] = s[i] /\ i # Len(s) + 1 /\ i < Len(s) + 1
  BY <1>1, <1>2
<1>4. Append(s, x)[Len(s) + 1] = x
  BY <1>1
<1>5. DOMAIN Append(s, x) = DOMAIN s \cup {Len(s) + 1}
  BY <1>1, <1>2
<1>6. Range(Append(s, x)) = Range(s) \cup {x}
  BY <1>3, <1>4, <1>5 DEF Range
<1> QED BY <1>1, <1>3, <1>4, <1>5, <1>6

\* A queue without its first n.
LEMMA WithoutFirst ==
  ASSUME NEW S, NEW s \in Seq(S), NEW k \in Nat, k = Len(s), NEW n \in 1 .. k,
         NEW tail, tail = SubSeq(s, n + 1, k)
  PROVE  /\ tail \in Seq(S)
         /\ DOMAIN tail = 1 .. k - n
         /\ \A i \in DOMAIN tail : i + n \in DOMAIN s /\ tail[i] = s[i + n]
<1>1. DOMAIN s = 1 .. k /\ n \in Nat /\ n <= k /\ \A i \in 1 .. k : s[i] \in S
  BY LenProperties, ElementOfSeq
<1>2. /\ tail \in Seq(S) /\ Len(tail) = IF n + 1 <= k THEN k - (n + 1) + 1 ELSE 0
      /\ \A i \in 1 .. k - (n + 1) + 1 : tail[i] = s[(n + 1) + i - 1]
  <2>1. \A i \in n + 1 .. k : s[i] \in S
    BY <1>1
  <2> QED BY <1>1, <2>1, SubSeqProperties
<1>3. k - (n + 1) + 1 = k - n /\ (IF n + 1 <= k THEN k - (n + 1) + 1 ELSE 0) = k - n
  BY <1>1
<1>4. DOMAIN tail = 1 .. k - n
  BY <1>2, <1>3, LenProperties
<1>5. ASSUME NEW i \in 1 .. k - n
      PROVE  i + n \in DOMAIN s /\ tail[i] = s[i + n]
  <2>1. (n + 1) + i - 1 = i + n /\ i + n \in 1 .. k
    BY <1>1
  <2>2. tail[i] = s[(n + 1) + i - 1]
    BY <1>2, <1>3
  <2> QED BY <1>1, <2>1, <2>2
<1> QED BY <1>2, <1>4, <1>5

-----------------------------------------------------------------------------
(* The table. *)

\* Until the reader's row is gone its log stays what it is; a row that is not
\* there has none.
Kept ==
    /\ IInv'
    /\ jobs'[Watched].status = "absent" => jobs[Watched].status = "absent"
    /\ Exists(jobs'[Watched]) => /\ Table' = Table
                                 /\ Exists(jobs[Watched]) \/ jobs[Watched].status = "absent"
    /\ ~Exists(jobs'[Watched]) => Table' = {}

LEMMA ReadKeeps ==
  ASSUME StreamInv, Read
  PROVE  Kept /\ Table' = Table /\ (Exists(jobs'[Watched]) <=> Exists(jobs[Watched]))
<1>1. IInv /\ Watched \in Job
  BY StreamAssumption DEF StreamInv
<1>2. IInv' /\ jobs'[Watched] = db[Watched]
  BY <1>1, NoRowChanges DEF Read
<1>3. db[Watched].log = jobs[Watched].log /\ (Exists(db[Watched]) <=> Exists(jobs[Watched]))
  BY <1>1, DbLog
<1>4. db[Watched].status = "absent" => jobs[Watched].status = "absent"
  BY <1>1, DbRow
<1> QED BY <1>2, <1>3, <1>4 DEF Kept, Table, StreamInv, TableOK

LEMMA OthersKeep ==
  ASSUME StreamInv, Others
  PROVE  Kept
<1> DEFINE r == jobs[Watched]
           s == jobs'[Watched]
<1>1. IInv /\ Watched \in Job /\ [Next]_vars
  BY StreamAssumption DEF StreamInv, Others
<1>2. /\ IInv' /\ RowMove(r, s) /\ LogMove(r, s)
      /\ r \in Row
  BY <1>1, BoxNextStep, LogsStep DEF EveryRowMoves, EveryLogMoves, IInv, TypeOK
<1>3. s.log \in {r.log, {}}
  BY DEF Others
<1>4. ~Exists(r) => r.log = {}
  BY DEF StreamInv, TableOK, Table
<1>5. r.status \in Status
  BY <1>2 DEF Row
<1> HIDE DEF r, s
<1>6. /\ s.status = "absent" => r.status = "absent"
      /\ Exists(s) => Exists(r) \/ r.status = "absent"
      /\ Exists(r) /\ ~Exists(s) => s = Pruned(r)
  <2>1. CASE s = r \/ s = ReapRow(r) \/ s = Older(r)
    BY <1>2, <1>5, <2>1 DEF ReapRow, Older, Exists, Status, Active, Terminal, Row
  <2>2. CASE r.status = "absent" /\ s.status = "queued"
    BY <2>2 DEF Exists
  <2>3. CASE r.status = "queued" /\ s = [r EXCEPT !.status = "cancelled"]
    BY <1>2, <2>3 DEF Exists, Row
  <2>4. CASE r.status = "queued" /\ s.status = "running"
    BY <2>4 DEF Exists
  <2>5. CASE r.status = "running" /\ s = [r EXCEPT !.status = "cancel_requested"]
    BY <1>2, <2>5 DEF Exists, Row
  <2>6. CASE r.status \in Active /\ s.status \in Active \cup FinalStatus
    BY <2>6 DEF Exists, Active, FinalStatus
  <2>7. CASE r.status \in Terminal /\ s = Pruned(r)
    BY <1>2, <2>7 DEF Exists, Terminal, Pruned, NoRow
  <2> QED BY <1>2, <2>1, <2>2, <2>3, <2>4, <2>5, <2>6, <2>7 DEF RowMove
<1>7. Exists(s) => s.log = r.log
  <2>1. CASE Exists(s) /\ Exists(r)
    <3>1. ASSUME NEW c, \A d \in r.log : d.seq # c.seq, s.log = r.log \cup {c}
          PROVE  FALSE
      BY <1>3, <3>1
    <3> QED BY <1>2, <2>1, <3>1 DEF LogMove
  <2> QED BY <1>3, <1>4, <2>1
<1>8. ~Exists(s) => s.log = {}
  BY <1>3, <1>4, <1>6 DEF Pruned, NoRow
<1> QED BY <1>2, <1>6, <1>7, <1>8 DEF Kept, Table, r, s

\* What the server makes of a request.
LEMMA DeliverTable ==
  ASSUME StreamInv, NEW m \in net, AppendLog(Watched, jobs[Watched].lease, m.seq, m.text)
  PROVE  /\ IInv' /\ Exists(jobs[Watched]) /\ Exists(jobs'[Watched])
         /\ jobs'[Watched].status # "absent"
         /\ m \in Table'
         /\ \/ Table' = Table
            \/ /\ m = Current /\ pending # {} /\ sequence \in Nat
               /\ Table' = Table \cup {Current}
               /\ \A c \in Table : c.seq < sequence
<1> DEFINE r == jobs[Watched]
           s == jobs'[Watched]
<1>1. /\ IInv /\ Watched \in Job /\ m \in Chunk
      /\ m.seq \in LogSeq /\ m.text \in Text /\ m = [seq |-> m.seq, text |-> m.text]
  BY StreamAssumption DEF StreamInv, StreamTypeOK, Chunk
<1>2. r.lease \in 0 .. issued /\ issued \in Nat
  BY <1>1 DEF IInv, TypeOK
<1>3. IInv'
  BY <1>1, <1>2, AppendLogStep
<1>4. /\ db[Watched].status \in Active /\ db[Watched] = r
      /\ db \in [Job -> Row]
  BY <1>1, DbFacts, DbRow DEF AppendLog, Owned, Active
<1>5. CASE m \in r.log /\ jobs' = db
  BY <1>3, <1>4, <1>5 DEF Exists, Active, Table
<1>6. CASE /\ \A c \in r.log : c.seq # m.seq
           /\ jobs' = [db EXCEPT ![Watched].log = @ \cup {m}, ![Watched].log_bytes = @ + Bytes[m.text]]
  <2>1. s = [r EXCEPT !.log = @ \cup {m}, !.log_bytes = @ + Bytes[m.text]] /\ r \in Row
    BY <1>1, <1>4, <1>6
  <2>2. s.log = r.log \cup {m} /\ s.status = r.status
    BY <2>1 DEF Row
  <2>3. Exists(r) /\ Exists(s) /\ s.status # "absent"
    BY <1>4, <2>2 DEF Exists, Active
  <2>4. sequence \in Nat /\ m.seq <= sequence /\ m.seq \in Nat
    BY <1>1, StreamAssumption DEF StreamInv, StreamTypeOK, NetOK
  <2>5. ~(m.seq < sequence)
    <3>1. ASSUME m.seq < sequence PROVE m.seq \in 0 .. sequence - 1
      BY <2>4, <3>1
    <3> QED BY <1>6, <2>3, <3>1 DEF StreamInv, TableOK, Table
  <2>6. m.seq = sequence
    BY <2>4, <2>5
  <2>7. m = Current /\ pending # {}
    BY <2>6 DEF StreamInv, NetOK
  <2>8. ASSUME NEW c \in Table PROVE c.seq < sequence
    <3>1. c.seq <= sequence /\ c.seq # sequence /\ c.seq \in Nat
      BY <1>6, <2>6, StreamAssumption DEF Table, StreamInv, TableOK, StoredOK, Chunk
    <3> QED BY <2>4, <3>1
  <2> QED BY <1>3, <2>2, <2>3, <2>4, <2>7, <2>8 DEF Table
<1> QED BY <1>1, <1>4, <1>5, <1>6 DEF AppendLog

-----------------------------------------------------------------------------
(* Steps. *)

\* A step of the store that the stream does not see.
LEMMA KeptStep ==
  ASSUME StreamInv, Kept, UNCHANGED <<wvars, net, page, after, printed>>
  PROVE  StreamInv'
<1>1. /\ emitted' = emitted /\ events' = events /\ pending' = pending /\ sequence' = sequence
      /\ net' = net /\ page' = page /\ after' = after /\ printed' = printed
  BY DEF wvars
<1>2. StreamTypeOK' /\ QueueOK' /\ NetOK'
  BY <1>1 DEF StreamInv, StreamTypeOK, QueueOK, NetOK, Current, Before
<1>3. TableOK'
  <2>1. CASE Exists(jobs'[Watched])
    <3>1. Table' = Table
      BY <2>1 DEF Kept
    <3>2. (Table \in SUBSET Chunk /\ IsFiniteSet(Table) /\ StoredOK(Table, sequence, pending))'
      BY <1>1, <3>1 DEF StreamInv, TableOK, StoredOK, Before
    <3>3. \A n \in 0 .. sequence - 1 : \E c \in Table : c.seq = n
      BY <2>1 DEF StreamInv, TableOK, FreshOK, Kept
    <3> QED BY <1>1, <2>1, <3>1, <3>2, <3>3 DEF TableOK
  <2>2. CASE ~Exists(jobs'[Watched])
    <3>1. Table' = {}
      BY <2>2 DEF Kept
    <3> QED BY <1>1, <2>2, <3>1, FS_EmptySet DEF TableOK, StoredOK
  <2> QED BY <2>1, <2>2
<1>4. FreshOK'
  BY <1>1 DEF StreamInv, FreshOK, Kept
<1>5. ReaderOK'
  <2>1. CASE Exists(jobs[Watched]) \/ ~Exists(jobs'[Watched])
    BY <1>1, <2>1 DEF StreamInv, ReaderOK, Kept, Before
  <2>2. CASE Exists(jobs'[Watched]) /\ ~Exists(jobs[Watched])
    <3>1. Table' = {} /\ after = -1 /\ printed = <<>> /\ page = {}
      BY <2>2 DEF Kept, StreamInv, TableOK, FreshOK
    <3> QED BY <1>1, <3>1 DEF ReaderOK
  <2> QED BY <2>1, <2>2
<1> QED BY <1>2, <1>3, <1>4, <1>5 DEF StreamInv, Kept

\* A step of the worker that leaves the store and the reader alone.
LEMMA StoreSame ==
  ASSUME StreamInv, UNCHANGED <<vars, fvars>>
  PROVE  /\ IInv' /\ ReaderOK' /\ Table' = Table
         /\ page' = page /\ after' = after /\ printed' = printed
         /\ Exists(jobs'[Watched]) <=> Exists(jobs[Watched])
         /\ jobs'[Watched].status = jobs[Watched].status
<1>1. jobs' = jobs /\ page' = page /\ after' = after /\ printed' = printed
  BY DEF vars, fvars
<1>2. IInv'
  BY StutterStep DEF StreamInv
<1>3. Table' = Table
  BY <1>1 DEF Table
<1>4. ReaderOK'
  BY <1>1, <1>3 DEF StreamInv, ReaderOK, Before
<1> QED BY <1>1, <1>2, <1>3, <1>4

LEMMA EmitStep ==
  ASSUME StreamInv, Emit
  PROVE  StreamInv'
<1> DEFINE x == emitted + 1
<1>1. /\ emitted' = x /\ emitted \in Nat /\ emitted < MaxEvents /\ MaxEvents \in Nat
      /\ pending' = pending /\ sequence' = sequence /\ net' = net
      /\ UNCHANGED <<vars, fvars>>
  BY StreamAssumption DEF Emit, StreamInv, StreamTypeOK
<1>2. /\ events \in Seq(1 .. x) /\ x \in 1 .. x
      /\ \A e \in Range(events) : e \in Int /\ e < x
      /\ \A i \in DOMAIN events : events[i] \in Int /\ events[i] < x
  <2>1. events \in Seq(1 .. emitted)
    BY DEF StreamInv, StreamTypeOK
  <2>2. \A i \in DOMAIN events : events[i] \in 1 .. emitted
    BY <2>1, ElementOfSeq, LenProperties
  <2>3. 1 .. emitted \subseteq 1 .. x
    BY <1>1
  <2>4. events \in Seq(1 .. x)
    BY <2>1, <2>3, SeqMonotonic
  <2> QED BY <1>1, <2>2, <2>4 DEF Range
<1> HIDE DEF x
<1>3. /\ events' \in Seq(1 .. x) /\ Range(events') \subseteq Range(events) \cup {x}
      /\ \A i, j \in DOMAIN events' : i < j => events'[i] < events'[j]
  <2>1. CASE events' = events
    BY <1>2, <2>1 DEF StreamInv, QueueOK
  <2>2. CASE events' = Append(events, x)
    <3>1. /\ events' \in Seq(1 .. x) /\ Range(events') = Range(events) \cup {x}
          /\ DOMAIN events' = DOMAIN events \cup {Len(events) + 1}
          /\ \A i \in DOMAIN events :
               /\ events'[i] = events[i]
               /\ i # Len(events) + 1 /\ i < Len(events) + 1 /\ i \in Int
          /\ events'[Len(events) + 1] = x /\ Len(events) \in Nat
      BY <1>2, <2>2, RangeAppend
    <3>2. ASSUME NEW i \in DOMAIN events', NEW j \in DOMAIN events', i < j
          PROVE  events'[i] < events'[j]
      <4>1. CASE i \in DOMAIN events /\ j \in DOMAIN events
        BY <3>1, <3>2, <4>1 DEF StreamInv, QueueOK
      <4>2. CASE i \in DOMAIN events /\ j = Len(events) + 1
        BY <1>2, <3>1, <4>2
      <4>3. i # Len(events) + 1
        <5>1. SUFFICES ASSUME i = Len(events) + 1 PROVE FALSE
          OBVIOUS
        <5>2. j \in Int /\ j <= Len(events) + 1
          BY <3>1
        <5> QED BY <3>1, <3>2, <5>1, <5>2
      <4> QED BY <3>1, <4>1, <4>2, <4>3
    <3> QED BY <3>1, <3>2
  <2> QED BY <2>1, <2>2 DEF Emit, x
<1>4. /\ pending \in SUBSET (1 .. emitted) /\ sequence \in Nat /\ sequence <= emitted
      /\ \A c \in Table : c.text \in SUBSET (1 .. emitted)
  BY DEF StreamInv, StreamTypeOK, QueueOK, TableOK, StoredOK
<1>5. /\ sequence < x /\ sequence <= x /\ x \in 0 .. MaxEvents /\ 1 .. emitted \subseteq 1 .. x
      /\ \A e \in 1 .. emitted : e < x
  BY <1>1, <1>4 DEF x
<1>6. StreamTypeOK'
  BY <1>1, <1>3, <1>4, <1>5 DEF StreamInv, StreamTypeOK, fvars
<1>7. QueueOK'
  BY <1>1, <1>3, <1>4, <1>5 DEF StreamInv, QueueOK, Before
<1>8. NetOK'
  BY <1>1 DEF StreamInv, NetOK, Current
<1>9. TableOK'
  <2>1. \A c \in Table : Before(c.text, Range(events)) => Before(c.text, Range(events'))
    BY <1>3, <1>4, <1>5 DEF Before
  <2>2. StoredOK(Table, sequence, pending)
    BY DEF StreamInv, TableOK
  <2>3. StoredOK(Table, sequence, pending)'
    BY <1>1, <1>4, <1>5, <2>1, <2>2, StoreSame DEF StoredOK, Before
  <2> QED BY <1>1, <2>3, StoreSame DEF StreamInv, TableOK
<1>10. FreshOK'
  BY <1>1, StoreSame DEF StreamInv, FreshOK
<1> QED BY <1>1, <1>6, <1>7, <1>8, <1>9, <1>10, StoreSame DEF StreamInv

LEMMA CollectStep ==
  ASSUME StreamInv, Collect
  PROVE  StreamInv'
<1>1. /\ emitted' = emitted /\ sequence' = sequence /\ net' = net /\ pending = {}
      /\ UNCHANGED <<vars, fvars>>
  BY DEF Collect
<1>2. PICK n \in 1 .. Len(events) : /\ pending' = {events[i] : i \in 1 .. n}
                                    /\ events' = SubSeq(events, n + 1, Len(events))
  BY DEF Collect
<1>3. events \in Seq(1 .. emitted)
  BY DEF StreamInv, StreamTypeOK
<1>4. Len(events) \in Nat
  BY <1>3, LenProperties
<1>5. /\ events' \in Seq(1 .. emitted) /\ DOMAIN events' = 1 .. Len(events) - n
      /\ \A i \in DOMAIN events' : i + n \in DOMAIN events /\ events'[i] = events[i + n]
      /\ pending' \subseteq Range(events) /\ Range(events') \subseteq Range(events)
      /\ Range(events) \subseteq 1 .. emitted
  <2> DEFINE S == 1 .. emitted
             k == Len(events)
  <2>1. /\ events \in Seq(S) /\ k \in Nat /\ k = Len(events) /\ n \in 1 .. k
        /\ events' = SubSeq(events, n + 1, k)
    BY <1>2, <1>3, <1>4
  <2> HIDE DEF S, k
  <2>2. /\ events' \in Seq(S) /\ DOMAIN events' = 1 .. k - n
        /\ \A i \in DOMAIN events' : i + n \in DOMAIN events /\ events'[i] = events[i + n]
    BY <2>1, WithoutFirst
  <2>3. Range(events') \subseteq Range(events)
    BY <2>2 DEF Range
  <2>4. Range(events) \subseteq S
    BY <2>1, RangeOfSeq
  <2>5. \A i \in 1 .. n : i \in DOMAIN events
    BY <2>1, LenProperties
  <2>6. pending' \subseteq Range(events)
    BY <1>2, <2>5 DEF Range
  <2> QED BY <2>2, <2>3, <2>4, <2>6 DEF S, k
<1>6. DOMAIN events = 1 .. Len(events) /\ Len(events) \in Nat /\ n \in Nat
  BY <1>3, LenProperties
<1>7. \A i, j \in DOMAIN events' : i < j => events'[i] < events'[j]
  <2>1. ASSUME NEW i \in DOMAIN events', NEW j \in DOMAIN events', i < j
        PROVE  events'[i] < events'[j]
    <3>1. i + n < j + n
      BY <1>5, <1>6, <2>1
    <3> QED BY <1>5, <3>1 DEF StreamInv, QueueOK
  <2> QED BY <2>1
<1>8. Before(pending', Range(events'))
  <2>1. ASSUME NEW i \in 1 .. n, NEW j \in DOMAIN events'
        PROVE  events[i] < events'[j]
    <3>1. i \in DOMAIN events /\ i < j + n
      BY <1>5, <1>6
    <3> QED BY <1>5, <3>1 DEF StreamInv, QueueOK
  <2> QED BY <1>2, <2>1 DEF Before, Range
<1>9. StreamTypeOK'
  BY <1>1, <1>5 DEF StreamInv, StreamTypeOK, fvars
<1>10. QueueOK'
  BY <1>1, <1>5, <1>7, <1>8 DEF StreamInv, QueueOK, Before
<1>11. NetOK'
  BY <1>1 DEF StreamInv, NetOK, Current
<1>12. TableOK'
  <2>1. StoredOK(Table, sequence, {})
    BY <1>1 DEF StreamInv, TableOK
  <2>2. StoredOK(Table, sequence, pending)'
    BY <1>1, <1>5, <2>1, StoreSame DEF StoredOK, Before
  <2> QED BY <1>1, <2>2, StoreSame DEF StreamInv, TableOK
<1>13. FreshOK'
  BY <1>1, StoreSame DEF StreamInv, FreshOK
<1> QED BY <1>1, <1>9, <1>10, <1>11, <1>12, <1>13, StoreSame DEF StreamInv

LEMMA SendStep ==
  ASSUME StreamInv, Send
  PROVE  StreamInv'
<1>1. /\ UNCHANGED <<vars, fvars>> /\ pending # {} /\ net' = net \cup {Current}
      /\ emitted' = emitted /\ events' = events /\ pending' = pending /\ sequence' = sequence
  BY DEF Send, wvars
<1>2. Current \in Chunk /\ Current.seq = sequence
  <2>1. PICK e \in pending : e \in 1 .. emitted /\ sequence < e
    BY <1>1 DEF StreamInv, StreamTypeOK, QueueOK
  <2>2. sequence \in Nat /\ emitted \in 0 .. MaxEvents /\ MaxEvents \in Nat /\ pending \in SUBSET (1 .. emitted)
    BY StreamAssumption DEF StreamInv, StreamTypeOK
  <2>3. sequence \in LogSeq
    BY <2>1, <2>2, StreamAssumption
  <2>4. pending \in Text
    BY <1>1, <2>2, StreamAssumption
  <2> QED BY <2>3, <2>4 DEF Current, Chunk
<1>3. StreamTypeOK'
  BY <1>1, <1>2 DEF StreamInv, StreamTypeOK, fvars
<1>4. NetOK'
  <2>1. Current' = Current
    BY <1>1 DEF Current
  <2>2. sequence <= sequence
    BY DEF StreamInv, StreamTypeOK
  <2> QED BY <1>1, <1>2, <2>1, <2>2 DEF StreamInv, NetOK
<1>5. QueueOK' /\ TableOK' /\ FreshOK'
  BY <1>1, StoreSame DEF StreamInv, QueueOK, TableOK, StoredOK, FreshOK, Before
<1> QED BY <1>1, <1>3, <1>4, <1>5, StoreSame DEF StreamInv

\* What the new table keeps for the reader: what is new is behind all he has.
LEMMA ReaderKeeps ==
  ASSUME StreamInv, UNCHANGED <<page, after, printed>>, Exists(jobs[Watched]),
         \/ Table' = Table
         \/ Table' = Table \cup {Current} /\ sequence \in Nat /\ \A c \in Table : c.seq < sequence
  PROVE  ReaderOK'
<1>1. page' = page /\ after' = after /\ printed' = printed
  OBVIOUS
<1>2. CASE Table' = Table
  BY <1>1, <1>2 DEF StreamInv, ReaderOK, Before
<1>3. CASE Table' = Table \cup {Current} /\ sequence \in Nat /\ \A c \in Table : c.seq < sequence
  <2>1. Current.seq = sequence /\ after \in Int
    BY DEF Current, StreamInv, StreamTypeOK
  <2>2. \A c \in Table : c.seq \in Nat
    BY StreamAssumption DEF StreamInv, TableOK, Chunk
  <2>3. /\ page \in SUBSET Table
        /\ \A c \in page, d \in Table : after < d.seq /\ d.seq < c.seq => d \in page
        /\ after = -1 \/ \E c \in Table : c.seq = after
        /\ \A i \in DOMAIN printed : \E c \in Table : c.seq <= after /\ c.text = printed[i]
        /\ \A c \in Table : c.seq <= after => \E i \in DOMAIN printed : printed[i] = c.text
    BY DEF StreamInv, ReaderOK
  <2>4. after < sequence
    BY <1>3, <2>1, <2>3
  <2>5. ~(sequence <= after)
    BY <1>3, <2>1, <2>4
  <2>6. ASSUME NEW c \in page, NEW d \in Table', after < d.seq, d.seq < c.seq
        PROVE  d \in page
    <3>1. c \in Table /\ c.seq < sequence /\ c.seq \in Nat
      BY <1>3, <2>2, <2>3
    <3>2. d # Current
      BY <1>3, <2>1, <2>6, <3>1
    <3> QED BY <1>3, <2>3, <2>6, <3>2
  <2>7. \A c \in Table' : c.seq <= after => \E i \in DOMAIN printed : printed[i] = c.text
    BY <1>3, <2>1, <2>3, <2>5
  <2> QED BY <1>1, <1>3, <2>3, <2>6, <2>7 DEF StreamInv, ReaderOK, Before
<1> QED BY <1>2, <1>3

LEMMA DeliverStep ==
  ASSUME StreamInv, Deliver
  PROVE  StreamInv'
<1>1. PICK m \in net : /\ AppendLog(Watched, jobs[Watched].lease, m.seq, m.text)
                       /\ net' \in {net, net \ {m}}
                       /\ \/ UNCHANGED <<pending, sequence>>
                          \/ m = Current /\ Acknowledged
                       /\ UNCHANGED <<emitted, events, fvars>>
  BY DEF Deliver
<1>2. /\ emitted' = emitted /\ events' = events /\ net' \subseteq net
      /\ page' = page /\ after' = after /\ printed' = printed
  BY <1>1 DEF fvars
<1>3. /\ IInv' /\ Exists(jobs[Watched]) /\ Exists(jobs'[Watched])
      /\ jobs'[Watched].status # "absent"
      /\ m \in Table'
      /\ \/ Table' = Table
         \/ /\ m = Current /\ pending # {} /\ sequence \in Nat
            /\ Table' = Table \cup {Current}
            /\ \A c \in Table : c.seq < sequence
  BY <1>1, DeliverTable
<1>4. ReaderOK'
  BY <1>2, <1>3, ReaderKeeps
<1>5. FreshOK'
  BY <1>3 DEF FreshOK
<1>6. m \in Chunk /\ (m = Current => Current \in Chunk)
  BY DEF StreamInv, StreamTypeOK
<1>7. Table' \in SUBSET Chunk /\ IsFiniteSet(Table')
  BY <1>3, <1>6, FS_AddElement DEF StreamInv, TableOK
<1>8. /\ sequence \in Nat /\ emitted \in Nat /\ pending \in SUBSET (1 .. emitted) /\ sequence <= emitted
      /\ \A c \in Table : c.seq \in Nat
      /\ \A q \in net : q.seq \in Nat
  BY StreamAssumption DEF StreamInv, StreamTypeOK, QueueOK, TableOK, Chunk
<1>9. /\ StoredOK(Table', sequence, pending)
      /\ \A n \in 0 .. sequence - 1 : \E c \in Table' : c.seq = n
  <2>1. /\ StoredOK(Table, sequence, pending)
        /\ \A n \in 0 .. sequence - 1 : \E c \in Table : c.seq = n
    BY <1>3 DEF StreamInv, TableOK
  <2>2. CASE Table' = Table
    BY <2>1, <2>2
  <2>3. CASE /\ Table' = Table \cup {Current} /\ pending # {}
             /\ \A c \in Table : c.seq < sequence
    <3>1. Current = [seq |-> sequence, text |-> pending] /\ Current.seq = sequence /\ Current.text = pending
      BY DEF Current
    <3>2. /\ sequence <= sequence /\ ~(sequence < sequence)
          /\ \A c \in Table : ~(sequence < c.seq) /\ c.seq # sequence
      BY <1>8, <2>3
    <3>3. \A c \in Table' : /\ c.seq <= sequence
                            /\ c.seq = sequence => pending # {} /\ c = [seq |-> sequence, text |-> pending]
                            /\ c.seq < sequence => Before(c.text, pending) /\ Before(c.text, Range(events))
                            /\ c.text \in SUBSET (1 .. emitted)
      BY <1>8, <2>1, <2>3, <3>1, <3>2 DEF StoredOK
    <3>4. \A c, d \in Table' : /\ c.seq = d.seq => c = d
                               /\ c.seq < d.seq => Before(c.text, d.text)
      BY <2>1, <2>3, <3>1, <3>2 DEF StoredOK
    <3>5. StoredOK(Table', sequence, pending)
      BY <3>3, <3>4 DEF StoredOK
    <3> QED BY <2>1, <2>3, <3>5
  <2> QED BY <1>3, <2>2, <2>3
<1>10. CASE UNCHANGED <<pending, sequence>>
  <2>1. StreamTypeOK' /\ QueueOK' /\ NetOK'
    BY <1>2, <1>10 DEF StreamInv, StreamTypeOK, QueueOK, NetOK, Current, Before
  <2>2. StoredOK(Table, sequence, pending)'
    BY <1>2, <1>9, <1>10 DEF StoredOK, Before
  <2>3. TableOK'
    BY <1>3, <1>7, <1>9, <1>10, <2>2 DEF TableOK
  <2> QED BY <1>3, <1>4, <1>5, <2>1, <2>3 DEF StreamInv
<1>11. CASE m = Current /\ Acknowledged
  <2>1. sequence' = sequence + 1 /\ pending' = {}
    BY <1>11 DEF Acknowledged
  <2>2. PICK p \in pending : p \in 1 .. emitted /\ sequence < p
    <3>1. m.seq = sequence
      BY <1>11 DEF Current
    <3> QED BY <1>8, <3>1 DEF StreamInv, NetOK, QueueOK
  <2>3. Range(events) \subseteq 1 .. emitted
    BY RangeOfSeq DEF StreamInv, StreamTypeOK
  <2>4. StreamTypeOK'
    BY <1>2, <1>8, <2>1 DEF StreamInv, StreamTypeOK
  <2>5. QueueOK'
    <3>1. sequence + 1 <= emitted
      BY <1>8, <2>2
    <3>2. ASSUME NEW e \in Range(events) PROVE sequence + 1 < e
      <4>1. p < e
        BY DEF StreamInv, QueueOK, Before
      <4> QED BY <1>8, <2>2, <2>3, <4>1
    <3> QED BY <1>2, <2>1, <3>1, <3>2 DEF StreamInv, QueueOK, Before
  <2>6. NetOK'
    <3>1. ASSUME NEW q \in net
          PROVE  q.seq <= sequence + 1 /\ q.seq # sequence + 1
      <4>1. q.seq <= sequence
        BY DEF StreamInv, NetOK
      <4> QED BY <1>8, <4>1
    <3> QED BY <1>2, <2>1, <3>1 DEF NetOK
  <2>7. TableOK'
    <3>1. \A c \in Table' : c.seq \in Nat
      BY <1>7, StreamAssumption DEF Chunk
    <3>2. ASSUME NEW c \in Table'
          PROVE  /\ c.seq <= sequence + 1 /\ c.seq # sequence + 1
                 /\ Before(c.text, {}) /\ Before(c.text, Range(events))
                 /\ c.text \in SUBSET (1 .. emitted)
      <4>1. c.seq <= sequence
        BY <1>9 DEF StoredOK
      <4>2. CASE c.seq < sequence
        BY <1>8, <1>9, <3>1, <4>1, <4>2 DEF StoredOK, Before
      <4>3. CASE c.seq = sequence
        <5>1. c.text = pending
          BY <1>9, <4>3 DEF StoredOK
        <5>2. Before(c.text, {}) /\ Before(c.text, Range(events)) /\ c.text \in SUBSET (1 .. emitted)
          BY <1>8, <5>1 DEF StreamInv, QueueOK, Before
        <5> QED BY <1>8, <4>3, <5>2
      <4> QED BY <1>8, <3>1, <4>1, <4>2, <4>3
    <3>3. StoredOK(Table, sequence, pending)'
      BY <1>2, <1>9, <2>1, <3>2 DEF StoredOK, Before
    <3>4. ASSUME NEW n \in 0 .. sequence + 1 - 1
          PROVE  \E c \in Table' : c.seq = n
      <4>1. n \in 0 .. sequence - 1 \/ n = sequence
        BY <1>8
      <4>2. m.seq = sequence
        BY <1>11 DEF Current
      <4> QED BY <1>3, <1>9, <4>1, <4>2
    <3>5. ASSUME NEW n \in 0 .. sequence' - 1
          PROVE  \E c \in Table' : c.seq = n
      <4>1. n \in 0 .. sequence + 1 - 1
        BY <1>8, <2>1
      <4> QED BY <3>4, <4>1
    <3> QED BY <1>3, <1>7, <3>3, <3>5 DEF TableOK
  <2> QED BY <1>3, <1>4, <1>5, <2>4, <2>5, <2>6, <2>7 DEF StreamInv
<1> QED BY <1>1, <1>10, <1>11
\* What a page holds: the records that come next.
LEMMA PageFacts ==
  ASSUME StreamInv
  PROVE  /\ Page \in SUBSET Table
         /\ \A c \in Page : after < c.seq
         /\ \A c \in Page, d \in Table : after < d.seq /\ d.seq < c.seq => d \in Page
<1>1. Page \in SUBSET Table /\ Rest \in SUBSET Table /\ \A c \in Page : after < c.seq
  <2>1. /\ after \in Int
        /\ \A c \in Table : c.seq \in Int
    BY StreamAssumption DEF StreamInv, StreamTypeOK, TableOK, Chunk
  <2> QED BY <2>1 DEF Page, Rest, Table
<1>2. IsFiniteSet(Rest) /\ \A c \in Table : c.seq \in Nat
  BY <1>1, FS_Subset, StreamAssumption DEF StreamInv, TableOK, Chunk
<1>3. ASSUME NEW c \in Page, NEW d \in Table, after < d.seq, d.seq < c.seq
      PROVE  d \in Page
  <2> DEFINE C == {e \in Rest : e.seq < c.seq}
             D == {e \in Rest : e.seq < d.seq}
  <2>1. d \in Rest /\ c \in Rest /\ Cardinality(C) < PageSize
    BY <1>3, <1>2, StreamAssumption DEF Page, Rest, Table, StreamInv, StreamTypeOK
  <2>2. IsFiniteSet(C) /\ C \in SUBSET Rest
    BY <1>2, FS_Subset
  <2>3. D \in SUBSET C
    <3>1. ASSUME NEW e \in Rest, e.seq < d.seq PROVE e.seq < c.seq
      <4>1. e.seq \in Nat /\ d.seq \in Nat /\ c.seq \in Nat
        BY <1>1, <1>2
      <4> QED BY <1>3, <3>1, <4>1
    <3> QED BY <3>1
  <2>4. /\ Cardinality(D) \in Nat /\ Cardinality(C) \in Nat /\ Cardinality(D) <= Cardinality(C)
    BY <2>2, <2>3, FS_Subset, FS_CardinalityType
  <2>5. Cardinality(D) < PageSize
    BY <2>1, <2>4, StreamAssumption
  <2> QED BY <2>1, <2>5 DEF Page
<1> QED BY <1>1, <1>3

LEMMA FetchPageStep ==
  ASSUME StreamInv, FetchPage
  PROVE  StreamInv'
<1>1. /\ Read /\ Exists(db[Watched]) /\ page' = Page
      /\ emitted' = emitted /\ events' = events /\ pending' = pending /\ sequence' = sequence
      /\ net' = net /\ after' = after /\ printed' = printed
  BY DEF FetchPage, wvars
<1>2. /\ IInv' /\ Table' = Table /\ Exists(jobs'[Watched]) /\ Exists(jobs[Watched])
      /\ jobs'[Watched].status # "absent"
  <2>1. Kept /\ Table' = Table /\ (Exists(jobs'[Watched]) <=> Exists(jobs[Watched]))
    BY <1>1, ReadKeeps
  <2>2. jobs'[Watched] = db[Watched]
    BY <1>1, StreamAssumption DEF Read
  <2> QED BY <1>1, <2>1, <2>2 DEF Kept, Exists
<1>3. /\ Page \in SUBSET Table
      /\ \A c \in Page : after < c.seq
      /\ \A c \in Page, d \in Table : after < d.seq /\ d.seq < c.seq => d \in Page
  BY PageFacts
<1>4. StreamTypeOK' /\ QueueOK' /\ NetOK'
  <2>1. Page \in SUBSET Chunk
    BY <1>3 DEF StreamInv, TableOK
  <2> QED BY <1>1, <2>1 DEF StreamInv, StreamTypeOK, QueueOK, NetOK, Current, Before
<1>5. TableOK'
  <2>1. StoredOK(Table, sequence, pending)'
    BY <1>1, <1>2 DEF StreamInv, TableOK, StoredOK, Before
  <2> QED BY <1>1, <1>2, <2>1 DEF StreamInv, TableOK
<1>6. FreshOK'
  BY <1>2 DEF FreshOK
<1>7. ReaderOK'
  <2>1. /\ after = -1 \/ \E c \in Table : c.seq = after
        /\ \A i \in DOMAIN printed : \E c \in Table : c.seq <= after /\ c.text = printed[i]
        /\ \A c \in Table : c.seq <= after => \E i \in DOMAIN printed : printed[i] = c.text
        /\ \A i, j \in DOMAIN printed : i < j => Before(printed[i], printed[j])
    BY <1>2 DEF StreamInv, ReaderOK
  <2>2. \A c, d \in Table : /\ c.seq = d.seq => c = d
                            /\ c.seq < d.seq => Before(c.text, d.text)
    BY DEF StreamInv, TableOK, StoredOK
  <2>3. ASSUME NEW c \in Page, NEW i \in DOMAIN printed
        PROVE  Before(printed[i], c.text)
    <3>1. PICK d \in Table : d.seq <= after /\ d.text = printed[i]
      BY <2>1
    <3>2. d.seq < c.seq
      <4>1. d.seq \in Nat /\ c.seq \in Nat /\ after \in Int /\ after < c.seq
        BY <1>3, StreamAssumption DEF StreamInv, StreamTypeOK, TableOK, Chunk
      <4> QED BY <3>1, <4>1
    <3> QED BY <1>3, <2>2, <3>1, <3>2
  <2> QED BY <1>1, <1>2, <1>3, <2>1, <2>2, <2>3 DEF ReaderOK, Before
<1> QED BY <1>2, <1>4, <1>5, <1>6, <1>7 DEF StreamInv

LEMMA PrintRecordStep ==
  ASSUME StreamInv, PrintRecord
  PROVE  StreamInv'
<1>1. PICK c \in page : /\ \A d \in page : c.seq <= d.seq
                        /\ printed' = Append(printed, c.text)
                        /\ after' = c.seq
                        /\ page' = page \ {c}
  BY DEF PrintRecord
<1>2. /\ UNCHANGED vars /\ jobs' = jobs
      /\ emitted' = emitted /\ events' = events /\ pending' = pending /\ sequence' = sequence
      /\ net' = net
  BY DEF PrintRecord, vars, wvars
<1>3. IInv' /\ Table' = Table
  BY <1>2, StutterStep DEF StreamInv, Table
<1>4. /\ c \in Chunk /\ c.text \in Text /\ c.seq \in Nat /\ after \in Int /\ after < c.seq
      /\ printed \in Seq(Text)
      /\ \A d \in page : d.seq \in Nat
      /\ \A d \in Table : d.seq \in Nat
  BY StreamAssumption DEF StreamInv, StreamTypeOK, ReaderOK, TableOK, Chunk
<1>5. /\ printed' \in Seq(Text)
      /\ DOMAIN printed' = DOMAIN printed \cup {Len(printed) + 1}
      /\ \A i \in DOMAIN printed :
           /\ printed'[i] = printed[i]
           /\ i # Len(printed) + 1 /\ i < Len(printed) + 1
      /\ printed'[Len(printed) + 1] = c.text
  BY <1>1, <1>4, RangeAppend
<1>6. StreamTypeOK' /\ QueueOK' /\ NetOK'
  BY <1>1, <1>2, <1>4, <1>5 DEF StreamInv, StreamTypeOK, QueueOK, NetOK, Current, Before
<1>7. TableOK'
  BY <1>2, <1>3 DEF StreamInv, TableOK, StoredOK, Before
<1>8. FreshOK'
  BY <1>1, <1>2 DEF StreamInv, FreshOK
<1>9. /\ \A d \in page : after < d.seq
      /\ \A d \in page, i \in DOMAIN printed : Before(printed[i], d.text)
      /\ \A d, e \in page : /\ d.seq = e.seq => d = e
                            /\ d.seq < e.seq => Before(d.text, e.text)
      /\ \A i, j \in DOMAIN printed : i < j => Before(printed[i], printed[j])
  BY DEF StreamInv, ReaderOK
<1>10. \A d \in page' : c.seq < d.seq
  <2>1. ASSUME NEW d \in page, d # c
        PROVE  c.seq < d.seq
    <3>1. c.seq <= d.seq /\ c.seq # d.seq
      BY <1>1, <1>9, <2>1
    <3> QED BY <1>4, <3>1
  <2> QED BY <1>1, <2>1
<1>11. \A d \in page', i \in DOMAIN printed' : Before(printed'[i], d.text)
  BY <1>1, <1>5, <1>9, <1>10
<1>12. ASSUME NEW i \in DOMAIN printed', NEW j \in DOMAIN printed', i < j
       PROVE  Before(printed'[i], printed'[j])
  <2>1. CASE i \in DOMAIN printed
    BY <1>5, <1>9, <1>12, <2>1
  <2>2. i # Len(printed) + 1
    <3>1. Len(printed) \in Nat /\ DOMAIN printed = 1 .. Len(printed)
      BY <1>4, LenProperties
    <3>2. j \in Int /\ j <= Len(printed) + 1
      BY <1>5, <3>1
    <3> QED BY <1>12, <3>1, <3>2
  <2> QED BY <1>5, <2>1, <2>2
<1>13. ASSUME Exists(jobs'[Watched])
       PROVE  /\ page' \in SUBSET Table
              /\ \A e \in page', d \in Table : c.seq < d.seq /\ d.seq < e.seq => d \in page'
              /\ \E d \in Table : d.seq = c.seq
              /\ \A i \in DOMAIN printed' : \E d \in Table : d.seq <= c.seq /\ d.text = printed'[i]
              /\ \A d \in Table : d.seq <= c.seq => \E i \in DOMAIN printed' : printed'[i] = d.text
  <2>1. /\ page \in SUBSET Table /\ c \in Table
        /\ \A e \in page, d \in Table : after < d.seq /\ d.seq < e.seq => d \in page
        /\ \A i \in DOMAIN printed : \E d \in Table : d.seq <= after /\ d.text = printed[i]
        /\ \A d \in Table : d.seq <= after => \E i \in DOMAIN printed : printed[i] = d.text
    BY <1>2, <1>13 DEF StreamInv, ReaderOK
  <2>2. ASSUME NEW e \in page', NEW d \in Table, c.seq < d.seq, d.seq < e.seq
        PROVE  d \in page'
    <3>1. after < d.seq /\ d # c
      BY <1>4, <2>2
    <3> QED BY <1>1, <2>1, <2>2, <3>1
  <2>3. ASSUME NEW i \in DOMAIN printed'
        PROVE  \E d \in Table : d.seq <= c.seq /\ d.text = printed'[i]
    <3>1. CASE i \in DOMAIN printed
      <4>1. PICK d \in Table : d.seq <= after /\ d.text = printed[i]
        BY <2>1, <3>1
      <4>2. d.seq <= c.seq
        BY <1>4, <4>1
      <4> QED BY <1>5, <3>1, <4>1, <4>2
    <3>2. CASE i = Len(printed) + 1
      BY <1>4, <1>5, <2>1, <3>2
    <3> QED BY <1>5, <3>1, <3>2
  <2>4. ASSUME NEW d \in Table, d.seq <= c.seq
        PROVE  \E i \in DOMAIN printed' : printed'[i] = d.text
    <3>1. CASE d.seq <= after
      BY <1>5, <2>1, <3>1
    <3>2. CASE ~(d.seq <= after)
      <4>1. d.seq = c.seq
        <5>1. after < d.seq
          BY <1>4, <3>2
        <5>2. d.seq < c.seq => d \in page
          BY <2>1, <5>1
        <5>3. ~(d.seq < c.seq)
          BY <1>1, <1>4, <5>2
        <5> QED BY <1>4, <2>4, <5>3
      <4>2. d = c
        BY <2>1, <4>1 DEF StreamInv, TableOK, StoredOK
      <4> QED BY <1>5, <4>2
    <3> QED BY <3>1, <3>2
  <2> QED BY <1>1, <2>1, <2>2, <2>3, <2>4
<1>14. ReaderOK'
  <2>1. \A d, e \in page' : /\ d.seq = e.seq => d = e
                            /\ d.seq < e.seq => Before(d.text, e.text)
    BY <1>1, <1>9
  <2> QED BY <1>1, <1>3, <1>10, <1>11, <1>12, <1>13, <2>1 DEF ReaderOK, Before
<1> QED BY <1>3, <1>6, <1>7, <1>8, <1>14 DEF StreamInv

-----------------------------------------------------------------------------
(* Theorems. *)

LEMMA StreamInitInv == StreamInit => StreamInv
<1> SUFFICES ASSUME StreamInit PROVE StreamInv
  OBVIOUS
<1>1. /\ IInv /\ jobs[Watched] = NoRow
      /\ emitted = 0 /\ events = <<>> /\ pending = {} /\ sequence = 0 /\ net = {}
      /\ page = {} /\ after = -1 /\ printed = <<>>
  BY InitInv, StreamAssumption DEF StreamInit, Init
<1>2. Table = {} /\ ~Exists(jobs[Watched])
  BY <1>1 DEF Table, Exists, NoRow
<1>3. StreamTypeOK
  <2>1. events \in Seq(1 .. emitted) /\ printed \in Seq(Text)
    BY <1>1, EmptySeq
  <2>2. 0 \in 0 .. MaxEvents
    BY StreamAssumption
  <2> QED BY <1>1, <2>1, <2>2 DEF StreamTypeOK
<1>4. DOMAIN events = {} /\ Range(events) = {} /\ DOMAIN printed = {}
  BY <1>1 DEF Range
<1>5. QueueOK /\ NetOK
  BY <1>1, <1>4 DEF QueueOK, NetOK, Before
<1>6. TableOK
  BY <1>2, FS_EmptySet DEF TableOK, StoredOK
<1>7. FreshOK /\ ReaderOK
  BY <1>1, <1>2, <1>4 DEF FreshOK, ReaderOK
<1> QED BY <1>1, <1>3, <1>5, <1>6, <1>7 DEF StreamInv

LEMMA StreamStep == StreamInv /\ [StreamNext]_<<vars, lvars>> => StreamInv'
<1> SUFFICES ASSUME StreamInv, [StreamNext]_<<vars, lvars>> PROVE StreamInv'
  OBVIOUS
<1>1. CASE Others
  BY <1>1, OthersKeep, KeptStep DEF Others, lvars, fvars
<1>2. CASE ReadStatus
  BY <1>2, ReadKeeps, KeptStep DEF ReadStatus
<1>3. CASE ReadFails \/ UNCHANGED <<vars, lvars>>
  <2>1. UNCHANGED <<vars, wvars, net, page, after, printed>>
    BY <1>3 DEF ReadFails, lvars, fvars
  <2>2. Kept
    <3>1. jobs' = jobs
      BY <2>1 DEF vars
    <3> QED BY <2>1, <3>1, StutterStep DEF Kept, Table, StreamInv, TableOK
  <2> QED BY <2>1, <2>2, KeptStep
<1> QED BY <1>1, <1>2, <1>3, EmitStep, CollectStep, SendStep, DeliverStep, FetchPageStep,
           PrintRecordStep DEF StreamNext

\* StreamInv holds in every reachable state.
THEOREM StreamInductive == StreamSpec => []StreamInv
  BY StreamInitInv, StreamStep, PTL DEF StreamSpec

\* A reader sees the events of a live job in order, each once, and all that the
\* table has up to his cursor, for any number of events, any sizes of the queue and
\* of a page, and any loss, repetition or delay of the requests.
THEOREM PreviewInOrderHolds == StreamSpec => []PreviewInOrder
<1>1. StreamInv => PreviewInOrder
  <2> SUFFICES ASSUME StreamInv PROVE PreviewInOrder
    OBVIOUS
  <2>1. \A i, j \in DOMAIN printed : i < j => \A e \in printed[i], f \in printed[j] : e < f
    BY DEF StreamInv, ReaderOK, Before
  <2>2. ASSUME Exists(jobs[Watched])
        PROVE  Range(printed) = {c.text : c \in {d \in jobs[Watched].log : d.seq <= after}}
    <3>1. /\ \A i \in DOMAIN printed : \E c \in Table : c.seq <= after /\ c.text = printed[i]
          /\ \A c \in Table : c.seq <= after => \E i \in DOMAIN printed : printed[i] = c.text
      BY <2>2 DEF StreamInv, ReaderOK
    <3> QED BY <3>1 DEF Range, Table
  <2> QED BY <2>1, <2>2 DEF PreviewInOrder
<1> QED BY <1>1, StreamInductive, PTL
\* Whatever the stream does to the table is a transaction of the store, so that
\* all that is proved of Store holds while a log is sent and read.
THEOREM StreamIsStore == StreamSpec => Spec
<1>1. StreamInit => Init
  BY DEF StreamInit
<1>2. StreamInv /\ [StreamNext]_<<vars, lvars>> => [Next]_vars
  <2> SUFFICES ASSUME StreamInv, [StreamNext]_<<vars, lvars>> PROVE [Next]_vars
    OBVIOUS
  <2>1. CASE Deliver
    <3>1. PICK m \in net : AppendLog(Watched, jobs[Watched].lease, m.seq, m.text)
      BY <2>1 DEF Deliver
    <3>2. /\ m.seq \in LogSeq /\ m.text \in Text /\ Watched \in Job
          /\ jobs[Watched].lease \in 0 .. issued
      BY StreamAssumption DEF StreamInv, StreamTypeOK, IInv, TypeOK, Chunk
    <3> QED BY <3>1, <3>2 DEF Next, WorkerNext
  <2>2. CASE Others
    BY <2>2 DEF Others
  <2>3. CASE FetchPage \/ ReadStatus
    BY <2>3 DEF FetchPage, ReadStatus, Next, SubmitterNext
  <2>4. CASE Emit \/ Collect \/ Send \/ PrintRecord \/ ReadFails \/ UNCHANGED <<vars, lvars>>
    BY <2>4 DEF Emit, Collect, Send, PrintRecord, ReadFails
  <2> QED BY <2>1, <2>2, <2>3, <2>4 DEF StreamNext
<1> QED BY <1>1, <1>2, StreamInductive, PTL DEF StreamSpec, Spec
=============================================================================
