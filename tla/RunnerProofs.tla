---------------------------- MODULE RunnerProofs ----------------------------
(***************************************************************************)
(* Proofs about Sessions and Runner, for every set of plans that           *)
(* validate_job admits, every set of packages and every bound.             *)
(*                                                                         *)
(* Sessions has no specification of its own: the first part is about its   *)
(* steps. What the worker took from a child, what it keeps unread and what *)
(* is in the pipe make one stream, and that is what the child ever said:   *)
(* nothing is lost, nothing overtakes. A use that passes has taken all of  *)
(* it, one record to be ready and one for each request; bytes without an   *)
(* end are the last of it and are never taken for a record.                *)
(*                                                                         *)
(* The second part is the job around them: who is announced by the marker, *)
(* where the job is in its plan, what the cache owes to the jobs before,   *)
(* and what the receipts say of the server.                                *)
(***************************************************************************)
EXTENDS Runner, TLAPS

-----------------------------------------------------------------------------
(* Sequences *)

\* No bytes without an end.
Uncut(s) == \A i \in 1 .. Len(s) : s[i] # Cut

\* t is s, and perhaps more.
Extends(s, t) == Len(s) <= Len(t) /\ \A i \in 1 .. Len(s) : t[i] = s[i]

LEMMA EmptyUncut == Uncut(<<>>)
  BY DEF Uncut

LEMMA UncutAppend ==
  ASSUME NEW s \in Seq(Int), NEW x \in Int \ {Cut}, Uncut(s)
  PROVE  Uncut(Append(s, x))
  BY DEF Uncut

LEMMA UncutTail ==
  ASSUME NEW s \in Seq(Int), s # <<>>, Uncut(s)
  PROVE  Tail(s) \in Seq(Int) /\ Head(s) \in Int /\ Head(s) # Cut /\ Uncut(Tail(s))
<1>1. /\ Tail(s) \in Seq(Int) /\ Head(s) \in Int /\ Head(s) = s[1]
      /\ Len(s) \in Nat \ {0} /\ Len(Tail(s)) = Len(s) - 1
      /\ \A i \in 1 .. Len(Tail(s)) : Tail(s)[i] = s[i + 1]
  OBVIOUS
<1>2. Head(s) # Cut
  BY <1>1 DEF Uncut
<1>3. ASSUME NEW i \in 1 .. Len(Tail(s)) PROVE Tail(s)[i] # Cut
  <2>1. i + 1 \in 1 .. Len(s) /\ Tail(s)[i] = s[i + 1]
    BY <1>1
  <2> QED BY <2>1 DEF Uncut
<1> QED BY <1>1, <1>2, <1>3 DEF Uncut

LEMMA AppendFacts ==
  ASSUME NEW s \in Seq(Int), NEW x \in Int
  PROVE  /\ Append(s, x) \in Seq(Int)
         /\ Len(s) \in Nat /\ Len(Append(s, x)) = Len(s) + 1
         /\ Append(s, x)[Len(s) + 1] = x
         /\ \A i \in 1 .. Len(s) : Append(s, x)[i] = s[i]
  OBVIOUS

LEMMA ExtendsFacts ==
  ASSUME NEW s \in Seq(Int)
  PROVE  /\ Extends(s, s)
         /\ \A x \in Int : Extends(s, Append(s, x))
<1>1. Extends(s, s)
  BY DEF Extends
<1>2. \A x \in Int : Extends(s, Append(s, x))
  BY AppendFacts DEF Extends
<1> QED BY <1>1, <1>2

LEMMA TailFacts ==
  ASSUME NEW s \in Seq(Int), s # <<>>
  PROVE  /\ Tail(s) \in Seq(Int) /\ Head(s) \in Int
         /\ Len(s) \in Nat \ {0} /\ Len(Tail(s)) = Len(s) - 1
         /\ Head(s) = s[1]
         /\ \A i \in 1 .. Len(Tail(s)) : Tail(s)[i] = s[i + 1]
  OBVIOUS

LEMMA SplitFacts ==
  ASSUME NEW s \in Seq(Int), NEW n \in 1 .. Len(s), NEW m \in {n - 1, n}
  PROVE  /\ SubSeq(s, 1, m) \in Seq(Int) /\ Len(SubSeq(s, 1, m)) = m
         /\ SubSeq(s, n + 1, Len(s)) \in Seq(Int) /\ Len(SubSeq(s, n + 1, Len(s))) = Len(s) - n
         /\ n \in Nat /\ m \in Nat /\ Len(s) \in Nat /\ n <= Len(s)
         /\ \A i \in 1 .. m : SubSeq(s, 1, m)[i] = s[i]
         /\ \A i \in 1 .. Len(s) - n : SubSeq(s, n + 1, Len(s))[i] = s[n + i]
<1>1. n \in Nat /\ m \in Nat /\ Len(s) \in Nat /\ n <= Len(s)
  OBVIOUS
<1>2. SubSeq(s, 1, m) \in Seq(Int) /\ Len(SubSeq(s, 1, m)) = m
  OBVIOUS
<1>3. SubSeq(s, n + 1, Len(s)) \in Seq(Int) /\ Len(SubSeq(s, n + 1, Len(s))) = Len(s) - n
  OBVIOUS
<1>4. \A i \in 1 .. m : SubSeq(s, 1, m)[i] = s[i]
  OBVIOUS
<1>5. \A i \in 1 .. Len(s) - n : SubSeq(s, n + 1, Len(s))[i] = s[n + i]
  OBVIOUS
<1> QED BY <1>1, <1>2, <1>3, <1>4, <1>5

LEMMA JoinFacts ==
  ASSUME NEW s \in Seq(Int), NEW t \in Seq(Int)
  PROVE  /\ s \o t \in Seq(Int)
         /\ Len(s) \in Nat /\ Len(t) \in Nat /\ Len(s \o t) = Len(s) + Len(t)
         /\ \A i \in 1 .. Len(s) : (s \o t)[i] = s[i]
         /\ \A i \in Len(s) + 1 .. Len(s) + Len(t) : (s \o t)[i] = t[i - Len(s)]
  OBVIOUS

-----------------------------------------------------------------------------
(* The stream of one child r, of which `read' records were taken. *)

ChildRecord == [life : {"none", "up", "zero", "bad"}, group : BOOLEAN, greeted : BOOLEAN,
                inbox : Seq(Int), pipe : Seq(Int), lines : Seq(Int),
                partial : BOOLEAN, open : BOOLEAN, said : Seq(Int)]

\* Bytes without an end are the last that a child writes.
CutIsLast(r) == \A i \in 1 .. Len(r.said) : r.said[i] = Cut => i = Len(r.said) /\ r.life # "up"

\* What was not taken yet is kept, then in the pipe: nothing is lost and nothing overtakes.
Pending(r, read) ==
    /\ Len(r.said) = read + Len(r.lines) + Len(r.pipe)
    /\ \A i \in 1 .. Len(r.lines) : r.lines[i] = r.said[read + i]
    /\ \A i \in 1 .. Len(r.pipe) : r.pipe[i] = r.said[read + Len(r.lines) + i]
    /\ \A i \in 1 .. read + Len(r.lines) : r.said[i] # Cut

StreamOK(r, read) == CutIsLast(r) /\ (r.partial \/ Pending(r, read))

LEMMA RecordFacts ==
  ASSUME NEW r \in ChildRecord
  PROVE  /\ r.inbox \in Seq(Int) /\ r.pipe \in Seq(Int) /\ r.lines \in Seq(Int) /\ r.said \in Seq(Int)
         /\ Len(r.inbox) \in Nat /\ Len(r.pipe) \in Nat /\ Len(r.lines) \in Nat /\ Len(r.said) \in Nat
         /\ r.partial \in BOOLEAN
  BY DEF ChildRecord

\* A child that has just been started.
LEMMA StreamStarts ==
  /\ Unstarted \in ChildRecord /\ Started \in ChildRecord
  /\ StreamOK(Unstarted, 0) /\ StreamOK(Started, 0)
<1>1. Unstarted \in ChildRecord
  BY DEF Unstarted, ChildRecord
<1>2. Started \in ChildRecord
  BY <1>1 DEF Started, ChildRecord
<1>3. ASSUME NEW r \in {Unstarted, Started} PROVE StreamOK(r, 0)
  <2>1. /\ r.said = <<>> /\ r.pipe = <<>> /\ r.lines = <<>>
    <3>1. CASE r = Unstarted
      BY <3>1 DEF Unstarted
    <3>2. CASE r = Started
      <4>1. Started.said = <<>> /\ Started.pipe = <<>> /\ Started.lines = <<>>
        BY DEF Unstarted, Started
      <4> QED BY <3>2, <4>1
    <3> QED BY <3>1, <3>2
  <2>2. Len(r.said) = 0 /\ Len(r.pipe) = 0 /\ Len(r.lines) = 0
    BY <2>1
  <2> QED BY <2>2 DEF StreamOK, CutIsLast, Pending
<1> QED BY <1>1, <1>2, <1>3

\* Nothing of the stream changes.
LEMMA StreamSame ==
  ASSUME NEW r, NEW s, NEW read, StreamOK(r, read),
         s.said = r.said, s.pipe = r.pipe, s.lines = r.lines, s.partial = r.partial,
         s.life = "up" => r.life = "up"
  PROVE  StreamOK(s, read)
<1>1. CutIsLast(s)
  BY DEF StreamOK, CutIsLast
<1>2. Pending(r, read) => Pending(s, read)
  BY DEF Pending
<1> QED BY <1>1, <1>2 DEF StreamOK

\* The worker reads n of the records in the pipe.
LEMMA StreamPump ==
  ASSUME NEW r \in ChildRecord, NEW read \in Nat, StreamOK(r, read),
         NEW n \in 1 .. Len(r.pipe), NEW m \in {n - 1, n}, m = n <=> r.pipe[n] # Cut,
         NEW s \in ChildRecord, s.life = r.life, s.said = r.said,
         s.pipe = SubSeq(r.pipe, n + 1, Len(r.pipe)),
         s.lines = r.lines \o SubSeq(r.pipe, 1, m),
         s.partial = (r.partial \/ r.pipe[n] = Cut)
  PROVE  StreamOK(s, read)
<1>1. CutIsLast(s)
  BY DEF StreamOK, CutIsLast
<1>2. CASE r.partial \/ r.pipe[n] = Cut
  BY <1>1, <1>2 DEF StreamOK
<1>3. CASE ~r.partial /\ r.pipe[n] # Cut
  <2> DEFINE l == Len(r.lines)
             p == Len(r.pipe)
             got == SubSeq(r.pipe, 1, n)
             rest == SubSeq(r.pipe, n + 1, p)
             kept == r.lines \o got
  <2>1. r.pipe \in Seq(Int) /\ r.lines \in Seq(Int) /\ l \in Nat /\ p \in Nat
    BY RecordFacts
  <2>2. m = n /\ n \in {n - 1, n} /\ Pending(r, read) /\ CutIsLast(r)
    BY <1>3 DEF StreamOK
  <2>3. /\ n \in Nat /\ n \in 1 .. p /\ got \in Seq(Int) /\ Len(got) = n /\ Len(rest) = p - n
        /\ \A i \in 1 .. n : got[i] = r.pipe[i]
        /\ \A i \in 1 .. p - n : rest[i] = r.pipe[n + i]
    BY <2>1, <2>2, SplitFacts
  <2>4. /\ Len(kept) = l + n
        /\ \A i \in 1 .. l : kept[i] = r.lines[i]
        /\ \A i \in l + 1 .. l + n : kept[i] = got[i - l]
    BY <2>1, <2>3, JoinFacts
  <2>5. /\ Len(r.said) = read + l + p
        /\ \A i \in 1 .. l : r.lines[i] = r.said[read + i]
        /\ \A i \in 1 .. p : r.pipe[i] = r.said[read + l + i]
        /\ \A i \in 1 .. read + l : r.said[i] # Cut
    BY <2>2 DEF Pending
  <2>6. \A i \in 1 .. Len(r.said) : r.said[i] = Cut => i = Len(r.said)
    BY <2>2 DEF CutIsLast
  <2> HIDE DEF l, p, got, rest, kept
  <2>7. Len(r.said) = read + Len(kept) + Len(rest)
    BY <2>1, <2>3, <2>4, <2>5
  <2>8. ASSUME NEW i \in 1 .. Len(kept) PROVE kept[i] = r.said[read + i]
    <3>1. CASE i <= l
      BY <2>1, <2>4, <2>5, <3>1
    <3>2. CASE i > l
      <4>1. i \in l + 1 .. l + n /\ i - l \in 1 .. n /\ i - l \in 1 .. p /\ read + l + (i - l) = read + i
        BY <2>1, <2>3, <2>4, <3>2
      <4>2. kept[i] = got[i - l] /\ got[i - l] = r.pipe[i - l]
        BY <2>3, <2>4, <4>1
      <4>3. r.pipe[i - l] = r.said[read + l + (i - l)]
        BY <2>5, <4>1
      <4> QED BY <4>1, <4>2, <4>3
    <3> QED BY <2>1, <2>4, <3>1, <3>2
  <2>9. ASSUME NEW i \in 1 .. Len(rest) PROVE rest[i] = r.said[read + Len(kept) + i]
    <3>1. /\ i \in 1 .. p - n /\ n + i \in 1 .. p
          /\ read + l + (n + i) = read + Len(kept) + i
      BY <2>1, <2>3, <2>4
    <3>2. r.pipe[n + i] = r.said[read + l + (n + i)]
      BY <2>5, <3>1
    <3> QED BY <2>3, <3>1, <3>2
  <2>10. ASSUME NEW i \in 1 .. read + Len(kept) PROVE r.said[i] # Cut
    <3>1. CASE i <= read + l
      BY <2>1, <2>5, <3>1
    <3>2. CASE i > read + l
      <4>1. /\ i \in Nat /\ i <= read + l + n /\ i <= read + l + p
            /\ i \in 1 .. Len(r.said)
        BY <2>1, <2>3, <2>4, <2>5
      <4>2. CASE i = Len(r.said)
        <5>1. n = p /\ i = read + l + n
          BY <2>1, <2>3, <2>5, <4>1, <4>2
        <5>2. r.pipe[n] = r.said[i]
          BY <2>3, <2>5, <5>1
        <5> QED BY <1>3, <5>2
      <4>3. CASE i # Len(r.said)
        BY <2>6, <4>1, <4>3
      <4> QED BY <4>2, <4>3
    <3>3. i <= read + l \/ i > read + l
      BY <2>1
    <3> QED BY <3>1, <3>2, <3>3
  <2>11. s.lines = kept /\ s.pipe = rest
    BY <2>2 DEF kept, rest, got, p
  <2>12. Pending(s, read)
    BY <2>7, <2>8, <2>9, <2>10, <2>11 DEF Pending
  <2> QED BY <1>1, <2>12 DEF StreamOK
<1> QED BY <1>2, <1>3

\* The coordinator takes the first record that is kept.
LEMMA StreamTake ==
  ASSUME NEW r \in ChildRecord, NEW read \in Nat, StreamOK(r, read), r.lines # <<>>,
         NEW s \in ChildRecord, s = [r EXCEPT !.lines = Tail(r.lines)]
  PROVE  /\ StreamOK(s, read + 1)
         /\ r.partial \/ (read + 1 \in 1 .. Len(r.said) /\ Head(r.lines) = r.said[read + 1])
<1>1. /\ s.life = r.life /\ s.said = r.said /\ s.partial = r.partial /\ s.pipe = r.pipe
      /\ s.lines = Tail(r.lines)
  BY DEF ChildRecord
<1>2. CutIsLast(s)
  BY <1>1 DEF StreamOK, CutIsLast
<1>3. CASE r.partial
  BY <1>1, <1>2, <1>3 DEF StreamOK
<1>4. CASE ~r.partial
  <2> DEFINE l == Len(r.lines)
             p == Len(r.pipe)
             tail == Tail(r.lines)
  <2>1. r.lines \in Seq(Int) /\ p \in Nat
    BY RecordFacts
  <2>2. /\ l \in Nat \ {0} /\ Len(tail) = l - 1 /\ Head(r.lines) = r.lines[1]
        /\ \A i \in 1 .. Len(tail) : tail[i] = r.lines[i + 1]
    BY <2>1, TailFacts
  <2>3. /\ Len(r.said) = read + l + p
        /\ \A i \in 1 .. l : r.lines[i] = r.said[read + i]
        /\ \A i \in 1 .. p : r.pipe[i] = r.said[read + l + i]
        /\ \A i \in 1 .. read + l : r.said[i] # Cut
    BY <1>4 DEF StreamOK, Pending
  <2>4. s.lines = tail /\ s.pipe = r.pipe /\ s.said = r.said /\ Len(s.pipe) = p
    BY <1>1
  <2> HIDE DEF l, p, tail
  <2>5. read + 1 \in 1 .. Len(r.said) /\ Head(r.lines) = r.said[read + 1]
    <3>1. 1 \in 1 .. l
      BY <2>2
    <3>2. r.lines[1] = r.said[read + 1]
      BY <2>3, <3>1
    <3>3. read + 1 \in 1 .. read + l + p
      BY <2>1, <2>2
    <3> QED BY <2>2, <2>3, <3>2, <3>3
  <2>6. Len(r.said) = read + 1 + Len(tail) + p /\ read + 1 + Len(tail) = read + l
    BY <2>1, <2>2, <2>3
  <2>7. ASSUME NEW i \in 1 .. Len(tail) PROVE tail[i] = r.said[read + 1 + i]
    <3>1. i + 1 \in 1 .. l /\ read + (i + 1) = read + 1 + i
      BY <2>2
    <3>2. r.lines[i + 1] = r.said[read + (i + 1)]
      BY <2>3, <3>1
    <3> QED BY <2>2, <3>1, <3>2
  <2>8. Pending(s, read + 1)
    BY <2>3, <2>4, <2>6, <2>7 DEF Pending
  <2> QED BY <1>2, <2>5, <2>8 DEF StreamOK
<1> QED BY <1>3, <1>4

\* The child writes a record, perhaps its last.
LEMMA StreamSay ==
  ASSUME NEW r \in ChildRecord, NEW read \in Nat, StreamOK(r, read), r.life = "up",
         NEW x \in Int, NEW s \in ChildRecord,
         s.pipe = Append(r.pipe, x), s.said = Append(r.said, x),
         s.lines = r.lines, s.partial = r.partial,
         x = Cut => s.life # "up"
  PROVE  StreamOK(s, read)
<1> DEFINE l == Len(r.lines)
           p == Len(r.pipe)
           w == Len(r.said)
<1>1. /\ r.pipe \in Seq(Int) /\ r.said \in Seq(Int)
      /\ l \in Nat /\ p \in Nat /\ w \in Nat
  BY RecordFacts
<1>2. /\ Len(s.pipe) = p + 1 /\ s.pipe[p + 1] = x /\ \A i \in 1 .. p : s.pipe[i] = r.pipe[i]
      /\ Len(s.said) = w + 1 /\ s.said[w + 1] = x /\ \A i \in 1 .. w : s.said[i] = r.said[i]
  BY <1>1, AppendFacts
<1>3. \A i \in 1 .. w : r.said[i] # Cut
  BY DEF StreamOK, CutIsLast
<1>4. Len(s.lines) = l
  OBVIOUS
<1>5. Pending(r, read) => /\ w = read + l + p
                          /\ \A i \in 1 .. l : s.lines[i] = r.said[read + i]
                          /\ \A i \in 1 .. p : r.pipe[i] = r.said[read + l + i]
  BY DEF Pending
<1> HIDE DEF l, p, w
<1>6. CutIsLast(s)
  <2>1. ASSUME NEW i \in 1 .. Len(s.said), s.said[i] = Cut PROVE i = Len(s.said) /\ s.life # "up"
    <3>1. i = w + 1
      BY <1>1, <1>2, <1>3, <2>1
    <3> QED BY <1>2, <2>1, <3>1
  <2> QED BY <2>1 DEF CutIsLast
<1>7. ASSUME Pending(r, read) PROVE Pending(s, read)
  <2>1. w = read + l + p
    BY <1>5, <1>7
  <2>2. Len(s.said) = read + l + Len(s.pipe)
    BY <1>1, <1>2, <2>1
  <2>3. ASSUME NEW i \in 1 .. l PROVE s.lines[i] = s.said[read + i]
    <3>1. read + i \in 1 .. w
      BY <1>1, <2>1
    <3> QED BY <1>2, <1>5, <1>7, <3>1
  <2>4. ASSUME NEW i \in 1 .. Len(s.pipe) PROVE s.pipe[i] = s.said[read + l + i]
    <3>1. CASE i = p + 1
      <4>1. read + l + i = w + 1
        BY <1>1, <2>1, <3>1
      <4> QED BY <1>2, <3>1, <4>1
    <3>2. CASE i # p + 1
      <4>1. i \in 1 .. p /\ read + l + i \in 1 .. w
        BY <1>1, <1>2, <2>1, <3>2
      <4> QED BY <1>2, <1>5, <1>7, <4>1
    <3> QED BY <3>1, <3>2
  <2>5. ASSUME NEW i \in 1 .. read + l PROVE s.said[i] # Cut
    <3>1. i \in 1 .. w
      BY <1>1, <2>1
    <3> QED BY <1>2, <1>3, <3>1
  <2> QED BY <1>4, <2>2, <2>3, <2>4, <2>5 DEF Pending
<1> QED BY <1>6, <1>7 DEF StreamOK

\* A child of which all was read and taken.
LEMMA StreamClean ==
  ASSUME NEW r \in ChildRecord, NEW read \in Nat, StreamOK(r, read),
         r.lines = <<>>, ~r.partial, r.pipe = <<>>
  PROVE  Len(r.said) = read /\ Uncut(r.said)
<1>1. Len(r.lines) = 0 /\ Len(r.pipe) = 0 /\ Pending(r, read)
  BY DEF StreamOK
<1>2. Len(r.said) = read
  BY <1>1 DEF Pending
<1>3. \A i \in 1 .. read : r.said[i] # Cut
  BY <1>1 DEF Pending
<1> QED BY <1>2, <1>3 DEF Uncut

-----------------------------------------------------------------------------
(* The invariant of the sessions of a use *)

InCast(c) == c = "first" \/ use \in {"compare", "profile"}

\* Where c is in Cast(use) and in CloseOrder(use).
Index(c) == IF c = "first" THEN 1 ELSE 2

Position(c) == IF use = "profile" THEN 3 - Index(c) ELSE Index(c)

\* Requests to c before turn t.
Before(c, t) == IF use = "compare" /\ t % 2 = 0 /\ c # To(t) THEN RoundOf(t) ELSE RoundOf(t) - 1

Read(c) == IF step \in {"start", "ready"} /\ Index(c) >= who THEN 0 ELSE 1 + Before(c, turn)

SessionTypeOK ==
    /\ use \in Uses
    /\ step \in {"off", "start", "ready", "request", "await", "drain", "close", "over"}
    /\ who \in 1 .. Len(Cast(use))
    /\ turn \in Nat \ {0}
    /\ rows \in Seq(Int)
    /\ child \in [Child -> ChildRecord]
    /\ verdict \in {"ok", "invalid", "failed", "stopped", "unclean"}

\* What a child cannot do whatever it was started for.
LifeOK ==
    \A c \in Child : /\ child[c].life = "up" => child[c].group
                     /\ ~child[c].open => ~child[c].group
                     /\ Uncut(child[c].inbox)

NotYet(c) == \/ ~InCast(c) \/ step = "off"
             \/ step = "start" /\ Index(c) >= who
             \/ step = "ready" /\ Index(c) > who

StartsInTurn == \A c \in Child : NotYet(c) => child[c] = Unstarted

TurnOK ==
    /\ step \notin {"close", "over"} => verdict = "ok"
    /\ step \in {"ready", "request", "await"} => KeepsLines
    /\ step \in {"off", "start", "ready"} => turn = 1
    /\ step \in {"request", "await"} => turn <= Turns
    /\ KeepsLines /\ (step = "drain" \/ Passed) => turn = Turns + 1

\* What was closed is gone, unless its cleanup is reported to have failed.
ClosingOK ==
    /\ step = "close" => \A c \in Child :
         InCast(c) /\ Position(c) < who /\ child[c].group => verdict = "unclean"
    /\ step = "over" => (Alive => verdict = "unclean")

\* End of file comes last.
EndOK == step \notin {"close", "over"} => \A c \in Child : ~child[c].open => child[c].pipe = <<>>

Exhausted(c) == CleanEnd(c) /\ child[c].pipe = <<>> /\ ~child[c].open

\* Of a use that may still pass: who has been drained, and what came over the pipes.
FinishedOK ==
    KeepsLines /\ verdict = "ok" =>
      \A c \in Child : InCast(c) /\ (Passed \/ (step = "drain" /\ Index(c) < who)) => Exhausted(c)

StreamsOK ==
    KeepsLines /\ verdict = "ok" =>
      \A c \in Child : InCast(c) => StreamOK(child[c], Read(c))

\* What was recorded at turn t is what the child said then.
Paired(t) ==
    \/ child[To(t)].partial
    \/ /\ RoundOf(t) + 1 \in 1 .. Len(child[To(t)].said)
       /\ rows[t] = child[To(t)].said[RoundOf(t) + 1]

RowsOK ==
    KeepsLines /\ verdict = "ok" =>
      /\ Len(rows) = turn - 1
      /\ \A t \in 1 .. turn - 1 : Paired(t)

SessionInv ==
    /\ SessionTypeOK /\ LifeOK /\ StartsInTurn /\ TurnOK /\ ClosingOK /\ EndOK
    /\ FinishedOK /\ StreamsOK /\ RowsOK

LEMMA Halves ==
  ASSUME NEW h \in Nat \ {0}
  PROVE  /\ (2 * h - 1) % 2 = 1 /\ (2 * h) % 2 = 0 /\ (2 * h + 1) % 2 = 1
         /\ ((2 * h - 1) + 1) \div 2 = h /\ (2 * h + 1) \div 2 = h
         /\ ((2 * h + 1) + 1) \div 2 = h + 1
  OBVIOUS

LEMMA OddOrEven ==
  ASSUME NEW t \in Nat \ {0}
  PROVE  \E h \in Nat \ {0} : t = 2 * h - 1 \/ t = 2 * h
<1> DEFINE h == (t + 1) \div 2
<1>1. h \in Nat \ {0} /\ (t = 2 * h - 1 \/ t = 2 * h)
  OBVIOUS
<1> QED BY <1>1

\* The rounds of a comparison: both sessions are asked, once each.
LEMMA PairedTurns ==
  ASSUME use = "compare", NEW h \in Nat \ {0}
  PROVE  /\ RoundOf(2 * h - 1) = h /\ RoundOf(2 * h) = h /\ RoundOf(2 * h + 1) = h + 1
         /\ To(2 * h - 1) \in Child /\ To(2 * h) \in Child /\ To(2 * h - 1) # To(2 * h)
         /\ \A c \in Child : /\ Before(c, 2 * h - 1) = h - 1
                             /\ Before(c, 2 * h) = IF c = To(2 * h) THEN h - 1 ELSE h
                             /\ Before(c, 2 * h + 1) = h
<1>1. RoundOf(2 * h - 1) = h /\ RoundOf(2 * h) = h /\ RoundOf(2 * h + 1) = h + 1
  BY Halves DEF RoundOf
<1>2. /\ To(2 * h - 1) = IF h % 2 = 1 THEN "first" ELSE "second"
      /\ To(2 * h) = IF h % 2 = 1 THEN "second" ELSE "first"
  BY <1>1, Halves DEF To
<1>3. \A c \in Child : /\ Before(c, 2 * h - 1) = h - 1
                       /\ Before(c, 2 * h) = IF c = To(2 * h) THEN h - 1 ELSE h
                       /\ Before(c, 2 * h + 1) = h
  BY <1>1, Halves DEF Before
<1> QED BY <1>1, <1>2, <1>3 DEF Child

LEMMA TurnFacts ==
  ASSUME use \in {"compare", "train"}, NEW t \in Nat \ {0}
  PROVE  /\ RoundOf(t) \in Nat \ {0} /\ To(t) \in Child /\ InCast(To(t))
         /\ Before(To(t), t) = RoundOf(t) - 1 /\ Before(To(t), t + 1) = RoundOf(t)
         /\ \A c \in Child : InCast(c) => Before(c, t) \in Nat
         /\ \A c \in Child : InCast(c) /\ c # To(t) => Before(c, t + 1) = Before(c, t)
<1>1. CASE use = "train"
  BY <1>1 DEF RoundOf, To, Before, InCast, Child
<1>2. CASE use = "compare"
  <2>1. PICK h \in Nat \ {0} : t = 2 * h - 1 \/ t = 2 * h
    BY OddOrEven
  <2>2. InCast(To(t))
    BY <1>2 DEF InCast
  <2>3. CASE t = 2 * h - 1
    <3>1. t + 1 = 2 * h
      BY <2>3
    <3>2. /\ RoundOf(t) = h /\ To(t) \in Child /\ To(t) # To(t + 1)
          /\ \A c \in Child : /\ Before(c, t) = h - 1
                              /\ Before(c, t + 1) = IF c = To(t + 1) THEN h - 1 ELSE h
      <4>1. /\ RoundOf(2 * h - 1) = h /\ To(2 * h - 1) \in Child /\ To(2 * h - 1) # To(2 * h)
            /\ \A c \in Child : /\ Before(c, 2 * h - 1) = h - 1
                                /\ Before(c, 2 * h) = IF c = To(2 * h) THEN h - 1 ELSE h
        BY <1>2, PairedTurns
      <4> QED BY <2>3, <3>1, <4>1
    <3>3. To(t + 1) \in Child
      BY <1>2, <3>1, PairedTurns
    <3>4. h - 1 \in Nat
      OBVIOUS
    <3> QED BY <2>2, <3>2, <3>3, <3>4 DEF Child
  <2>4. CASE t = 2 * h
    <3>1. t + 1 = 2 * h + 1
      BY <2>4
    <3>2. /\ RoundOf(t) = h /\ To(t) \in Child
          /\ \A c \in Child : /\ Before(c, t) = IF c = To(t) THEN h - 1 ELSE h
                              /\ Before(c, t + 1) = h
      BY <1>2, <2>4, <3>1, PairedTurns
    <3>3. h - 1 \in Nat
      OBVIOUS
    <3> QED BY <2>2, <3>2, <3>3
  <2> QED BY <2>1, <2>3, <2>4
<1> QED BY <1>1, <1>2

\* Before the first request, and after the last.
LEMMA TurnEnds ==
  ASSUME use \in {"compare", "train"}
  PROVE  /\ Turns \in Nat \ {0}
         /\ \A c \in Child : Before(c, 1) = 0 /\ Before(c, Turns + 1) = Rounds
<1>1. CASE use = "train"
  BY <1>1, SessionsAssumption DEF Turns, Before, RoundOf
<1>2. CASE use = "compare"
  <2>1. Rounds \in Nat \ {0} /\ Turns = 2 * Rounds /\ 2 * 1 - 1 = 1 /\ 1 - 1 = 0
    BY <1>2, SessionsAssumption DEF Turns
  <2>2. Turns \in Nat \ {0}
    BY <2>1
  <2>3. \A c \in Child : Before(c, 2 * 1 - 1) = 1 - 1 /\ Before(c, 2 * Rounds + 1) = Rounds
    BY <1>2, <2>1, PairedTurns
  <2> QED BY <2>1, <2>2, <2>3
<1> QED BY <1>1, <1>2

-----------------------------------------------------------------------------
(* Where the children are in the order of a use *)

LEMMA StartFacts ==
  /\ Unstarted.life = "none" /\ ~Unstarted.group /\ ~Unstarted.open
  /\ Unstarted.inbox = <<>> /\ Unstarted.lines = <<>> /\ Unstarted.pipe = <<>>
  /\ Unstarted.said = <<>> /\ ~Unstarted.partial
  /\ Started.life = "up" /\ Started.group /\ Started.open /\ Started.inbox = <<>>
  BY DEF Started, Unstarted

LEMMA CastFacts ==
  ASSUME SessionTypeOK
  PROVE  /\ Len(Cast(use)) \in {1, 2} /\ Len(CloseOrder(use)) = Len(Cast(use))
         /\ Cast(use)[who] \in Child /\ InCast(Cast(use)[who]) /\ Index(Cast(use)[who]) = who
         /\ CloseOrder(use)[who] \in Child /\ InCast(CloseOrder(use)[who])
         /\ Position(CloseOrder(use)[who]) = who
         /\ \A c \in Child : InCast(c) => /\ Index(c) \in 1 .. Len(Cast(use))
                                          /\ Position(c) \in 1 .. Len(Cast(use))
                                          /\ Index(c) = who => c = Cast(use)[who]
                                          /\ Position(c) = who => c = CloseOrder(use)[who]
<1>1. CASE use = "profile"
  <2>1. Cast(use) = <<"first", "second">> /\ CloseOrder(use) = <<"second", "first">>
    BY <1>1 DEF Cast, CloseOrder
  <2>2. who \in {1, 2}
    BY <2>1 DEF SessionTypeOK
  <2> QED BY <1>1, <2>1, <2>2 DEF InCast, Index, Position, Child
<1>2. CASE use = "compare"
  <2>1. Cast(use) = <<"first", "second">> /\ CloseOrder(use) = <<"first", "second">>
    BY <1>2 DEF Cast, CloseOrder
  <2>2. who \in {1, 2}
    BY <2>1 DEF SessionTypeOK
  <2> QED BY <1>2, <2>1, <2>2 DEF InCast, Index, Position, Child
<1>3. CASE use \notin {"profile", "compare"}
  <2>1. Cast(use) = <<"first">> /\ CloseOrder(use) = <<"first">>
    BY <1>3 DEF Cast, CloseOrder
  <2>2. who = 1
    BY <2>1 DEF SessionTypeOK
  <2> QED BY <1>3, <2>1, <2>2 DEF InCast, Index, Position, Child
<1> QED BY <1>1, <1>2, <1>3

\* What the sessions were asked and gave depends on the place of the coordinator only.
LEMMA TurnsStay ==
  ASSUME UNCHANGED use
  PROVE  /\ KeepsLines' = KeepsLines /\ Turns' = Turns /\ Cast(use)' = Cast(use)
         /\ CloseOrder(use)' = CloseOrder(use)
         /\ \A c \in Child : InCast(c)' = InCast(c) /\ Position(c)' = Position(c) /\ Index(c)' = Index(c)
         /\ \A t : RoundOf(t)' = RoundOf(t) /\ To(t)' = To(t)
         /\ \A c \in Child : \A t : Before(c, t)' = Before(c, t)
<1>1. /\ KeepsLines' = KeepsLines /\ Turns' = Turns /\ Cast(use)' = Cast(use)
      /\ CloseOrder(use)' = CloseOrder(use)
  BY DEF KeepsLines, Turns, Cast, CloseOrder
<1>2. \A c \in Child : InCast(c)' = InCast(c) /\ Position(c)' = Position(c) /\ Index(c)' = Index(c)
  BY DEF InCast, Position, Index
<1>3. \A t : RoundOf(t)' = RoundOf(t)
  BY DEF RoundOf
<1>4. \A t : To(t)' = To(t)
  BY <1>3 DEF To
<1>5. \A c \in Child : \A t : Before(c, t)' = Before(c, t)
  BY <1>3, <1>4 DEF Before
<1> QED BY <1>1, <1>2, <1>3, <1>4, <1>5

\* A row stays paired while its child only goes on to speak.
LEMMA PairedStays ==
  ASSUME UNCHANGED use, NEW t, Paired(t), rows'[t] = rows[t],
         child \in [Child -> ChildRecord], child' \in [Child -> ChildRecord],
         \A d \in Child : /\ child[d].partial => child'[d].partial
                          /\ Extends(child[d].said, child'[d].said)
  PROVE  Paired(t)'
<1> DEFINE c == To(t)
           i == RoundOf(t) + 1
<1>1. c \in Child /\ To(t)' = c /\ (RoundOf(t) + 1)' = i
  BY TurnsStay DEF To, Child
<1>2. /\ child[c] \in ChildRecord /\ child'[c] \in ChildRecord
      /\ child[c].partial => child'[c].partial
      /\ Extends(child[c].said, child'[c].said)
  BY <1>1
<1>3. Len(child[c].said) \in Nat /\ Len(child'[c].said) \in Nat
  BY <1>2, RecordFacts
<1>4. child[c].partial \/ (i \in 1 .. Len(child[c].said) /\ rows[t] = child[c].said[i])
  BY DEF Paired
<1> HIDE DEF c, i
<1>5. i \in 1 .. Len(child[c].said) =>
        i \in 1 .. Len(child'[c].said) /\ child'[c].said[i] = child[c].said[i]
  BY <1>2, <1>3 DEF Extends
<1>6. child'[c].partial \/ (i \in 1 .. Len(child'[c].said) /\ rows'[t] = child'[c].said[i])
  BY <1>2, <1>4, <1>5
<1>7. child'[To(t)'].partial \/ ((RoundOf(t) + 1)' \in 1 .. Len(child'[To(t)'].said)
                                /\ rows'[t] = child'[To(t)'].said[(RoundOf(t) + 1)'])
  BY <1>1, <1>6
<1> QED BY <1>7 DEF Paired

\* All of them do, when no row is recorded and every child said what it had said.
LEMMA RowsStay ==
  ASSUME RowsOK, UNCHANGED <<use, rows, turn>>, verdict' = "ok" => verdict = "ok",
         child \in [Child -> ChildRecord], child' \in [Child -> ChildRecord],
         \A d \in Child : /\ child[d].partial => child'[d].partial
                          /\ Extends(child[d].said, child'[d].said)
  PROVE  RowsOK'
<1>1. \A t : Paired(t) => Paired(t)'
  BY PairedStays
<1>2. KeepsLines' = KeepsLines
  BY TurnsStay
<1> QED BY <1>1, <1>2 DEF RowsOK

LEMMA RowsSame ==
  ASSUME SessionInv, UNCHANGED <<use, rows, turn, child>>, verdict' = "ok" => verdict = "ok"
  PROVE  RowsOK'
<1>1. child \in [Child -> ChildRecord] /\ RowsOK
  BY DEF SessionInv, SessionTypeOK
<1>2. ASSUME NEW d \in Child PROVE Extends(child[d].said, child'[d].said)
  BY <1>1, RecordFacts, ExtendsFacts
<1> QED BY <1>1, <1>2, RowsStay

-----------------------------------------------------------------------------
(* One child changes, the coordinator does not. *)

LEMMA ChildChanges ==
  ASSUME SessionInv, NEW c \in Child, NEW r \in ChildRecord,
         child' = [child EXCEPT ![c] = r],
         UNCHANGED <<use, step, who, turn, rows, verdict>>,
         child[c] # Unstarted,
         r.life = "up" => r.group,
         ~r.open => ~r.group,
         Uncut(r.inbox),
         r.group => child[c].group,
         child[c].partial => r.partial, Extends(child[c].said, r.said),
         ~r.open => r.pipe = <<>> \/ step \in {"close", "over"},
         KeepsLines /\ verdict = "ok" => StreamOK(r, Read(c)),
         Exhausted(c) => Exhausted(c)'
  PROVE  SessionInv'
<1>1. /\ child \in [Child -> ChildRecord] /\ child' \in [Child -> ChildRecord]
      /\ child'[c] = r /\ \A d \in Child : d # c => child'[d] = child[d]
  BY DEF SessionInv, SessionTypeOK
<1>2. /\ KeepsLines' = KeepsLines /\ Turns' = Turns /\ Passed' = Passed
      /\ \A d \in Child : /\ InCast(d)' = InCast(d) /\ Position(d)' = Position(d)
                          /\ NotYet(d)' = NotYet(d) /\ Index(d)' = Index(d)
  BY DEF KeepsLines, Turns, Passed, InCast, Position, NotYet, Index
<1>3. /\ \A t : RoundOf(t)' = RoundOf(t) /\ To(t)' = To(t)
      /\ \A d \in Child : Read(d)' = Read(d)
  <2>1. \A t : RoundOf(t)' = RoundOf(t)
    BY DEF RoundOf
  <2>2. \A t : To(t)' = To(t)
    BY <2>1 DEF To
  <2>3. \A d \in Child : Before(d, turn)' = Before(d, turn)
    BY <2>1, <2>2 DEF Before
  <2> QED BY <1>2, <2>1, <2>2, <2>3 DEF Read
<1>4. SessionTypeOK'
  BY <1>1 DEF SessionInv, SessionTypeOK
<1>5. LifeOK'
  BY <1>1 DEF SessionInv, LifeOK
<1>6. StartsInTurn'
  BY <1>1, <1>2 DEF SessionInv, StartsInTurn
<1>7. TurnOK'
  BY <1>2 DEF SessionInv, TurnOK
<1>8. ClosingOK'
  <2>1. \A d \in Child : child'[d].group => child[d].group
    BY <1>1
  <2>2. Alive' => Alive
    BY <2>1 DEF Alive
  <2> QED BY <1>2, <2>1, <2>2 DEF SessionInv, ClosingOK
<1>9. EndOK'
  BY <1>1 DEF SessionInv, EndOK
<1>10. FinishedOK'
  <2>1. \A d \in Child : Exhausted(d) => Exhausted(d)'
    BY <1>1 DEF Exhausted, CleanEnd
  <2> QED BY <1>2, <2>1 DEF SessionInv, FinishedOK
<1>11. StreamsOK'
  BY <1>1, <1>2, <1>3 DEF SessionInv, StreamsOK
<1>12. RowsOK'
  <2>1. \A d \in Child : /\ child[d].partial => child'[d].partial
                         /\ Extends(child[d].said, child'[d].said)
    <3> SUFFICES ASSUME NEW d \in Child
                 PROVE  /\ child[d].partial => child'[d].partial
                        /\ Extends(child[d].said, child'[d].said)
      OBVIOUS
    <3>1. Extends(child[d].said, child[d].said)
      BY <1>1, RecordFacts, ExtendsFacts
    <3> QED BY <1>1, <3>1
  <2> QED BY <1>1, <2>1, RowsStay DEF SessionInv
<1> QED BY <1>4, <1>5, <1>6, <1>7, <1>8, <1>9, <1>10, <1>11, <1>12 DEF SessionInv

\* An exception: no use passes that left with one.
LEMMA RaiseKeeps ==
  ASSUME SessionInv, step \notin {"off", "close", "over"},
         NEW kind \in {"invalid", "failed", "stopped"}, Raise(kind),
         UNCHANGED <<use, turn, rows>>,
         child' \in [Child -> ChildRecord],
         \A c \in Child : /\ child'[c].life = child[c].life /\ child'[c].group = child[c].group
                          /\ child'[c].open = child[c].open /\ child'[c].inbox = child[c].inbox
                          /\ child[c] = Unstarted => child'[c] = child[c]
  PROVE  SessionInv'
<1>1. step' = "close" /\ who' = 1 /\ verdict' = kind /\ ~Passed'
  BY DEF Raise, Passed
<1>2. \A c \in Child : NotYet(c)' => NotYet(c)
  BY <1>1 DEF NotYet, InCast
<1>3. SessionTypeOK'
  BY <1>1 DEF SessionInv, SessionTypeOK, Cast
<1>4. LifeOK'
  BY DEF SessionInv, LifeOK
<1>5. StartsInTurn'
  BY <1>2 DEF SessionInv, StartsInTurn
<1>6. TurnOK'
  BY <1>1 DEF TurnOK
<1>7. ClosingOK'
  <2>1. \A c \in Child : ~(Position(c)' < 1)
    BY DEF Position, Index
  <2> QED BY <1>1, <2>1 DEF ClosingOK
<1>8. EndOK' /\ FinishedOK' /\ StreamsOK' /\ RowsOK'
  BY <1>1 DEF EndOK, FinishedOK, StreamsOK, RowsOK
<1> QED BY <1>3, <1>4, <1>5, <1>6, <1>7, <1>8 DEF SessionInv

-----------------------------------------------------------------------------
(* The children *)

\* What was drained is not up: the children that still move were not.
LEMMA UpIsUndrained ==
  ASSUME NEW c \in Child, child[c].life # "zero"
  PROVE  ~Exhausted(c)
  BY DEF Exhausted, CleanEnd

\* A child that a session has was cast for it.
LEMMA UpIsCast ==
  ASSUME SessionInv, NEW c \in Child, child[c] # Unstarted
  PROVE  /\ InCast(c) /\ ~NotYet(c) /\ step # "off"
         /\ child[c] \in ChildRecord /\ Read(c) \in Nat
<1>1. ~NotYet(c) /\ child[c] \in ChildRecord
  BY DEF SessionInv, SessionTypeOK, StartsInTurn
<1>2. InCast(c) /\ step # "off"
  BY <1>1 DEF NotYet
<1>3. turn \in Nat \ {0}
  BY DEF SessionInv, SessionTypeOK
<1>4. KeepsLines => Before(c, turn) \in Nat
  BY <1>2, <1>3, TurnFacts DEF KeepsLines
<1>5. ~KeepsLines => Before(c, turn) \in Nat
  BY <1>3 DEF Before, RoundOf, KeepsLines
<1> QED BY <1>1, <1>2, <1>4, <1>5 DEF Read

\* Every step of a child keeps the invariant.
LEMMA ChildrenKeep ==
  ASSUME SessionInv, Children
  PROVE  SessionInv'
<1>1. PICK c \in Child : Greet(c) \/ Answer(c) \/ Quit(c) \/ Misbehave(c) \/ Fail(c) \/ LeftoverEnds(c)
  BY DEF Children
<1>2. /\ UNCHANGED <<use, step, who, turn, rows, verdict>> /\ child[c] # Unstarted
      /\ step \notin {"off", "over"}
  BY <1>1, StartFacts DEF Greet, Answer, Quit, Misbehave, Fail, LeftoverEnds, ChildStep, Runs
<1> DEFINE r == child[c]
           read == Read(c)
<1>3. /\ InCast(c) /\ r \in ChildRecord /\ read \in Nat
      /\ r.inbox \in Seq(Int) /\ r.pipe \in Seq(Int) /\ r.said \in Seq(Int)
      /\ child \in [Child -> ChildRecord]
  <2>1. InCast(c) /\ r \in ChildRecord /\ read \in Nat
    BY <1>2, UpIsCast
  <2> QED BY <2>1, RecordFacts DEF SessionInv, SessionTypeOK
<1>4. /\ KeepsLines /\ verdict = "ok" => StreamOK(r, read)
      /\ r.life = "up" => r.group /\ r.open
      /\ ~r.open => ~r.group
      /\ Uncut(r.inbox)
      /\ ~r.open => r.pipe = <<>> \/ step \in {"close", "over"}
  BY <1>3 DEF SessionInv, StreamsOK, LifeOK, EndOK
<1>5. Extends(r.said, r.said) /\ \A x \in Int : Extends(r.said, Append(r.said, x))
  BY <1>3, ExtendsFacts
<1> HIDE DEF read
\* A child that says x and goes on, perhaps with another inbox, or ends.
<1>6. ASSUME NEW s \in ChildRecord, NEW x \in Int,
             s.pipe = Append(r.pipe, x), s.said = Append(r.said, x),
             s.lines = r.lines, s.open = r.open, s.partial = r.partial, Uncut(s.inbox),
             x = Cut => s.life # "up", s.life = "up" => s.group, s.group => r.group,
             r.life = "up",
             child' = [child EXCEPT ![c] = s]
      PROVE  SessionInv'
  <2> HIDE DEF r
  <2>1. KeepsLines /\ verdict = "ok" => StreamOK(s, read)
    BY <1>3, <1>4, <1>6, StreamSay
  <2>2. /\ ~s.open => ~s.group
        /\ r.partial => s.partial
        /\ ~s.open => s.pipe = <<>> \/ step \in {"close", "over"}
    BY <1>4, <1>6
  <2>3. Extends(r.said, s.said)
    BY <1>5, <1>6
  <2>4. ~Exhausted(c)
    BY <1>6, UpIsUndrained DEF r
  <2> QED BY <1>2, <1>6, <2>1, <2>2, <2>3, <2>4, ChildChanges DEF r, read
\* A child that ends, or whose last process does.
<1>7. ASSUME NEW s \in ChildRecord,
             s.open = r.open, s.inbox = r.inbox, s.said = r.said, s.pipe = r.pipe,
             s.partial = r.partial, s.lines = r.lines,
             s.life # "up", s.life = r.life \/ r.life = "up", s.group => r.group,
             child' = [child EXCEPT ![c] = s]
      PROVE  SessionInv'
  <2> HIDE DEF r
  <2>1. KeepsLines /\ verdict = "ok" => StreamOK(s, read)
    BY <1>4, <1>7, StreamSame
  <2>2. Exhausted(c) => Exhausted(c)'
    BY <1>3, <1>7 DEF Exhausted, CleanEnd, r
  <2>3. /\ s.life = "up" => s.group
        /\ ~s.open => ~s.group
        /\ Uncut(s.inbox)
        /\ r.partial => s.partial
        /\ ~s.open => s.pipe = <<>> \/ step \in {"close", "over"}
    BY <1>4, <1>7
  <2>4. Extends(r.said, s.said)
    BY <1>5, <1>7
  <2> QED BY <1>2, <1>7, <2>1, <2>2, <2>3, <2>4, ChildChanges DEF r, read
<1> HIDE DEF r
<1>8. ASSUME NEW x \in Int
      PROVE  Append(r.pipe, x) \in Seq(Int) /\ Append(r.said, x) \in Seq(Int)
  BY <1>3, AppendFacts
<1>9. CASE Greet(c)
  <2> DEFINE s == [r EXCEPT !.pipe = Append(r.pipe, Ready), !.said = Append(r.said, Ready), !.greeted = TRUE]
  <2>1. child' = [Say(c, Ready) EXCEPT ![c].greeted = TRUE]
    BY <1>9 DEF Greet
  <2>2. child' = [child EXCEPT ![c] = s]
    BY <1>3, <2>1 DEF Say, ChildRecord, r
  <2>3. Ready \in Int /\ Ready # Cut
    BY DEF Ready, Cut
  <2>4. r.life = "up" /\ r.group
    BY <1>4, <1>9 DEF Greet, Runs, r
  <2>5. /\ s.pipe = Append(r.pipe, Ready) /\ s.said = Append(r.said, Ready)
        /\ s.lines = r.lines /\ s.open = r.open /\ s.partial = r.partial /\ s.inbox = r.inbox
        /\ s.life = r.life /\ s.group = r.group
        /\ s \in ChildRecord
    BY <1>3, <1>8, <2>3 DEF ChildRecord
  <2> HIDE DEF s
  <2> QED BY <1>4, <1>6, <2>2, <2>3, <2>4, <2>5
<1>10. CASE Answer(c)
  <2>1. /\ r.inbox # <<>>
        /\ child' = [Say(c, Head(r.inbox)) EXCEPT ![c].inbox = Tail(@)]
    BY <1>10 DEF Answer, Runs, r
  <2> DEFINE x == Head(r.inbox)
             i == Tail(r.inbox)
             s == [r EXCEPT !.pipe = Append(r.pipe, x), !.said = Append(r.said, x), !.inbox = i]
  <2>2. x \in Int /\ x # Cut /\ i \in Seq(Int) /\ Uncut(i)
    BY <1>3, <1>4, <2>1, UncutTail
  <2>3. child' = [child EXCEPT ![c] = s]
    BY <1>3, <2>1 DEF Say, ChildRecord, r
  <2>4. r.life = "up" /\ r.group
    BY <1>4, <1>10 DEF Answer, Runs, r
  <2> HIDE DEF x, i
  <2>5. /\ s.pipe = Append(r.pipe, x) /\ s.said = Append(r.said, x)
        /\ s.lines = r.lines /\ s.open = r.open /\ s.partial = r.partial /\ s.inbox = i
        /\ s.life = r.life /\ s.group = r.group
        /\ s \in ChildRecord
    BY <1>3, <1>8, <2>2 DEF ChildRecord
  <2> HIDE DEF s
  <2> QED BY <1>6, <2>2, <2>3, <2>4, <2>5
<1>11. CASE Quit(c)
  <2>1. PICK left \in BOOLEAN : child' = [child EXCEPT ![c].life = "zero", ![c].group = left]
    BY <1>11 DEF Quit
  <2> DEFINE s == [r EXCEPT !.life = "zero", !.group = left]
  <2>2. child' = [child EXCEPT ![c] = s]
    BY <1>3, <2>1 DEF r
  <2>3. r.life = "up" /\ r.group
    BY <1>4, <1>11 DEF Quit, Runs, r
  <2>4. /\ s.open = r.open /\ s.inbox = r.inbox /\ s.said = r.said /\ s.pipe = r.pipe
        /\ s.partial = r.partial /\ s.lines = r.lines /\ s.life = "zero" /\ s.group = left
        /\ s \in ChildRecord
    BY <1>3, <2>1 DEF ChildRecord
  <2> HIDE DEF s
  <2> QED BY <1>7, <2>2, <2>3, <2>4
<1>12. CASE LeftoverEnds(c)
  <2>1. child' = [child EXCEPT ![c].group = FALSE] /\ r.life \in {"zero", "bad"}
    BY <1>12 DEF LeftoverEnds, r
  <2> DEFINE s == [r EXCEPT !.group = FALSE]
  <2>2. child' = [child EXCEPT ![c] = s]
    BY <1>3, <2>1 DEF r
  <2>3. /\ s.open = r.open /\ s.inbox = r.inbox /\ s.said = r.said /\ s.pipe = r.pipe
        /\ s.partial = r.partial /\ s.lines = r.lines /\ s.life = r.life /\ s.group = FALSE
        /\ s \in ChildRecord
    BY <1>3 DEF ChildRecord
  <2> HIDE DEF s
  <2> QED BY <1>7, <2>1, <2>2, <2>3
<1> DEFINE bad == [r EXCEPT !.life = "bad", !.group = FALSE]
<1>13. /\ bad.open = r.open /\ bad.inbox = r.inbox /\ bad.said = r.said /\ bad.pipe = r.pipe
       /\ bad.partial = r.partial /\ bad.lines = r.lines /\ bad.life = "bad" /\ bad.group = FALSE
       /\ bad \in ChildRecord
  BY <1>3 DEF ChildRecord
<1>14. ASSUME r.life = "up", child' = [child EXCEPT ![c].life = "bad", ![c].group = FALSE]
       PROVE  SessionInv'
  <2>1. child' = [child EXCEPT ![c] = bad]
    BY <1>3, <1>14 DEF r
  <2> HIDE DEF bad
  <2> QED BY <1>7, <1>13, <1>14, <2>1
<1> HIDE DEF bad
<1>15. CASE Fail(c)
  BY <1>15, <1>14 DEF Fail, Runs, r
<1>16. CASE Misbehave(c)
  <2>1. r.life = "up"
    BY <1>16 DEF Misbehave, Runs, r
  <2>2. CASE child' = Say(c, Extra)
    <3> DEFINE s == [r EXCEPT !.pipe = Append(r.pipe, Extra), !.said = Append(r.said, Extra)]
    <3>1. child' = [child EXCEPT ![c] = s]
      BY <1>3, <2>2 DEF Say, ChildRecord, r
    <3>2. Extra \in Int /\ Extra # Cut
      BY DEF Extra, Cut
    <3>3. /\ s.pipe = Append(r.pipe, Extra) /\ s.said = Append(r.said, Extra)
          /\ s.lines = r.lines /\ s.open = r.open /\ s.partial = r.partial /\ s.inbox = r.inbox
          /\ s.life = r.life /\ s.group = r.group
          /\ s \in ChildRecord
      BY <1>3, <1>8, <3>2 DEF ChildRecord
    <3> HIDE DEF s
    <3> QED BY <1>4, <1>6, <2>1, <3>1, <3>2, <3>3
  <2>3. CASE child' = [child EXCEPT ![c].life = "bad", ![c].group = FALSE]
    BY <1>14, <2>1, <2>3
  <2>4. CASE child' = [Say(c, Cut) EXCEPT ![c].life = "zero", ![c].group = FALSE]
    <3> DEFINE s == [r EXCEPT !.pipe = Append(r.pipe, Cut), !.said = Append(r.said, Cut),
                              !.life = "zero", !.group = FALSE]
    <3>1. child' = [child EXCEPT ![c] = s]
      BY <1>3, <2>4 DEF Say, ChildRecord, r
    <3>2. Cut \in Int
      BY DEF Cut
    <3>3. /\ s.pipe = Append(r.pipe, Cut) /\ s.said = Append(r.said, Cut)
          /\ s.lines = r.lines /\ s.open = r.open /\ s.partial = r.partial /\ s.inbox = r.inbox
          /\ s.life = "zero" /\ s.group = FALSE
          /\ s \in ChildRecord
      BY <1>3, <1>8, <3>2 DEF ChildRecord
    <3> HIDE DEF s
    <3> QED BY <1>4, <1>6, <2>1, <3>1, <3>2, <3>3
  <2> QED BY <1>16, <2>2, <2>3, <2>4 DEF Misbehave
<1> QED BY <1>1, <1>9, <1>10, <1>11, <1>12, <1>15, <1>16

-----------------------------------------------------------------------------
(* The coordinator *)

LEMMA StartKeeps ==
  ASSUME SessionInv, Start
  PROVE  SessionInv'
<1> DEFINE c == Cast(use)[who]
<1>1. /\ SessionTypeOK /\ step = "start" /\ turn = 1 /\ verdict = "ok"
      /\ UNCHANGED <<use, turn, rows, verdict>>
      /\ child' = [child EXCEPT ![c] = Started]
      /\ step' = CASE KeepsLines                    -> "ready"
                   [] use = "profile" /\ who = 1    -> "start"
                   [] OTHER                         -> "drain"
      /\ who' = IF use = "profile" THEN 2 ELSE who
  BY DEF SessionInv, Start, TurnOK
<1>2. /\ c \in Child /\ InCast(c) /\ Index(c) = who
      /\ \A d \in Child : InCast(d) => Index(d) \in 1 .. Len(Cast(use)) /\ (Index(d) = who => d = c)
      /\ Len(Cast(use)) \in {1, 2} /\ who \in 1 .. Len(Cast(use))
  BY <1>1, CastFacts DEF SessionTypeOK
<1> HIDE DEF c
<1>3. /\ child' \in [Child -> ChildRecord] /\ child'[c] = Started
      /\ \A d \in Child : d # c => child'[d] = child[d]
      /\ \A d \in Child : child'[d] = Started \/ child'[d] = child[d]
  BY <1>1, <1>2, StreamStarts DEF SessionTypeOK
<1>4. /\ step' \in {"ready", "start", "drain"}
      /\ step' = "ready" => KeepsLines /\ who' = who
      /\ step' = "start" => use = "profile" /\ who = 1 /\ who' = 2
      /\ step' = "drain" => /\ ~KeepsLines
                            /\ (use = "profile" /\ who # 1) \/ use = "run"
      /\ KeepsLines => step' = "ready"
  BY <1>1 DEF KeepsLines, SessionTypeOK, Uses
<1>5. SessionTypeOK'
  <2>1. who' \in 1 .. Len(Cast(use)')
    BY <1>1, <1>2 DEF Cast
  <2> QED BY <1>1, <1>3, <1>4, <2>1 DEF SessionTypeOK
<1>6. LifeOK'
  <2>1. Uncut(Started.inbox)
    BY StartFacts, EmptyUncut
  <2> QED BY <1>3, <2>1, StartFacts DEF SessionInv, LifeOK
<1>7. StartsInTurn'
  <2>1. \A d \in Child : NotYet(d)' => NotYet(d) /\ d # c
    <3> SUFFICES ASSUME NEW d \in Child, NotYet(d)' PROVE NotYet(d) /\ d # c
      OBVIOUS
    <3>1. InCast(d)' = InCast(d) /\ Index(d)' = Index(d) /\ Index(d) \in {1, 2}
      BY <1>1, TurnsStay DEF Index
    <3>2. CASE ~InCast(d)
      BY <1>2, <3>2 DEF NotYet
    <3>3. CASE InCast(d)
      BY <1>1, <1>2, <1>4, <3>1, <3>3 DEF NotYet
    <3> QED BY <3>2, <3>3
  <2> QED BY <1>3, <2>1 DEF SessionInv, StartsInTurn
<1>8. TurnOK' /\ ClosingOK'
  BY <1>1, <1>4, TurnsStay DEF TurnOK, ClosingOK, Passed
<1>9. EndOK'
  BY <1>1, <1>3, StartFacts DEF SessionInv, EndOK
<1>10. FinishedOK'
  BY <1>1, <1>4, TurnsStay DEF FinishedOK, Passed
<1>11. StreamsOK'
  <2> SUFFICES ASSUME KeepsLines, NEW d \in Child, InCast(d)
               PROVE  StreamOK(child'[d], Read(d)')
    BY <1>1, TurnsStay DEF StreamsOK
  <2>1. step' = "ready" /\ who' = who
    BY <1>4
  <2>2. Before(d, turn)' = Before(d, turn) /\ Index(d)' = Index(d)
    BY <1>1, TurnsStay
  <2>3. Read(d)' = Read(d)
    BY <1>1, <2>1, <2>2 DEF Read
  <2>4. CASE d = c
    <3>1. Read(d) = 0
      BY <1>1, <1>2, <2>4 DEF Read
    <3> QED BY <1>3, <2>3, <2>4, <3>1, StreamStarts
  <2>5. CASE d # c
    BY <1>1, <1>3, <2>3, <2>5 DEF SessionInv, StreamsOK
  <2> QED BY <2>4, <2>5
<1>12. RowsOK'
  <2>1. 1 - 1 = 0 /\ \A t \in 1 .. 0 : FALSE
    OBVIOUS
  <2>2. turn' = 1 /\ rows' = rows /\ (KeepsLines /\ verdict = "ok")' = (KeepsLines /\ verdict = "ok")
    BY <1>1, TurnsStay
  <2>3. KeepsLines /\ verdict = "ok" => Len(rows) = 0
    BY <1>1, <2>1 DEF SessionInv, RowsOK
  <2> QED BY <2>1, <2>2, <2>3 DEF RowsOK
<1> QED BY <1>5, <1>6, <1>7, <1>8, <1>9, <1>10, <1>11, <1>12 DEF SessionInv

\* The exceptions that leave the children as they are.
LEMMA FailsKeep ==
  ASSUME SessionInv, StartFails \/ OverLimit \/ Expire \/ NoRecord \/ RequestFails \/ FinishFails
  PROVE  SessionInv'
<1>1. \E kind \in {"invalid", "failed", "stopped"} : Raise(kind)
  BY DEF StartFails, OverLimit, Expire, NoRecord, RequestFails, FinishFails
<1>2. step \notin {"off", "close", "over"} /\ UNCHANGED <<use, turn, rows, child>>
  BY DEF StartFails, OverLimit, Expire, NoRecord, RequestFails, FinishFails, Waiting, Drained, Pumped
<1>3. child' \in [Child -> ChildRecord]
  BY <1>2 DEF SessionInv, SessionTypeOK
<1> QED BY <1>1, <1>2, <1>3, RaiseKeeps

LEMMA PumpKeeps ==
  ASSUME SessionInv, NEW c \in Child, Pump(c)
  PROVE  SessionInv'
<1> DEFINE r == child[c]
<1>1. PICK n \in 1 .. Len(r.pipe) :
        LET cut   == r.pipe[n] = Cut
            lines == r.lines \o SubSeq(r.pipe, 1, IF cut THEN n - 1 ELSE n)
        IN  /\ child' = [child EXCEPT ![c].pipe = SubSeq(@, n + 1, Len(@)),
                                      ![c].lines = lines,
                                      ![c].partial = @ \/ cut]
            /\ IF Len(lines) > MaxLines
                 THEN Raise("invalid")
                 ELSE UNCHANGED <<step, who, verdict>>
  BY DEF Pump
<1> DEFINE m == IF r.pipe[n] = Cut THEN n - 1 ELSE n
           s == [r EXCEPT !.pipe = SubSeq(r.pipe, n + 1, Len(r.pipe)),
                          !.lines = r.lines \o SubSeq(r.pipe, 1, m),
                          !.partial = r.partial \/ r.pipe[n] = Cut]
           read == Read(c)
<1>2. /\ c \in Pumped /\ r.open /\ UNCHANGED <<use, turn, rows>> /\ r # Unstarted
      /\ step \notin {"off", "close", "over"}
      /\ child \in [Child -> ChildRecord]
      /\ Raise("invalid") \/ UNCHANGED <<step, who, verdict>>
  BY <1>1, StartFacts DEF Pump, Pumped, SessionInv, SessionTypeOK
<1>3. child' = [child EXCEPT ![c] = s]
  BY <1>1, <1>2
<1>4. r \in ChildRecord /\ read \in Nat /\ InCast(c)
  BY <1>2, UpIsCast
<1>5. /\ KeepsLines /\ verdict = "ok" => StreamOK(r, read)
      /\ r.life = "up" => r.group
      /\ Uncut(r.inbox)
  BY <1>4 DEF SessionInv, StreamsOK, LifeOK
<1>6. m \in {n - 1, n} /\ (m = n <=> r.pipe[n] # Cut)
  OBVIOUS
<1> HIDE DEF r, read, m
<1>7. s \in ChildRecord
  <2>1. r.pipe \in Seq(Int) /\ r.lines \in Seq(Int)
    BY <1>4, RecordFacts
  <2>2. SubSeq(r.pipe, n + 1, Len(r.pipe)) \in Seq(Int) /\ SubSeq(r.pipe, 1, m) \in Seq(Int)
    BY <1>6, <2>1, SplitFacts
  <2>3. r.lines \o SubSeq(r.pipe, 1, m) \in Seq(Int)
    BY <2>1, <2>2, JoinFacts
  <2>4. (r.partial \/ r.pipe[n] = Cut) \in BOOLEAN
    OBVIOUS
  <2> QED BY <1>4, <2>2, <2>3, <2>4 DEF ChildRecord
<1>8. /\ s.life = r.life /\ s.group = r.group /\ s.open = r.open /\ s.inbox = r.inbox
      /\ s.said = r.said
      /\ s.pipe = SubSeq(r.pipe, n + 1, Len(r.pipe))
      /\ s.lines = r.lines \o SubSeq(r.pipe, 1, m)
      /\ s.partial = (r.partial \/ r.pipe[n] = Cut)
  BY <1>4 DEF ChildRecord
<1> HIDE DEF s
<1>9. CASE Raise("invalid")
  <2>1. child' \in [Child -> ChildRecord]
    BY <1>2, <1>3, <1>7
  <2>2. \A d \in Child : /\ child'[d].life = child[d].life /\ child'[d].group = child[d].group
                         /\ child'[d].open = child[d].open /\ child'[d].inbox = child[d].inbox
                         /\ child[d] = Unstarted => child'[d] = child[d]
    BY <1>2, <1>3, <1>8 DEF r
  <2> QED BY <1>2, <1>9, <2>1, <2>2, RaiseKeeps
<1>10. CASE UNCHANGED <<step, who, verdict>>
  <2>1. KeepsLines /\ verdict = "ok" => StreamOK(s, read)
    BY <1>4, <1>5, <1>6, <1>7, <1>8, StreamPump
  <2>2. ~Exhausted(c)
    BY <1>2 DEF Exhausted, r
  <2>3. Extends(r.said, s.said) /\ (r.partial => s.partial)
    BY <1>4, <1>8, RecordFacts, ExtendsFacts
  <2> QED BY <1>2, <1>3, <1>5, <1>7, <1>8, <1>10, <2>1, <2>2, <2>3, ChildChanges DEF r, read
<1> QED BY <1>2, <1>9, <1>10

LEMMA PumpEOFKeeps ==
  ASSUME SessionInv, NEW c \in Child, PumpEOF(c)
  PROVE  SessionInv'
<1> DEFINE r == child[c]
           s == [r EXCEPT !.open = FALSE]
           read == Read(c)
<1>1. /\ r.open /\ r.pipe = <<>> /\ ~r.group /\ r # Unstarted
      /\ UNCHANGED <<use, step, who, turn, rows, verdict>>
      /\ child \in [Child -> ChildRecord]
  BY StartFacts DEF PumpEOF, SessionInv, SessionTypeOK
<1>2. child' = [child EXCEPT ![c] = s]
  BY <1>1 DEF PumpEOF
<1>3. r \in ChildRecord /\ read \in Nat /\ InCast(c)
  BY <1>1, UpIsCast
<1>4. /\ KeepsLines /\ verdict = "ok" => StreamOK(r, read)
      /\ r.life = "up" => r.group
      /\ Uncut(r.inbox)
  BY <1>3 DEF SessionInv, StreamsOK, LifeOK
<1> HIDE DEF r, read
<1>5. s \in ChildRecord
  BY <1>3 DEF ChildRecord
<1>6. /\ s.life = r.life /\ s.group = r.group /\ s.inbox = r.inbox
      /\ s.said = r.said /\ s.pipe = r.pipe /\ s.lines = r.lines /\ s.partial = r.partial
  BY <1>3 DEF ChildRecord
<1> HIDE DEF s
<1>7. KeepsLines /\ verdict = "ok" => StreamOK(s, read)
  BY <1>4, <1>6, StreamSame
<1>8. ~Exhausted(c)
  BY <1>1 DEF Exhausted, r
<1>9. Extends(r.said, s.said) /\ (r.partial => s.partial)
  BY <1>3, <1>6, RecordFacts, ExtendsFacts
<1> QED BY <1>1, <1>2, <1>4, <1>5, <1>6, <1>7, <1>8, <1>9, ChildChanges DEF r, read

LEMMA TakeReadyKeeps ==
  ASSUME SessionInv, TakeReady
  PROVE  SessionInv'
<1> DEFINE c == Cast(use)[who]
           r == child[c]
           s == [r EXCEPT !.lines = Tail(r.lines)]
<1>1. /\ SessionTypeOK /\ step = "ready" /\ turn = 1 /\ verdict = "ok" /\ KeepsLines
      /\ UNCHANGED <<use, turn, rows>>
      /\ r.lines # <<>> /\ r # Unstarted
      /\ child' = [child EXCEPT ![c].lines = Tail(@)]
      /\ \/ /\ step' = IF who < Len(Cast(use)) THEN "start" ELSE "request"
            /\ who' = IF who < Len(Cast(use)) THEN who + 1 ELSE who
            /\ UNCHANGED verdict
         \/ Raise("invalid")
  BY StartFacts DEF SessionInv, TakeReady, TurnOK
<1>2. /\ c \in Child /\ InCast(c) /\ Index(c) = who
      /\ \A d \in Child : InCast(d) => Index(d) \in 1 .. Len(Cast(use)) /\ (Index(d) = who => d = c)
      /\ Len(Cast(use)) \in {1, 2} /\ who \in 1 .. Len(Cast(use))
  BY <1>1, CastFacts DEF SessionTypeOK
<1> HIDE DEF c
<1>3. r \in ChildRecord /\ child \in [Child -> ChildRecord] /\ StreamOK(r, Read(c))
  BY <1>1, <1>2 DEF SessionInv, SessionTypeOK, StreamsOK
<1>4. child' = [child EXCEPT ![c] = s]
  BY <1>1, <1>3
<1> HIDE DEF r
<1>5. /\ r.lines \in Seq(Int) /\ Tail(r.lines) \in Seq(Int) /\ s \in ChildRecord
  <2>1. r.lines \in Seq(Int)
    BY <1>3, RecordFacts
  <2>2. Tail(r.lines) \in Seq(Int)
    BY <1>1, <2>1, TailFacts
  <2> QED BY <1>3, <2>1, <2>2 DEF ChildRecord
<1>6. /\ s.life = r.life /\ s.group = r.group /\ s.open = r.open /\ s.inbox = r.inbox
      /\ s.pipe = r.pipe
  BY <1>3 DEF ChildRecord
<1>7. /\ child' \in [Child -> ChildRecord] /\ child'[c] = s
      /\ \A d \in Child : d # c => child'[d] = child[d]
      /\ \A d \in Child : /\ child'[d].life = child[d].life /\ child'[d].group = child[d].group
                          /\ child'[d].open = child[d].open /\ child'[d].inbox = child[d].inbox
                          /\ child'[d].pipe = child[d].pipe
                          /\ child[d] = Unstarted => child'[d] = child[d]
  <2> HIDE DEF s
  <2> QED BY <1>1, <1>2, <1>3, <1>4, <1>5, <1>6 DEF r
<1>8. CASE Raise("invalid")
  BY <1>1, <1>7, <1>8, RaiseKeeps
<1>9. CASE /\ step' = IF who < Len(Cast(use)) THEN "start" ELSE "request"
           /\ who' = IF who < Len(Cast(use)) THEN who + 1 ELSE who
           /\ UNCHANGED verdict
  <2>1. /\ step' \in {"start", "request"}
        /\ step' = "start" => who' = who + 1
        /\ step' = "request" => who' = who /\ who = Len(Cast(use))
        /\ who' \in 1 .. Len(Cast(use))
    BY <1>2, <1>9
  <2>2. SessionTypeOK'
    BY <1>1, <1>7, <1>9, <2>1, TurnsStay DEF SessionTypeOK
  <2>3. LifeOK'
    BY <1>7 DEF SessionInv, LifeOK
  <2>4. StartsInTurn'
    <3>1. ASSUME NEW d \in Child, NotYet(d)' PROVE NotYet(d)
      <4>1. CASE ~InCast(d)
        BY <4>1 DEF NotYet
      <4>2. CASE InCast(d)
        <5>1. step' = "start" /\ Index(d) >= who + 1 /\ Index(d) \in Nat
          BY <1>1, <1>2, <2>1, <3>1, <4>2, TurnsStay DEF NotYet, Index
        <5> QED BY <1>1, <1>2, <5>1 DEF NotYet
      <4> QED BY <4>1, <4>2
    <3> QED BY <1>7, <3>1 DEF SessionInv, StartsInTurn
  <2>5. TurnOK' /\ ClosingOK'
    <3>1. Turns \in Nat \ {0}
      BY <1>1, TurnEnds DEF KeepsLines
    <3>2. TurnOK'
      BY <1>1, <1>9, <2>1, <3>1, TurnsStay DEF TurnOK, Passed
    <3>3. ClosingOK'
      BY <2>1 DEF ClosingOK
    <3> QED BY <3>2, <3>3
  <2>6. EndOK'
    BY <1>1, <1>7 DEF SessionInv, EndOK
  <2>7. FinishedOK'
    BY <2>1 DEF FinishedOK, Passed
  <2>8. StreamsOK'
    <3> SUFFICES ASSUME NEW d \in Child, InCast(d)
                 PROVE  StreamOK(child'[d], Read(d)')
      BY <1>1, TurnsStay DEF StreamsOK
    <3>1. /\ Before(d, turn)' = 0 /\ Before(d, turn) = 0
          /\ Index(d)' = Index(d)
      BY <1>1, TurnsStay, TurnEnds DEF KeepsLines
    <3>3. CASE d = c
      <4>1. Read(d) = 0
        BY <1>1, <1>2, <3>3 DEF Read
      <4>2. Read(d)' = 1
        BY <1>1, <1>2, <2>1, <3>1, <3>3 DEF Read
      <4>3. StreamOK(s, 0 + 1)
        BY <1>1, <1>3, <1>5, <3>3, <4>1, StreamTake
      <4>4. 0 + 1 = 1
        OBVIOUS
      <4> HIDE DEF s
      <4> QED BY <1>7, <3>3, <4>2, <4>3, <4>4
    <3>4. CASE d # c
      <4>1. Index(d) # who /\ Index(d) \in 1 .. Len(Cast(use))
        BY <1>2, <3>4
      <4>2. Read(d)' = Read(d)
        BY <1>1, <1>2, <2>1, <3>1, <4>1 DEF Read
      <4> QED BY <1>1, <1>7, <3>4, <4>2 DEF SessionInv, StreamsOK
    <3> QED BY <3>3, <3>4
  <2>9. RowsOK'
    <3>1. 1 - 1 = 0 /\ \A t \in 1 .. 0 : FALSE
      OBVIOUS
    <3>2. Len(rows) = 0
      BY <1>1, <3>1 DEF SessionInv, RowsOK
    <3> QED BY <1>1, <3>1, <3>2 DEF RowsOK
  <2> QED BY <2>2, <2>3, <2>4, <2>5, <2>6, <2>7, <2>8, <2>9 DEF SessionInv
<1> QED BY <1>1, <1>8, <1>9

LEMMA RequestKeeps ==
  ASSUME SessionInv, Request
  PROVE  SessionInv'
<1> DEFINE c == To(turn)
           r == child[c]
           s == [r EXCEPT !.inbox = Append(r.inbox, RoundOf(turn))]
<1>1. /\ SessionTypeOK /\ step = "request" /\ step' = "await" /\ verdict = "ok" /\ KeepsLines
      /\ turn \in Nat \ {0} /\ turn <= Turns
      /\ UNCHANGED <<use, who, turn, rows, verdict>>
      /\ r.group
      /\ child' = [child EXCEPT ![c].inbox = Append(@, RoundOf(turn))]
  BY DEF SessionInv, Request, TurnOK, SessionTypeOK
<1>2. /\ c \in Child /\ InCast(c) /\ RoundOf(turn) \in Nat \ {0}
      /\ Before(c, turn) = RoundOf(turn) - 1 /\ Before(c, turn) \in Nat
  BY <1>1, TurnFacts DEF KeepsLines
<1> HIDE DEF c
<1>3. /\ r \in ChildRecord /\ child \in [Child -> ChildRecord]
      /\ StreamOK(r, Read(c)) /\ Uncut(r.inbox)
  BY <1>1, <1>2 DEF SessionInv, SessionTypeOK, StreamsOK, LifeOK
<1>4. child' = [child EXCEPT ![c] = s] /\ r # Unstarted
  BY <1>1, <1>3, StartFacts
<1> HIDE DEF r
<1>5. /\ s \in ChildRecord /\ Uncut(Append(r.inbox, RoundOf(turn)))
  <2>1. r.inbox \in Seq(Int) /\ RoundOf(turn) \in Int \ {Cut}
    BY <1>2, <1>3, RecordFacts DEF Cut
  <2>2. Append(r.inbox, RoundOf(turn)) \in Seq(Int) /\ Uncut(Append(r.inbox, RoundOf(turn)))
    BY <1>3, <2>1, AppendFacts, UncutAppend
  <2> QED BY <1>3, <2>2 DEF ChildRecord
<1>6. /\ s.life = r.life /\ s.group = r.group /\ s.open = r.open
      /\ s.inbox = Append(r.inbox, RoundOf(turn))
      /\ s.pipe = r.pipe /\ s.said = r.said /\ s.lines = r.lines /\ s.partial = r.partial
  BY <1>3 DEF ChildRecord
<1>8. StreamOK(s, Read(c))
  BY <1>3, <1>6, StreamSame
<1>9. /\ child' \in [Child -> ChildRecord] /\ child'[c] = s
      /\ \A d \in Child : d # c => child'[d] = child[d]
      /\ \A d \in Child : /\ child'[d].life = child[d].life /\ child'[d].group = child[d].group
                          /\ child'[d].open = child[d].open /\ child'[d].pipe = child[d].pipe
                          /\ child'[d].said = child[d].said /\ child'[d].partial = child[d].partial
                          /\ child[d] = Unstarted => child'[d] = child[d]
                          /\ Uncut(child[d].inbox) => Uncut(child'[d].inbox)
  <2> HIDE DEF s
  <2> QED BY <1>2, <1>3, <1>4, <1>5, <1>6 DEF r
<1>10. SessionTypeOK'
  BY <1>1, <1>9, TurnsStay DEF SessionTypeOK
<1>11. LifeOK'
  BY <1>9 DEF SessionInv, LifeOK
<1>12. StartsInTurn'
  <2>1. \A d \in Child : NotYet(d)' => NotYet(d)
    BY <1>1, TurnsStay DEF NotYet
  <2> QED BY <1>9, <2>1 DEF SessionInv, StartsInTurn
<1>13. TurnOK' /\ ClosingOK' /\ FinishedOK'
  BY <1>1, TurnsStay DEF TurnOK, ClosingOK, FinishedOK, Passed
<1>14. EndOK'
  BY <1>1, <1>9 DEF SessionInv, EndOK
<1>15. StreamsOK'
  <2> SUFFICES ASSUME NEW d \in Child, InCast(d)
               PROVE  StreamOK(child'[d], Read(d)')
    BY <1>1, TurnsStay DEF StreamsOK
  <2>1. Before(d, turn)' = Before(d, turn) /\ Index(d)' = Index(d)
    BY <1>1, TurnsStay
  <2>2. Read(d)' = Read(d)
    BY <1>1, <2>1 DEF Read
  <2>3. CASE d = c
    BY <1>8, <1>9, <2>2, <2>3
  <2>4. CASE d # c
    BY <1>1, <1>9, <2>2, <2>4 DEF SessionInv, StreamsOK
  <2> QED BY <2>3, <2>4
<1>16. RowsOK'
  <2>1. \A d \in Child : Extends(child[d].said, child'[d].said)
    BY <1>3, <1>9, RecordFacts, ExtendsFacts
  <2> QED BY <1>1, <1>3, <1>9, <2>1, RowsStay DEF SessionInv
<1> QED BY <1>10, <1>11, <1>12, <1>13, <1>14, <1>15, <1>16 DEF SessionInv

LEMMA RowsAppend ==
  ASSUME NEW s \in Seq(Int), NEW x \in Int, NEW n \in Nat \ {0}, Len(s) = n - 1
  PROVE  /\ Append(s, x) \in Seq(Int) /\ Len(Append(s, x)) = n /\ Append(s, x)[n] = x
         /\ \A i \in 1 .. n - 1 : Append(s, x)[i] = s[i]
  OBVIOUS

LEMMA TakeResponseKeeps ==
  ASSUME SessionInv, TakeResponse
  PROVE  SessionInv'
<1> DEFINE c == To(turn)
           r == child[c]
           s == [r EXCEPT !.lines = Tail(r.lines)]
           x == Head(r.lines)
<1>1. /\ SessionTypeOK /\ step = "await" /\ verdict = "ok" /\ KeepsLines
      /\ turn \in Nat \ {0} /\ turn <= Turns /\ turn' = turn + 1
      /\ UNCHANGED <<use, verdict>>
      /\ r.lines # <<>> /\ r # Unstarted
      /\ rows' = Append(rows, x)
      /\ child' = [child EXCEPT ![c].lines = Tail(@)]
      /\ IF turn < Turns THEN step' = "request" /\ UNCHANGED who
                         ELSE step' = "drain" /\ who' = 1
  BY StartFacts DEF SessionInv, TakeResponse, TurnOK, SessionTypeOK
<1>2. /\ c \in Child /\ InCast(c) /\ RoundOf(turn) \in Nat \ {0}
      /\ Before(c, turn) = RoundOf(turn) - 1 /\ Before(c, turn + 1) = RoundOf(turn)
      /\ \A d \in Child : InCast(d) /\ d # c => Before(d, turn + 1) = Before(d, turn)
      /\ Turns \in Nat \ {0}
  BY <1>1, TurnFacts, TurnEnds DEF KeepsLines
<1>3. /\ step' \in {"request", "drain"}
      /\ step' = "request" => turn + 1 <= Turns
      /\ step' = "drain" => turn + 1 = Turns + 1 /\ who' = 1
      /\ who' \in 1 .. Len(Cast(use))
  <2>1. 1 \in 1 .. Len(Cast(use))
    BY <1>1, CastFacts
  <2> QED BY <1>1, <1>2, <2>1 DEF SessionTypeOK
<1> HIDE DEF c
<1>4. r \in ChildRecord /\ child \in [Child -> ChildRecord] /\ StreamOK(r, Read(c))
  BY <1>1, <1>2 DEF SessionInv, SessionTypeOK, StreamsOK
<1>5. child' = [child EXCEPT ![c] = s]
  BY <1>1, <1>4
<1> HIDE DEF r
<1>6. /\ r.lines \in Seq(Int) /\ x \in Int /\ s \in ChildRecord
  <2>1. r.lines \in Seq(Int)
    BY <1>4, RecordFacts
  <2>2. Tail(r.lines) \in Seq(Int) /\ x \in Int
    BY <1>1, <2>1, TailFacts
  <2> QED BY <1>4, <2>1, <2>2 DEF ChildRecord
<1>7. /\ s.life = r.life /\ s.group = r.group /\ s.open = r.open /\ s.inbox = r.inbox
      /\ s.pipe = r.pipe /\ s.said = r.said /\ s.partial = r.partial
  BY <1>4 DEF ChildRecord
<1>8. Read(c) \in Nat /\ Read(c) = RoundOf(turn)
  <2>1. Read(c) = 1 + Before(c, turn)
    BY <1>1 DEF Read
  <2> QED BY <1>2, <2>1
<1>9. /\ StreamOK(s, RoundOf(turn) + 1)
      /\ r.partial \/ (RoundOf(turn) + 1 \in 1 .. Len(r.said) /\ x = r.said[RoundOf(turn) + 1])
  <2>1. /\ StreamOK(s, Read(c) + 1)
        /\ r.partial \/ (Read(c) + 1 \in 1 .. Len(r.said) /\ x = r.said[Read(c) + 1])
    BY <1>1, <1>4, <1>6, <1>8, StreamTake
  <2> QED BY <1>8, <2>1
<1> HIDE DEF x
<1>10. /\ child' \in [Child -> ChildRecord] /\ child'[c] = s
       /\ \A d \in Child : d # c => child'[d] = child[d]
       /\ \A d \in Child : /\ child'[d].life = child[d].life /\ child'[d].group = child[d].group
                           /\ child'[d].open = child[d].open /\ child'[d].inbox = child[d].inbox
                           /\ child'[d].pipe = child[d].pipe
                           /\ child'[d].said = child[d].said /\ child'[d].partial = child[d].partial
                           /\ child[d] = Unstarted => child'[d] = child[d]
  <2> HIDE DEF s
  <2> QED BY <1>1, <1>2, <1>4, <1>5, <1>6, <1>7 DEF r
<1>11. /\ rows \in Seq(Int) /\ Len(rows) = turn - 1
       /\ \A t \in 1 .. turn - 1 : Paired(t)
  BY <1>1 DEF SessionInv, RowsOK, SessionTypeOK
<1>12. /\ rows' \in Seq(Int) /\ Len(rows') = turn /\ rows'[turn] = x
       /\ \A i \in 1 .. turn - 1 : rows'[i] = rows[i]
  BY <1>1, <1>6, <1>11, RowsAppend
<1>13. SessionTypeOK'
  <2>1. turn' \in Nat \ {0}
    BY <1>1
  <2> QED BY <1>1, <1>3, <1>10, <1>12, <2>1, TurnsStay DEF SessionTypeOK
<1>14. LifeOK'
  BY <1>10 DEF SessionInv, LifeOK
<1>15. StartsInTurn'
  <2>1. \A d \in Child : NotYet(d)' => NotYet(d)
    BY <1>1, <1>3, TurnsStay DEF NotYet
  <2> QED BY <1>10, <2>1 DEF SessionInv, StartsInTurn
<1>16. TurnOK' /\ ClosingOK'
  BY <1>1, <1>3, TurnsStay DEF TurnOK, ClosingOK, Passed
<1>17. EndOK'
  BY <1>1, <1>10 DEF SessionInv, EndOK
<1>18. FinishedOK'
  <2>1. \A d \in Child : ~(Index(d)' < 1)
    BY DEF Index
  <2> QED BY <1>3, <2>1 DEF FinishedOK, Passed
<1>19. StreamsOK'
  <2> SUFFICES ASSUME NEW d \in Child, InCast(d)
               PROVE  StreamOK(child'[d], Read(d)')
    BY <1>1, TurnsStay DEF StreamsOK
  <2>1. Before(d, turn)' = Before(d, turn + 1)
    BY <1>1, TurnsStay
  <2>2. Read(d)' = 1 + Before(d, turn + 1)
    BY <1>3, <2>1 DEF Read
  <2>3. CASE d = c
    <3>1. Read(d)' = RoundOf(turn) + 1
      BY <1>2, <2>2, <2>3
    <3> HIDE DEF s
    <3> QED BY <1>9, <1>10, <2>3, <3>1
  <2>4. CASE d # c
    <3>1. Read(d) = 1 + Before(d, turn)
      BY <1>1, <2>4 DEF Read
    <3> QED BY <1>1, <1>2, <1>10, <2>2, <2>4, <3>1 DEF SessionInv, StreamsOK
  <2> QED BY <2>3, <2>4
<1>20. RowsOK'
  <2>1. turn' - 1 = turn
    BY <1>1
  <2>2. \A d \in Child : /\ child[d].partial => child'[d].partial
                         /\ Extends(child[d].said, child'[d].said)
    <3>1. \A d \in Child : Extends(child[d].said, child'[d].said)
      BY <1>4, <1>10, RecordFacts, ExtendsFacts
    <3> QED BY <1>10, <3>1
  <2>3. ASSUME NEW t \in 1 .. turn PROVE Paired(t)'
    <3>1. CASE t = turn
      <4>1. child'[c].said = r.said /\ child'[c].partial = r.partial
        BY <1>2, <1>10 DEF r
      <4>2. child'[c].partial \/ (RoundOf(t) + 1 \in 1 .. Len(child'[c].said)
                                  /\ rows'[t] = child'[c].said[RoundOf(t) + 1])
        BY <1>9, <1>12, <3>1, <4>1
      <4>3. To(t)' = c /\ (RoundOf(t) + 1)' = RoundOf(t) + 1
        BY <1>1, <3>1, TurnsStay DEF c
      <4>4. child'[To(t)'].partial \/ ((RoundOf(t) + 1)' \in 1 .. Len(child'[To(t)'].said)
                                      /\ rows'[t] = child'[To(t)'].said[(RoundOf(t) + 1)'])
        BY <4>2, <4>3
      <4> QED BY <4>4 DEF Paired
    <3>2. CASE t # turn
      <4>1. t \in 1 .. turn - 1
        BY <1>1, <3>2
      <4>2. Paired(t) /\ rows'[t] = rows[t]
        BY <1>11, <1>12, <4>1
      <4> QED BY <1>1, <1>4, <1>10, <2>2, <4>2, PairedStays
    <3> QED BY <3>1, <3>2
  <2> QED BY <1>12, <2>1, <2>3 DEF RowsOK
<1> QED BY <1>13, <1>14, <1>15, <1>16, <1>17, <1>18, <1>19, <1>20 DEF SessionInv

LEMMA FinishKeeps ==
  ASSUME SessionInv, Finish
  PROVE  SessionInv'
<1> DEFINE c == Cast(use)[who]
<1>1. /\ SessionTypeOK /\ step = "drain" /\ verdict = "ok" /\ verdict' = "ok"
      /\ ~child[c].open /\ CleanEnd(c)
      /\ UNCHANGED <<use, turn, rows, child>>
      /\ \/ KeepsLines /\ who < Len(Cast(use)) /\ who' = who + 1 /\ step' = "drain"
         \/ /\ ~(KeepsLines /\ who < Len(Cast(use)))
            /\ who' = 1 /\ step' = "close"
  BY DEF SessionInv, Finish, Drained, Raise, TurnOK
<1>2. /\ c \in Child /\ InCast(c) /\ Index(c) = who
      /\ \A d \in Child : InCast(d) => Index(d) \in 1 .. Len(Cast(use)) /\ (Index(d) = who => d = c)
      /\ Len(Cast(use)) \in {1, 2} /\ who \in 1 .. Len(Cast(use))
  BY <1>1, CastFacts DEF SessionTypeOK
<1>3. Exhausted(c)
  BY <1>1, <1>2 DEF SessionInv, EndOK, Exhausted
<1> HIDE DEF c
<1>4. SessionTypeOK'
  <2>1. who' \in 1 .. Len(Cast(use))
    BY <1>1, <1>2
  <2> QED BY <1>1, <2>1, TurnsStay DEF SessionTypeOK
<1>5. LifeOK'
  BY <1>1 DEF SessionInv, LifeOK
<1>6. StartsInTurn'
  <2>1. \A d \in Child : NotYet(d)' => NotYet(d)
    BY <1>1, TurnsStay DEF NotYet
  <2> QED BY <1>1, <2>1 DEF SessionInv, StartsInTurn
<1>7. TurnOK'
  BY <1>1, TurnsStay DEF SessionInv, TurnOK, Passed
<1>8. ClosingOK'
  <2>1. \A d \in Child : ~(Position(d)' < 1)
    BY DEF Position, Index
  <2> QED BY <1>1, <2>1 DEF ClosingOK
<1>9. EndOK'
  BY <1>1 DEF SessionInv, EndOK
<1>10. FinishedOK'
  <2>1. \A d \in Child : Exhausted(d)' = Exhausted(d) /\ Index(d)' = Index(d) /\ InCast(d)' = InCast(d)
    BY <1>1, TurnsStay DEF Exhausted, CleanEnd
  <2>2. ASSUME KeepsLines, NEW d \in Child, InCast(d), Passed' \/ Index(d) < who'
        PROVE  Exhausted(d)
    <3>1. Index(d) \in Nat /\ (Index(d) < who \/ Index(d) = who)
      BY <1>1, <1>2, <2>2 DEF Passed
    <3>2. CASE Index(d) < who
      BY <1>1, <2>2, <3>2 DEF SessionInv, FinishedOK
    <3>3. CASE Index(d) = who
      BY <1>2, <1>3, <2>2, <3>3
    <3> QED BY <3>1, <3>2, <3>3
  <2> QED BY <1>1, <2>1, <2>2, TurnsStay DEF FinishedOK
<1>11. StreamsOK'
  <2>1. \A d \in Child : Read(d)' = Read(d)
    BY <1>1, TurnsStay DEF Read
  <2> QED BY <1>1, <2>1, TurnsStay DEF SessionInv, StreamsOK
<1>12. RowsOK'
  BY <1>1, RowsSame
<1> QED BY <1>4, <1>5, <1>6, <1>7, <1>8, <1>9, <1>10, <1>11, <1>12 DEF SessionInv

\* The next to close, or nobody.
LEMMA NextCloseFacts ==
  ASSUME SessionTypeOK, step = "close", NextClose
  PROVE  /\ step' \in {"close", "over"} /\ who' \in 1 .. Len(Cast(use))
         /\ step' = "close" => who' = who + 1
         /\ \A c \in Child : InCast(c) /\ Position(c) < who' /\ step' = "close" =>
              c = CloseOrder(use)[who] \/ Position(c) < who
         /\ \A c \in Child : InCast(c) /\ step' = "over" =>
              c = CloseOrder(use)[who] \/ Position(c) < who
<1>1. /\ who \in Nat \ {0} /\ who <= Len(Cast(use))
      /\ Len(CloseOrder(use)) = Len(Cast(use)) /\ Len(Cast(use)) \in {1, 2}
      /\ \A c \in Child : InCast(c) => /\ Position(c) \in 1 .. Len(Cast(use))
                                       /\ Position(c) = who => c = CloseOrder(use)[who]
  BY CastFacts DEF SessionTypeOK
<1>2. CASE who < Len(CloseOrder(use)) /\ who' = who + 1 /\ step' = step
  BY <1>1, <1>2
<1>3. CASE ~(who < Len(CloseOrder(use))) /\ step' = "over" /\ who' = who
  BY <1>1, <1>3
<1> QED BY <1>2, <1>3 DEF NextClose

LEMMA CloseKeeps ==
  ASSUME SessionInv, Close
  PROVE  SessionInv'
<1> DEFINE c == CloseOrder(use)[who]
           r == child[c]
           s == [r EXCEPT !.group = FALSE, !.open = FALSE,
                          !.life = IF r.life = "up" THEN "bad" ELSE r.life]
<1>1. /\ SessionTypeOK /\ step = "close" /\ UNCHANGED <<use, turn, rows, verdict>>
      /\ child \in [Child -> ChildRecord]
      /\ child' = [child EXCEPT ![c].group = FALSE, ![c].open = FALSE,
                                ![c].life = IF @ = "up" THEN "bad" ELSE @]
  BY DEF SessionInv, Close, SessionTypeOK
<1>2. /\ c \in Child /\ InCast(c) /\ step' \in {"close", "over"} /\ who' \in 1 .. Len(Cast(use))
      /\ \A d \in Child : InCast(d) /\ Position(d) < who' /\ step' = "close" =>
           d = c \/ Position(d) < who
      /\ \A d \in Child : InCast(d) /\ step' = "over" => d = c \/ Position(d) < who
  BY <1>1, CastFacts, NextCloseFacts DEF Close
<1> HIDE DEF c
<1>3. child' = [child EXCEPT ![c] = s] /\ r \in ChildRecord
  BY <1>1, <1>2
<1> HIDE DEF r
<1>4. s \in ChildRecord
  BY <1>3 DEF ChildRecord
<1>5. /\ s.group = FALSE /\ s.open = FALSE /\ s.life # "up" /\ (r.life # "up" => s.life = r.life)
      /\ s.inbox = r.inbox /\ s.pipe = r.pipe /\ s.said = r.said
      /\ s.lines = r.lines /\ s.partial = r.partial
  BY <1>3 DEF ChildRecord
<1> HIDE DEF s
<1>6. /\ child' \in [Child -> ChildRecord] /\ child'[c] = s
      /\ \A d \in Child : d # c => child'[d] = child[d]
      /\ \A d \in Child : child'[d].said = child[d].said /\ child'[d].partial = child[d].partial
      /\ ~child'[c].group
  BY <1>1, <1>2, <1>3, <1>4, <1>5 DEF r
<1>7. SessionTypeOK'
  BY <1>1, <1>2, <1>6, TurnsStay DEF SessionTypeOK
<1>8. LifeOK'
  BY <1>5, <1>6 DEF SessionInv, LifeOK, r
<1>9. StartsInTurn'
  <2>1. \A d \in Child : NotYet(d)' => NotYet(d) /\ d # c
    BY <1>1, <1>2, TurnsStay DEF NotYet
  <2> QED BY <1>6, <2>1 DEF SessionInv, StartsInTurn
<1>10. TurnOK'
  BY <1>1, <1>2, TurnsStay DEF SessionInv, TurnOK, Passed
<1>11. ClosingOK'
  <2>1. ASSUME NEW d \in Child, InCast(d), d = c \/ Position(d) < who, child'[d].group
        PROVE  verdict = "unclean"
    BY <1>1, <1>6, <2>1 DEF SessionInv, ClosingOK
  <2>2. \A d \in Child : ~InCast(d) => ~child'[d].group
    BY <1>2, <1>6, StartFacts DEF SessionInv, StartsInTurn, NotYet
  <2> QED BY <1>1, <1>2, <2>1, <2>2, TurnsStay DEF ClosingOK, Alive
<1>12. EndOK'
  BY <1>2 DEF EndOK
<1>13. Passed' => Passed
  BY <1>1, <1>2, TurnsStay DEF Passed
<1>14. FinishedOK'
  <2>1. \A d \in Child : Exhausted(d) => Exhausted(d)'
    BY <1>5, <1>6 DEF Exhausted, CleanEnd, r
  <2> QED BY <1>1, <1>2, <1>13, <2>1, TurnsStay DEF SessionInv, FinishedOK
<1>15. StreamsOK'
  <2> SUFFICES ASSUME KeepsLines, verdict = "ok", NEW d \in Child, InCast(d)
               PROVE  StreamOK(child'[d], Read(d)')
    BY <1>1, TurnsStay DEF StreamsOK
  <2>1. Read(d)' = Read(d) /\ StreamOK(child[d], Read(d))
    BY <1>1, <1>2, TurnsStay DEF Read, SessionInv, StreamsOK
  <2>2. CASE d = c
    <3>1. StreamOK(s, Read(c))
      BY <1>5, <2>1, <2>2, StreamSame DEF r
    <3> QED BY <1>6, <2>1, <2>2, <3>1
  <2>3. CASE d # c
    BY <1>6, <2>1, <2>3
  <2> QED BY <2>2, <2>3
<1>16. RowsOK'
  <2>1. \A d \in Child : Extends(child[d].said, child'[d].said)
    BY <1>1, <1>6, RecordFacts, ExtendsFacts
  <2> QED BY <1>1, <1>6, <2>1, RowsStay DEF SessionInv
<1> QED BY <1>7, <1>8, <1>9, <1>10, <1>11, <1>12, <1>14, <1>15, <1>16 DEF SessionInv

LEMMA CloseFailsKeeps ==
  ASSUME SessionInv, CloseFails
  PROVE  SessionInv'
<1>1. /\ SessionTypeOK /\ step = "close" /\ UNCHANGED <<use, turn, rows, child>>
      /\ verdict' = "unclean"
      /\ IF use = "profile" THEN NextClose ELSE step' = "over" /\ UNCHANGED who
  BY DEF SessionInv, CloseFails
<1>2. step' \in {"close", "over"} /\ who' \in 1 .. Len(Cast(use))
  BY <1>1, NextCloseFacts DEF SessionTypeOK
<1>3. SessionTypeOK'
  BY <1>1, <1>2, TurnsStay DEF SessionTypeOK
<1>4. LifeOK'
  BY <1>1 DEF SessionInv, LifeOK
<1>5. StartsInTurn'
  <2>1. \A d \in Child : NotYet(d)' => NotYet(d)
    BY <1>1, <1>2, TurnsStay DEF NotYet
  <2> QED BY <1>1, <2>1 DEF SessionInv, StartsInTurn
<1>6. TurnOK' /\ ClosingOK'
  BY <1>1, <1>2 DEF TurnOK, ClosingOK, Passed
<1>7. EndOK' /\ FinishedOK' /\ StreamsOK' /\ RowsOK'
  BY <1>1, <1>2 DEF EndOK, FinishedOK, StreamsOK, RowsOK
<1> QED BY <1>3, <1>4, <1>5, <1>6, <1>7 DEF SessionInv

-----------------------------------------------------------------------------
(* The invariant, and what follows from it *)

NoneStarted ==
    /\ use \in Uses /\ step \in {"off", "start"} /\ who = 1 /\ turn = 1 /\ rows = <<>>
    /\ child = [c \in Child |-> Unstarted] /\ verdict = "ok"
    /\ step = "off" => use = "run"

LEMMA NothingStarted ==
  ASSUME NoneStarted
  PROVE  SessionInv
<1> USE DEF NoneStarted
<1>1. /\ Len(Cast(use)) \in {1, 2} /\ child \in [Child -> ChildRecord]
      /\ \A c \in Child : child[c] = Unstarted
  BY StreamStarts DEF Cast
<1>2. SessionTypeOK
  BY <1>1 DEF SessionTypeOK
<1>3. LifeOK
  BY <1>1, StartFacts, EmptyUncut DEF LifeOK
<1>4. StartsInTurn
  BY <1>1 DEF StartsInTurn
<1>5. TurnOK /\ ClosingOK /\ FinishedOK
  BY DEF TurnOK, ClosingOK, FinishedOK, Passed
<1>6. EndOK
  BY <1>1, StartFacts DEF EndOK
<1>7. StreamsOK
  <2> SUFFICES ASSUME KeepsLines, NEW c \in Child PROVE StreamOK(child[c], Read(c))
    BY DEF StreamsOK
  <2>1. step = "start" => Read(c) = 0
    BY DEF Read, Index
  <2>2. CASE step = "start"
    BY <1>1, <2>1, <2>2, StreamStarts
  <2>3. CASE step = "off"
    BY <2>3 DEF KeepsLines
  <2> QED BY <2>2, <2>3
<1>8. RowsOK
  BY DEF RowsOK
<1> QED BY <1>2, <1>3, <1>4, <1>5, <1>6, <1>7, <1>8 DEF SessionInv

LEMMA SessionsStart ==
  ASSUME SessionsInit
  PROVE  SessionInv
  BY NothingStarted DEF SessionsInit, Uses, NoneStarted

LEMMA ResetKeeps ==
  ASSUME Reset
  PROVE  SessionInv'
<1>1. SessionsInit'
  BY DEF Reset, SessionsInit
<1>2. (SessionsInit => SessionInv)'
  BY SessionsStart, PTL
<1> QED BY <1>1, <1>2

LEMMA BeginKeeps ==
  ASSUME NEW u \in Uses, Begin(u)
  PROVE  SessionInv'
<1>1. NoneStarted'
  BY DEF Begin, NoneStarted
<1>2. (NoneStarted => SessionInv)'
  BY NothingStarted, PTL
<1> QED BY <1>1, <1>2

LEMMA StillKeeps ==
  ASSUME SessionInv, UNCHANGED svars
  PROVE  SessionInv'
<1>1. UNCHANGED <<use, step, who, turn, rows, child, verdict>>
  BY DEF svars
<1>2. /\ \A c \in Child : /\ Read(c)' = Read(c)
                          /\ Exhausted(c)' = Exhausted(c) /\ NotYet(c)' = NotYet(c)
      /\ Passed' = Passed /\ Alive' = Alive
  BY <1>1, TurnsStay DEF Read, Exhausted, CleanEnd, NotYet, Passed, Alive
<1>3. (SessionTypeOK /\ LifeOK /\ StartsInTurn /\ EndOK)'
  BY <1>1, <1>2, TurnsStay DEF SessionInv, SessionTypeOK, LifeOK, StartsInTurn, EndOK
<1>4. (TurnOK /\ ClosingOK /\ FinishedOK)'
  BY <1>1, <1>2, TurnsStay DEF SessionInv, TurnOK, ClosingOK, FinishedOK
<1>5. StreamsOK'
  BY <1>1, <1>2, TurnsStay DEF SessionInv, StreamsOK
<1>6. RowsOK'
  BY <1>1, RowsSame
<1> QED BY <1>3, <1>4, <1>5, <1>6 DEF SessionInv

LEMMA CoordinatorKeeps ==
  ASSUME SessionInv, Coordinator \/ OverLimit
  PROVE  SessionInv'
<1>1. CASE StartFails \/ OverLimit \/ Expire \/ NoRecord \/ RequestFails \/ FinishFails
  BY <1>1, FailsKeep
<1>2. CASE \E c \in Child : Pump(c) \/ PumpEOF(c)
  BY <1>2, PumpKeeps, PumpEOFKeeps
<1>3. CASE Start \/ TakeReady \/ Request \/ TakeResponse
  BY <1>3, StartKeeps, TakeReadyKeeps, RequestKeeps, TakeResponseKeeps
<1>4. CASE Finish \/ Close \/ CloseFails
  BY <1>4, FinishKeeps, CloseKeeps, CloseFailsKeeps
<1> QED BY <1>1, <1>2, <1>3, <1>4 DEF Coordinator

\* A session of a use that passes said what was asked of it and no more.
LEMMA PassedSaidAll ==
  ASSUME SessionInv, Passed, NEW c \in Child, InCast(c)
  PROVE  /\ child[c].life = "zero" /\ ~child[c].partial
         /\ Len(child[c].said) = Rounds + 1 /\ Uncut(child[c].said)
<1>1. KeepsLines /\ verdict = "ok" /\ step \in {"close", "over"}
  BY DEF Passed
<1>2. Exhausted(c) /\ turn = Turns + 1 /\ child[c] \in ChildRecord
  BY <1>1 DEF SessionInv, FinishedOK, TurnOK, SessionTypeOK
<1>3. Before(c, turn) = Rounds /\ Rounds \in Nat \ {0}
  BY <1>1, <1>2, TurnEnds, SessionsAssumption DEF KeepsLines
<1>4. Read(c) = Rounds + 1 /\ Rounds + 1 \in Nat
  BY <1>1, <1>3 DEF Read
<1>5. StreamOK(child[c], Rounds + 1)
  BY <1>1, <1>4 DEF SessionInv, StreamsOK
<1> QED BY <1>2, <1>4, <1>5, StreamClean DEF Exhausted, CleanEnd

LEMMA InvRowsPaired ==
  ASSUME SessionInv
  PROVE  RowsPaired
<1> SUFFICES ASSUME Passed
             PROVE  /\ Len(rows) = Turns
                    /\ \A t \in 1 .. Turns : rows[t] = child[To(t)].said[RoundOf(t) + 1]
                    /\ \A i \in 1 .. Len(Cast(use)) :
                         LET c == child[Cast(use)[i]] IN
                         /\ c.life = "zero"
                         /\ Len(c.said) = Rounds + 1
                         /\ \A n \in 1 .. Len(c.said) : c.said[n] # Cut
  BY DEF RowsPaired
<1>1. KeepsLines /\ verdict = "ok" /\ Turns \in Nat \ {0} /\ turn = Turns + 1
  BY TurnEnds DEF Passed, KeepsLines, SessionInv, TurnOK
<1>2. turn - 1 = Turns
  BY <1>1
<1>3. Len(rows) = Turns /\ \A t \in 1 .. Turns : Paired(t)
  BY <1>1, <1>2 DEF SessionInv, RowsOK
<1>4. ASSUME NEW t \in 1 .. Turns PROVE rows[t] = child[To(t)].said[RoundOf(t) + 1]
  <2>1. t \in Nat \ {0}
    BY <1>1
  <2>2. To(t) \in Child /\ InCast(To(t))
    BY <1>1, <2>1, TurnFacts DEF KeepsLines
  <2>3. ~child[To(t)].partial
    BY <2>2, PassedSaidAll
  <2> QED BY <1>3, <2>3 DEF Paired
<1>5. ASSUME NEW i \in 1 .. Len(Cast(use)) PROVE Cast(use)[i] \in Child /\ InCast(Cast(use)[i])
  <2>1. CASE use = "compare"
    <3>1. Cast(use) = <<"first", "second">>
      BY <2>1 DEF Cast
    <3> QED BY <2>1, <3>1 DEF InCast, Child
  <2>2. CASE use = "train"
    <3>1. Cast(use) = <<"first">>
      BY <2>2 DEF Cast
    <3> QED BY <3>1 DEF InCast, Child
  <2> QED BY <1>1, <2>1, <2>2 DEF KeepsLines
<1> QED BY <1>3, <1>4, <1>5, PassedSaidAll DEF Uncut

\* Only a use that says so leaves anybody alive.
LEMMA OverIsClean ==
  ASSUME SessionInv, step = "over", verdict # "unclean"
  PROVE  ~Alive
  BY DEF SessionInv, ClosingOK

\* Where a coordinator or a child moves, a use is under way, and it stays so.
LEMMA UseGoesOn ==
  ASSUME Coordinator \/ OverLimit \/ Children
  PROVE  step # "off" /\ step' # "off"
<1>1. CASE StartFails \/ OverLimit \/ Expire \/ NoRecord \/ RequestFails \/ FinishFails
  BY <1>1 DEF StartFails, OverLimit, Expire, NoRecord, RequestFails, FinishFails, Waiting, Drained, Pumped, Raise
<1>2. CASE \E c \in Child : Pump(c) \/ PumpEOF(c)
  <2>1. step # "off" /\ (step' = step \/ step' = "close")
    BY <1>2 DEF Pump, PumpEOF, Pumped, Raise
  <2> QED BY <2>1
<1>3. CASE Start \/ TakeReady \/ Request \/ TakeResponse
  BY <1>3 DEF Start, TakeReady, Request, TakeResponse, Raise
<1>4. CASE Finish \/ Close \/ CloseFails
  BY <1>4 DEF Finish, Drained, Close, CloseFails, NextClose, Raise
<1>5. CASE Children
  BY <1>5 DEF Children, Greet, Answer, Quit, Misbehave, Fail, LeftoverEnds, ChildStep, Runs
<1> QED BY <1>1, <1>2, <1>3, <1>4, <1>5 DEF Coordinator

-----------------------------------------------------------------------------
(* The invariants *)

Stages == {"idle", "prepare", "fetch", "unpack", "select", "clone", "info", "git", "step",
           "publish", "remove", "report", "pack", "upload", "finish", "finish-error", "leave", "down"}

\* Who is alive outside a use is announced, and a worker that goes on knows of nobody.
Announced ==
    /\ at \in Stages /\ marker \in BOOLEAN /\ stray \in BOOLEAN /\ cleanup_ok \in BOOLEAN
    /\ at \notin {"idle", "down"} => marker
    /\ step # "off" => at \in {"clone", "info", "git", "step"}
    /\ InRunner \/ at \in {"idle", "down"} => cleanup_ok
    /\ stray => marker /\ (at = "down" \/ ~cleanup_ok)

\* Children run for what the runner starts children for.
UseOK == step # "off" => UseNow # {}

\* Where the job is in its plan.
PlanOK ==
    /\ plan \in Plans /\ job \in 0 .. Len(plan) /\ k \in Nat
    /\ at \notin {"idle", "down"} => job >= 1
    /\ at \in {"idle", "prepare", "fetch", "unpack", "select", "clone", "down"} => k = 0
    /\ at = "step" => k \in 1 .. Len(Steps)
    /\ at \in {"publish", "remove"} => k = 1
    /\ at \in {"info", "git"} /\ k # 0 => k >= 2
    /\ status \in {"failed", "succeeded"}
    /\ status = "succeeded" => k >= 2
    /\ at \in {"fetch", "unpack", "publish"} => Provisions(job)
    /\ at = "remove" => Revokes(job)
    /\ at = "select" => ~Revokes(job)

\* A package that was promised has its receipt, and what has a receipt has files.
Promised ==
    \A p \in Packages : /\ Offered(p) \/ (InRunner /\ source = p) => cache[p].receipt
                        /\ cache[p].receipt => cache[p].files # "none"

\* Files are missing only while a revocation of the package is unfinished.
CutsOK == \A p \in Packages : cache[p].files = "cut" => Unfinished(p)

\* What the cache owes to the jobs so far.
SnapOK ==
    /\ cache \in Caches
    /\ source \in Packages \cup {Mirror, Import}
    /\ at \in {"idle", "down"} => source = Mirror
    /\ job >= 1 /\ Revokes(job) => source = Mirror
    /\ job >= 1 /\ Provisions(job) /\ k >= 2 => cache[plan[job].steps[1].arg].receipt
    /\ job >= 1 /\ Revokes(job) /\ k >= 2 => cache[plan[job].steps[1].arg].files # "cut"
    /\ server \in [Jobs -> [outcome : {"none", "failed", "succeeded"}, archive : BOOLEAN]]
    /\ \A j \in Jobs : j > job => server[j].outcome = "none"
    /\ at \notin {"leave", "idle", "down"} => server[job].outcome = "none"
    /\ Promised /\ CutsOK

\* What the receipts say.
KeptOK ==
    /\ local \in [Jobs -> [root : BOOLEAN, archive : BOOLEAN,
                           receipt : {"none", "pending", "torn", "partial", "delivered"}]]
    /\ \A j \in Jobs : j > job => local[j].receipt = "none"
    /\ InRunner \/ at = "report" => local[job].receipt = "none"
    /\ at = "finish" /\ local[job].root => server[job].archive
    /\ \A j \in Jobs : local[j].receipt = "delivered" =>
         server[j].outcome # "none" /\ (local[j].root => server[j].archive)

RunnerInv == SessionInv /\ Announced /\ UseOK /\ PlanOK /\ SnapOK /\ KeptOK

-----------------------------------------------------------------------------
(* What a plan is, and who moves what *)

(* A job has steps, and one that installs or revokes a package has only that one. *)
LEMMA PlanFacts ==
  ASSUME PlanOK
  PROVE  /\ Len(plan) \in Nat /\ Jobs = 1 .. Len(plan)
         /\ job \in Nat /\ (job >= 1 => job \in Jobs)
         /\ \A j \in Jobs : Len(plan[j].steps) \in Nat \ {0}
         /\ \A j \in Jobs : \A i \in 1 .. Len(plan[j].steps) :
              plan[j].steps[i].op \in {"provision", "revoke-source"} =>
                /\ Len(plan[j].steps) = 1 /\ i = 1
                /\ plan[j].steps[i].arg \in Packages
         /\ \A j \in Jobs : Provisions(j) \/ Revokes(j) =>
              Len(plan[j].steps) = 1 /\ plan[j].steps[1].arg \in Packages
         /\ \A j \in Jobs : ~(Provisions(j) /\ Revokes(j))
<1>1. plan \in Plans /\ job \in 0 .. Len(plan)
  BY DEF PlanOK
<1>2. Len(plan) \in Nat /\ Jobs = 1 .. Len(plan)
  BY <1>1, PlansAssumption DEF Jobs
<1>3. job \in Nat /\ (job >= 1 => job \in Jobs)
  BY <1>1, <1>2
<1>4. \A j \in Jobs : Len(plan[j].steps) \in Nat \ {0}
  BY <1>1, <1>2, PlansAssumption
<1>5. ASSUME NEW j \in Jobs, NEW i \in 1 .. Len(plan[j].steps),
             plan[j].steps[i].op \in {"provision", "revoke-source"}
      PROVE  /\ Len(plan[j].steps) = 1 /\ i = 1
             /\ plan[j].steps[i].arg \in Packages
  <2>1. Len(plan[j].steps) = 1 /\ plan[j].steps[i].arg \in Packages
    BY <1>1, <1>2, <1>5, PlansAssumption
  <2>2. QED
    BY <2>1
<1>6. ASSUME NEW j \in Jobs, Provisions(j) \/ Revokes(j)
      PROVE  Len(plan[j].steps) = 1 /\ plan[j].steps[1].arg \in Packages
  <2>1. 1 \in 1 .. Len(plan[j].steps)
    BY <1>4
  <2>2. plan[j].steps[1].op \in {"provision", "revoke-source"}
    BY <1>6 DEF Provisions, Revokes
  <2>3. QED
    BY <1>5, <2>1, <2>2
<1>7. \A j \in Jobs : ~(Provisions(j) /\ Revokes(j))
  BY DEF Provisions, Revokes
<1>8. QED
  BY <1>2, <1>3, <1>4, <1>5, <1>6, <1>7

(* The step at hand, when it is one of source packages, is all of the job. *)
LEMMA OnlyStep ==
  ASSUME PlanOK, at = "step", Op \in {"provision", "revoke-source"}
  PROVE  /\ k = 1 /\ Len(Steps) = 1 /\ Arg = plan[job].steps[1].arg /\ Arg \in Packages
         /\ (Op = "provision" => Provisions(job))
         /\ (Op = "revoke-source" => Revokes(job))
<1>1. job \in Jobs /\ k \in 1 .. Len(Steps)
  BY PlanFacts DEF PlanOK
<1>2. k = 1 /\ Len(Steps) = 1 /\ Arg \in Packages
  BY <1>1, PlanFacts DEF Steps, Op, Arg
<1>3. QED
  BY <1>2 DEF Steps, Op, Arg, Provisions, Revokes

(* The steps of a use leave everything else alone. *)
Using ==
    \/ Coordinator /\ UNCHANGED rvars
    \/ (OverLimit \/ Children) /\ UNCHANGED rvars
    \/ UseChildren

(* What every action but those of a use does. *)
Others ==
    \/ Prepare \/ Fetch \/ Unpack \/ Select \/ Return
    \/ Copy \/ Freeze \/ Publish \/ BeginRemoval \/ RemoveReceipt \/ Remove \/ Raises
    \/ WriteReceipt \/ Pack \/ Upload \/ ArtifactError \/ Complete \/ Undelivered \/ Leave
    \/ Claim \/ Crash \/ Restart \/ ResetMarker \/ StrayEnds \/ PruneWorker

LEMMA NextIs == [Next]_vars => Using \/ Others \/ UNCHANGED vars
  BY DEF Next, RunnerStep, Using, Others

LEMMA UsingLeaves == Using => UNCHANGED rvars
  BY DEF Using, UseChildren

(* Apart from a use, children are touched only where one ends, and then all are forgotten. *)
LEMMA OthersLeave == Others => (UNCHANGED svars) \/ Reset
<1>1. Return \/ Crash => Reset
  BY DEF Return, Crash
<1>2. Prepare \/ Fetch \/ Unpack \/ Select \/ Copy \/ Freeze \/ Publish => UNCHANGED svars
  BY DEF Prepare, Fetch, Unpack, Select, Copy, Freeze, Publish, Alone
<1>3. BeginRemoval \/ RemoveReceipt \/ Remove \/ Raises => UNCHANGED svars
  BY DEF BeginRemoval, RemoveReceipt, Remove, Raises, Alone
<1>4. WriteReceipt \/ Pack \/ Upload \/ ArtifactError \/ Complete \/ Undelivered => UNCHANGED svars
  BY DEF WriteReceipt, Pack, Upload, ArtifactError, Complete, Undelivered, Reporting
<1>5. Leave \/ Claim \/ Restart \/ ResetMarker \/ StrayEnds \/ PruneWorker => UNCHANGED svars
  BY DEF Leave, Claim, Restart, ResetMarker, StrayEnds, PruneWorker, Down
<1>6. QED
  BY <1>1, <1>2, <1>3, <1>4, <1>5 DEF Others

-----------------------------------------------------------------------------
(* SessionInv *)

LEMMA UseNowIsUse == UseNow \subseteq Uses
  BY DEF UseNow, Uses

LEMMA SessionStep ==
  ASSUME SessionInv, [Next]_vars
  PROVE  SessionInv'
<1>1. CASE Using
  <2>1. CASE Coordinator \/ OverLimit
    BY <2>1, CoordinatorKeeps
  <2>2. CASE Children
    BY <2>2, ChildrenKeep
  <2>3. CASE UseChildren
    <3>1. PICK u \in Uses : Begin(u)
      BY <2>3, UseNowIsUse DEF UseChildren
    <3>2. QED
      BY <3>1, BeginKeeps
  <2>4. QED
    BY <1>1, <2>1, <2>2, <2>3 DEF Using
<1>2. CASE UNCHANGED svars
  BY <1>2, StillKeeps
<1>3. CASE Reset
  BY <1>3, ResetKeeps
<1>4. UNCHANGED vars => UNCHANGED svars
  BY DEF vars
<1>5. QED
  BY <1>1, <1>2, <1>3, <1>4, NextIs, OthersLeave

-----------------------------------------------------------------------------
(* Announced *)

\* A use belongs to a step of the job; outside of one no child is started.
LEMMA NoUse ==
  ASSUME SessionInv, step = "off"
  PROVE  ~Alive
  BY StartFacts DEF SessionInv, StartsInTurn, NotYet, Alive

\* The runner goes on: nobody else's state is touched.
LEMMA AnnouncedGoesOn ==
  ASSUME Announced, Alone, at' \in Stages \ {"idle", "down"},
         UNCHANGED <<cleanup_ok, marker, stray>>
  PROVE  Announced'
<1>1. step' = "off" /\ at \notin {"idle", "down"} /\ cleanup_ok
  BY DEF Alone, svars, Announced, InRunner
<1>2. ~stray
  BY <1>1 DEF Announced
<1>3. QED
  BY <1>1, <1>2 DEF Announced

\* handle() goes on, after the runner.
LEMMA AnnouncedReports ==
  ASSUME Announced, Reporting, UNCHANGED marker, at \in Stages \ {"idle", "down"}, ~InRunner,
         at' \in {"pack", "upload", "finish", "finish-error", "leave"}
  PROVE  Announced'
<1>1. step' = "off" /\ UNCHANGED <<cleanup_ok, stray>>
  BY DEF Reporting, svars, Announced, InRunner
<1>2. QED
  BY <1>1 DEF Announced, InRunner, Stages

LEMMA AnnouncedReturn ==
  ASSUME SessionInv, Announced, Return
  PROVE  Announced'
<1>1. /\ InRunner /\ step = "over" /\ step' = "off" /\ marker' = marker
      /\ cleanup_ok' = (cleanup_ok /\ ~Unclean(verdict)) /\ stray' = (stray \/ Alive)
      /\ at \in {"clone", "info", "git", "step"}
  BY DEF Return, Reset, Announced
<1>2. cleanup_ok /\ ~stray /\ marker
  BY <1>1 DEF Announced, InRunner
<1>3. Alive => verdict = "unclean"
  BY <1>1, OverIsClean
<1>4. CASE Tolerated(verdict)
  <2>1. verdict # "unclean"
    BY <1>4 DEF Tolerated
  <2>2. cleanup_ok' /\ ~stray'
    BY <1>1, <1>2, <1>3, <2>1 DEF Unclean
  <2>3. at' \in {"info", "git", "step", "publish", "report"}
    BY <1>4 DEF Return, Advance, AfterMetadata, NextStep
  <2>4. QED
    BY <1>1, <1>2, <2>2, <2>3 DEF Announced, Stages
<1>5. CASE ~Tolerated(verdict)
  <2>1. at' = "report"
    BY <1>5 DEF Return
  <2>2. stray' => ~cleanup_ok'
    BY <1>1, <1>2, <1>3 DEF Unclean
  <2>3. cleanup_ok' \in BOOLEAN /\ stray' \in BOOLEAN
    BY <1>1, <1>2 DEF Alive
  <2>4. QED
    BY <1>1, <1>2, <2>1, <2>2, <2>3 DEF Announced, Stages, InRunner
<1>6. QED
  BY <1>4, <1>5

LEMMA AnnouncedStep ==
  ASSUME SessionInv, Announced, [Next]_vars
  PROVE  Announced'
<1>1. CASE Using
  <2>1. CASE UseChildren
    <3>1. at \in {"clone", "info", "git", "step"}
      BY <2>1 DEF UseChildren, UseNow
    <3>2. QED
      BY <2>1, <3>1 DEF UseChildren, Announced, rvars, InRunner
  <2>2. CASE Coordinator \/ OverLimit \/ Children
    <3>1. step # "off"
      BY <2>2, UseGoesOn
    <3>2. QED
      BY <1>1, <3>1, UsingLeaves DEF Announced, rvars, InRunner
  <2>3. QED
    BY <1>1, <2>1, <2>2 DEF Using
<1>2. CASE UNCHANGED vars
  BY <1>2 DEF Announced, vars, svars, rvars, InRunner
<1>3. CASE Prepare \/ Fetch \/ Unpack \/ Select
  BY <1>3, AnnouncedGoesOn DEF Prepare, Fetch, Unpack, Select, Elsewhere, Stages
<1>4. CASE Copy \/ Freeze \/ Publish \/ BeginRemoval \/ RemoveReceipt \/ Remove \/ Raises
  BY <1>4, AnnouncedGoesOn
     DEF Copy, Freeze, Publish, BeginRemoval, RemoveReceipt, Remove, Raises, Elsewhere, NextStep, Stages, Announced
<1>5. CASE Return
  BY <1>5, AnnouncedReturn
<1>6. CASE WriteReceipt \/ Pack \/ Upload \/ ArtifactError \/ Complete \/ Undelivered
  BY <1>6, AnnouncedReports
     DEF WriteReceipt, Pack, Upload, ArtifactError, Complete, Undelivered, InRunner, Stages
<1>7. CASE Leave
  <2>1. step' = "off" /\ at = "leave"
    BY <1>7 DEF Leave, svars, Announced, InRunner
  <2>2. QED
    BY <1>7, <2>1 DEF Leave, Forget, Announced, InRunner, Stages
<1>8. CASE Claim
  BY <1>8 DEF Claim, Announced, InRunner, Stages, svars
<1>9. CASE Crash
  <2>1. /\ at' = "down" /\ step' = "off" /\ cleanup_ok' = TRUE /\ marker' = marker
        /\ stray' = (stray \/ Alive)
    BY <1>9 DEF Crash, Reset, Forget
  <2>2. Alive => InRunner
    BY NoUse DEF Announced, InRunner
  <2>3. stray' => marker
    BY <2>1, <2>2 DEF Announced, InRunner
  <2>4. QED
    BY <2>1, <2>3 DEF Announced, Stages, Alive, InRunner
<1>10. CASE Restart \/ ResetMarker \/ PruneWorker
  <2>1. /\ at = "down" /\ UNCHANGED <<svars, cleanup_ok>> /\ step = "off"
    BY <1>10 DEF Restart, ResetMarker, PruneWorker, Down, Announced
  <2>2. /\ step' = "off" /\ cleanup_ok /\ UNCHANGED cleanup_ok
        /\ marker \in BOOLEAN /\ stray \in BOOLEAN /\ (stray => marker)
    BY <2>1 DEF svars, Announced
  <2>3. \/ at' = "idle" /\ UNCHANGED <<marker, stray>> /\ ~marker
        \/ at' = "down" /\ marker' = FALSE /\ stray' = FALSE
        \/ at' = "down" /\ UNCHANGED <<marker, stray>>
    BY <1>10, <2>1 DEF Restart, ResetMarker, PruneWorker
  <2>4. at' \in Stages /\ marker' \in BOOLEAN /\ stray' \in BOOLEAN /\ cleanup_ok' = TRUE
    BY <2>2, <2>3, <2>1 DEF Stages, Announced
  <2>5. QED
    BY <2>2, <2>3, <2>4 DEF Announced
<1>11. CASE StrayEnds
  BY <1>11 DEF StrayEnds, Announced, InRunner, svars
<1>12. QED
  BY <1>1, <1>2, <1>3, <1>4, <1>5, <1>6, <1>7, <1>8, <1>9, <1>10, <1>11, NextIs DEF Others

LEMMA UseStep ==
  ASSUME Announced, UseOK, [Next]_vars
  PROVE  UseOK'
<1>1. UNCHANGED <<plan, job, at, k, frozen>> => UseNow' = UseNow
  BY DEF UseNow, Op, Steps
<1>2. CASE UseChildren
  <2>1. UseNow # {} /\ UNCHANGED <<plan, job, at, k, frozen>>
    BY <1>2 DEF UseChildren, rvars
  <2>2. QED
    BY <1>1, <2>1 DEF UseOK
<1>3. CASE (Coordinator \/ OverLimit \/ Children) /\ UNCHANGED rvars
  <2>1. step # "off" /\ UNCHANGED <<plan, job, at, k, frozen>>
    BY <1>3, UseGoesOn DEF rvars
  <2>2. QED
    BY <1>1, <2>1 DEF UseOK
<1>4. CASE UNCHANGED vars \/ StrayEnds
  BY <1>1, <1>4 DEF UseOK, vars, svars, rvars, StrayEnds
<1>5. CASE Prepare \/ Fetch \/ Unpack \/ Select \/ Copy \/ Freeze \/ Publish
           \/ BeginRemoval \/ RemoveReceipt \/ Remove \/ Raises
  <2>1. Alone
    BY <1>5 DEF Prepare, Fetch, Unpack, Select, Copy, Freeze, Publish,
                BeginRemoval, RemoveReceipt, Remove, Raises
  <2>2. QED
    BY <2>1 DEF Alone, svars, UseOK
<1>6. CASE Return \/ Crash
  BY <1>6 DEF Return, Crash, Reset, UseOK
<1>7. CASE WriteReceipt \/ Pack \/ Upload \/ ArtifactError \/ Complete \/ Undelivered \/ Leave \/ Claim
           \/ Restart \/ ResetMarker \/ PruneWorker
  <2>1. at \notin {"clone", "info", "git", "step"} /\ UNCHANGED svars
    BY <1>7 DEF WriteReceipt, Pack, Upload, ArtifactError, Complete, Undelivered, Reporting,
                Leave, Claim, Restart, ResetMarker, PruneWorker, Down
  <2>2. QED
    BY <2>1 DEF Announced, svars, UseOK
<1>8. QED
  BY <1>2, <1>3, <1>4, <1>5, <1>6, <1>7, NextIs DEF Others, Using

-----------------------------------------------------------------------------
(* PlanOK *)

LEMMA PlanStays ==
  ASSUME PlanOK, UNCHANGED <<plan, job, at, k, status>>
  PROVE  PlanOK'
  BY DEF PlanOK, Steps, Provisions, Revokes

\* What the next step is: there is one, or k is one past the last.
LEMMA PlanNextStep ==
  ASSUME PlanOK, NextStep, UNCHANGED <<plan, job>>, job >= 1, k \in 1 .. Len(Steps)
  PROVE  PlanOK'
<1>1. Len(Steps) \in Nat /\ Steps' = Steps
  BY PlanFacts DEF Steps
<1>2. k' = k + 1 /\ status' = status /\ k' >= 2 /\ k' \in Nat
  BY <1>1 DEF NextStep
<1>3. at' = "step" => k' \in 1 .. Len(Steps)
  BY <1>1, <1>2 DEF NextStep
<1>4. at' \in {"step", "info"}
  BY DEF NextStep
<1>5. QED
  BY <1>1, <1>2, <1>3, <1>4 DEF PlanOK

\* The job of the plan stays; the stage is one without a condition on it.
LEMMA PlanEnds ==
  ASSUME PlanOK, UNCHANGED <<plan, job, k>>, job >= 1, status' \in {status, "failed"},
         at' \in {"report", "pack", "upload", "finish", "finish-error", "leave"}
  PROVE  PlanOK'
  BY DEF PlanOK

\* Where nothing of the job is done yet.
LEMMA PlanBegins ==
  ASSUME PlanOK, plan' = plan, job' \in 0 .. Len(plan), k' = 0, status' = "failed",
         at' \in {"idle", "down", "prepare"}, at' = "prepare" => job' >= 1
  PROVE  PlanOK'
  BY DEF PlanOK

\* Before the first step.
LEMMA PlanPrepares ==
  ASSUME PlanOK, UNCHANGED <<plan, job, k, status>>, job >= 1, k = 0,
         \/ at' \in {"fetch", "unpack"} /\ Provisions(job)
         \/ at' = "select" /\ ~Revokes(job)
         \/ at' \in {"clone", "info", "git"}
  PROVE  PlanOK'
  BY DEF PlanOK, Steps, Provisions, Revokes

LEMMA PlanReturn ==
  ASSUME Announced, PlanOK, Return
  PROVE  PlanOK'
<1>1. /\ at \in {"clone", "info", "git", "step"} /\ job >= 1
      /\ UNCHANGED <<plan, job>>
  BY DEF Return, Announced, PlanOK
<1>2. CASE ~Tolerated(verdict)
  BY <1>1, <1>2, PlanEnds DEF Return
<1>3. CASE Tolerated(verdict)
  <2>1. Advance
    BY <1>3 DEF Return
  <2>2. CASE at = "clone" /\ at' = "info" /\ UNCHANGED <<k, status>>
    BY <1>1, <2>2, PlanPrepares DEF PlanOK
  <2>3. CASE at = "info" /\ ~Revokes(job) /\ at' = "git" /\ UNCHANGED <<k, status>>
    BY <1>1, <2>3 DEF PlanOK
  <2>4. CASE at \in {"info", "git"} /\ AfterMetadata
    <3>1. CASE k = 0
      <4>1. at' = "step" /\ k' = 1 /\ status' = status
        BY <2>4, <3>1 DEF AfterMetadata
      <4>2. Len(Steps) \in Nat \ {0} /\ Steps' = Steps /\ status = "failed"
        BY <1>1, <3>1, PlanFacts DEF Steps, PlanOK
      <4>3. 1 \in 1 .. Len(Steps)
        BY <4>2
      <4>4. QED
        BY <1>1, <4>1, <4>2, <4>3 DEF PlanOK
    <3>2. CASE k # 0
      <4>1. at' = "report" /\ status' = "succeeded" /\ k' = k
        BY <2>4, <3>2 DEF AfterMetadata
      <4>2. k >= 2
        BY <2>4, <3>2 DEF PlanOK
      <4>3. QED
        BY <1>1, <4>1, <4>2 DEF PlanOK
    <3>3. QED
      BY <3>1, <3>2
  <2>5. CASE at = "step" /\ Op = "provision" /\ at' = "publish" /\ UNCHANGED <<k, status>>
    <3>1. k = 1 /\ Provisions(job)
      BY <2>5, OnlyStep
    <3>2. Provisions(job)'
      BY <1>1, <3>1 DEF Provisions
    <3>3. QED
      BY <1>1, <2>5, <3>1, <3>2 DEF PlanOK
  <2>6. CASE at = "step" /\ NextStep
    BY <1>1, <2>6, PlanNextStep DEF PlanOK
  <2>7. QED
    BY <2>1, <2>2, <2>3, <2>4, <2>5, <2>6 DEF Advance
<1>4. QED
  BY <1>2, <1>3

\* The single step of a job of source packages.
LEMMA PackageStep ==
  ASSUME PlanOK, at \in {"publish", "remove"}
  PROVE  /\ job >= 1 /\ job \in Jobs /\ k = 1 /\ Len(Steps) = 1 /\ k \in 1 .. Len(Steps)
         /\ Arg = plan[job].steps[1].arg /\ Arg \in Packages
         /\ (at = "publish" => Provisions(job)) /\ (at = "remove" => Revokes(job))
<1>1. /\ job >= 1 /\ job \in Jobs /\ k = 1 /\ (at = "publish" => Provisions(job))
      /\ (at = "remove" => Revokes(job))
  BY PlanFacts DEF PlanOK
<1>2. Len(Steps) = 1 /\ Arg = plan[job].steps[1].arg /\ Arg \in Packages
  BY <1>1, PlanFacts DEF Steps, Arg
<1>3. QED
  BY <1>1, <1>2

LEMMA PlanStep ==
  ASSUME Announced, PlanOK, [Next]_vars
  PROVE  PlanOK'
<1>1. CASE Using \/ UNCHANGED vars \/ ResetMarker \/ StrayEnds \/ PruneWorker
  <2>1. UNCHANGED <<plan, job, at, k, status>>
    BY <1>1, UsingLeaves DEF vars, rvars, ResetMarker, StrayEnds, PruneWorker, Down
  <2>2. QED
    BY <2>1, PlanStays
<1>2. CASE Prepare
  <2>1. UNCHANGED <<plan, job, k, status>> /\ job >= 1 /\ k = 0
    BY <1>2 DEF Prepare, PlanOK
  <2>2. \/ at' = "fetch" /\ Provisions(job)
        \/ at' = "select" /\ ~Revokes(job)
        \/ at' = "info"
    BY <1>2 DEF Prepare
  <2>3. QED
    BY <2>1, <2>2, PlanPrepares
<1>3. CASE Fetch \/ Unpack \/ Select
  <2>1. UNCHANGED <<plan, job, k, status>> /\ job >= 1 /\ k = 0
    BY <1>3 DEF Fetch, Unpack, Select, Elsewhere, PlanOK
  <2>2. (at' = "unpack" /\ Provisions(job)) \/ at' = "clone"
    BY <1>3 DEF Fetch, Unpack, Select, PlanOK
  <2>3. QED
    BY <2>1, <2>2, PlanPrepares
<1>4. CASE Return
  BY <1>4, PlanReturn
<1>5. CASE Copy \/ Freeze
  <2>1. at = "step" /\ NextStep /\ UNCHANGED <<plan, job>>
    BY <1>5 DEF Copy, Freeze, Elsewhere
  <2>2. QED
    BY <2>1, PlanNextStep DEF PlanOK
<1>6. CASE Publish \/ (Remove /\ at = "remove")
  <2>1. at \in {"publish", "remove"} /\ NextStep /\ UNCHANGED <<plan, job>>
    BY <1>6 DEF Publish, Remove, Elsewhere
  <2>2. QED
    BY <2>1, PlanNextStep, PackageStep
<1>7. CASE Remove /\ at # "remove"
  <2>1. at = "step" /\ NextStep /\ UNCHANGED <<plan, job>>
    BY <1>7 DEF Remove, Elsewhere
  <2>2. QED
    BY <2>1, PlanNextStep DEF PlanOK
<1>8. CASE BeginRemoval
  <2>1. at = "step" /\ Op = "revoke-source" /\ at' = "remove" /\ UNCHANGED <<plan, job, k, status>>
    BY <1>8 DEF BeginRemoval, Elsewhere
  <2>2. k = 1 /\ Revokes(job)
    BY <2>1, OnlyStep
  <2>3. Revokes(job)'
    BY <2>1, <2>2 DEF Revokes
  <2>4. QED
    BY <2>1, <2>2, <2>3 DEF PlanOK
<1>9. CASE RemoveReceipt
  BY <1>9, PlanStays DEF RemoveReceipt, Elsewhere
<1>10. CASE Raises
  <2>1. job >= 1
    BY <1>10 DEF Raises, Alone, InRunner, PlanOK
  <2>2. QED
    BY <1>10, <2>1, PlanEnds DEF Raises, Elsewhere
<1>11. CASE WriteReceipt \/ Pack \/ Upload \/ ArtifactError \/ Complete \/ Undelivered
  <2>1. job >= 1 /\ UNCHANGED <<plan, job, k>>
    BY <1>11 DEF WriteReceipt, Pack, Upload, ArtifactError, Complete, Undelivered, Reporting, PlanOK
  <2>2. /\ status' \in {status, "failed"}
        /\ at' \in {"pack", "upload", "finish", "finish-error", "leave"}
    BY <1>11 DEF WriteReceipt, Pack, Upload, ArtifactError, Complete, Undelivered
  <2>3. QED
    BY <2>1, <2>2, PlanEnds
<1>12. CASE Leave \/ Crash
  BY <1>12, PlanBegins DEF Leave, Crash, Forget, PlanOK
<1>13. CASE Claim
  <2>1. job' = job + 1 /\ job' \in 0 .. Len(plan) /\ job' >= 1
    BY <1>13, PlanFacts DEF Claim
  <2>2. k' = 0 /\ status' = "failed" /\ plan' = plan /\ at' = "prepare"
    BY <1>13 DEF Claim, PlanOK
  <2>3. QED
    BY <2>1, <2>2, PlanBegins
<1>14. CASE Restart
  <2>1. k = 0 /\ status = "failed" /\ at' = "idle" /\ UNCHANGED <<plan, job, k, status>>
    BY <1>14 DEF Restart, Down, PlanOK
  <2>2. QED
    BY <2>1, PlanBegins DEF PlanOK
<1>15. QED
  BY <1>1, <1>2, <1>3, <1>4, <1>5, <1>6, <1>7, <1>8, <1>9, <1>10, <1>11, <1>12, <1>13, <1>14, NextIs
     DEF Others-----------------------------------------------------------------------------
(* SnapOK *)

\* A package is a number above those of the mirror and of an import.
LEMMA NotAPackage == Mirror \notin Packages /\ Import \notin Packages
  BY SnapshotsAssumption DEF Mirror, Import

LEMMA LookupFinds ==
  ASSUME NEW commit, NEW s \in Lookup(cache, commit)
  PROVE  s = Mirror \/ (s \in Packages /\ cache[s].receipt)
  BY DEF Lookup, Receipts

\* What the operations of Snapshots do to a cache.
LEMMA CacheMoves ==
  ASSUME cache \in Caches, NEW p \in Packages
  PROVE  /\ Published(cache, p) \in Caches /\ Opened(cache, p) \in Caches
         /\ Unreceipted(cache, p) \in Caches /\ Removed(cache, p) \in Caches
         /\ Published(cache, p)[p] = Whole /\ Removed(cache, p)[p] = Absent
         /\ Opened(cache, p)[p].receipt = cache[p].receipt
         /\ Unreceipted(cache, p)[p].files = cache[p].files
         /\ \A q \in Packages \ {p} :
              /\ Published(cache, p)[q] = cache[q] /\ Opened(cache, p)[q] = cache[q]
              /\ Unreceipted(cache, p)[q] = cache[q] /\ Removed(cache, p)[q] = cache[q]
  BY DEF Caches, Published, Opened, Unreceipted, Removed, Whole, Absent

\* What is promised and unfinished is all that SnapshotsSound asks for.
LEMMA SnapSound ==
  ASSUME SnapOK
  PROVE  SnapshotsSound
<1>1. \A p \in Packages : cache[p].files \in {"none", "whole", "cut"}
  BY DEF SnapOK, Caches
<1>2. QED
  BY <1>1 DEF SnapOK, Promised, CutsOK, SnapshotsSound

\* An unfinished revocation stays so until one of the package is reported as done.
LEMMA UnfinishedStays ==
  ASSUME PlanOK, plan' = plan, job' \in {job, job + 1}, NEW p \in Packages,
         \A i \in 1 .. job' : RevokedBy(i, p) /\ server'[i].outcome = "succeeded" =>
           i \in 1 .. job /\ server[i].outcome = "succeeded",
         Unfinished(p)
  PROVE  Unfinished(p)'
<1>1. job \in Nat
  BY PlanFacts
<1>2. PICK i \in 1 .. job : /\ RevokedBy(i, p)
                            /\ \A h \in i .. job : RevokedBy(h, p) => server[h].outcome # "succeeded"
  BY DEF Unfinished
<1>3. i \in 1 .. job' /\ \A h \in i .. job' : h \in 1 .. job' /\ (h \in 1 .. job => h \in i .. job)
  BY <1>1, <1>2
<1>4. \A h : RevokedBy(h, p)' = RevokedBy(h, p)
  BY DEF RevokedBy, Revokes
<1>5. \A h \in i .. job' : RevokedBy(h, p) => server'[h].outcome # "succeeded"
  BY <1>2, <1>3
<1>6. \E g \in 1 .. job' : RevokedBy(g, p) /\ \A h \in g .. job' : RevokedBy(h, p) => server'[h].outcome # "succeeded"
  BY <1>2, <1>3, <1>5
<1>7. QED
  BY <1>6 DEF Unfinished, RevokedBy, Revokes

LEMMA CutsStay ==
  ASSUME PlanOK, CutsOK, UNCHANGED <<plan, job>>,
         \A j \in Jobs : server'[j].outcome = server[j].outcome,
         \A p \in Packages : cache'[p].files = "cut" => cache[p].files = "cut"
  PROVE  CutsOK'
<1>1. job \in Nat /\ \A i \in 1 .. job : i \in Jobs
  BY PlanFacts DEF PlanOK
<1>2. ASSUME NEW p \in Packages, cache'[p].files = "cut"
      PROVE  Unfinished(p)'
  <2>1. Unfinished(p)
    BY <1>2 DEF CutsOK
  <2>2. job' \in {job, job + 1} /\ plan' = plan /\ job' = job
    OBVIOUS
  <2>3. \A i \in 1 .. job' : server'[i].outcome = server[i].outcome /\ i \in 1 .. job
    BY <1>1, <2>2
  <2>4. QED
    BY <2>1, <2>2, <2>3, UnfinishedStays
<1>3. QED
  BY <1>2 DEF CutsOK

\* The cache, the reports and the checkout stay; the stage may change.
LEMMA SnapStays ==
  ASSUME PlanOK, SnapOK, UNCHANGED <<plan, job, source, cache, server>>,
         InRunner' => InRunner,
         at' \in {"idle", "down"} => at \in {"idle", "down"},
         at' \notin {"leave", "idle", "down"} => at \notin {"leave", "idle", "down"},
         k' >= 2 => k >= 2 \/ job = 0 \/ (~Provisions(job) /\ ~Revokes(job))
  PROVE  SnapOK'
<1>1. Jobs' = Jobs /\ \A j \in Jobs : Provisions(j)' = Provisions(j) /\ Revokes(j)' = Revokes(j)
  BY DEF Jobs, Provisions, Revokes
<1>2. job >= 1 => job \in Jobs
  BY PlanFacts
<1>3. \A p \in Packages : Offered(p)' => Offered(p)
  BY DEF Offered, Jobs, Provisions, RevokedBy, Revokes
<1>4. Promised'
  BY <1>3 DEF SnapOK, Promised
<1>5. CutsOK'
  BY CutsStay DEF SnapOK
<1>6. /\ job >= 1 /\ Provisions(job)' /\ k' >= 2 => cache[plan[job].steps[1].arg].receipt
      /\ job >= 1 /\ Revokes(job)' /\ k' >= 2 => cache[plan[job].steps[1].arg].files # "cut"
  BY <1>1, <1>2, PlanFacts DEF SnapOK
<1>7. job >= 1 /\ Revokes(job)' => source = Mirror
  BY DEF SnapOK, Revokes
<1>8. QED
  BY <1>1, <1>4, <1>5, <1>6, <1>7 DEF SnapOK

\* Prepare and Select, Unpack: the checkout of the job.
LEMMA SnapChecksOut ==
  ASSUME PlanOK, SnapOK, UNCHANGED <<plan, job, cache, server>>, job >= 1, ~Revokes(job), k' = 0,
         at \notin {"leave", "idle", "down"}, at' = "clone",
         source' = Import \/ source' = Mirror \/ (source' \in Packages /\ cache[source'].receipt)
  PROVE  SnapOK'
<1>1. \A p \in Packages : Offered(p)' => Offered(p)
  BY DEF Offered, Jobs, Provisions, RevokedBy, Revokes
<1>2. Promised'
  BY <1>1, NotAPackage DEF SnapOK, Promised
<1>3. CutsOK'
  BY CutsStay DEF SnapOK
<1>4. ~Revokes(job)' /\ Jobs' = Jobs
  BY DEF Revokes, Jobs
<1>5. QED
  BY <1>2, <1>3, <1>4 DEF SnapOK

\* The package of a job is there, or has been put there.
LEMMA SnapPublish ==
  ASSUME PlanOK, SnapOK, Publish
  PROVE  SnapOK'
<1>1. /\ at = "publish" /\ UNCHANGED <<plan, job, server>> /\ source' = Arg /\ k' = k + 1
      /\ at' \in {"step", "info"}
  BY DEF Publish, Elsewhere, NextStep
<1>2. /\ job >= 1 /\ job \in Jobs /\ Arg = plan[job].steps[1].arg /\ Arg \in Packages
      /\ Provisions(job) /\ ~Revokes(job)
  BY <1>1, PackageStep, PlanFacts
<1>3. cache \in Caches
  BY DEF SnapOK
<1>4. /\ cache' \in Caches /\ cache'[Arg].receipt
      /\ \A q \in Packages : cache[q].receipt => cache'[q].receipt
      /\ \A q \in Packages : cache'[q].files = "cut" => cache[q].files = "cut"
      /\ \A q \in Packages : cache'[q].receipt => cache'[q].files # "none"
  <2>1. CASE MayReuse(cache, Arg) /\ UNCHANGED cache
    BY <2>1, <1>3 DEF MayReuse, SnapOK, Promised
  <2>2. CASE cache' = Published(cache, Arg)
    <3>1. /\ cache' \in Caches /\ cache'[Arg] = Whole /\ \A q \in Packages \ {Arg} : cache'[q] = cache[q]
      BY <2>2, <1>2, <1>3, CacheMoves
    <3>2. Whole.receipt = TRUE /\ Whole.files = "whole"
      BY DEF Whole
    <3>3. QED
      BY <3>1, <3>2 DEF SnapOK, Promised
  <2>3. QED
    BY <2>1, <2>2 DEF Publish
<1>5. \A p \in Packages : Offered(p)' => Offered(p)
  BY <1>1 DEF Offered, Jobs, Provisions, RevokedBy, Revokes
<1>6. Promised'
  BY <1>1, <1>2, <1>4, <1>5 DEF SnapOK, Promised
<1>7. CutsOK'
  BY <1>1, <1>4, CutsStay DEF SnapOK
<1>8. ~Revokes(job)' /\ Jobs' = Jobs
  BY <1>1, <1>2 DEF Revokes, Jobs
<1>9. QED
  BY <1>1, <1>2, <1>4, <1>6, <1>7, <1>8 DEF SnapOK

\* A revocation touches only what the job revokes, which from then on nobody was promised.
LEMMA SnapRevokes ==
  ASSUME PlanOK, SnapOK, UNCHANGED <<plan, job, source, server>>, job >= 1, Revokes(job),
         NEW p \in Packages, p = plan[job].steps[1].arg,
         cache' \in Caches, \A q \in Packages \ {p} : cache'[q] = cache[q],
         cache'[p].receipt => cache'[p].files # "none",
         k' >= 2 => cache'[p].files # "cut",
         at \notin {"leave", "idle", "down"}, at' \notin {"leave", "idle", "down"}
  PROVE  SnapOK'
<1>1. Jobs' = Jobs /\ job \in Jobs /\ ~Provisions(job) /\ Jobs = 1 .. Len(plan) /\ Len(plan) \in Nat /\ job \in Nat
  BY PlanFacts DEF Jobs
<1>2. source = Mirror /\ source \notin Packages
  BY NotAPackage DEF SnapOK
<1>3. ASSUME NEW q \in Packages, Offered(q)'
      PROVE  Offered(q) /\ q # p
  <2>1. Offered(q)
    BY <1>3 DEF Offered, Jobs, Provisions, RevokedBy, Revokes
  <2>2. PICK j \in Jobs : /\ Provisions(j) /\ plan[j].steps[1].arg = q /\ server[j].outcome = "succeeded"
                          /\ \A i \in j + 1 .. job : ~RevokedBy(i, q)
    BY <2>1 DEF Offered
  <2>3. j <= job
    BY <2>2, <1>1 DEF SnapOK
  <2>4. j < job
    BY <2>2, <2>3, <1>1
  <2>5. job \in j + 1 .. job
    BY <2>4, <1>1
  <2>6. QED
    BY <2>1, <2>2, <2>5 DEF RevokedBy
<1>4. Promised'
  BY <1>2, <1>3 DEF SnapOK, Promised
<1>5. ASSUME NEW q \in Packages, cache'[q].files = "cut"
      PROVE  Unfinished(q)
  <2>1. CASE q # p
    BY <1>5, <2>1 DEF SnapOK, CutsOK
  <2>2. CASE q = p
    <3>1. job \in 1 .. job /\ \A h \in job .. job : h = job
      BY <1>1
    <3>2. RevokedBy(job, q) /\ server[job].outcome # "succeeded"
      BY <2>2 DEF RevokedBy, SnapOK
    <3>3. QED
      BY <3>1, <3>2 DEF Unfinished
  <2>3. QED
    BY <2>1, <2>2
<1>6. CutsOK'
  BY <1>5 DEF CutsOK, Unfinished, RevokedBy, Revokes
<1>7. ~Provisions(job)'
  BY <1>1 DEF Provisions
<1>8. QED
  BY <1>1, <1>2, <1>4, <1>6, <1>7 DEF SnapOK

\* A job of source packages has no step of another kind.
LEMMA OtherStep ==
  ASSUME PlanOK, at = "step"
  PROVE  (Op # "provision" => ~Provisions(job)) /\ (Op # "revoke-source" => ~Revokes(job))
<1>1. job \in Jobs /\ k \in 1 .. Len(Steps)
  BY PlanFacts DEF PlanOK
<1>2. Provisions(job) \/ Revokes(job) => k = 1
  BY <1>1, PlanFacts DEF Steps
<1>3. QED
  BY <1>2 DEF Op, Steps, Provisions, Revokes

LEMMA SnapReturn ==
  ASSUME Announced, UseOK, PlanOK, SnapOK, Return
  PROVE  SnapOK'
<1>1. /\ at \in {"clone", "info", "git", "step"} /\ InRunner
      /\ UNCHANGED <<plan, job, source, cache, server>>
  BY DEF Return, Announced
<1>2. at' \notin {"idle", "down"}
  BY DEF Return, Advance, AfterMetadata, NextStep
<1>3. k' >= 2 => k >= 2 \/ (~Provisions(job) /\ ~Revokes(job))
  <2>1. CASE k' = k \/ k' = 1
    BY <2>1
  <2>2. CASE at = "step" /\ Op # "provision"
    <3>1. Op # "revoke-source"
      BY <2>2 DEF UseNow, UseOK, Return
    <3>2. QED
      BY <2>2, <3>1, OtherStep
  <2>3. QED
    BY <2>1, <2>2 DEF Return, Advance, AfterMetadata
<1>4. QED
  BY <1>1, <1>2, <1>3, SnapStays

\* A report: of a package it is a success only where the package is there, or is gone.
LEMMA SnapComplete ==
  ASSUME PlanOK, SnapOK, Complete
  PROVE  SnapOK'
<1>1. /\ at \in {"finish", "finish-error"} /\ at' = "leave" /\ UNCHANGED <<plan, job, k, source, cache>>
      /\ server' = [server EXCEPT ![job].outcome = status]
      /\ job \in Jobs /\ job \in Nat /\ status \in {"failed", "succeeded"}
  BY PlanFacts DEF Complete, Reporting, PlanOK
<1>2. /\ Jobs' = Jobs /\ Jobs = 1 .. Len(plan) /\ Len(plan) \in Nat
      /\ server \in [Jobs -> [outcome : {"none", "failed", "succeeded"}, archive : BOOLEAN]]
  BY <1>1, PlanFacts DEF Jobs, SnapOK
<1>3. /\ server' \in [Jobs -> [outcome : {"none", "failed", "succeeded"}, archive : BOOLEAN]]
      /\ server'[job].outcome = status
      /\ \A j \in Jobs \ {job} : server'[j] = server[j]
  BY <1>1, <1>2
<1>4. ASSUME NEW p \in Packages, Offered(p)'
      PROVE  cache[p].receipt
  <2>1. PICK j \in Jobs : /\ Provisions(j) /\ plan[j].steps[1].arg = p /\ server'[j].outcome = "succeeded"
                          /\ \A i \in j + 1 .. job : ~RevokedBy(i, p)
    BY <1>1, <1>2, <1>4 DEF Offered, Provisions, RevokedBy, Revokes
  <2>2. CASE j = job
    <3>1. status = "succeeded"
      BY <2>1, <2>2, <1>3
    <3>2. k >= 2 /\ job >= 1
      BY <1>1, <3>1 DEF PlanOK
    <3>3. QED
      BY <2>1, <2>2, <3>2 DEF SnapOK
  <2>3. CASE j # job
    <3>1. server[j].outcome = "succeeded"
      BY <2>1, <2>3, <1>3
    <3>2. Offered(p)
      BY <2>1, <3>1 DEF Offered
    <3>3. QED
      BY <3>2 DEF SnapOK, Promised
  <2>4. QED
    BY <2>2, <2>3
<1>5. Promised'
  <2>1. ~InRunner'
    BY <1>1 DEF InRunner
  <2>2. QED
    BY <1>1, <1>4, <2>1 DEF SnapOK, Promised
<1>6. ASSUME NEW p \in Packages, cache[p].files = "cut"
      PROVE  Unfinished(p)'
  <2>1. Unfinished(p)
    BY <1>6 DEF SnapOK, CutsOK
  <2>2. ASSUME RevokedBy(job, p), status = "succeeded"
        PROVE  FALSE
    <3>1. k >= 2 /\ job >= 1 /\ Revokes(job) /\ p = plan[job].steps[1].arg
      BY <1>1, <2>2 DEF RevokedBy, PlanOK
    <3>2. cache[plan[job].steps[1].arg].files # "cut"
      BY <3>1 DEF SnapOK
    <3>3. QED
      BY <1>6, <3>1, <3>2
  <2>3. \A i \in 1 .. job : RevokedBy(i, p) /\ server'[i].outcome = "succeeded" =>
          server[i].outcome = "succeeded"
    BY <1>1, <1>2, <1>3, <2>2
  <2>4. job' \in {job, job + 1} /\ plan' = plan /\ job' = job
    BY <1>1
  <2>5. QED
    BY <2>1, <2>3, <2>4, UnfinishedStays
<1>7. CutsOK'
  BY <1>1, <1>6 DEF CutsOK
<1>8. \A j \in Jobs : j > job => server'[j].outcome = "none"
  BY <1>1, <1>2, <1>3, PlanFacts DEF SnapOK
<1>9. /\ job >= 1 /\ Revokes(job)' => source = Mirror
      /\ job >= 1 /\ Provisions(job)' /\ k >= 2 => cache[plan[job].steps[1].arg].receipt
      /\ job >= 1 /\ Revokes(job)' /\ k >= 2 => cache[plan[job].steps[1].arg].files # "cut"
  BY <1>1 DEF SnapOK, Revokes, Provisions
<1>10. QED
  BY <1>1, <1>2, <1>3, <1>5, <1>7, <1>8, <1>9 DEF SnapOK

\* The archive says nothing of a package.
LEMMA SnapUpload ==
  ASSUME PlanOK, SnapOK, Upload
  PROVE  SnapOK'
<1>1. /\ at = "upload" /\ at' = "finish" /\ UNCHANGED <<plan, job, k, source, cache>>
      /\ server' = [server EXCEPT ![job].archive = TRUE]
      /\ job \in Jobs /\ Jobs' = Jobs
  BY PlanFacts DEF Upload, Reporting, PlanOK, Jobs
<1>2. server \in [Jobs -> [outcome : {"none", "failed", "succeeded"}, archive : BOOLEAN]]
  BY DEF SnapOK
<1>3. /\ server' \in [Jobs -> [outcome : {"none", "failed", "succeeded"}, archive : BOOLEAN]]
      /\ \A j \in Jobs : server'[j].outcome = server[j].outcome
  BY <1>1, <1>2
<1>4. \A p \in Packages : Offered(p)' => Offered(p)
  BY <1>1, <1>3 DEF Offered, Provisions, RevokedBy, Revokes
<1>5. Promised'
  <2>1. ~InRunner'
    BY <1>1 DEF InRunner
  <2>2. QED
    BY <1>1, <1>4, <2>1 DEF SnapOK, Promised
<1>6. CutsOK'
  BY <1>1, <1>3, CutsStay DEF SnapOK
<1>7. /\ job >= 1 /\ Revokes(job)' => source = Mirror
      /\ job >= 1 /\ Provisions(job)' /\ k >= 2 => cache[plan[job].steps[1].arg].receipt
      /\ job >= 1 /\ Revokes(job)' /\ k >= 2 => cache[plan[job].steps[1].arg].files # "cut"
  BY <1>1 DEF SnapOK, Revokes, Provisions
<1>8. (\A j \in Jobs : j > job => server'[j].outcome = "none") /\ server'[job].outcome = "none"
  BY <1>1, <1>3 DEF SnapOK
<1>9. QED
  BY <1>1, <1>3, <1>5, <1>6, <1>7, <1>8 DEF SnapOK

\* Between two jobs nothing is checked out.
LEMMA SnapBetween ==
  ASSUME PlanOK, SnapOK, UNCHANGED <<plan, cache, server>>, k' = 0, source' = Mirror,
         \/ job' = job /\ at' \in {"idle", "down"}
         \/ job' = job + 1 /\ job' \in Jobs /\ at' \in Stages
  PROVE  SnapOK'
<1>1. Jobs' = Jobs /\ Jobs = 1 .. Len(plan) /\ Len(plan) \in Nat /\ job \in Nat
  BY PlanFacts DEF Jobs
<1>2. job' \in Nat /\ job <= job' /\ job' \in {job, job + 1} /\ at' \in Stages
  BY <1>1 DEF Stages
<1>3. ASSUME NEW p \in Packages, Offered(p)'
      PROVE  Offered(p)
  <2>1. PICK j \in Jobs : /\ Provisions(j) /\ plan[j].steps[1].arg = p /\ server[j].outcome = "succeeded"
                          /\ \A i \in j + 1 .. job' : ~RevokedBy(i, p)
    BY <1>1, <1>3 DEF Offered, Provisions, RevokedBy, Revokes
  <2>2. \A i \in j + 1 .. job : i \in j + 1 .. job'
    BY <1>1, <1>2
  <2>3. QED
    BY <2>1, <2>2 DEF Offered
<1>4. Promised'
  BY <1>3, NotAPackage DEF SnapOK, Promised
<1>5. ASSUME NEW i \in 1 .. job', server[i].outcome = "succeeded"
      PROVE  i \in 1 .. job
  <2>1. CASE job' = job
    BY <2>1
  <2>2. CASE job' = job + 1 /\ job' \in Jobs
    <3>1. job' > job /\ server[job'].outcome = "none"
      BY <1>1, <2>2 DEF SnapOK
    <3>2. i # job'
      BY <1>5, <3>1
    <3>3. QED
      BY <1>1, <2>2, <3>2
  <2>3. QED
    BY <2>1, <2>2
<1>6. CutsOK'
  <2>1. ASSUME NEW p \in Packages, cache[p].files = "cut"
        PROVE  Unfinished(p)'
    <3>1. Unfinished(p)
      BY <2>1 DEF SnapOK, CutsOK
    <3>2. QED
      BY <1>2, <1>5, <3>1, UnfinishedStays
  <2>2. QED
    BY <2>1 DEF CutsOK
<1>7. \A j \in Jobs : j > job' => server[j].outcome = "none"
  BY <1>1, <1>2 DEF SnapOK
<1>8. at' \notin {"leave", "idle", "down"} => server[job'].outcome = "none"
  BY <1>1 DEF SnapOK
<1>9. QED
  BY <1>1, <1>2, <1>4, <1>6, <1>7, <1>8 DEF SnapOK

LEMMA SnapStep ==
  ASSUME Announced, UseOK, PlanOK, SnapOK, [Next]_vars
  PROVE  SnapOK'
<1>1. CASE Using \/ UNCHANGED vars \/ ResetMarker \/ StrayEnds \/ PruneWorker
  <2>1. UNCHANGED <<plan, job, at, k, source, cache, server>>
    BY <1>1, UsingLeaves DEF vars, rvars, ResetMarker, StrayEnds, PruneWorker, Down
  <2>2. InRunner' = InRunner
    BY <2>1 DEF InRunner
  <2>3. QED
    BY <2>1, <2>2, SnapStays
<1>2. CASE Prepare \/ Fetch \/ Raises
  <2>1. UNCHANGED <<plan, job, k, source, cache, server>> /\ InRunner /\ at' \notin {"idle", "down"}
    BY <1>2 DEF Prepare, Fetch, Raises, Elsewhere, Alone
  <2>2. at \notin {"leave", "idle", "down"}
    BY <2>1 DEF InRunner
  <2>3. QED
    BY <2>1, <2>2, SnapStays
<1>3. CASE Unpack
  <2>1. /\ UNCHANGED <<plan, job, cache, server>> /\ job >= 1 /\ k' = 0 /\ at' = "clone" /\ source' = Import
        /\ Provisions(job)
    BY <1>3 DEF Unpack, Elsewhere, PlanOK
  <2>2. ~Revokes(job) /\ at \notin {"leave", "idle", "down"}
    BY <1>3, <2>1, PlanFacts DEF Unpack
  <2>3. QED
    BY <2>1, <2>2, SnapChecksOut
<1>4. CASE Select
  <2>1. /\ UNCHANGED <<plan, job, cache, server>> /\ job >= 1 /\ k' = 0 /\ at' = "clone" /\ ~Revokes(job)
        /\ source' \in Lookup(cache, plan[job].commit)
    BY <1>4 DEF Select, Elsewhere, PlanOK
  <2>2. /\ source' = Mirror \/ (source' \in Packages /\ cache[source'].receipt)
        /\ at \notin {"leave", "idle", "down"}
    BY <1>4, <2>1, LookupFinds DEF Select
  <2>3. QED
    BY <2>1, <2>2, SnapChecksOut
<1>5. CASE Return
  BY <1>5, SnapReturn
<1>6. CASE Copy \/ Freeze
  <2>1. /\ at = "step" /\ UNCHANGED <<plan, job, source, cache, server>> /\ InRunner
        /\ Op \notin {"provision", "revoke-source"} /\ at' \notin {"idle", "down"}
    BY <1>6 DEF Copy, Freeze, Elsewhere, Alone, NextStep
  <2>2. QED
    BY <2>1, OtherStep, SnapStays
<1>7. CASE Publish
  BY <1>7, SnapPublish
<1>8. CASE BeginRemoval \/ RemoveReceipt \/ Remove
  <2>1. /\ at = "remove" \/ (at = "step" /\ Op = "revoke-source")
        /\ UNCHANGED <<plan, job, source, server>> /\ at' \in {"step", "info", "remove"}
        /\ \/ cache' = Opened(cache, Arg) /\ k' = k /\ cache[Arg].files # "none"
           \/ cache' = Unreceipted(cache, Arg) /\ k' = k
           \/ cache' = Removed(cache, Arg)
    BY <1>8 DEF BeginRemoval, RemoveReceipt, Remove, Elsewhere, NextStep
  <2>2. job >= 1 /\ Revokes(job) /\ Arg \in Packages /\ Arg = plan[job].steps[1].arg /\ k = 1
    BY <2>1, OnlyStep, PackageStep DEF PlanOK
  <2>3. cache \in Caches /\ cache' \in Caches /\ \A q \in Packages \ {Arg} : cache'[q] = cache[q]
    BY <2>1, <2>2, CacheMoves DEF SnapOK
  <2>4. /\ cache'[Arg].receipt => cache'[Arg].files # "none"
        /\ k' >= 2 => cache'[Arg].files # "cut"
    <3>1. CASE cache' = Opened(cache, Arg) /\ k' = k
      <4>1. cache'[Arg].files = "cut"
        BY <2>2, <2>3, <3>1 DEF Opened, Caches
      <4>2. QED
        BY <2>2, <3>1, <4>1
    <3>2. CASE cache' = Unreceipted(cache, Arg) /\ k' = k
      <4>1. cache'[Arg].receipt = FALSE
        BY <2>2, <2>3, <3>2 DEF Unreceipted, Caches
      <4>2. QED
        BY <2>2, <3>2, <4>1
    <3>3. CASE cache' = Removed(cache, Arg)
      <4>1. cache'[Arg].receipt = FALSE /\ cache'[Arg].files = "none"
        BY <2>2, <2>3, <3>3 DEF Removed, Absent, Caches
      <4>2. QED
        BY <4>1
    <3>4. QED
      BY <2>1, <3>1, <3>2, <3>3
  <2>5. at \notin {"leave", "idle", "down"} /\ at' \notin {"leave", "idle", "down"}
    BY <2>1
  <2>6. QED
    BY <2>1, <2>2, <2>3, <2>4, <2>5, SnapRevokes
<1>9. CASE WriteReceipt \/ Pack \/ ArtifactError \/ Undelivered
  <2>1. /\ UNCHANGED <<plan, job, k, source, cache, server>>
        /\ at' \in {"pack", "upload", "finish", "finish-error", "leave"}
        /\ at \notin {"leave", "idle", "down"}
    BY <1>9 DEF WriteReceipt, Pack, ArtifactError, Undelivered, Reporting
  <2>2. ~InRunner'
    BY <2>1 DEF InRunner
  <2>3. QED
    BY <2>1, <2>2, SnapStays
<1>10. CASE Upload
  BY <1>10, SnapUpload
<1>11. CASE Complete
  BY <1>11, SnapComplete
<1>12. CASE Leave \/ Crash
  <2>1. UNCHANGED <<plan, job, cache, server>> /\ k' = 0 /\ source' = Mirror /\ at' \in {"idle", "down"}
    BY <1>12 DEF Leave, Crash, Forget
  <2>2. QED
    BY <2>1, SnapBetween
<1>13. CASE Claim \/ Restart
  <2>1. /\ UNCHANGED <<plan, cache, server, k, source>> /\ at \in {"idle", "down"}
        /\ \/ job' = job /\ at' = "idle"
           \/ job' = job + 1 /\ job < Len(plan) /\ at' = "prepare"
    BY <1>13 DEF Claim, Restart, Down
  <2>2. k = 0 /\ source = Mirror
    BY <2>1 DEF PlanOK, SnapOK
  <2>3. job' = job + 1 /\ job < Len(plan) => job' \in Jobs
    BY PlanFacts
  <2>4. QED
    BY <2>1, <2>2, <2>3, SnapBetween DEF Stages
<1>14. QED
  BY <1>1, <1>2, <1>3, <1>4, <1>5, <1>6, <1>7, <1>8, <1>9, <1>10, <1>11, <1>12, <1>13, NextIs
     DEF Others

-----------------------------------------------------------------------------
(* KeptOK *)

KeptFiles == [root : BOOLEAN, archive : BOOLEAN,
              receipt : {"none", "pending", "torn", "partial", "delivered"}]

\* The receipt of the job at hand is written, or its files, and no other's.
LEMMA KeepMoves ==
  ASSUME KeptOK, job \in Jobs, NEW f \in KeptFiles, local' = [local EXCEPT ![job] = f]
  PROVE  /\ local' \in [Jobs -> KeptFiles] /\ local'[job] = f
         /\ \A j \in Jobs \ {job} : local'[j] = local[j]
  BY DEF KeptOK, KeptFiles

LEMMA KeptStays ==
  ASSUME PlanOK, KeptOK, UNCHANGED <<plan, job, local, server>>,
         InRunner' \/ at' = "report" => InRunner \/ at = "report",
         at' = "finish" => at = "finish" \/ ~local[job].root
  PROVE  KeptOK'
<1>1. Jobs' = Jobs
  BY DEF Jobs
<1>2. QED
  BY <1>1 DEF KeptOK

\* Only what the server has becomes a delivered receipt.
LEMMA KeptMoves ==
  ASSUME PlanOK, KeptOK, UNCHANGED <<plan, job>>, job \in Jobs,
         NEW f \in KeptFiles, local' = [local EXCEPT ![job] = f],
         NEW o, server' = [server EXCEPT ![job] = o],
         InRunner' \/ at' = "report" => f.receipt = "none",
         at' = "finish" /\ f.root => o.archive,
         f.receipt = "delivered" => o.outcome # "none" /\ (f.root => o.archive),
         server \in [Jobs -> [outcome : {"none", "failed", "succeeded"}, archive : BOOLEAN]]
  PROVE  KeptOK'
<1>1. /\ local' \in [Jobs -> KeptFiles] /\ local'[job] = f
      /\ \A j \in Jobs \ {job} : local'[j] = local[j]
  BY KeepMoves
<1>2. server'[job] = o /\ \A j \in Jobs \ {job} : server'[j] = server[j]
  OBVIOUS
<1>3. Jobs' = Jobs /\ job \in Nat
  BY PlanFacts DEF Jobs
<1>4. ASSUME NEW j \in Jobs, j > job
      PROVE  local'[j].receipt = "none"
  <2>1. j # job
    BY <1>3, <1>4
  <2>2. QED
    BY <1>1, <1>4, <2>1 DEF KeptOK
<1>5. ASSUME NEW j \in Jobs, local'[j].receipt = "delivered"
      PROVE  server'[j].outcome # "none" /\ (local'[j].root => server'[j].archive)
  <2>1. CASE j = job
    BY <2>1, <1>1, <1>2, <1>5
  <2>2. CASE j # job
    BY <2>2, <1>1, <1>2, <1>5 DEF KeptOK
  <2>3. QED
    BY <2>1, <2>2
<1>6. QED
  BY <1>1, <1>2, <1>3, <1>4, <1>5 DEF KeptOK, KeptFiles

LEMMA KeptHandles ==
  ASSUME PlanOK, SnapOK, KeptOK,
         WriteReceipt \/ Pack \/ Upload \/ ArtifactError \/ Complete \/ Undelivered
  PROVE  KeptOK'
<1> DEFINE f == local[job]
           o == server[job]
<1>1. /\ at \in {"report", "pack", "upload", "finish", "finish-error"} /\ UNCHANGED <<plan, job>>
      /\ job \in Jobs /\ status \in {"failed", "succeeded"}
      /\ at' \in {"pack", "upload", "finish", "finish-error", "leave"} /\ ~InRunner' /\ at' # "report"
  BY PlanFacts DEF WriteReceipt, Pack, Upload, ArtifactError, Complete, Undelivered, Reporting, PlanOK, InRunner
<1>2. /\ local \in [Jobs -> KeptFiles]
      /\ server \in [Jobs -> [outcome : {"none", "failed", "succeeded"}, archive : BOOLEAN]]
  BY DEF KeptOK, SnapOK, KeptFiles
<1>3. f \in KeptFiles /\ o \in [outcome : {"none", "failed", "succeeded"}, archive : BOOLEAN]
  BY <1>1, <1>2
<1>4. local = [local EXCEPT ![job] = f] /\ server = [server EXCEPT ![job] = o]
  BY <1>1, <1>2
<1>5. f.receipt = "delivered" => o.outcome # "none" /\ (f.root => o.archive)
  BY <1>1 DEF KeptOK
<1>6. CASE WriteReceipt
  <2>1. PICK r \in {"pending", "torn"} :
          /\ local' = [local EXCEPT ![job].receipt = r]
          /\ at' = "finish" => ~local[job].root
    BY <1>6 DEF WriteReceipt, Keep
  <2> DEFINE g == [f EXCEPT !.receipt = r]
  <2>2. g \in KeptFiles /\ g.receipt = r /\ g.root = f.root
    BY <1>3 DEF KeptFiles
  <2>3. local' = [local EXCEPT ![job] = g] /\ server' = [server EXCEPT ![job] = o]
    BY <1>4, <1>6, <2>1 DEF WriteReceipt
  <2>4. at' = "finish" => ~g.root
    BY <2>1, <2>2
  <2> HIDE DEF f, o, g
  <2>5. QED
    BY <1>1, <1>2, <2>2, <2>3, <2>4, KeptMoves
<1>7. CASE Pack
  <2> DEFINE g == [f EXCEPT !.archive = TRUE]
  <2>1. g \in KeptFiles /\ g.receipt = f.receipt /\ g.root = f.root
    BY <1>3 DEF KeptFiles
  <2>2. local' = [local EXCEPT ![job] = g] /\ server' = [server EXCEPT ![job] = o] /\ at' = "upload"
    BY <1>4, <1>7 DEF Pack
  <2>3. g.receipt = "delivered" => o.outcome # "none" /\ (g.root => o.archive)
    BY <1>5, <2>1
  <2> HIDE DEF f, o, g
  <2>4. QED
    BY <1>1, <1>2, <2>1, <2>2, <2>3, KeptMoves
<1>8. CASE Upload
  <2> DEFINE q == [o EXCEPT !.archive = TRUE]
  <2>1. q.outcome = o.outcome /\ q.archive = TRUE
    BY <1>3
  <2>2. local' = [local EXCEPT ![job] = f] /\ server' = [server EXCEPT ![job] = q]
    BY <1>4, <1>8 DEF Upload
  <2>3. f.receipt = "delivered" => q.outcome # "none" /\ (f.root => q.archive)
    BY <1>5, <2>1
  <2> HIDE DEF f, o, q
  <2>4. QED
    BY <1>1, <1>2, <1>3, <2>1, <2>2, <2>3, KeptMoves
<1>9. CASE ArtifactError \/ Undelivered
  <2>1. UNCHANGED <<local, server>> /\ at' # "finish"
    BY <1>9 DEF ArtifactError, Undelivered
  <2>2. QED
    BY <1>1, <2>1, KeptStays
<1>10. CASE Complete
  <2> DEFINE q == [o EXCEPT !.outcome = status]
  <2>1. q.outcome = status /\ q.archive = o.archive /\ status # "none"
    BY <1>1, <1>3
  <2>2. server' = [server EXCEPT ![job] = q] /\ at' = "leave"
    BY <1>10 DEF Complete
  <2>3. at = "finish" /\ f.root => o.archive
    BY DEF KeptOK
  <2>4. PICK r \in {"partial", "delivered", "torn", f.receipt} :
          /\ local' = [local EXCEPT ![job] = [f EXCEPT !.receipt = r]]
          /\ r = "delivered" => at = "finish" \/ f.receipt = "delivered"
    <3>1. CASE Keep(Settled(at = "finish-error"))
      <4>1. local' = [local EXCEPT ![job] = [f EXCEPT !.receipt = Settled(at = "finish-error")]]
        BY <3>1 DEF Keep
      <4>2. /\ Settled(at = "finish-error") \in {"partial", "delivered"}
            /\ Settled(at = "finish-error") = "delivered" => at = "finish"
        BY <1>10 DEF Settled, Complete
      <4>3. QED
        BY <4>1, <4>2
    <3>2. CASE Keep("torn")
      BY <3>2 DEF Keep
    <3>3. CASE UNCHANGED local
      <4>1. [f EXCEPT !.receipt = f.receipt] = f
        BY <1>3 DEF KeptFiles
      <4>2. QED
        BY <1>4, <3>3, <4>1
    <3>4. QED
      BY <1>10, <3>1, <3>2, <3>3 DEF Complete
  <2> DEFINE g == [f EXCEPT !.receipt = r]
  <2>5. g \in KeptFiles /\ g.receipt = r /\ g.root = f.root
    BY <1>3 DEF KeptFiles
  <2>6. g.receipt = "delivered" => q.outcome # "none" /\ (g.root => q.archive)
    BY <1>5, <2>1, <2>3, <2>4, <2>5
  <2>7. local' = [local EXCEPT ![job] = g]
    BY <2>4
  <2> HIDE DEF f, o, g, q
  <2>8. QED
    BY <1>1, <1>2, <2>2, <2>5, <2>6, <2>7, KeptMoves
<1>11. QED
  BY <1>6, <1>7, <1>8, <1>9, <1>10
\* prune_worker touches what is delivered, and takes the directory before the receipt.
LEMMA KeptPrunes ==
  ASSUME PlanOK, KeptOK, PruneWorker
  PROVE  KeptOK'
<1>1. /\ at = "down" /\ at' = "down" /\ UNCHANGED <<plan, job, server>> /\ Jobs' = Jobs
  BY DEF PruneWorker, Down, Jobs
<1>2. local \in [Jobs -> KeptFiles]
  BY DEF KeptOK, KeptFiles
<1>3. PICK p \in Jobs :
        /\ Prunable(p)
        /\ \/ local' = [local EXCEPT ![p].root = FALSE]
           \/ local' = [local EXCEPT ![p].root = FALSE, ![p].archive = FALSE]
           \/ local' = [local EXCEPT ![p] = Nothing]
  BY DEF PruneWorker
<1>4. /\ local' \in [Jobs -> KeptFiles]
      /\ \A j \in Jobs \ {p} : local'[j] = local[j]
      /\ ~local'[p].root /\ local'[p].receipt \in {local[p].receipt, "none"}
  <2>1. CASE local' = [local EXCEPT ![p].root = FALSE]
    BY <2>1, <1>2 DEF KeptFiles
  <2>2. CASE local' = [local EXCEPT ![p].root = FALSE, ![p].archive = FALSE]
    BY <2>2, <1>2 DEF KeptFiles
  <2>3. CASE local' = [local EXCEPT ![p] = Nothing]
    BY <2>3, <1>2 DEF KeptFiles, Nothing
  <2>4. QED
    BY <1>3, <2>1, <2>2, <2>3
<1>5. ASSUME NEW j \in Jobs, j > job
      PROVE  local'[j].receipt = "none"
  BY <1>4, <1>5 DEF KeptOK
<1>6. ASSUME NEW j \in Jobs, local'[j].receipt = "delivered"
      PROVE  server[j].outcome # "none" /\ (local'[j].root => server[j].archive)
  BY <1>4, <1>6 DEF KeptOK
<1>7. ~InRunner'
  BY <1>1 DEF InRunner
<1>8. QED
  BY <1>1, <1>4, <1>5, <1>6, <1>7 DEF KeptOK, KeptFiles

LEMMA KeptStep ==
  ASSUME Announced, PlanOK, SnapOK, KeptOK, [Next]_vars
  PROVE  KeptOK'
<1>1. CASE Using \/ UNCHANGED vars \/ ResetMarker \/ StrayEnds
  <2>1. UNCHANGED <<plan, job, at, local, server>>
    BY <1>1, UsingLeaves DEF vars, rvars, ResetMarker, StrayEnds, Down
  <2>2. InRunner' = InRunner
    BY <2>1 DEF InRunner
  <2>3. at' = "finish" => at = "finish"
    BY <2>1
  <2>4. QED
    BY <2>1, <2>2, <2>3, KeptStays
<1>2. CASE Prepare
  <2>1. /\ InRunner /\ job \in Jobs /\ UNCHANGED <<plan, job, server>> /\ at' # "finish"
        /\ local' = [local EXCEPT ![job].root = TRUE]
    BY <1>2, PlanFacts DEF Prepare, Alone, PlanOK
  <2>2. /\ local \in [Jobs -> KeptFiles] /\ local[job].receipt = "none"
        /\ server \in [Jobs -> [outcome : {"none", "failed", "succeeded"}, archive : BOOLEAN]]
    BY <2>1 DEF KeptOK, SnapOK, KeptFiles
  <2> DEFINE g == [local[job] EXCEPT !.root = TRUE]
             o == server[job]
  <2>3. g \in KeptFiles /\ g.receipt = "none" /\ local' = [local EXCEPT ![job] = g]
    BY <2>1, <2>2 DEF KeptFiles
  <2>4. server' = [server EXCEPT ![job] = o]
    BY <2>1, <2>2
  <2> HIDE DEF g, o
  <2>5. QED
    BY <2>1, <2>2, <2>3, <2>4, KeptMoves
<1>3. CASE Fetch \/ Unpack \/ Select \/ Raises
  <2>1. UNCHANGED <<plan, job, local, server>> /\ InRunner /\ at' # "finish"
    BY <1>3 DEF Fetch, Unpack, Select, Raises, Elsewhere, Alone
  <2>2. QED
    BY <2>1, KeptStays
<1>4. CASE Copy \/ Freeze \/ Publish \/ BeginRemoval \/ RemoveReceipt \/ Remove
  <2>1. UNCHANGED <<plan, job, local, server>> /\ InRunner /\ at' # "finish"
    BY <1>4 DEF Copy, Freeze, Publish, BeginRemoval, RemoveReceipt, Remove, Elsewhere, Alone, NextStep
  <2>2. QED
    BY <2>1, KeptStays
<1>5. CASE Return
  <2>1. UNCHANGED <<plan, job, local, server>> /\ InRunner /\ at' # "finish"
    BY <1>5 DEF Return, Advance, AfterMetadata, NextStep
  <2>2. QED
    BY <2>1, KeptStays
<1>6. CASE WriteReceipt \/ Pack \/ Upload \/ ArtifactError \/ Complete \/ Undelivered
  BY <1>6, KeptHandles
<1>7. CASE Leave \/ Restart
  <2>1. UNCHANGED <<plan, job, local, server>> /\ at' \in {"idle", "down"}
    BY <1>7 DEF Leave, Restart, Down
  <2>2. ~InRunner' /\ at' # "report" /\ at' # "finish"
    BY <2>1 DEF InRunner
  <2>3. QED
    BY <2>1, <2>2, KeptStays
<1>8. CASE Claim
  <2>1. /\ job' = job + 1 /\ at' = "prepare" /\ UNCHANGED <<plan, local, server>>
        /\ job < Len(plan) /\ Jobs' = Jobs
    BY <1>8 DEF Claim, Jobs
  <2>2. job \in Nat /\ Jobs = 1 .. Len(plan) /\ Len(plan) \in Nat
    BY PlanFacts
  <2>3. job' \in Jobs /\ job' > job
    BY <2>1, <2>2
  <2>4. local[job'].receipt = "none"
    BY <2>3 DEF KeptOK
  <2>5. ASSUME NEW j \in Jobs, j > job'
        PROVE  local[j].receipt = "none"
    <3>1. j > job
      BY <2>2, <2>3, <2>5
    <3>2. QED
      BY <3>1 DEF KeptOK
  <2>6. QED
    BY <2>1, <2>4, <2>5 DEF KeptOK
<1>9. CASE Crash
  <2>1. at' = "down" /\ ~InRunner' /\ UNCHANGED <<plan, job, server>> /\ at' # "finish"
    BY <1>9 DEF Crash, InRunner
  <2>2. CASE UNCHANGED local
    BY <2>1, <2>2, KeptStays
  <2>3. CASE at = "report" /\ Keep("torn")
    <3>1. job \in Jobs
      BY <2>3, PlanFacts DEF PlanOK
    <3>2. /\ local \in [Jobs -> KeptFiles]
          /\ server \in [Jobs -> [outcome : {"none", "failed", "succeeded"}, archive : BOOLEAN]]
      BY DEF KeptOK, SnapOK, KeptFiles
    <3> DEFINE g == [local[job] EXCEPT !.receipt = "torn"]
               o == server[job]
    <3>3. g \in KeptFiles /\ g.receipt = "torn" /\ local' = [local EXCEPT ![job] = g]
      BY <2>3, <3>1, <3>2 DEF KeptFiles, Keep
    <3>4. server' = [server EXCEPT ![job] = o]
      BY <2>1, <3>1, <3>2
    <3> HIDE DEF g, o
    <3>5. QED
      BY <2>1, <3>1, <3>2, <3>3, <3>4, KeptMoves
  <2>4. QED
    BY <1>9, <2>2, <2>3 DEF Crash
<1>10. CASE PruneWorker
  BY <1>10, KeptPrunes
<1>11. QED
  BY <1>1, <1>2, <1>3, <1>4, <1>5, <1>6, <1>7, <1>8, <1>9, <1>10, NextIs DEF Others

-----------------------------------------------------------------------------
(* The theorems *)

LEMMA RunnerStart ==
  ASSUME Init
  PROVE  RunnerInv
<1>1. /\ plan \in Plans /\ job = 0 /\ at = "idle" /\ Fresh /\ marker = FALSE /\ stray = FALSE
      /\ cache \in [Packages -> {Absent, Whole}] /\ step = "off" /\ ~InRunner
      /\ local = [j \in Jobs |-> Nothing]
      /\ server = [j \in Jobs |-> [outcome |-> "none", archive |-> FALSE]]
  BY DEF Init, SessionsInit, InRunner
<1>2. SessionInv
  BY SessionsStart DEF Init
<1>3. Announced
  BY <1>1 DEF Announced, Fresh, Stages
<1>4. Len(plan) \in Nat
  BY <1>1, PlansAssumption
<1>5. PlanOK
  BY <1>1, <1>4 DEF PlanOK, Fresh
<1>6. SnapOK
  <2>1. /\ cache \in Caches
        /\ \A p \in Packages : cache[p].files # "cut" /\ (cache[p].receipt => cache[p].files # "none")
    <3>1. Absent \in [files : {"none", "whole", "cut"}, receipt : BOOLEAN]
      BY DEF Absent
    <3>2. Whole \in [files : {"none", "whole", "cut"}, receipt : BOOLEAN]
      BY DEF Whole
    <3>3. Absent.files = "none" /\ ~Absent.receipt /\ Whole.files = "whole"
      BY DEF Absent, Whole
    <3>4. QED
      BY <1>1, <3>1, <3>2, <3>3 DEF Caches
  <2>2. \A p \in Packages : ~Offered(p)
    BY <1>1 DEF Offered
  <2>3. Promised /\ CutsOK
    BY <1>1, <2>1, <2>2 DEF Promised, CutsOK
  <2>4. QED
    BY <1>1, <2>1, <2>3 DEF SnapOK, Fresh
<1>7. KeptOK
  BY <1>1 DEF KeptOK, Nothing
<1>8. UseOK
  BY <1>1 DEF UseOK
<1>9. QED
  BY <1>2, <1>3, <1>5, <1>6, <1>7, <1>8 DEF RunnerInv

LEMMA RunnerSteps ==
  ASSUME RunnerInv, [Next]_vars
  PROVE  RunnerInv'
  BY SessionStep, AnnouncedStep, UseStep, PlanStep, SnapStep, KeptStep DEF RunnerInv

(* The inductive invariant of the worker and its children.                 *)
THEOREM RunnerInductive == Spec => []RunnerInv
<1>1. Init => RunnerInv
  BY RunnerStart
<1>2. RunnerInv /\ [Next]_vars => RunnerInv'
  BY RunnerSteps
<1>3. QED
  BY <1>1, <1>2, PTL DEF Spec

(* What a comparison or a training that passes has recorded is all that its *)
(* sessions wrote, in order and to the last record, for any number of       *)
(* rounds, any size of the buffers and any misbehaviour of the sessions     *)
(* (process.py:119, 136-144).                                               *)
THEOREM RowsPairedHolds == Spec => []RowsPaired
<1>1. RunnerInv => RowsPaired
  BY InvRowsPaired DEF RunnerInv
<1>2. QED
  BY <1>1, RunnerInductive, PTL

(* What survives of a job is announced by the marker and runs beside no    *)
(* other (runner.py:285).                                                  *)
THEOREM NoSurvivorHolds == Spec => []NoSurvivor
<1>1. RunnerInv => NoSurvivor
  BY DEF RunnerInv, Announced, NoSurvivor, InRunner
<1>2. QED
  BY <1>1, RunnerInductive, PTL

(* A package reported as installed stays until it is revoked, none is      *)
(* taken away under a job (docs/self-service-provisioning.md:36), and files *)
(* are missing only where a revocation was cut short (sources.py:162-168). *)
THEOREM SnapshotsSoundHolds == Spec => []SnapshotsSound
<1>1. RunnerInv => SnapshotsSound
  BY SnapSound DEF RunnerInv
<1>2. QED
  BY <1>1, RunnerInductive, PTL

\* The one step that deletes a directory, seen from the receipts.
LEMMA RootsGo ==
  ASSUME RunnerInv, [Next]_vars, NEW j \in Jobs, local[j].root, ~local'[j].root
  PROVE  server[j].outcome # "none" /\ server[j].archive
<1>1. /\ PlanOK /\ KeptOK /\ local \in [Jobs -> KeptFiles]
      /\ (job >= 1 => job \in Jobs)
  BY PlanFacts DEF RunnerInv, KeptOK, KeptFiles
<1>2. CASE PruneWorker
  <2>1. PICK p \in Jobs :
        /\ Prunable(p)
        /\ \/ local' = [local EXCEPT ![p].root = FALSE]
           \/ local' = [local EXCEPT ![p].root = FALSE, ![p].archive = FALSE]
           \/ local' = [local EXCEPT ![p] = Nothing]
    BY <1>2 DEF PruneWorker
  <2>2. j = p
    BY <2>1, <1>1 DEF KeptFiles
  <2>3. QED
    BY <2>1, <2>2, <1>1 DEF Prunable, KeptOK
<1>3. ASSUME NEW r, Keep(r) PROVE FALSE
  BY <1>1, <1>3 DEF Keep, KeptFiles
<1>4. CASE Using \/ UNCHANGED vars
  BY <1>4, UsingLeaves DEF rvars, vars
<1>5. CASE Prepare \/ Pack
  <2>1. local' = [local EXCEPT ![job].root = TRUE] \/ local' = [local EXCEPT ![job].archive = TRUE]
    BY <1>5 DEF Prepare, Pack
  <2>2. QED
    BY <2>1, <1>1 DEF KeptFiles
<1>6. CASE WriteReceipt \/ Complete \/ Crash
  BY <1>3, <1>6 DEF WriteReceipt, Complete, Crash
<1>7. CASE Fetch \/ Unpack \/ Select \/ Return \/ Copy \/ Freeze \/ Publish
  BY <1>7 DEF Fetch, Unpack, Select, Return, Copy, Freeze, Publish, Elsewhere
<1>8. CASE BeginRemoval \/ RemoveReceipt \/ Remove \/ Raises
  BY <1>8 DEF BeginRemoval, RemoveReceipt, Remove, Raises, Elsewhere
<1>9. CASE Upload \/ ArtifactError \/ Undelivered \/ Leave \/ Claim
  BY <1>9 DEF Upload, ArtifactError, Undelivered, Leave, Claim
<1>10. CASE Restart \/ ResetMarker \/ StrayEnds
  BY <1>10 DEF Restart, ResetMarker, StrayEnds
<1>11. QED
  BY <1>2, <1>4, <1>5, <1>6, <1>7, <1>8, <1>9, <1>10, NextIs DEF Others

(* Pruning the worker's directory deletes no result that the server has    *)
(* not got (README.md:198, 200).                                           *)
THEOREM ResultsKeptHolds == Spec => ResultsKept
<1>1. RunnerInv /\ [Next]_vars =>
        [\A j \in Jobs : local[j].root /\ ~local'[j].root =>
           server[j].outcome # "none" /\ server[j].archive]_vars
  BY RootsGo
<1>2. QED
  BY <1>1, RunnerInductive, PTL DEF Spec, ResultsKept
=============================================================================
