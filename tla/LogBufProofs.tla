--------------------------- MODULE LogBufProofs ---------------------------
(***************************************************************************)
(* Proofs about LogBuf, for any number of sandboxes, requests and lines    *)
(* and any capacity of the rings.                                          *)
(***************************************************************************)
EXTENDS LogBuf, FreshObjects, TLAPS, FiniteSetTheorems, SequenceTheorems

-----------------------------------------------------------------------------
(* The inductive invariant.                                                *)

\* Buffer b is the ring of name n for the map or for a request.
Holds(b, n) ==
    \/ buffers[n] = b
    \/ \E q \in Posts : post[q].buf = b /\ post[q].name = n
    \/ \E f \in Followers : fol[f].buf = b /\ fol[f].name = n

\* A POST has a name, lines and a buffer exactly while it waits for the lock.
PostsNamed ==
    \A q \in Posts :
        /\ post[q].pc = "append" => /\ post[q].name \in Names
                                    /\ post[q].buf \in Buffers
                                    /\ post[q].lines \in Batches
                                    /\ post[q].lines # <<>>
        /\ post[q].pc # "append" => post[q].buf = NULL

\* A follower has a query and a name while it runs, a buffer between its lookup
\* and its use, and lines to write only in the loop that writes them.
FollowersNamed ==
    \A f \in Followers :
        /\ fol[f].pc # "idle" => fol[f].query \in Queries /\ fol[f].name \in Names
        /\ fol[f].pc \in {"read", "enlist"} => fol[f].buf \in Buffers
        /\ fol[f].pc = "select" /\ fol[f].query.kind = "sse" => fol[f].buf \in Buffers
        /\ fol[f].pc \in {"idle", "lookup", "write", "subscribe"} => fol[f].buf = NULL
        /\ fol[f].pc # "write" => fol[f].todo = <<>>
        /\ fol[f].pc = "idle" => sent[f] = <<>>

\* A buffer is the ring of one name only, and one that nothing leads to is empty.
OneName ==
    \A b \in Buffers, m, n \in Names : Holds(b, m) /\ Holds(b, n) => m = n
Emptied == \A b \in Buffers : b \notin Reachable => ring[b] = <<>>

\* The lines of ring b: stamped, no newer than the newest of its name, and in
\* order except for the ones that were overtaken.
RingOK(b) ==
    /\ \A i \in DOMAIN ring[b] :
          /\ ring[b][i].ts >= 1
          /\ post[ring[b][i].id[1]].pc = "done"
          /\ \A n \in Names : Holds(b, n) => ring[b][i].ts <= newest[n]
    /\ \A i, j \in DOMAIN ring[b] :
          i < j /\ ring[b][j].id \notin late => ring[b][i].ts < ring[b][j].ts

\* Lines of two rings are different lines.
RingsApart ==
    \A b, c \in Buffers : b # c =>
        \A i \in DOMAIN ring[b], j \in DOMAIN ring[c] : ring[b][i].id # ring[c][j].id

\* The ring registered for n: none of its lines was in a ring when that was
\* removed, and those not overtaken are newer than every line of an earlier ring
\* of n that a request still holds.
CurrentOK(n) ==
    buffers[n] # NULL =>
        \A i \in DOMAIN ring[buffers[n]] :
            LET ln == ring[buffers[n]][i]
            IN  /\ ln.id \notin purged
                /\ \A b \in Buffers :
                      Holds(b, n) /\ b # buffers[n] /\ ln.id \notin late =>
                          \A j \in DOMAIN ring[b] : ring[b][j].ts < ln.ts

PurgedDone == \A id \in purged : post[id[1]].pc = "done"

\* What follower f was sent and has left to write.
SentOK(f) ==
    /\ fol[f].old \subseteq purged
    /\ fol[f].buf \in Buffers =>
         \A i \in DOMAIN ring[fol[f].buf] : ring[fol[f].buf][i].id \notin fol[f].old
    /\ \A i \in DOMAIN fol[f].todo :
         /\ fol[f].todo[i].ts >= 1
         /\ fol[f].todo[i].ts <= newest[fol[f].name]
         /\ fol[f].todo[i].id \notin fol[f].old
    /\ \A i, j \in DOMAIN fol[f].todo :
         i < j /\ fol[f].todo[j].id \notin late => fol[f].todo[i].ts < fol[f].todo[j].ts
    /\ \A i \in DOMAIN sent[f] :
         /\ sent[f][i].ts >= 1
         /\ sent[f][i].ts <= fol[f].cursor
         /\ sent[f][i].id \notin fol[f].old
    /\ \A i, j \in DOMAIN sent[f] : i < j => sent[f][i].ts < sent[f][j].ts
    /\ fol[f].pc # "idle" => \/ fol[f].cursor = fol[f].query.since
                             \/ fol[f].cursor <= newest[fol[f].name]

\* Line ln of the registered ring is filtered out, behind the cursor, still to
\* be written or newer than everything still to be written; and when it is
\* behind the cursor it was sent or overtaken.
CoveredOK(f, ln) ==
    /\ \/ ~Accepts(f, ln)
       \/ ln.id \in late
       \/ ln.ts <= fol[f].cursor
       \/ \E i \in DOMAIN fol[f].todo : fol[f].todo[i] = ln
       \/ \A i \in DOMAIN fol[f].todo : fol[f].todo[i].ts < ln.ts
    /\ Accepts(f, ln) /\ ln.ts > fol[f].query.since /\ ln.ts <= fol[f].cursor
       => ln.id \in late \/ \E i \in DOMAIN sent[f] : sent[f][i] = ln

FollowOK(f) ==
    /\ SentOK(f)
    /\ \A ln \in Current(f) : CoveredOK(f, ln)

FramesOK == PostsNamed /\ FollowersNamed /\ OneName /\ Emptied
RingsOK == /\ \A b \in Buffers : RingOK(b)
           /\ RingsApart
           /\ \A n \in Names : CurrentOK(n)
           /\ PurgedDone

Inv == /\ TypeOK /\ FramesOK /\ RingsOK
       /\ \A f \in Followers : FollowOK(f)
       /\ BlockedIsEnlisted

-----------------------------------------------------------------------------
(* Sets of numbers and free buffers.                                       *)

\* What the assumptions say of single constants.
LEMMA Constants ==
    /\ max \in Nat \ {0} /\ MaxTime \in Nat \ {0}
    /\ NULL \notin Buffers /\ NULL \notin Names
    /\ \A y \in Queries : y.since \in 0..MaxTime
  BY LogAssumption

\* A set of times that is not empty has a latest one, which is what Max returns.
LEMMA MaxOfTimes ==
    ASSUME NEW S, NEW k \in Nat, S \subseteq 0..k, S # {}
    PROVE  Max(S) \in S /\ \A y \in S : Max(S) >= y
  <1> DEFINE T == {x \in Nat : x <= k /\ k - x \in S}
  <1>1. PICK z \in S : TRUE
    OBVIOUS
  <1>2. k - z \in T
    OBVIOUS
  <1>3. Min(T) \in T /\ \A y \in T : Min(T) <= y
    BY <1>2, MinOfNaturals
  <1> DEFINE x == k - Min(T)
  <1>4. x \in S
    BY <1>3
  <1>5. ASSUME NEW y \in S PROVE x >= y
    <2>1. k - y \in T
      OBVIOUS
    <2>2. Min(T) <= k - y
      BY <2>1, <1>3
    <2> QED BY <2>2, <1>3
  <1> HIDE DEF x
  <1> QED BY <1>4, <1>5 DEF Max

\* The pointers of the map and of the requests do not use up the Buffers: a
\* name that has no ring finds one nothing leads to.
LEMMA FreeBuffer ==
    ASSUME TypeOK, NEW n \in Names, buffers[n] = NULL
    PROVE  Buf(n) \in Buffers \ Reachable
  <1> DEFINE pb == [q \in Posts |-> post[q].buf]
             fb == [f \in Followers |-> fol[f].buf]
             A == {buffers[m] : m \in Names}
             B == {pb[q] : q \in Posts}
             C == {fb[f] : f \in Followers}
  <1>1. IsFiniteSet(A) /\ Cardinality(A) <= Cardinality(Names)
    BY ImageIsSmall, BuffersAssumption DEF TypeOK
  <1>2. IsFiniteSet(B) /\ Cardinality(B) <= Cardinality(Posts)
    <2>1. pb \in [Posts -> {post[q].buf : q \in Posts}]
      OBVIOUS
    <2> HIDE DEF pb
    <2> QED BY <2>1, ImageIsSmall, BuffersAssumption
  <1>3. IsFiniteSet(C) /\ Cardinality(C) <= Cardinality(Followers)
    <2>1. fb \in [Followers -> {fol[f].buf : f \in Followers}]
      OBVIOUS
    <2> HIDE DEF fb
    <2> QED BY <2>1, ImageIsSmall, BuffersAssumption
  <1>4. Reachable = (A \cup B) \cup C
    BY DEF Reachable
  <1> HIDE DEF A, B, C
  <1>5. /\ IsFiniteSet(Reachable)
        /\ Cardinality(Reachable) <= Cardinality(Buffers)
    <2>1. /\ IsFiniteSet(A \cup B)
          /\ Cardinality(A \cup B) <= Cardinality(A) + Cardinality(B)
          /\ Cardinality(A) \in Nat /\ Cardinality(B) \in Nat
      BY <1>1, <1>2, UnionIsSmall
    <2>2. /\ IsFiniteSet(Reachable)
          /\ Cardinality(Reachable) <= Cardinality(A \cup B) + Cardinality(C)
          /\ Cardinality(Reachable) \in Nat
          /\ Cardinality(A \cup B) \in Nat /\ Cardinality(C) \in Nat
      BY <1>3, <1>4, <2>1, UnionIsSmall
    <2>3. /\ Cardinality(Buffers) \in Nat /\ Cardinality(Names) \in Nat
          /\ Cardinality(Posts) \in Nat /\ Cardinality(Followers) \in Nat
      BY BuffersAssumption, FS_CardinalityType
    <2> QED BY <1>1, <1>2, <1>3, <2>1, <2>2, <2>3, BuffersAssumption
  <1>6. NULL \in Reachable /\ NULL \notin Buffers
    BY Constants DEF Reachable
  <1>7. Min(Buffers \ Reachable) \in Buffers \ Reachable
    BY <1>5, <1>6, BuffersAssumption, FreshObject
  <1> QED BY <1>7 DEF Buf

-----------------------------------------------------------------------------
(* Operators on lines.                                                     *)

\* The identity of a line names the request that appended it.
LEMMA LineIsOf ==
    ASSUME NEW s \in Seq(Line), NEW i \in DOMAIN s
    PROVE  s[i] \in Line /\ s[i].id \in Ids /\ s[i].id[1] \in Posts /\ s[i].ts \in Nat
  <1>1. s[i] \in Line
    OBVIOUS
  <1>2. s[i].id \in Ids /\ s[i].ts \in Nat
    <2>1. MaxTime \in Nat
      BY LogAssumption
    <2> QED BY <1>1, <2>1 DEF Line
  <1>3. s[i].id[1] \in Posts
    BY <1>2 DEF Ids
  <1> QED BY <1>1, <1>2, <1>3

\* A stamped batch is a sequence of lines of its request, each with a time.
LEMMA Stamped ==
    ASSUME NEW q \in Posts, NEW lines \in Batches, lines # <<>>, now \in 1..MaxTime,
           NEW t \in Readings(lines)
    PROVE  /\ Stamp(q, lines, t) \in Seq(Line)
           /\ Len(Stamp(q, lines, t)) = Len(lines)
           /\ Len(lines) \in Nat \ {0}
           /\ t[Len(lines)] \in 1..MaxTime
           /\ \A i \in DOMAIN Stamp(q, lines, t) :
                 /\ Stamp(q, lines, t)[i].ts >= 1
                 /\ Stamp(q, lines, t)[i].id[1] = q
  <1> DEFINE new == Stamp(q, lines, t)
             k == Len(lines)
  <1>1. /\ lines \in Seq([ts : 0..MaxTime, level : Levels])
        /\ MaxTime \in Nat
    BY LogAssumption
  <1>2. k \in Nat \ {0} /\ DOMAIN lines = 1..k
    BY <1>1
  <1>3. t \in [1..k -> now..MaxTime]
    BY <1>2 DEF Readings
  <1>4. DOMAIN new = 1..k
    BY <1>2 DEF Stamp
  <1>5. ASSUME NEW i \in 1..k
        PROVE  new[i] \in Line /\ new[i].ts >= 1 /\ new[i].id[1] = q
    <2>1. <<q, i>> \in Ids
      BY <1>2 DEF Ids
    <2>2. lines[i] \in [ts : 0..MaxTime, level : Levels]
      BY <1>1, <1>2, ElementOfSeq
    <2>3. t[i] \in 1..MaxTime
      BY <1>3, <1>1
    <2>4. new[i] = [id |-> <<q, i>>, level |-> lines[i].level,
                    ts |-> IF lines[i].ts = 0 THEN t[i] ELSE lines[i].ts]
      BY <1>2 DEF Stamp
    <2> QED BY <2>1, <2>2, <2>3, <2>4, <1>1 DEF Line
  <1> HIDE DEF new
  <1>6. new \in Seq(Line) /\ Len(new) = k
    <2>1. new = [i \in 1..k |-> new[i]]
      BY <1>4 DEF new, Stamp
    <2> QED BY <2>1, <1>4, <1>5, <1>2
  <1>7. t[k] \in 1..MaxTime
    BY <1>3, <1>2, <1>1
  <1> QED BY <1>2, <1>4, <1>5, <1>6, <1>7 DEF new

\* The cut keeps the last lines, in their order, and no more than max.
LEMMA NewestLines ==
    ASSUME NEW s \in Seq(Line)
    PROVE  /\ Newest(s) \in Seq(Line)
           /\ Len(Newest(s)) <= max
           /\ \E k \in Nat : /\ Len(Newest(s)) + k = Len(s)
                             /\ \A i \in DOMAIN Newest(s) :
                                   /\ i + k \in DOMAIN s
                                   /\ Newest(s)[i] = s[i + k]
  <1>1. max \in Nat \ {0}
    BY LogAssumption
  <1>2. Len(s) \in Nat /\ DOMAIN s = 1..Len(s) /\ \A i \in 1..Len(s) : s[i] \in Line
    OBVIOUS
  <1>3. CASE Len(s) <= max
    <2>1. Newest(s) = s
      BY <1>1, <1>2, <1>3 DEF Newest
    <2>2. Len(s) + 0 = Len(s) /\ \A i \in DOMAIN s : i + 0 \in DOMAIN s /\ s[i] = s[i + 0]
      BY <1>2
    <2> QED BY <2>1, <2>2, <1>3
  <1>4. CASE Len(s) > max
    <2> DEFINE lo == Len(s) - max + 1
               hi == Len(s)
               k == Len(s) - max
    <2>1. /\ lo \in Int /\ hi \in Int /\ k \in Nat
          /\ hi - lo + 1 = max /\ lo <= hi /\ lo = k + 1 /\ hi = max + k
      BY <1>1, <1>2, <1>4
    <2>2. \A i \in lo..hi : s[i] \in Line
      BY <1>1, <1>2, <1>4
    <2>3. Newest(s) = SubSeq(s, lo, hi) /\ Len(s) = hi
      BY <1>1, <1>2, <1>4 DEF Newest
    <2> HIDE DEF lo, hi, k
    <2>4. /\ SubSeq(s, lo, hi) \in Seq(Line)
          /\ Len(SubSeq(s, lo, hi)) = IF lo <= hi THEN hi - lo + 1 ELSE 0
          /\ \A i \in 1..(hi - lo + 1) : SubSeq(s, lo, hi)[i] = s[lo + i - 1]
      BY <2>1, <2>2, SubSeqProperties
    <2>5. Len(Newest(s)) = max /\ DOMAIN Newest(s) = 1..max
      BY <2>1, <2>3, <2>4
    <2>6. \A i \in DOMAIN Newest(s) : i + k \in DOMAIN s /\ Newest(s)[i] = s[i + k]
      <3> SUFFICES ASSUME NEW i \in 1..max
                   PROVE  i + k \in DOMAIN s /\ Newest(s)[i] = s[i + k]
        BY <2>5
      <3>1. lo + i - 1 = i + k /\ i + k \in 1..hi
        BY <2>1, <1>1
      <3> QED BY <2>1, <2>3, <2>4, <3>1, <1>2
    <2>7. Len(Newest(s)) + k = Len(s)
      BY <2>1, <2>3, <2>5
    <2>8. Newest(s) \in Seq(Line)
      BY <2>3, <2>4
    <2>9. k \in Nat /\ Len(Newest(s)) <= max
      BY <2>1, <2>5, <1>1
    <2> QED BY <2>6, <2>7, <2>8, <2>9
  <1>5. Len(s) <= max \/ Len(s) > max
    BY <1>1, <1>2
  <1> QED BY <1>3, <1>4, <1>5

-----------------------------------------------------------------------------
(* Steps that append nothing.  A ring is left alone or is garbage and      *)
(* emptied, a pointer is dropped or leads to a registered or a new ring,   *)
(* and the map keeps, drops or gains an entry.                             *)

Harmless ==
    /\ newest' = newest /\ late' = late
    /\ \A b \in Buffers : ring'[b] = ring[b] \/ ring'[b] = <<>>
    /\ \A b \in Buffers, n \in Names : Holds(b, n)' => Holds(b, n) \/ ring'[b] = <<>>
    /\ \A n \in Names : \/ buffers'[n] = buffers[n]
                        \/ buffers'[n] = NULL
                        \/ ring'[buffers'[n]] = <<>>
    /\ \A q \in Posts : post[q].pc = "done" => post'[q].pc = "done"
    /\ purged \subseteq purged'
    /\ \A id \in purged' :
         \/ id \in purged
         \/ \E b \in Buffers : /\ \A n \in Names : buffers'[n] # b
                               /\ \E i \in DOMAIN ring[b] : id = ring[b][i].id

\* The rings keep their order, their owners and their lines.
LEMMA HarmlessRings ==
    ASSUME TypeOK, RingsOK, TypeOK', Harmless
    PROVE  RingsOK'
  <1>0. DOMAIN <<>> = {}
    OBVIOUS
  <1>1. ASSUME NEW b \in Buffers PROVE RingOK(b)'
    <2>1. RingOK(b)
      BY DEF RingsOK
    <2>2. CASE ring'[b] = <<>>
      BY <2>2, <1>0 DEF RingOK
    <2>3. CASE ring'[b] = ring[b] /\ ring'[b] # <<>>
      <3>1. \A n \in Names : Holds(b, n)' => Holds(b, n)
        BY <2>3 DEF Harmless
      <3>2. \A i \in DOMAIN ring[b] : ring[b][i].id[1] \in Posts
        BY LineIsOf DEF TypeOK
      <3> QED BY <2>1, <2>3, <3>1, <3>2 DEF RingOK, Harmless
    <2> QED BY <2>2, <2>3 DEF Harmless
  <1>2. RingsApart'
    BY <1>0 DEF RingsOK, RingsApart, Harmless
  <1>3. ASSUME NEW n \in Names PROVE CurrentOK(n)'
    <2> SUFFICES ASSUME buffers'[n] # NULL, NEW i \in DOMAIN ring'[buffers'[n]]
                 PROVE  /\ ring'[buffers'[n]][i].id \notin purged'
                        /\ \A b \in Buffers :
                             Holds(b, n)' /\ b # buffers'[n]
                               /\ ring'[buffers'[n]][i].id \notin late' =>
                             \A j \in DOMAIN ring'[b] :
                                 ring'[b][j].ts < ring'[buffers'[n]][i].ts
      BY DEF CurrentOK
    <2> DEFINE c == buffers[n]
    <2>1. /\ buffers'[n] = c /\ c # NULL /\ c \in Buffers
          /\ ring'[c] = ring[c] /\ i \in DOMAIN ring[c]
      <3>1. buffers'[n] \in Buffers
        BY DEF TypeOK
      <3> QED BY <1>0, <3>1 DEF Harmless
    <2>2. CurrentOK(n)
      BY DEF RingsOK
    <2> HIDE DEF c
    <2>3. /\ ring[c][i].id \notin purged
          /\ \A b \in Buffers : Holds(b, n) /\ b # c /\ ring[c][i].id \notin late =>
                \A j \in DOMAIN ring[b] : ring[b][j].ts < ring[c][i].ts
      BY <2>1, <2>2 DEF CurrentOK, c
    <2>4. ring[c][i].id \notin purged'
      <3>1. ASSUME NEW b \in Buffers, b # c, NEW j \in DOMAIN ring[b]
            PROVE  ring[c][i].id # ring[b][j].id
        BY <3>1, <2>1 DEF RingsOK, RingsApart
      <3>2. ASSUME NEW b \in Buffers, \A m \in Names : buffers'[m] # b
            PROVE  b # c
        BY <3>2, <2>1
      <3> QED BY <2>3, <3>1, <3>2 DEF Harmless
    <2>5. ASSUME NEW b \in Buffers, Holds(b, n)', b # c, ring[c][i].id \notin late,
                 NEW j \in DOMAIN ring'[b]
          PROVE  ring'[b][j].ts < ring[c][i].ts
      <3>1. ring'[b] = ring[b] /\ ring'[b] # <<>>
        BY <1>0, <2>5 DEF Harmless
      <3>2. Holds(b, n)
        BY <3>1, <2>5 DEF Harmless
      <3> QED BY <3>1, <3>2, <2>3, <2>5
    <2>6. late' = late
      BY DEF Harmless
    <2> QED BY <2>1, <2>4, <2>5, <2>6
  <1>4. PurgedDone'
    <2> SUFFICES ASSUME NEW id \in purged' PROVE post'[id[1]].pc = "done"
      BY DEF PurgedDone
    <2>1. id[1] \in Posts
      BY DEF TypeOK, Ids
    <2>2. CASE id \in purged
      BY <2>1, <2>2 DEF PurgedDone, RingsOK, Harmless
    <2>3. ASSUME NEW b \in Buffers, NEW i \in DOMAIN ring[b], id = ring[b][i].id
          PROVE  post'[id[1]].pc = "done"
      BY <2>1, <2>3 DEF RingsOK, RingOK, Harmless
    <2> QED BY <2>2, <2>3 DEF Harmless
  <1> QED BY <1>1, <1>2, <1>3, <1>4 DEF RingsOK

\* A line of the ring that is registered for the name of a follower.
LEMMA CurrentLine ==
    ASSUME TypeOK, FramesOK, NEW f \in Followers, NEW ln \in Current(f)
    PROVE  /\ fol[f].pc # "idle" /\ fol[f].name \in Names
           /\ buffers[fol[f].name] \in Buffers /\ buffers[fol[f].name] # NULL
           /\ \E i \in DOMAIN ring[buffers[fol[f].name]] :
                 ln = ring[buffers[fol[f].name]][i]
           /\ ln \in Line /\ ln.ts \in Nat
  <1>1. /\ fol[f].pc # "idle" /\ fol[f].name \in Names
        /\ buffers[fol[f].name] \in Buffers /\ buffers[fol[f].name] # NULL
    BY DEF Current, Following, FramesOK, FollowersNamed, TypeOK
  <1>2. PICK i \in DOMAIN ring[buffers[fol[f].name]] :
            ln = ring[buffers[fol[f].name]][i]
    BY <1>1 DEF Current, Following, ToSet
  <1>3. ring[buffers[fol[f].name]] \in Seq(Line)
    BY <1>1 DEF TypeOK
  <1> QED BY <1>1, <1>2, <1>3, LineIsOf

\* No line becomes current in such a step.
LEMMA HarmlessCurrent ==
    ASSUME TypeOK, FramesOK, TypeOK', Harmless, NEW f \in Followers,
           fol'[f].name = fol[f].name,
           fol'[f].pc = "idle" <=> fol[f].pc = "idle"
    PROVE  Current(f)' \subseteq Current(f)
  <1> SUFFICES ASSUME NEW ln \in Current(f)' PROVE ln \in Current(f)
    OBVIOUS
  <1> DEFINE n == fol[f].name
  <1>1. /\ fol'[f].pc # "idle" /\ buffers'[n] # NULL
        /\ ln \in ToSet(ring'[buffers'[n]])
    BY DEF Current, Following
  <1>2. n \in Names /\ fol[f].pc # "idle"
    BY <1>1 DEF FramesOK, FollowersNamed
  <1>3. buffers'[n] \in Buffers
    BY <1>1, <1>2 DEF TypeOK
  <1>4. ToSet(<<>>) = {}
    BY DEF ToSet
  <1>5. buffers'[n] = buffers[n] /\ ring'[buffers[n]] = ring[buffers[n]]
    BY <1>1, <1>2, <1>3, <1>4 DEF Harmless
  <1> QED BY <1>1, <1>2, <1>5 DEF Current, Following

\* Whether a line is covered depends on the frame of the follower, on what it
\* was sent and on the lines that were overtaken.
LEMMA CoveredKept ==
    ASSUME NEW f \in Followers, NEW ln, CoveredOK(f, ln),
           fol'[f].query = fol[f].query, fol'[f].cursor = fol[f].cursor,
           fol'[f].todo = fol[f].todo, sent'[f] = sent[f], late \subseteq late'
    PROVE  CoveredOK(f, ln)'
  BY DEF CoveredOK, Accepts

\* A follower that moves neither its cursor nor its lines keeps its promise, when
\* the buffer it looks up holds no purged line.
LEMMA HarmlessFollow ==
    ASSUME TypeOK, FramesOK, RingsOK, TypeOK', Harmless,
           NEW f \in Followers, FollowOK(f),
           sent'[f] = sent[f],
           fol'[f].query = fol[f].query, fol'[f].name = fol[f].name,
           fol'[f].cursor = fol[f].cursor, fol'[f].todo = fol[f].todo,
           fol'[f].old = fol[f].old,
           fol'[f].pc = "idle" <=> fol[f].pc = "idle",
           \/ fol'[f].buf = fol[f].buf
           \/ fol'[f].buf = NULL
           \/ \A i \in DOMAIN ring'[fol'[f].buf] : ring'[fol'[f].buf][i].id \notin purged
    PROVE  FollowOK(f)'
  <1>0. DOMAIN <<>> = {}
    OBVIOUS
  <1>1. SentOK(f)'
    <2>1. SentOK(f)
      BY DEF FollowOK
    <2>2. /\ newest' = newest /\ late' = late
          /\ fol'[f].old \subseteq purged'
      BY <2>1 DEF SentOK, Harmless
    <2>3. ASSUME fol'[f].buf \in Buffers, NEW i \in DOMAIN ring'[fol'[f].buf]
          PROVE  ring'[fol'[f].buf][i].id \notin fol'[f].old
      <3>1. fol'[f].buf # NULL
        BY <2>3, Constants
      <3>2. CASE fol'[f].buf = fol[f].buf
        BY <1>0, <2>1, <2>3, <3>2 DEF SentOK, Harmless
      <3> QED BY <2>1, <2>3, <3>1, <3>2 DEF SentOK
    <2> QED BY <2>1, <2>2, <2>3 DEF SentOK
  <1>2. ASSUME NEW ln \in Current(f)' PROVE CoveredOK(f, ln)'
    <2>1. ln \in Current(f)
      BY HarmlessCurrent
    <2>2. CoveredOK(f, ln)
      BY <2>1 DEF FollowOK
    <2> QED BY <2>2, CoveredKept DEF Harmless
  <1> QED BY <1>1, <1>2 DEF FollowOK

\* The same for a follower that does not move at all.
LEMMA HarmlessOthers ==
    ASSUME Inv, TypeOK', Harmless,
           NEW g \in Followers, fol'[g] = fol[g], sent'[g] = sent[g]
    PROVE  FollowOK(g)'
  BY HarmlessFollow DEF Inv

\* Steps that add no pointer: what nothing leads to any more is emptied.
LEMMA PointersDropped ==
    ASSUME Inv,
           newest' = newest, late' = late,
           \A q \in Posts : post[q].pc = "done" => post'[q].pc = "done",
           \A b \in Buffers : ring'[b] = ring[b] \/ ring'[b] = <<>>,
           \A b \in Buffers : b \notin Reachable' => ring'[b] = <<>>,
           \A b \in Buffers, n \in Names : Holds(b, n)' => Holds(b, n),
           \A n \in Names : buffers'[n] = buffers[n] \/ buffers'[n] = NULL,
           purged \subseteq purged',
           \A id \in purged' :
             \/ id \in purged
             \/ \E b \in Buffers : /\ \A n \in Names : buffers'[n] # b
                                   /\ \E i \in DOMAIN ring[b] : id = ring[b][i].id
    PROVE  Harmless /\ OneName' /\ Emptied'
  <1>1. Harmless
    BY DEF Harmless
  <1>2. OneName'
    BY DEF OneName, Inv, FramesOK
  <1>3. Emptied'
    BY DEF Emptied
  <1> QED BY <1>1, <1>2, <1>3

\* A buffer that is the ring of a name is reachable.
LEMMA HeldIsReachable ==
    ASSUME NEW b, NEW n \in Names, Holds(b, n)
    PROVE  b \in Reachable
  BY DEF Holds, Reachable

\* buf returns the registered ring of the name, or an empty one no name has.
LEMMA BufIsFresh ==
    ASSUME Inv, NEW n \in Names
    PROVE  /\ Buf(n) \in Buffers /\ Buf(n) # NULL
           /\ \/ Buf(n) = buffers[n]
              \/ /\ buffers[n] = NULL /\ ring[Buf(n)] = <<>>
                 /\ \A m \in Names : ~Holds(Buf(n), m)
  <1>1. CASE buffers[n] # NULL
    <2>1. Buf(n) = buffers[n]
      BY <1>1 DEF Buf
    <2> QED BY <1>1, <2>1 DEF Inv, TypeOK
  <1>2. CASE buffers[n] = NULL
    <2>1. Buf(n) \in Buffers \ Reachable
      BY <1>2, FreeBuffer DEF Inv
    <2>2. ring[Buf(n)] = <<>>
      BY <2>1 DEF Inv, FramesOK, Emptied
    <2>3. Buf(n) # NULL
      BY <2>1, Constants
    <2> QED BY <1>2, <2>1, <2>2, <2>3, HeldIsReachable
  <1> QED BY <1>1, <1>2

\* Steps that look a ring up and keep a pointer to it.
LEMMA PointerAdded ==
    ASSUME Inv, NEW n \in Names,
           buffers' = [buffers EXCEPT ![n] = Buf(n)],
           ring' = ring, newest' = newest, late' = late, purged' = purged,
           \A q \in Posts : post[q].pc = "done" => post'[q].pc = "done",
           \A b \in Buffers, m \in Names :
               Holds(b, m)' => Holds(b, m) \/ (b = Buf(n) /\ m = n),
           \A b \in Buffers : b \in Reachable => b \in Reachable'
    PROVE  Harmless /\ OneName' /\ Emptied'
  <1> DEFINE c == Buf(n)
  <1>1. /\ c \in Buffers /\ c # NULL
        /\ \/ c = buffers[n]
           \/ /\ buffers[n] = NULL /\ ring[c] = <<>>
              /\ \A m \in Names : ~Holds(c, m)
    BY BufIsFresh
  <1>2. buffers \in [Names -> Buffers \cup {NULL}]
    BY DEF Inv, TypeOK
  <1> HIDE DEF c
  <1>3. \A m \in Names : buffers'[m] = IF m = n THEN c ELSE buffers[m]
    BY <1>2 DEF c
  <1>4. \A b \in Buffers, m \in Names : Holds(b, m)' => Holds(b, m) \/ (b = c /\ m = n)
    BY DEF c
  <1>5. c = buffers[n] => Holds(c, n)
    BY DEF Holds
  <1>6. Harmless
    BY <1>1, <1>3, <1>4, <1>5 DEF Harmless
  <1>7. OneName'
    BY <1>1, <1>4, <1>5 DEF OneName, Inv, FramesOK
  <1>8. Emptied'
    BY DEF Emptied, Inv, FramesOK
  <1> QED BY <1>6, <1>7, <1>8

-----------------------------------------------------------------------------
(* One lemma per action.                                                   *)

\* The clock.
LEMMA TickKeeps ==
    ASSUME Inv, Tick
    PROVE  Inv'
  <1>1. TypeOK'
    <2>1. now' \in 1..MaxTime
      <3>1. MaxTime \in Nat
        BY Constants
      <3> QED BY <3>1 DEF Inv, TypeOK, Tick
    <2> QED BY <2>1 DEF Inv, TypeOK, Tick
  <1>2. \A b \in Buffers, n \in Names : Holds(b, n)' <=> Holds(b, n)
    BY DEF Tick, Holds
  <1>3. Reachable' = Reachable
    BY DEF Tick, Reachable
  <1>4. Harmless /\ OneName' /\ Emptied'
    BY <1>2, <1>3, PointersDropped DEF Tick, Inv, FramesOK, Emptied
  <1>5. FramesOK'
    BY <1>4 DEF Inv, FramesOK, PostsNamed, FollowersNamed, Tick
  <1>6. \A g \in Followers : FollowOK(g)'
    BY <1>1, <1>4, HarmlessOthers DEF Tick
  <1>7. BlockedIsEnlisted'
    BY DEF Inv, BlockedIsEnlisted, Tick
  <1> QED BY <1>1, <1>4, <1>5, <1>6, <1>7, HarmlessRings DEF Inv

\* A GET that does not follow.
LEMMA SnapshotOnceKeeps ==
    ASSUME Inv, NEW n \in Names, SnapshotOnce(n)
    PROVE  Inv'
  <1>1. /\ Buf(n) \in Buffers
        /\ buffers' = [buffers EXCEPT ![n] = Buf(n)] /\ buffers[n] = NULL
        /\ UNCHANGED <<ring, waiters, fol, sent, now, post, newest, late, purged>>
    BY BufIsFresh DEF SnapshotOnce, Lookup, folOnly
  <1>2. TypeOK'
    BY <1>1 DEF Inv, TypeOK
  <1>3. \A b \in Buffers, m \in Names :
            Holds(b, m)' => Holds(b, m) \/ (b = Buf(n) /\ m = n)
    BY <1>1 DEF Holds, Inv, TypeOK
  <1>4. \A b \in Buffers : b \in Reachable => b \in Reachable'
    BY <1>1, Constants DEF Reachable, Inv, TypeOK
  <1>5. Harmless /\ OneName' /\ Emptied'
    BY <1>1, <1>3, <1>4, PointerAdded
  <1>6. FramesOK'
    BY <1>1, <1>5 DEF Inv, FramesOK, PostsNamed, FollowersNamed
  <1>7. \A g \in Followers : FollowOK(g)'
    BY <1>1, <1>2, <1>5, HarmlessOthers
  <1>8. BlockedIsEnlisted'
    BY <1>1 DEF Inv, BlockedIsEnlisted
  <1> QED BY <1>2, <1>5, <1>6, <1>7, <1>8, HarmlessRings DEF Inv

\* Remove.
LEMMA RemoveRingKeeps ==
    ASSUME Inv, NEW n \in Names, RemoveRing(n)
    PROVE  Inv'
  <1>1. /\ buffers[n] \in Buffers
        /\ buffers' = [buffers EXCEPT ![n] = NULL]
        /\ purged' = purged \cup {ln.id : ln \in ToSet(ring[buffers[n]])}
        /\ UNCHANGED <<now, waiters, post, fol, sent, newest, late>>
        /\ ring' = Collect(ring)
    BY DEF RemoveRing, Inv, TypeOK
  <1>2. \A b \in Buffers : ring'[b] = IF b \in Reachable' THEN ring[b] ELSE <<>>
    BY <1>1 DEF Collect
  <1>3. TypeOK'
    <2>1. ring' \in [Buffers -> Seq(Line)] /\ \A b \in Buffers : Len(ring'[b]) <= max
      <3>1. max \in Nat
        BY Constants
      <3> QED BY <1>1, <1>2, <3>1 DEF Inv, TypeOK, Collect
    <2>2. purged' \subseteq Ids
      BY <1>1, LineIsOf DEF Inv, TypeOK, ToSet
    <2> QED BY <1>1, <2>1, <2>2 DEF Inv, TypeOK
  <1>4. \A b \in Buffers, m \in Names : Holds(b, m)' => Holds(b, m)
    BY <1>1, Constants DEF Holds, Inv, TypeOK
  <1>5. \A id \in purged' :
          \/ id \in purged
          \/ \E b \in Buffers : /\ \A m \in Names : buffers'[m] # b
                                /\ \E i \in DOMAIN ring[b] : id = ring[b][i].id
    <2>1. \A m \in Names : buffers'[m] # buffers[n]
      <3>1. \A m \in Names : buffers[m] = buffers[n] => m = n
        BY <1>1 DEF Inv, FramesOK, OneName, Holds
      <3>2. buffers[n] # NULL
        BY DEF RemoveRing
      <3> QED BY <1>1, <3>1, <3>2 DEF Inv, TypeOK
    <2> QED BY <1>1, <2>1 DEF ToSet
  <1>6. Harmless /\ OneName' /\ Emptied'
    <2>1. \A m \in Names : buffers'[m] = buffers[m] \/ buffers'[m] = NULL
      BY <1>1 DEF Inv, TypeOK
    <2>2. purged \subseteq purged'
      BY <1>1
    <2> QED BY <1>1, <1>2, <1>4, <1>5, <2>1, <2>2, PointersDropped
  <1>7. FramesOK'
    BY <1>1, <1>6 DEF Inv, FramesOK, PostsNamed, FollowersNamed
  <1>8. \A g \in Followers : FollowOK(g)'
    BY <1>1, <1>3, <1>6, HarmlessOthers
  <1>9. BlockedIsEnlisted'
    BY <1>1 DEF Inv, BlockedIsEnlisted
  <1> QED BY <1>3, <1>6, <1>7, <1>8, <1>9, HarmlessRings DEF Inv

\* POST: the body is read and the ring looked up.
LEMMA PostStartKeeps ==
    ASSUME Inv, NEW q \in Posts, NEW n \in Names, NEW lines \in Batches,
           PostStart(q, n, lines)
    PROVE  Inv'
  <1>1. /\ post[q].pc = "idle" /\ post[q].buf = NULL
        /\ UNCHANGED <<now, ring, waiters, fol, sent, newest, late, purged>>
    BY DEF PostStart, Inv, FramesOK, PostsNamed
  <1>2. post \in [Posts -> PostFrame] /\ post[q] \in PostFrame
    BY DEF Inv, TypeOK
  <1>3. CASE lines = <<>>
    <2>1. post' = [post EXCEPT ![q].pc = "done"] /\ buffers' = buffers
      BY <1>3 DEF PostStart
    <2>2. TypeOK'
      <3>1. [post[q] EXCEPT !.pc = "done"] \in PostFrame
        BY <1>2 DEF PostFrame
      <3> QED BY <1>1, <1>2, <2>1, <3>1 DEF Inv, TypeOK
    <2>3. \A p \in Posts : /\ post'[p].buf = post[p].buf /\ post'[p].name = post[p].name
                           /\ p # q => post'[p] = post[p]
      BY <1>2, <2>1 DEF PostFrame
    <2>4. \A b \in Buffers, m \in Names : Holds(b, m)' => Holds(b, m)
      BY <1>1, <2>1, <2>3 DEF Holds
    <2>5. Reachable' = Reachable
      BY <1>1, <2>1, <2>3 DEF Reachable
    <2>6. Harmless /\ OneName' /\ Emptied'
      <3>1. \A p \in Posts : post[p].pc = "done" => post'[p].pc = "done"
        BY <1>1, <2>3
      <3> QED BY <1>1, <2>1, <2>4, <2>5, <3>1, PointersDropped DEF Inv, FramesOK, Emptied
    <2>7. FramesOK'
      <3>1. post'[q].pc = "done"
        BY <1>2, <2>1 DEF PostFrame
      <3> QED BY <1>1, <2>1, <2>3, <2>6, <3>1
              DEF Inv, FramesOK, PostsNamed, FollowersNamed
    <2>8. \A g \in Followers : FollowOK(g)'
      BY <1>1, <2>2, <2>6, HarmlessOthers
    <2>9. BlockedIsEnlisted'
      BY <1>1 DEF Inv, BlockedIsEnlisted
    <2> QED BY <2>2, <2>6, <2>7, <2>8, <2>9, HarmlessRings DEF Inv
  <1>4. CASE lines # <<>>
    <2> DEFINE new == [pc |-> "append", name |-> n, buf |-> Buf(n), lines |-> lines]
    <2>1. /\ Buf(n) \in Buffers
          /\ buffers' = [buffers EXCEPT ![n] = Buf(n)]
          /\ post' = [post EXCEPT ![q] = new]
      BY <1>4, BufIsFresh DEF PostStart, Lookup
    <2>2. TypeOK'
      <3>1. new \in PostFrame
        BY <2>1 DEF PostFrame
      <3> QED BY <1>1, <1>2, <2>1, <3>1 DEF Inv, TypeOK
    <2>3. \A p \in Posts : post'[p] = IF p = q THEN new ELSE post[p]
      BY <1>2, <2>1
    <2>4. \A b \in Buffers, m \in Names :
              Holds(b, m)' => Holds(b, m) \/ (b = Buf(n) /\ m = n)
      BY <1>1, <2>1, <2>3 DEF Holds, Inv, TypeOK
    <2>5. \A b \in Buffers : b \in Reachable => b \in Reachable'
      <3>1. \A m \in Names : buffers[m] # NULL => buffers'[m] = buffers[m]
        BY <2>1 DEF Buf, Inv, TypeOK
      <3>2. ASSUME NEW b \in Buffers, b \in Reachable PROVE b \in Reachable'
        <4>1. b # NULL
          BY Constants
        <4>2. CASE \E m \in Names : buffers[m] = b
          BY <3>1, <4>1, <4>2 DEF Reachable
        <4>3. CASE \E p \in Posts : post[p].buf = b
          BY <1>1, <2>3, <4>1, <4>3 DEF Reachable
        <4>4. CASE \E f \in Followers : fol[f].buf = b
          BY <1>1, <4>4 DEF Reachable
        <4> QED BY <3>2, <4>2, <4>3, <4>4 DEF Reachable
      <3> QED BY <3>2
    <2>6. Harmless /\ OneName' /\ Emptied'
      <3>1. \A p \in Posts : post[p].pc = "done" => post'[p].pc = "done"
        BY <1>1, <2>3
      <3> QED BY <1>1, <2>1, <2>4, <2>5, <3>1, PointerAdded
    <2>7. FramesOK'
      BY <1>1, <1>4, <2>1, <2>3, <2>6 DEF Inv, FramesOK, PostsNamed, FollowersNamed
    <2>8. \A g \in Followers : FollowOK(g)'
      BY <1>1, <2>2, <2>6, HarmlessOthers
    <2>9. BlockedIsEnlisted'
      BY <1>1 DEF Inv, BlockedIsEnlisted
    <2> QED BY <2>2, <2>6, <2>7, <2>8, <2>9, HarmlessRings DEF Inv
  <1> QED BY <1>3, <1>4

\* A follower that looks its ring up: in Snapshot or in Subscribe.
LEMMA LookupKeeps ==
    ASSUME Inv, NEW f \in Followers, NEW pc \in {"read", "enlist"},
           fol[f].pc \in {"lookup", "subscribe"},
           Lookup(fol[f].name),
           fol' = [fol EXCEPT ![f].pc = pc, ![f].buf = Buf(fol[f].name)],
           UNCHANGED <<ring, waiters, sent, folOnly>>
    PROVE  Inv'
  <1> DEFINE n == fol[f].name
             new == [fol[f] EXCEPT !.pc = pc, !.buf = Buf(n)]
  <1>1. /\ n \in Names /\ fol[f].buf = NULL
        /\ UNCHANGED <<ring, waiters, sent, now, post, newest, late, purged>>
    BY DEF Inv, FramesOK, FollowersNamed, folOnly
  <1>2. /\ Buf(n) \in Buffers
        /\ buffers' = [buffers EXCEPT ![n] = Buf(n)]
    BY <1>1, BufIsFresh DEF Lookup
  <1>3. fol \in [Followers -> FolFrame] /\ fol[f] \in FolFrame
    BY DEF Inv, TypeOK
  <1>4. /\ new \in FolFrame /\ new.pc = pc /\ new.buf = Buf(n)
        /\ new.query = fol[f].query /\ new.name = n /\ new.cursor = fol[f].cursor
        /\ new.todo = fol[f].todo /\ new.old = fol[f].old
    BY <1>2, <1>3 DEF FolFrame, FolPC
  <1>5. fol' = [fol EXCEPT ![f] = new]
    BY <1>3
  <1> HIDE DEF new
  <1>6. \A g \in Followers : fol'[g] = IF g = f THEN new ELSE fol[g]
    BY <1>3, <1>5
  <1>7. TypeOK'
    BY <1>1, <1>2, <1>3, <1>4, <1>5 DEF Inv, TypeOK
  <1> HIDE DEF n
  <1>8. \A b \in Buffers, m \in Names :
            Holds(b, m)' => Holds(b, m) \/ (b = Buf(n) /\ m = n)
    BY <1>1, <1>2, <1>4, <1>6 DEF Holds, Inv, TypeOK
  <1>9. \A b \in Buffers : b \in Reachable => b \in Reachable'
    <2>1. \A m \in Names : buffers[m] # NULL => buffers'[m] = buffers[m]
      BY <1>2 DEF Buf, Inv, TypeOK
    <2>2. ASSUME NEW b \in Buffers, b \in Reachable PROVE b \in Reachable'
      <3>1. b # NULL
        BY Constants
      <3>2. CASE \E m \in Names : buffers[m] = b
        BY <2>1, <3>1, <3>2 DEF Reachable
      <3>3. CASE \E p \in Posts : post[p].buf = b
        BY <1>1, <3>3 DEF Reachable
      <3>4. CASE \E g \in Followers : fol[g].buf = b
        BY <1>1, <1>6, <3>1, <3>4 DEF Reachable
      <3> QED BY <2>2, <3>2, <3>3, <3>4 DEF Reachable
    <2> QED BY <2>2
  <1>10. Harmless /\ OneName' /\ Emptied'
    BY <1>1, <1>2, <1>8, <1>9, PointerAdded
  <1>11. FramesOK'
    <2>1. PostsNamed'
      BY <1>1 DEF Inv, FramesOK, PostsNamed
    <2>2. FollowersNamed'
      <3>1. fol[f].todo = <<>> /\ fol[f].query \in Queries
        BY DEF Inv, FramesOK, FollowersNamed
      <3>2. FollowersNamed
        BY DEF Inv, FramesOK
      <3>3. ASSUME NEW g \in Followers, g # f
            PROVE  fol'[g] = fol[g] /\ sent'[g] = sent[g]
        BY <1>1, <1>6, <3>3
      <3>4. /\ fol'[f].pc = pc /\ fol'[f].buf \in Buffers /\ fol'[f].todo = <<>>
            /\ fol'[f].query \in Queries /\ fol'[f].name \in Names
        BY <1>1, <1>2, <1>4, <1>6, <3>1
      <3> QED BY <3>2, <3>3, <3>4 DEF FollowersNamed
    <2> QED BY <1>10, <2>1, <2>2 DEF FramesOK
  <1>12. ASSUME NEW g \in Followers PROVE FollowOK(g)'
    <2>1. CASE g # f
      BY <1>1, <1>6, <1>7, <1>10, <2>1, HarmlessOthers
    <2>2. CASE g = f
      <3>1. \A i \in DOMAIN ring'[fol'[f].buf] : ring'[fol'[f].buf][i].id \notin purged
        <4>1. fol'[f].buf = Buf(n) /\ ring' = ring
          BY <1>1, <1>4, <1>6
        <4>2. CASE Buf(n) = buffers[n]
          BY <1>1, <1>2, <4>1, <4>2, Constants DEF Inv, RingsOK, CurrentOK
        <4>3. CASE ring[Buf(n)] = <<>>
          BY <4>1, <4>3
        <4> QED BY <1>1, <4>2, <4>3, BufIsFresh
      <3>2. /\ sent'[f] = sent[f] /\ fol'[f] = new
            /\ fol'[f].pc # "idle" /\ fol[f].pc # "idle"
        BY <1>1, <1>4, <1>6
      <3> QED BY <1>4, <1>7, <1>10, <2>2, <3>1, <3>2, HarmlessFollow DEF Inv, n
    <2> QED BY <2>1, <2>2
  <1>13. BlockedIsEnlisted'
    BY <1>1, <1>4, <1>6 DEF Inv, BlockedIsEnlisted
  <1> QED BY <1>7, <1>10, <1>11, <1>12, <1>13, HarmlessRings, SMTT(30) DEF Inv

\* Snapshot looks the ring up.
LEMMA FollowLookupKeeps ==
    ASSUME Inv, NEW f \in Followers, FollowLookup(f)
    PROVE  Inv'
  BY LookupKeeps DEF FollowLookup

\* Subscribe looks the ring up.
LEMMA FollowSubscribeKeeps ==
    ASSUME Inv, NEW f \in Followers, FollowSubscribe(f)
    PROVE  Inv'
  BY LookupKeeps DEF FollowSubscribe

\* Steps of a follower that change only its own frame and what it was sent, and
\* do not move its pointer.
LEMMA OwnStep ==
    ASSUME Inv, NEW f \in Followers,
           fol' \in [Followers -> FolFrame],
           sent' \in [Followers -> Seq(Line)],
           waiters' \in [Buffers -> SUBSET Followers],
           \A g \in Followers : g # f => fol'[g] = fol[g] /\ sent'[g] = sent[g],
           fol'[f].buf = fol[f].buf,
           fol'[f].name = fol[f].name \/ fol[f].buf = NULL,
           UNCHANGED <<buffers, ring, now, post, newest, late, purged>>
    PROVE  /\ TypeOK' /\ Harmless /\ OneName' /\ Emptied' /\ RingsOK'
           /\ PostsNamed'
           /\ \A g \in Followers : g # f => FollowOK(g)'
  <1>1. TypeOK'
    BY DEF Inv, TypeOK
  <1>2. \A b \in Buffers, n \in Names : Holds(b, n)' => Holds(b, n)
    BY Constants, SMTT(30) DEF Holds
  <1>3. Reachable' = Reachable
    <2>1. \A g \in Followers : fol'[g].buf = fol[g].buf
      OBVIOUS
    <2> QED BY <2>1, ZenonT(60) DEF Reachable
  <1>4. Harmless /\ OneName' /\ Emptied'
    BY <1>2, <1>3, PointersDropped DEF Inv, FramesOK, Emptied
  <1>5. PostsNamed'
    BY DEF Inv, FramesOK, PostsNamed
  <1>6. \A g \in Followers : g # f => FollowOK(g)'
    BY <1>1, <1>4, HarmlessOthers
  <1>7. RingsOK'
    BY <1>1, <1>4, HarmlessRings DEF Inv
  <1> QED BY <1>1, <1>4, <1>5, <1>6, <1>7

\* A client asks to follow.
LEMMA FollowStartKeeps ==
    ASSUME Inv, NEW f \in Followers, NEW n \in Names, NEW y \in Queries,
           FollowStart(f, n, y)
    PROVE  Inv'
  <1> DEFINE new == [Quiet EXCEPT !.pc = "lookup", !.query = y, !.name = n,
                                  !.cursor = y.since, !.old = purged]
  <1>1. /\ fol[f].pc = "idle" /\ fol[f].buf = NULL /\ sent[f] = <<>>
        /\ fol' = [fol EXCEPT ![f] = new]
        /\ UNCHANGED <<buffers, ring, waiters, sent, now, post, newest, late, purged>>
    BY DEF FollowStart, folOnly, Inv, FramesOK, FollowersNamed
  <1>2. y.since \in 0..MaxTime
    BY Constants
  <1>3. /\ new \in FolFrame /\ new.pc = "lookup" /\ new.query = y /\ new.name = n
        /\ new.cursor = y.since /\ new.old = purged /\ new.todo = <<>> /\ new.buf = NULL
    <2>1. Quiet \in FolFrame
      BY Constants DEF Quiet, FolFrame, FolPC
    <2>2. purged \subseteq Ids
      BY DEF Inv, TypeOK
    <2>3. new \in FolFrame
      BY <1>2, <2>1, <2>2 DEF FolFrame, FolPC
    <2>4. new.todo = <<>> /\ new.buf = NULL
      BY DEF Quiet
    <2>5. /\ new.pc = "lookup" /\ new.query = y /\ new.name = n
          /\ new.cursor = y.since /\ new.old = purged
      BY <2>1 DEF FolFrame
    <2> QED BY <2>3, <2>4, <2>5
  <1> HIDE DEF new
  <1>4. /\ fol' \in [Followers -> FolFrame]
        /\ \A g \in Followers : fol'[g] = IF g = f THEN new ELSE fol[g]
    BY <1>1, <1>3 DEF Inv, TypeOK
  <1>5. /\ TypeOK' /\ Harmless /\ OneName' /\ Emptied' /\ RingsOK' /\ PostsNamed'
        /\ \A g \in Followers : g # f => FollowOK(g)'
    <2>1. /\ waiters' \in [Buffers -> SUBSET Followers]
          /\ sent' \in [Followers -> Seq(Line)]
      BY <1>1 DEF Inv, TypeOK
    <2> QED BY <1>1, <1>3, <1>4, <2>1, OwnStep
  <1>6. FollowersNamed'
    BY <1>1, <1>3, <1>4 DEF Inv, FramesOK, FollowersNamed
  <1>7. FollowOK(f)'
    <2>1. fol'[f] = new /\ sent'[f] = <<>> /\ purged' = purged /\ DOMAIN <<>> = {}
      BY <1>1, <1>4
    <2>2. SentOK(f)'
      BY <1>3, <2>1, Constants DEF SentOK
    <2>3. ASSUME NEW ln \in Current(f)' PROVE CoveredOK(f, ln)'
      <3>1. ln.ts \in Nat
        <4>1. buffers[n] # NULL /\ ln \in ToSet(ring[buffers[n]])
          BY <1>1, <1>3, <2>1 DEF Current, Following
        <4>2. ring[buffers[n]] \in Seq(Line)
          BY <4>1 DEF Inv, TypeOK
        <4> QED BY <4>1, <4>2, LineIsOf DEF ToSet
      <3>2. y.since \in Nat
        BY <1>2
      <3> QED BY <1>3, <2>1, <3>1, <3>2 DEF CoveredOK
    <2> QED BY <2>2, <2>3 DEF FollowOK
  <1>8. BlockedIsEnlisted'
    BY <1>1, <1>3, <1>4 DEF Inv, BlockedIsEnlisted
  <1> QED BY <1>5, <1>6, <1>7, <1>8 DEF Inv, FramesOK

\* Subscribe: the channel is added to the waiters.
LEMMA FollowEnlistKeeps ==
    ASSUME Inv, NEW f \in Followers, FollowEnlist(f)
    PROVE  Inv'
  <1> DEFINE new == [fol[f] EXCEPT !.pc = "select", !.signal = 0]
             b == fol[f].buf
  <1>1. /\ fol[f].pc = "enlist" /\ b \in Buffers /\ fol[f].todo = <<>>
        /\ fol[f].query \in Queries /\ fol[f].name \in Names
        /\ waiters' = [waiters EXCEPT ![b] = @ \cup {f}]
        /\ fol' = [fol EXCEPT ![f] = new]
        /\ UNCHANGED <<buffers, ring, sent, now, post, newest, late, purged>>
    BY DEF FollowEnlist, Inv, TypeOK, FramesOK, FollowersNamed, folOnly
  <1>2. /\ new \in FolFrame /\ new.pc = "select" /\ new.query = fol[f].query
        /\ new.name = fol[f].name /\ new.cursor = fol[f].cursor /\ new.old = fol[f].old
        /\ new.todo = fol[f].todo /\ new.buf = b
    BY DEF FolFrame, FolPC, Inv, TypeOK
  <1> HIDE DEF new
  <1>3. waiters \in [Buffers -> SUBSET Followers] /\ sent \in [Followers -> Seq(Line)]
    BY DEF Inv, TypeOK
  <1>4. /\ waiters' \in [Buffers -> SUBSET Followers]
        /\ \A c \in Buffers : waiters[c] \subseteq waiters'[c]
        /\ f \in waiters'[b]
    BY <1>1, <1>3
  <1>5. /\ fol' \in [Followers -> FolFrame] /\ sent' \in [Followers -> Seq(Line)]
        /\ \A g \in Followers : fol'[g] = IF g = f THEN new ELSE fol[g]
    BY <1>1, <1>2 DEF Inv, TypeOK
  <1>6. /\ TypeOK' /\ Harmless /\ OneName' /\ Emptied' /\ RingsOK' /\ PostsNamed'
        /\ \A g \in Followers : g # f => FollowOK(g)'
    BY <1>1, <1>2, <1>4, <1>5, OwnStep
  <1>7. FollowersNamed'
    BY <1>1, <1>2, <1>5 DEF Inv, FramesOK, FollowersNamed
  <1>8. FollowOK(f)'
    <2>1. fol'[f] = new /\ sent'[f] = sent[f]
      BY <1>1, <1>5
    <2> QED BY <1>1, <1>2, <1>6, <2>1, HarmlessFollow DEF Inv
  <1>9. BlockedIsEnlisted'
    <2>1. ASSUME NEW g \in Followers, g # f, fol[g].pc = "select",
                 fol[g].query.kind = "sse", fol[g].signal = 0
          PROVE  g \in waiters'[fol[g].buf]
      <3>1. g \in waiters[fol[g].buf]
        BY <2>1 DEF Inv, BlockedIsEnlisted
      <3>2. fol[g].buf \in Buffers
        BY <2>1 DEF Inv, FramesOK, FollowersNamed
      <3> QED BY <1>4, <3>1, <3>2
    <2>2. f \in waiters'[fol'[f].buf]
      <3>1. fol'[f].buf = b
        <4>1. fol'[f] = new
          BY <1>5
        <4> QED BY <1>2, <4>1
      <3> HIDE DEF b
      <3> QED BY <1>4, <3>1
    <2>3. \A g \in Followers : g # f => fol'[g] = fol[g]
      BY <1>5
    <2> QED BY <2>1, <2>2, <2>3 DEF BlockedIsEnlisted
  <1> QED BY <1>6, <1>7, <1>8, <1>9 DEF Inv, FramesOK

\* Steps of a follower that let its buffer go.
LEMMA ReleaseStep ==
    ASSUME Inv, NEW f \in Followers,
           fol' \in [Followers -> FolFrame],
           sent' \in [Followers -> Seq(Line)],
           waiters' \in [Buffers -> SUBSET Followers],
           \A g \in Followers : g # f => fol'[g] = fol[g] /\ sent'[g] = sent[g],
           fol'[f].buf = NULL,
           UNCHANGED <<buffers, now, post, newest, late, purged>>,
           ring' = Collect(ring)
    PROVE  /\ TypeOK' /\ Harmless /\ OneName' /\ Emptied' /\ RingsOK'
           /\ PostsNamed'
           /\ \A g \in Followers : g # f => FollowOK(g)'
           /\ \A b \in Buffers : ring'[b] = ring[b] \/ ring'[b] = <<>>
  <1>1. \A b \in Buffers : ring'[b] = IF b \in Reachable' THEN ring[b] ELSE <<>>
    BY DEF Collect
  <1>2. TypeOK'
    <2>1. ring' \in [Buffers -> Seq(Line)] /\ \A b \in Buffers : Len(ring'[b]) <= max
      BY <1>1, Constants DEF Inv, TypeOK, Collect
    <2> QED BY <2>1 DEF Inv, TypeOK
  <1>3. \A b \in Buffers, n \in Names : Holds(b, n)' => Holds(b, n)
    BY Constants DEF Holds
  <1>4. Harmless /\ OneName' /\ Emptied'
    BY <1>1, <1>3, PointersDropped
  <1>5. PostsNamed'
    BY DEF Inv, FramesOK, PostsNamed
  <1>6. \A g \in Followers : g # f => FollowOK(g)'
    BY <1>2, <1>4, HarmlessOthers
  <1>7. RingsOK'
    BY <1>2, <1>4, HarmlessRings DEF Inv
  <1> QED BY <1>1, <1>2, <1>4, <1>5, <1>6, <1>7

\* The ring is copied; the copy has what the ring had.
LEMMA FollowReadKeeps ==
    ASSUME Inv, NEW f \in Followers, FollowRead(f)
    PROVE  Inv'
  <1> DEFINE b == fol[f].buf
             n == fol[f].name
             new == [fol[f] EXCEPT !.pc = "write", !.todo = ring[b], !.buf = NULL]
  <1>1. /\ fol[f].pc = "read" /\ b \in Buffers
        /\ fol[f].query \in Queries /\ n \in Names
        /\ fol' = [fol EXCEPT ![f] = new]
        /\ UNCHANGED <<buffers, waiters, sent, now, post, newest, late, purged>>
        /\ ring' = Collect(ring)
    BY DEF FollowRead, Inv, TypeOK, FramesOK, FollowersNamed, folOnly
  <1>2. ring[b] \in Seq(Line)
    BY <1>1 DEF Inv, TypeOK
  <1>3. /\ new \in FolFrame /\ new.pc = "write" /\ new.query = fol[f].query
        /\ new.name = n /\ new.cursor = fol[f].cursor /\ new.old = fol[f].old
        /\ new.todo = ring[b] /\ new.buf = NULL
    BY <1>2 DEF FolFrame, FolPC, Inv, TypeOK
  <1>4. Holds(b, n)
    BY DEF Holds
  <1> HIDE DEF new
  <1>5. /\ fol' \in [Followers -> FolFrame] /\ sent' \in [Followers -> Seq(Line)]
        /\ \A g \in Followers : fol'[g] = IF g = f THEN new ELSE fol[g]
        /\ waiters' \in [Buffers -> SUBSET Followers]
    BY <1>1, <1>3 DEF Inv, TypeOK
  <1>6. /\ TypeOK' /\ Harmless /\ OneName' /\ Emptied' /\ RingsOK' /\ PostsNamed'
        /\ \A g \in Followers : g # f => FollowOK(g)'
        /\ \A c \in Buffers : ring'[c] = ring[c] \/ ring'[c] = <<>>
    BY <1>1, <1>3, <1>5, ReleaseStep
  <1>7. FollowersNamed'
    BY <1>1, <1>3, <1>5 DEF Inv, FramesOK, FollowersNamed
  <1>8. FollowOK(f)'
    <2>1. fol'[f] = new /\ sent'[f] = sent[f]
      BY <1>1, <1>5
    <2>2. SentOK(f) /\ RingOK(b)
      BY <1>1 DEF Inv, FollowOK, RingsOK
    <2> HIDE DEF b, n
    <2>3. SentOK(f)'
      <3>1. \A i \in DOMAIN ring[b] : /\ ring[b][i].ts >= 1
                                      /\ ring[b][i].ts <= newest[n]
                                      /\ ring[b][i].id \notin fol[f].old
        BY <1>1, <1>4, <2>2 DEF RingOK, SentOK, b
      <3>2. \A i, j \in DOMAIN ring[b] :
               i < j /\ ring[b][j].id \notin late => ring[b][i].ts < ring[b][j].ts
        BY <2>2 DEF RingOK
      <3>3. NULL \notin Buffers
        BY Constants
      <3> QED BY <1>1, <1>3, <2>1, <2>2, <3>1, <3>2, <3>3 DEF SentOK, n
    <2>4. ASSUME NEW ln \in Current(f)' PROVE CoveredOK(f, ln)'
      <3>1. ln \in Current(f)
        BY <1>1, <1>3, <1>6, <2>1, HarmlessCurrent DEF Inv, n
      <3>2. CoveredOK(f, ln)
        BY <3>1 DEF Inv, FollowOK
      <3> DEFINE c == buffers[n]
      <3>3. /\ c \in Buffers /\ c # NULL
            /\ \E i \in DOMAIN ring[c] : ln = ring[c][i]
        BY <3>1, CurrentLine DEF Inv, n
      <3>4. late' = late
        BY <1>1
      <3>5. CASE c = b
        BY <1>3, <2>1, <3>2, <3>3, <3>4, <3>5 DEF CoveredOK, Accepts
      <3>6. CASE c # b
        <4>1. CurrentOK(n)
          BY <1>1 DEF Inv, RingsOK
        <4>2. ln.id \notin late => \A j \in DOMAIN ring[b] : ring[b][j].ts < ln.ts
          BY <1>1, <1>4, <3>3, <3>6, <4>1 DEF CurrentOK
        <4> QED BY <1>3, <2>1, <3>2, <3>4, <4>2 DEF CoveredOK, Accepts
      <3> QED BY <3>5, <3>6
    <2> QED BY <2>3, <2>4 DEF FollowOK
  <1>9. BlockedIsEnlisted'
    BY <1>1, <1>3, <1>5 DEF Inv, BlockedIsEnlisted
  <1> QED BY <1>6, <1>7, <1>8, <1>9 DEF Inv, FramesOK

\* The snapshot has been written.
LEMMA FollowFlushKeeps ==
    ASSUME Inv, NEW f \in Followers, FollowFlush(f)
    PROVE  Inv'
  <1> DEFINE pc == IF fol[f].query.kind = "sse" THEN "subscribe" ELSE "select"
             new == [fol[f] EXCEPT !.todo = <<>>, !.pc = pc]
  <1>1. /\ fol[f].pc = "write" /\ fol[f].buf = NULL
        /\ fol[f].query \in Queries /\ fol[f].name \in Names
        /\ \A i \in DOMAIN fol[f].todo : ~Passes(f, fol[f].todo[i])
        /\ fol' = [fol EXCEPT ![f] = new]
        /\ UNCHANGED <<buffers, ring, waiters, sent, now, post, newest, late, purged>>
    BY DEF FollowFlush, Inv, TypeOK, FramesOK, FollowersNamed, folOnly
  <1>2. pc \in {"subscribe", "select"} /\ (pc = "select" => fol[f].query.kind # "sse")
    OBVIOUS
  <1> HIDE DEF pc
  <1>3. /\ new \in FolFrame /\ new.pc = pc /\ new.query = fol[f].query
        /\ new.name = fol[f].name /\ new.cursor = fol[f].cursor /\ new.old = fol[f].old
        /\ new.todo = <<>> /\ new.buf = fol[f].buf
    <2>1. fol[f] \in FolFrame /\ <<>> \in Seq(Line)
      BY DEF Inv, TypeOK
    <2> QED BY <1>2, <2>1 DEF FolFrame, FolPC
  <1> HIDE DEF new
  <1>4. /\ fol' \in [Followers -> FolFrame] /\ sent' \in [Followers -> Seq(Line)]
        /\ \A g \in Followers : fol'[g] = IF g = f THEN new ELSE fol[g]
        /\ waiters' \in [Buffers -> SUBSET Followers]
    BY <1>1, <1>3 DEF Inv, TypeOK
  <1>5. /\ TypeOK' /\ Harmless /\ OneName' /\ Emptied' /\ RingsOK' /\ PostsNamed'
        /\ \A g \in Followers : g # f => FollowOK(g)'
    BY <1>1, <1>3, <1>4, OwnStep
  <1>6. FollowersNamed'
    BY <1>1, <1>2, <1>3, <1>4 DEF Inv, FramesOK, FollowersNamed
  <1>7. FollowOK(f)'
    <2>1. fol'[f] = new /\ sent'[f] = sent[f] /\ DOMAIN <<>> = {}
      BY <1>1, <1>4
    <2>2. SentOK(f)'
      <3>1. SentOK(f)
        BY DEF Inv, FollowOK
      <3> QED BY <1>1, <1>3, <2>1, <3>1, Constants DEF SentOK
    <2>3. ASSUME NEW ln \in Current(f)' PROVE CoveredOK(f, ln)'
      <3>1. ln \in Current(f)
        BY <1>1, <1>2, <1>3, <1>5, <2>1, HarmlessCurrent DEF Inv
      <3>2. CoveredOK(f, ln)
        BY <3>1 DEF Inv, FollowOK
      <3> QED BY <1>1, <1>3, <2>1, <3>2 DEF CoveredOK, Accepts
    <2> QED BY <2>2, <2>3 DEF FollowOK
  <1>8. BlockedIsEnlisted'
    BY <1>1, <1>2, <1>3, <1>4 DEF Inv, BlockedIsEnlisted
  <1> QED BY <1>5, <1>6, <1>7, <1>8 DEF Inv, FramesOK

\* The next line that passes is written.
LEMMA FollowWriteKeeps ==
    ASSUME Inv, NEW f \in Followers, FollowWrite(f)
    PROVE  Inv'
  <1> DEFINE todo == fol[f].todo
  <1>1. PICK k \in DOMAIN todo :
          /\ Passes(f, todo[k])
          /\ \A j \in 1..(k - 1) : ~Passes(f, todo[j])
          /\ sent' = [sent EXCEPT ![f] = Append(@, todo[k])]
          /\ fol' = [fol EXCEPT ![f].cursor = todo[k].ts,
                                ![f].todo = SubSeq(@, k + 1, Len(@))]
    BY DEF FollowWrite
  <1> DEFINE x == todo[k]
             rest == SubSeq(todo, k + 1, Len(todo))
             new == [fol[f] EXCEPT !.cursor = x.ts, !.todo = rest]
             out == Append(sent[f], x)
  <1>2. /\ fol[f].pc = "write" /\ fol[f].buf = NULL
        /\ fol[f].query \in Queries /\ fol[f].name \in Names
        /\ fol[f] \in FolFrame /\ sent[f] \in Seq(Line) /\ todo \in Seq(Line)
        /\ UNCHANGED <<buffers, ring, waiters, now, post, newest, late, purged>>
    BY DEF FollowWrite, Inv, TypeOK, FramesOK, FollowersNamed, folOnly, FolFrame
  <1>3. x \in Line /\ x.ts \in Nat /\ x.ts \in 0..MaxTime
    <2>1. x \in Line
      BY <1>2, LineIsOf
    <2> QED BY <1>2, <2>1, LineIsOf DEF Line
  <1>4. /\ rest \in Seq(Line)
        /\ \A i \in DOMAIN rest : /\ i + k \in DOMAIN todo
                                  /\ rest[i] = todo[i + k]
        /\ \A j \in DOMAIN todo : j > k => \E i \in DOMAIN rest : rest[i] = todo[j]
    <2> DEFINE lo == k + 1
               hi == Len(todo)
    <2>1. /\ lo \in Int /\ hi \in Nat /\ lo = k + 1 /\ k \in 1..hi /\ DOMAIN todo = 1..hi
          /\ \A i \in lo..hi : todo[i] \in Line
      BY <1>2
    <2>2. rest = SubSeq(todo, lo, hi)
      OBVIOUS
    <2> HIDE DEF lo, hi, todo, rest
    <2>3. /\ SubSeq(todo, lo, hi) \in Seq(Line)
          /\ Len(SubSeq(todo, lo, hi)) = IF lo <= hi THEN hi - lo + 1 ELSE 0
          /\ \A i \in 1..(hi - lo + 1) : SubSeq(todo, lo, hi)[i] = todo[lo + i - 1]
      BY <2>1, SubSeqProperties
    <2>4. Len(rest) = hi - k /\ DOMAIN rest = 1..(hi - k)
      BY <2>1, <2>2, <2>3
    <2>5. \A i \in 1..(hi - k) : i + k \in 1..hi /\ rest[i] = todo[i + k]
      <3> SUFFICES ASSUME NEW i \in 1..(hi - k)
                   PROVE  i + k \in 1..hi /\ rest[i] = todo[i + k]
        OBVIOUS
      <3>1. lo + i - 1 = i + k /\ i \in 1..(hi - lo + 1) /\ i + k \in 1..hi
        BY <2>1
      <3> QED BY <2>2, <2>3, <3>1
    <2>6. ASSUME NEW j \in 1..hi, j > k PROVE \E i \in 1..(hi - k) : rest[i] = todo[j]
      <3>1. j - k \in 1..(hi - k) /\ (j - k) + k = j
        BY <2>1, <2>6
      <3> QED BY <2>5, <3>1
    <2> QED BY <2>1, <2>2, <2>3, <2>4, <2>5, <2>6
  <1>5. /\ new \in FolFrame /\ new.pc = "write" /\ new.query = fol[f].query
        /\ new.name = fol[f].name /\ new.cursor = x.ts /\ new.old = fol[f].old
        /\ new.todo = rest /\ new.buf = fol[f].buf
    <2> HIDE DEF rest, x
    <2> QED BY <1>2, <1>3, <1>4 DEF FolFrame
  <1>6. /\ out \in Seq(Line) /\ DOMAIN out = 1..(Len(sent[f]) + 1)
        /\ \A i \in DOMAIN sent[f] : i \in DOMAIN out /\ out[i] = sent[f][i]
        /\ out[Len(sent[f]) + 1] = x /\ Len(sent[f]) \in Nat
        /\ DOMAIN sent[f] = 1..Len(sent[f])
    <2> HIDE DEF x
    <2> QED BY <1>2, <1>3, AppendProperties
  <1>7. fol' = [fol EXCEPT ![f] = new] /\ sent' = [sent EXCEPT ![f] = out]
    BY <1>1, <1>2
  <1> HIDE DEF new, out, rest
  <1>8. /\ fol' \in [Followers -> FolFrame] /\ sent' \in [Followers -> Seq(Line)]
        /\ \A g \in Followers : /\ fol'[g] = IF g = f THEN new ELSE fol[g]
                                /\ sent'[g] = IF g = f THEN out ELSE sent[g]
        /\ waiters' \in [Buffers -> SUBSET Followers]
    BY <1>2, <1>5, <1>6, <1>7 DEF Inv, TypeOK
  <1>9. /\ TypeOK' /\ Harmless /\ OneName' /\ Emptied' /\ RingsOK' /\ PostsNamed'
        /\ \A g \in Followers : g # f => FollowOK(g)'
    BY <1>2, <1>5, <1>8, OwnStep
  <1>10. FollowersNamed'
    BY <1>2, <1>5, <1>8 DEF Inv, FramesOK, FollowersNamed
  <1>11. fol'[f] = new /\ sent'[f] = out /\ SentOK(f)
    BY <1>8 DEF Inv, FollowOK
  <1>12. /\ fol[f].cursor \in Nat
         /\ fol[f].cursor # 0 => fol[f].cursor < x.ts
         /\ Accepts(f, x)
    <2>1. fol[f].cursor \in Nat
      BY <1>2, Constants DEF FolFrame
    <2>2. Passes(f, x)
      BY <1>1
    <2> QED BY <1>3, <2>1, <2>2 DEF Passes
  <1>13. SentOK(f)'
    <2>1. x.ts >= 1 /\ x.ts <= newest[fol[f].name] /\ x.id \notin fol[f].old
      BY <1>11 DEF SentOK
    <2>2. \A i \in DOMAIN rest : /\ rest[i].ts >= 1 /\ rest[i].ts <= newest[fol[f].name]
                                 /\ rest[i].id \notin fol[f].old
      BY <1>4, <1>11 DEF SentOK
    <2>3. \A i, j \in DOMAIN rest :
             i < j /\ rest[j].id \notin late => rest[i].ts < rest[j].ts
      <3> SUFFICES ASSUME NEW i \in DOMAIN rest, NEW j \in DOMAIN rest, i < j,
                          rest[j].id \notin late
                   PROVE  rest[i].ts < rest[j].ts
        OBVIOUS
      <3>1. i \in Nat /\ j \in Nat /\ k \in Nat
        BY <1>2, <1>4
      <3>2. i + k < j + k
        BY <3>1
      <3> QED BY <1>4, <1>11, <3>2 DEF SentOK
    <2>4. \A i \in DOMAIN sent[f] : sent[f][i].ts \in Nat /\ sent[f][i].ts < x.ts
      <3> SUFFICES ASSUME NEW i \in DOMAIN sent[f]
                   PROVE  sent[f][i].ts \in Nat /\ sent[f][i].ts < x.ts
        OBVIOUS
      <3>1. sent[f][i].ts \in Nat
        BY <1>2, LineIsOf
      <3>2. sent[f][i].ts >= 1 /\ sent[f][i].ts <= fol[f].cursor
        BY <1>11 DEF SentOK
      <3> QED BY <1>3, <1>12, <3>1, <3>2
    <2>5. ASSUME NEW i \in DOMAIN out
          PROVE  out[i].ts >= 1 /\ out[i].ts <= x.ts /\ out[i].id \notin fol[f].old
      <3>1. CASE i = Len(sent[f]) + 1
        BY <1>3, <1>6, <2>1, <3>1
      <3>2. CASE i \in DOMAIN sent[f]
        <4>1. sent[f][i].ts >= 1 /\ sent[f][i].id \notin fol[f].old
          BY <1>11, <3>2 DEF SentOK
        <4> QED BY <1>3, <1>6, <2>4, <3>2, <4>1
      <3> QED BY <1>6, <2>5, <3>1, <3>2
    <2>6. ASSUME NEW i \in DOMAIN out, NEW j \in DOMAIN out, i < j
          PROVE  out[i].ts < out[j].ts
      <3>1. i \in DOMAIN sent[f]
        BY <1>6, <2>6
      <3>2. CASE j = Len(sent[f]) + 1
        BY <1>6, <2>4, <3>1, <3>2
      <3>3. CASE j \in DOMAIN sent[f]
        BY <1>6, <1>11, <2>6, <3>1, <3>3 DEF SentOK
      <3> QED BY <1>6, <2>6, <3>2, <3>3
    <2>7. fol'[f].buf \notin Buffers
      BY <1>2, <1>5, <1>11, Constants
    <2>8. fol'[f].old \subseteq purged'
      BY <1>2, <1>5, <1>11 DEF SentOK
    <2> HIDE DEF x
    <2> QED BY <1>2, <1>5, <1>11, <2>1, <2>2, <2>3, <2>5, <2>6, <2>7, <2>8 DEF SentOK
  <1>14. ASSUME NEW ln \in Current(f)' PROVE CoveredOK(f, ln)'
    <2>1. ln \in Current(f)
      BY <1>2, <1>5, <1>9, <1>11, HarmlessCurrent DEF Inv
    <2>2. CoveredOK(f, ln) /\ ln.ts \in Nat
      BY <2>1, CurrentLine DEF Inv, FollowOK
    <2>3. Accepts(f, ln)' <=> Accepts(f, ln)
      BY <1>5, <1>11 DEF Accepts, levelMatch
    <2>4. late' = late /\ fol'[f].query = fol[f].query /\ fol'[f].cursor = x.ts
      BY <1>2, <1>5, <1>11
    <2>5. \A i \in DOMAIN sent[f] : \E j \in DOMAIN sent'[f] : sent'[f][j] = sent[f][i]
      BY <1>6, <1>11
    <2>6. \E j \in DOMAIN sent'[f] : sent'[f][j] = x
      <3>1. Len(sent[f]) + 1 \in DOMAIN out
        BY <1>6
      <3> QED BY <1>6, <1>11, <3>1
    <2>7. CASE ~Accepts(f, ln) \/ ln.id \in late
      BY <2>3, <2>4, <2>7 DEF CoveredOK
    <2>8. CASE Accepts(f, ln) /\ ln.id \notin late /\ ln.ts <= fol[f].cursor
      <3>1. ln.ts <= x.ts
        BY <1>3, <1>12, <2>2, <2>8
      <3>2. ln.ts > fol[f].query.since => \E i \in DOMAIN sent[f] : sent[f][i] = ln
        BY <2>2, <2>8 DEF CoveredOK
      <3> HIDE DEF x
      <3> QED BY <2>4, <2>5, <3>1, <3>2 DEF CoveredOK
    <2>9. CASE Accepts(f, ln) /\ ln.id \notin late /\ ~(ln.ts <= fol[f].cursor)
      <3>1. ASSUME NEW j \in DOMAIN todo, todo[j] = ln PROVE CoveredOK(f, ln)'
        <4>1. j \in Nat /\ k \in Nat /\ j >= 1
          BY <1>2
        <4>2. ~(j < k)
          <5>1. Passes(f, ln)
            BY <2>9 DEF Passes
          <5>2. j < k => j \in 1..(k - 1)
            BY <4>1
          <5> QED BY <1>1, <3>1, <5>1, <5>2
        <4>3. CASE j = k
          <5>1. ln = x /\ ln.ts <= x.ts
            BY <1>3, <3>1, <4>3
          <5> HIDE DEF x
          <5> QED BY <2>4, <2>6, <5>1 DEF CoveredOK
        <4>4. CASE j > k
          <5>1. x.ts < ln.ts
            BY <1>11, <2>9, <3>1, <4>4 DEF SentOK
          <5>2. \E i \in DOMAIN fol'[f].todo : fol'[f].todo[i] = ln
            BY <1>4, <1>5, <1>11, <3>1, <4>4
          <5>3. ~(ln.ts <= x.ts)
            BY <1>3, <2>2, <5>1
          <5> HIDE DEF x
          <5> QED BY <2>4, <5>2, <5>3 DEF CoveredOK
        <4> QED BY <4>1, <4>2, <4>3, <4>4
      <3>2. ASSUME \A j \in DOMAIN todo : todo[j].ts < ln.ts PROVE CoveredOK(f, ln)'
        <4>1. ~(ln.ts <= x.ts)
          BY <1>3, <2>2, <3>2
        <4>2. \A i \in DOMAIN fol'[f].todo : fol'[f].todo[i].ts < ln.ts
          BY <1>4, <1>5, <1>11, <3>2
        <4> HIDE DEF x
        <4> QED BY <2>4, <4>1, <4>2 DEF CoveredOK
      <3> QED BY <2>2, <2>9, <3>1, <3>2 DEF CoveredOK
    <2> QED BY <2>7, <2>8, <2>9
  <1>15. BlockedIsEnlisted'
    BY <1>2, <1>5, <1>8 DEF Inv, BlockedIsEnlisted
  <1> QED BY <1>9, <1>10, <1>13, <1>14, <1>15 DEF Inv, FramesOK, FollowOK

\* The select ends and the loop starts over.
LEMMA AgainKeeps ==
    ASSUME Inv, NEW f \in Followers, fol[f].pc = "select", Again(f)
    PROVE  Inv'
  <1> DEFINE new == [fol[f] EXCEPT !.pc = "lookup", !.signal = 0, !.buf = NULL]
  <1>1. /\ fol[f].query \in Queries /\ fol[f].name \in Names /\ fol[f].todo = <<>>
        /\ fol' = [fol EXCEPT ![f] = new]
        /\ sent' = [sent EXCEPT ![f] = sent[f]]
        /\ waiters' = [b \in Buffers |-> waiters[b] \ {f}]
        /\ UNCHANGED <<buffers, now, post, newest, late, purged>>
        /\ ring' = Collect(ring)
    BY DEF Again, Resume, Inv, FramesOK, FollowersNamed, folOnly
  <1>2. /\ new \in FolFrame /\ new.pc = "lookup" /\ new.query = fol[f].query
        /\ new.name = fol[f].name /\ new.cursor = fol[f].cursor /\ new.old = fol[f].old
        /\ new.todo = fol[f].todo /\ new.buf = NULL
    BY DEF FolFrame, FolPC, Inv, TypeOK
  <1> HIDE DEF new
  <1>3. /\ fol' \in [Followers -> FolFrame] /\ sent' \in [Followers -> Seq(Line)]
        /\ \A g \in Followers : fol'[g] = IF g = f THEN new ELSE fol[g]
        /\ sent' = sent
        /\ waiters' \in [Buffers -> SUBSET Followers]
    BY <1>1, <1>2 DEF Inv, TypeOK
  <1>4. /\ TypeOK' /\ Harmless /\ OneName' /\ Emptied' /\ RingsOK' /\ PostsNamed'
        /\ \A g \in Followers : g # f => FollowOK(g)'
    BY <1>1, <1>2, <1>3, ReleaseStep
  <1>5. FollowersNamed'
    BY <1>1, <1>2, <1>3 DEF Inv, FramesOK, FollowersNamed
  <1>6. FollowOK(f)'
    <2>1. fol'[f] = new /\ sent'[f] = sent[f]
      BY <1>3
    <2> QED BY <1>2, <1>4, <2>1, HarmlessFollow DEF Inv
  <1>7. BlockedIsEnlisted'
    <2>1. ASSUME NEW g \in Followers, g # f, fol[g].pc = "select",
                 fol[g].query.kind = "sse", fol[g].signal = 0
          PROVE  g \in waiters'[fol[g].buf]
      <3>1. g \in waiters[fol[g].buf]
        BY <2>1 DEF Inv, BlockedIsEnlisted
      <3>2. fol[g].buf \in Buffers
        BY <2>1 DEF Inv, FramesOK, FollowersNamed
      <3> QED BY <1>1, <2>1, <3>1, <3>2
    <2> QED BY <1>2, <1>3, <2>1 DEF BlockedIsEnlisted
  <1> QED BY <1>4, <1>5, <1>6, <1>7 DEF Inv, FramesOK

\* The client leaves.
LEMMA FollowCancelKeeps ==
    ASSUME Inv, NEW f \in Followers, FollowCancel(f)
    PROVE  Inv'
  <1>1. /\ fol' = [fol EXCEPT ![f] = Quiet]
        /\ sent' = [sent EXCEPT ![f] = <<>>]
        /\ waiters' = [b \in Buffers |-> waiters[b] \ {f}]
        /\ UNCHANGED <<buffers, now, post, newest, late, purged>>
        /\ ring' = Collect(ring)
    BY DEF FollowCancel, Resume, folOnly
  <1>2. /\ Quiet \in FolFrame /\ Quiet.pc = "idle" /\ Quiet.buf = NULL
        /\ Quiet.todo = <<>> /\ Quiet.old = {}
    BY Constants DEF Quiet, FolFrame, FolPC
  <1>3. /\ fol' \in [Followers -> FolFrame] /\ sent' \in [Followers -> Seq(Line)]
        /\ \A g \in Followers : /\ fol'[g] = IF g = f THEN Quiet ELSE fol[g]
                                /\ sent'[g] = IF g = f THEN <<>> ELSE sent[g]
        /\ waiters' \in [Buffers -> SUBSET Followers]
    BY <1>1, <1>2 DEF Inv, TypeOK
  <1>4. /\ TypeOK' /\ Harmless /\ OneName' /\ Emptied' /\ RingsOK' /\ PostsNamed'
        /\ \A g \in Followers : g # f => FollowOK(g)'
    BY <1>1, <1>2, <1>3, ReleaseStep
  <1>5. FollowersNamed'
    BY <1>1, <1>2, <1>3 DEF Inv, FramesOK, FollowersNamed
  <1>6. FollowOK(f)'
    <2>1. fol'[f] = Quiet /\ sent'[f] = <<>> /\ DOMAIN <<>> = {}
      BY <1>3
    <2>2. Current(f)' = {}
      BY <1>2, <2>1 DEF Current, Following
    <2> QED BY <1>2, <2>1, <2>2, Constants DEF FollowOK, SentOK
  <1>7. BlockedIsEnlisted'
    <2>1. ASSUME NEW g \in Followers, g # f, fol[g].pc = "select",
                 fol[g].query.kind = "sse", fol[g].signal = 0
          PROVE  g \in waiters'[fol[g].buf]
      <3>1. g \in waiters[fol[g].buf]
        BY <2>1 DEF Inv, BlockedIsEnlisted
      <3>2. fol[g].buf \in Buffers
        BY <2>1 DEF Inv, FramesOK, FollowersNamed
      <3> QED BY <1>1, <2>1, <3>1, <3>2
    <2> QED BY <1>2, <1>3, <2>1 DEF BlockedIsEnlisted
  <1> QED BY <1>4, <1>5, <1>6, <1>7 DEF Inv, FramesOK

-----------------------------------------------------------------------------
(* The append.                                                             *)

\* A line of r is old or new, the old ones come first and both keep their order.
Joined(old, new, r) ==
    /\ \A i \in DOMAIN r : \/ \E u \in DOMAIN old : r[i] = old[u]
                           \/ \E v \in DOMAIN new : r[i] = new[v]
    /\ \A i, j \in DOMAIN r : i < j =>
         \/ \E u, v \in DOMAIN old : u < v /\ r[i] = old[u] /\ r[j] = old[v]
         \/ \E u \in DOMAIN old, v \in DOMAIN new : r[i] = old[u] /\ r[j] = new[v]
         \/ \E u, v \in DOMAIN new : u < v /\ r[i] = new[u] /\ r[j] = new[v]

\* Request q appends the lines new to ring b, as the ring of name n.
Appended(q, b, n, new) ==
    /\ buffers' = buffers /\ sent' = sent /\ purged' = purged
    /\ \A c \in Buffers : c # b => ring'[c] = ring[c] \/ ring'[c] = <<>>
    /\ Joined(ring[b], new, ring'[b])
    /\ \A c \in Buffers, m \in Names : Holds(c, m)' => Holds(c, m)
    /\ \A m \in Names : m # n => newest'[m] = newest[m]
    /\ newest'[n] >= newest[n]
    /\ \A v \in DOMAIN new : /\ new[v] \in Line /\ new[v].ts \in Nat /\ new[v].ts >= 1
                             /\ new[v].ts <= newest'[n]
                             /\ new[v].id[1] = q
    /\ late \subseteq late'
    /\ \A v \in DOMAIN new : new[v].id \notin late' =>
         /\ newest[n] < new[v].ts
         /\ \A u \in DOMAIN new : u < v => new[u].ts < new[v].ts
    /\ buffers[n] # NULL /\ buffers[n] # b =>
         \A i \in DOMAIN ring[buffers[n]] : ring[buffers[n]][i].id \notin late' =>
             \A v \in DOMAIN new : new[v].ts < ring[buffers[n]][i].ts
    /\ \A p \in Posts : p # q => post'[p] = post[p]
    /\ post'[q].pc = "done"

\* What the cut leaves of the old and the new lines.
LEMMA AppendedLines ==
    ASSUME NEW old \in Seq(Line), NEW new \in Seq(Line), NEW r, r = Newest(old \o new)
    PROVE  r \in Seq(Line) /\ Len(r) <= max /\ Joined(old, new, r)
  <1> DEFINE all == old \o new
             a == Len(old)
             e == Len(new)
  <1>1. /\ all \in Seq(Line) /\ Len(all) = a + e /\ a \in Nat /\ e \in Nat
        /\ DOMAIN old = 1..a /\ DOMAIN new = 1..e /\ DOMAIN all = 1..(a + e)
        /\ \A i \in 1..(a + e) : all[i] = IF i <= a THEN old[i] ELSE new[i - a]
    BY ConcatProperties
  <1>2. r = Newest(all)
    OBVIOUS
  <1> HIDE DEF all, a, e
  <1>3. r \in Seq(Line) /\ Len(r) <= max
    BY <1>1, <1>2, NewestLines
  <1>4. PICK k \in Nat : /\ Len(Newest(all)) + k = Len(all)
                        /\ \A i \in DOMAIN Newest(all) :
                              /\ i + k \in DOMAIN all
                              /\ Newest(all)[i] = all[i + k]
    BY <1>1, NewestLines
  <1>5. DOMAIN r \subseteq Nat
    BY <1>3
  <1>6. ASSUME NEW i \in DOMAIN r
        PROVE  /\ i + k <= a => i + k \in DOMAIN old /\ r[i] = old[i + k]
               /\ ~(i + k <= a) => (i + k) - a \in DOMAIN new /\ r[i] = new[(i + k) - a]
    BY <1>1, <1>2, <1>4, <1>5
  <1>7. ASSUME NEW i \in DOMAIN r, NEW j \in DOMAIN r, i < j
        PROVE  \/ \E u, v \in DOMAIN old : u < v /\ r[i] = old[u] /\ r[j] = old[v]
               \/ \E u \in DOMAIN old, v \in DOMAIN new : r[i] = old[u] /\ r[j] = new[v]
               \/ \E u, v \in DOMAIN new : u < v /\ r[i] = new[u] /\ r[j] = new[v]
    <2>1. /\ i + k < j + k /\ (i + k) - a < (j + k) - a
          /\ j + k <= a => i + k <= a
      BY <1>1, <1>5, <1>7
    <2>2. CASE j + k <= a
      BY <1>6, <2>1, <2>2
    <2>3. CASE ~(j + k <= a) /\ i + k <= a
      BY <1>6, <2>3
    <2>4. CASE ~(j + k <= a) /\ ~(i + k <= a)
      BY <1>6, <2>1, <2>4
    <2> QED BY <2>2, <2>3, <2>4
  <1> QED BY <1>3, <1>6, <1>7 DEF Joined

\* The section under the lock does this, and signals the waiters.
LEMMA PostAppendFacts ==
    ASSUME Inv, NEW q \in Posts, PostAppend(q)
    PROVE  /\ TypeOK' /\ FramesOK' /\ BlockedIsEnlisted'
           /\ post[q].pc = "append" /\ post[q].buf \in Buffers /\ post[q].name \in Names
           /\ Holds(post[q].buf, post[q].name)
           /\ \E new : Appended(q, post[q].buf, post[q].name, new)
           /\ \A f \in Followers :
                /\ fol'[f].pc = fol[f].pc /\ fol'[f].query = fol[f].query
                /\ fol'[f].name = fol[f].name /\ fol'[f].cursor = fol[f].cursor
                /\ fol'[f].todo = fol[f].todo /\ fol'[f].old = fol[f].old
                /\ fol'[f].buf = fol[f].buf
  <1> DEFINE b == post[q].buf
             n == post[q].name
             lines == post[q].lines
  <1>1. /\ post[q].pc = "append" /\ b \in Buffers /\ n \in Names
        /\ lines \in Batches /\ lines # <<>> /\ b # NULL
    BY Constants DEF PostAppend, Inv, FramesOK, PostsNamed
  <1>2. PICK t \in Readings(lines) :
          /\ now' = t[Len(Stamp(q, lines, t))]
          /\ late' = late \cup Overtaken(n, b, Stamp(q, lines, t))
          /\ newest' = [newest EXCEPT ![n] =
                 Max({@} \cup {Stamp(q, lines, t)[i].ts : i \in DOMAIN Stamp(q, lines, t)})]
          /\ Signal(b)
          /\ post' = [post EXCEPT ![q] = [NoPost EXCEPT !.pc = "done"]]
          /\ buffers' = buffers
          /\ ring' = Collect([ring EXCEPT ![b] = Newest(@ \o Stamp(q, lines, t))])
          /\ sent' = sent /\ purged' = purged
    BY DEF PostAppend
  <1> DEFINE new == Stamp(q, lines, t)
             times == {newest[n]} \cup {new[i].ts : i \in DOMAIN new}
             r == Newest(ring[b] \o new)
  <1>3. /\ new \in Seq(Line) /\ now' \in 1..MaxTime
        /\ \A i \in DOMAIN new : new[i].ts >= 1 /\ new[i].id[1] = q
    BY <1>1, <1>2, Stamped DEF Inv, TypeOK
  <1> HIDE DEF lines, new
  <1>4. \A i \in DOMAIN new : new[i] \in Line /\ new[i].ts \in 0..MaxTime /\ new[i].id \in Ids
    BY <1>3, LineIsOf DEF Line
  <1>5. /\ Max(times) \in times /\ \A y \in times : Max(times) >= y
        /\ times \subseteq 0..MaxTime
    <2>1. times \subseteq 0..MaxTime /\ times # {}
      BY <1>1, <1>4 DEF Inv, TypeOK
    <2> HIDE DEF times
    <2> QED BY <2>1, MaxOfTimes, Constants
  <1>6. newest' = [newest EXCEPT ![n] = Max(times)]
    BY <1>1, <1>2 DEF Inv, TypeOK, new
  <1>7. /\ \A v \in DOMAIN new : new[v].ts <= Max(times)
        /\ newest[n] <= Max(times) /\ Max(times) \in 0..MaxTime
    <2>1. newest[n] \in times /\ \A v \in DOMAIN new : new[v].ts \in times
      OBVIOUS
    <2> HIDE DEF times
    <2>2. Max(times) \in 0..MaxTime /\ \A y \in times : y \in 0..MaxTime
      BY <1>5
    <2>3. MaxTime \in Nat
      BY Constants
    <2> QED BY <1>5, <2>1, <2>2, <2>3
  <1> HIDE DEF times
  <1>8. newest' \in [Names -> 0..MaxTime] /\ newest'[n] = Max(times)
        /\ \A m \in Names : m # n => newest'[m] = newest[m]
    BY <1>1, <1>6, <1>7 DEF Inv, TypeOK
  <1>9. ring[b] \in Seq(Line) /\ ring \in [Buffers -> Seq(Line)]
    BY <1>1 DEF Inv, TypeOK
  <1>10. r \in Seq(Line) /\ Len(r) <= max /\ Joined(ring[b], new, r)
    <2>1. r = Newest(ring[b] \o new)
      OBVIOUS
    <2> HIDE DEF r, b
    <2> QED BY <1>3, <1>9, <2>1, AppendedLines
  <1>11. ring' = Collect([ring EXCEPT ![b] = r])
    BY <1>1, <1>2, <1>9 DEF new
  <1> HIDE DEF r
  <1>12. /\ \A c \in Buffers : c # b => ring'[c] = ring[c] \/ ring'[c] = <<>>
         /\ ring'[b] = r \/ ring'[b] = <<>>
         /\ \A c \in Buffers : c \notin Reachable' => ring'[c] = <<>>
         /\ ring' \in [Buffers -> Seq(Line)]
    <2>1. \A c \in Buffers : ring'[c] = IF c \in Reachable'
                                        THEN IF c = b THEN r ELSE ring[c] ELSE <<>>
      BY <1>1, <1>9, <1>11 DEF Collect
    <2>2. DOMAIN ring' = Buffers /\ ring' = [c \in Buffers |-> ring'[c]]
      BY <1>11 DEF Collect
    <2>3. \A c \in Buffers : ring'[c] \in Seq(Line)
      <3>1. <<>> \in Seq(Line)
        OBVIOUS
      <3>2. \A c \in Buffers : ring[c] \in Seq(Line)
        BY <1>9
      <3> QED BY <1>10, <2>1, <3>1, <3>2
    <2> QED BY <1>1, <2>1, <2>2, <2>3
  <1>13. /\ \A f \in Followers :
              /\ fol'[f] \in FolFrame
              /\ fol'[f].pc = fol[f].pc /\ fol'[f].query = fol[f].query
              /\ fol'[f].name = fol[f].name /\ fol'[f].cursor = fol[f].cursor
              /\ fol'[f].todo = fol[f].todo /\ fol'[f].old = fol[f].old
              /\ fol'[f].buf = fol[f].buf
              /\ fol'[f].signal = IF f \in waiters[b] THEN 1 ELSE fol[f].signal
         /\ fol' \in [Followers -> FolFrame]
    <2>1. fol' = [f \in Followers |-> IF f \in waiters[b]
                                      THEN [fol[f] EXCEPT !.signal = 1] ELSE fol[f]]
      BY <1>2 DEF Signal
    <2>2. \A f \in Followers : fol[f] \in FolFrame
      BY DEF Inv, TypeOK
    <2>3. ASSUME NEW f \in Followers
          PROVE  /\ [fol[f] EXCEPT !.signal = 1] \in FolFrame
                 /\ [fol[f] EXCEPT !.signal = 1].pc = fol[f].pc
                 /\ [fol[f] EXCEPT !.signal = 1].query = fol[f].query
                 /\ [fol[f] EXCEPT !.signal = 1].name = fol[f].name
                 /\ [fol[f] EXCEPT !.signal = 1].cursor = fol[f].cursor
                 /\ [fol[f] EXCEPT !.signal = 1].todo = fol[f].todo
                 /\ [fol[f] EXCEPT !.signal = 1].old = fol[f].old
                 /\ [fol[f] EXCEPT !.signal = 1].buf = fol[f].buf
                 /\ [fol[f] EXCEPT !.signal = 1].signal = 1
      BY <2>2 DEF FolFrame
    <2>4. ASSUME NEW f \in Followers
          PROVE  /\ fol'[f] \in FolFrame
                 /\ fol'[f].pc = fol[f].pc /\ fol'[f].query = fol[f].query
                 /\ fol'[f].name = fol[f].name /\ fol'[f].cursor = fol[f].cursor
                 /\ fol'[f].todo = fol[f].todo /\ fol'[f].old = fol[f].old
                 /\ fol'[f].buf = fol[f].buf
                 /\ fol'[f].signal = IF f \in waiters[b] THEN 1 ELSE fol[f].signal
      <3>1. CASE f \in waiters[b]
        <4>1. fol'[f] = [fol[f] EXCEPT !.signal = 1]
          BY <2>1, <3>1
        <4> QED BY <2>3, <3>1, <4>1
      <3>2. CASE f \notin waiters[b]
        <4>1. fol'[f] = fol[f]
          BY <2>1, <3>2
        <4> QED BY <2>2, <3>2, <4>1
      <3> QED BY <3>1, <3>2
    <2>5. fol' = [f \in Followers |-> fol'[f]]
      BY <2>1
    <2> QED BY <2>4, <2>5
  <1>14. /\ post' \in [Posts -> PostFrame] /\ post'[q].pc = "done" /\ post'[q].buf = NULL
         /\ \A p \in Posts : p # q => post'[p] = post[p]
    <2> DEFINE done == [NoPost EXCEPT !.pc = "done"]
    <2>1. done \in PostFrame /\ done.pc = "done" /\ done.buf = NULL
      BY DEF NoPost, PostFrame
    <2>2. post' = [post EXCEPT ![q] = done]
      BY <1>2
    <2> HIDE DEF done
    <2> QED BY <2>1, <2>2 DEF Inv, TypeOK
  <1>15. \A v \in DOMAIN new : new[v].id \notin late' =>
            /\ newest[n] < new[v].ts
            /\ \A u \in DOMAIN new : u < v => new[u].ts < new[v].ts
    <2>1. late' = late \cup Overtaken(n, b, new)
      BY <1>2 DEF new
    <2>2. newest[n] \in Nat /\ \A v \in DOMAIN new : new[v].ts \in Nat
      BY <1>1, <1>4, Constants DEF Inv, TypeOK
    <2>3. ASSUME NEW v \in DOMAIN new,
                 new[v].ts <= newest[n] \/ \E u \in DOMAIN new : u < v /\ new[v].ts <= new[u].ts
          PROVE  new[v].id \in Overtaken(n, b, new)
      BY <2>3 DEF Overtaken
    <2> QED BY <2>1, <2>2, <2>3
  <1>16. buffers[n] # NULL /\ buffers[n] # b =>
           \A i \in DOMAIN ring[buffers[n]] : ring[buffers[n]][i].id \notin late' =>
               \A v \in DOMAIN new : new[v].ts < ring[buffers[n]][i].ts
    <2> SUFFICES ASSUME buffers[n] # NULL, buffers[n] # b,
                        NEW i \in DOMAIN ring[buffers[n]], NEW v \in DOMAIN new,
                        ~(new[v].ts < ring[buffers[n]][i].ts)
                 PROVE  ring[buffers[n]][i].id \in late'
      OBVIOUS
    <2>1. late' = late \cup Overtaken(n, b, new)
      BY <1>2 DEF new
    <2>2. ring[buffers[n]] \in Seq(Line)
      BY <1>1 DEF Inv, TypeOK
    <2>3. ring[buffers[n]][i].ts <= new[v].ts
      <3>1. ring[buffers[n]][i].ts \in Nat
        BY <2>2, LineIsOf
      <3>2. new[v].ts \in Nat
        BY <1>4, Constants
      <3> QED BY <3>1, <3>2
    <2>4. ring[buffers[n]][i] \in ToSet(ring[buffers[n]])
      BY DEF ToSet
    <2>5. buffers[n] \notin {b, NULL}
      OBVIOUS
    <2> HIDE DEF b, n
    <2> QED BY <2>1, <2>3, <2>4, <2>5 DEF Overtaken
  <1>17. late \subseteq late' /\ late' \subseteq Ids
    <2>1. late' = late \cup Overtaken(n, b, new)
      BY <1>2 DEF new
    <2>2. ASSUME buffers[n] # NULL
          PROVE  \A ln \in ToSet(ring[buffers[n]]) : ln.id \in Ids
      <3>1. ring[buffers[n]] \in Seq(Line)
        BY <1>1, <2>2 DEF Inv, TypeOK
      <3> QED BY <3>1, LineIsOf DEF ToSet
    <2>3. Overtaken(n, b, new) \subseteq Ids
      BY <1>4, <2>2 DEF Overtaken
    <2> QED BY <2>1, <2>3 DEF Inv, TypeOK
  <1>18. waiters' \in [Buffers -> SUBSET Followers]
         /\ \A c \in Buffers : waiters'[c] = IF c = b THEN {} ELSE waiters[c]
    BY <1>1, <1>2 DEF Signal, Inv, TypeOK
  <1>19. TypeOK'
    <2>1. \A c \in Buffers : Len(ring'[c]) <= max
      <3>1. Len(<<>>) <= max
        BY Constants
      <3>2. \A c \in Buffers : Len(ring[c]) <= max
        BY DEF Inv, TypeOK
      <3> QED BY <1>10, <1>12, <3>1, <3>2
    <2> QED BY <1>2, <1>3, <1>8, <1>12, <1>13, <1>14, <1>17, <1>18, <2>1 DEF Inv, TypeOK
  <1>20. \A c \in Buffers, m \in Names : Holds(c, m)' => Holds(c, m)
    BY <1>2, <1>13, <1>14, Constants DEF Holds
  <1>21. FramesOK'
    <2>1. PostsNamed'
      BY <1>14 DEF Inv, FramesOK, PostsNamed
    <2>2. FollowersNamed'
      BY <1>2, <1>13 DEF Inv, FramesOK, FollowersNamed
    <2>3. OneName'
      BY <1>20 DEF Inv, FramesOK, OneName
    <2>4. Emptied'
      BY <1>12 DEF Emptied
    <2> QED BY <2>1, <2>2, <2>3, <2>4 DEF FramesOK
  <1>22. BlockedIsEnlisted'
    <2> SUFFICES ASSUME NEW f \in Followers, fol'[f].pc = "select",
                        fol'[f].query.kind = "sse", fol'[f].signal = 0
                 PROVE  f \in waiters'[fol'[f].buf]
      BY DEF BlockedIsEnlisted
    <2>1. /\ fol[f].pc = "select" /\ fol[f].query.kind = "sse" /\ fol[f].signal = 0
          /\ f \notin waiters[b] /\ fol'[f].buf = fol[f].buf
      BY <1>13
    <2>2. f \in waiters[fol[f].buf] /\ fol[f].buf \in Buffers
      BY <2>1 DEF Inv, BlockedIsEnlisted, FramesOK, FollowersNamed
    <2> QED BY <1>18, <2>1, <2>2
  <1>23. Holds(b, n)
    BY DEF Holds
  <1>24. Appended(q, b, n, new)
    <2>1. Joined(ring[b], new, ring'[b])
      <3>1. Joined(ring[b], new, <<>>)
        BY DEF Joined
      <3> QED BY <1>10, <1>12, <3>1
    <2>2. \A v \in DOMAIN new : new[v].ts \in Nat
      BY <1>4, Constants
    <2>3. newest'[n] >= newest[n] /\ \A v \in DOMAIN new : new[v].ts <= newest'[n]
      <3>1. newest[n] \in Nat /\ newest'[n] \in Nat
        BY <1>1, <1>8, Constants DEF Inv, TypeOK
      <3> QED BY <1>7, <1>8, <3>1
    <2> HIDE DEF b, n
    <2> QED BY <1>2, <1>3, <1>4, <1>8, <1>12, <1>14, <1>15, <1>16, <1>17, <1>20,
               <2>1, <2>2, <2>3 DEF Appended
  <1> QED BY <1>1, <1>13, <1>19, <1>21, <1>22, <1>23, <1>24

\* The rings after an append.
LEMMA AppendedRings ==
    ASSUME Inv, TypeOK', NEW q \in Posts, NEW b \in Buffers, NEW n \in Names, NEW new,
           post[q].pc = "append", Holds(b, n), Appended(q, b, n, new)
    PROVE  RingsOK'
  <1>0. DOMAIN <<>> = {}
    OBVIOUS
  <1>1. /\ newest \in [Names -> Nat] /\ newest' \in [Names -> Nat]
        /\ \A c \in Buffers : \A i \in DOMAIN ring[c] :
              /\ ring[c][i].ts \in Nat /\ ring[c][i].id[1] \in Posts
              /\ ring[c][i].id[1] # q /\ post'[ring[c][i].id[1]].pc = "done"
    <2>1. newest \in [Names -> Nat] /\ newest' \in [Names -> Nat]
      BY Constants DEF Inv, TypeOK
    <2>2. ASSUME NEW c \in Buffers, NEW i \in DOMAIN ring[c]
          PROVE  /\ ring[c][i].ts \in Nat /\ ring[c][i].id[1] \in Posts
                 /\ ring[c][i].id[1] # q /\ post'[ring[c][i].id[1]].pc = "done"
      <3>1. ring[c][i].ts \in Nat /\ ring[c][i].id[1] \in Posts
        BY LineIsOf DEF Inv, TypeOK
      <3>2. post[ring[c][i].id[1]].pc = "done"
        BY DEF Inv, RingsOK, RingOK
      <3> QED BY <3>1, <3>2 DEF Appended
    <2> QED BY <2>1, <2>2
  <1>2. ASSUME NEW c \in Buffers, c # b PROVE RingOK(c)'
    <2>1. CASE ring'[c] = <<>>
      BY <1>0, <2>1 DEF RingOK
    <2>2. CASE ring'[c] = ring[c]
      <3>1. RingOK(c)
        BY DEF Inv, RingsOK
      <3>2. ASSUME NEW i \in DOMAIN ring[c]
            PROVE  /\ ring[c][i].ts >= 1
                   /\ post'[ring[c][i].id[1]].pc = "done"
                   /\ \A m \in Names : Holds(c, m)' => ring[c][i].ts <= newest'[m]
        <4>1. ASSUME NEW m \in Names, Holds(c, m)' PROVE ring[c][i].ts <= newest'[m]
          <5>1. ring[c][i].ts <= newest[m]
            BY <3>1, <4>1 DEF RingOK, Appended
          <5>2. newest[m] <= newest'[m]
            BY <1>1 DEF Appended
          <5> QED BY <1>1, <5>1, <5>2
        <4> QED BY <1>1, <3>1, <4>1 DEF RingOK
      <3>3. \A i, j \in DOMAIN ring[c] :
                i < j /\ ring[c][j].id \notin late' => ring[c][i].ts < ring[c][j].ts
        BY <3>1 DEF RingOK, Appended
      <3> QED BY <2>2, <3>2, <3>3 DEF RingOK
    <2> QED BY <1>2, <2>1, <2>2 DEF Appended
  <1>3. RingOK(b)'
    <2>1. RingOK(b)
      BY DEF Inv, RingsOK
    <2>2. \A u \in DOMAIN ring[b] : ring[b][u].ts <= newest[n]
      BY <2>1 DEF RingOK
    <2>3. \A m \in Names : Holds(b, m)' => m = n
      BY DEF Inv, FramesOK, OneName, Appended
    <2>4. ASSUME NEW i \in DOMAIN ring'[b]
          PROVE  /\ ring'[b][i].ts >= 1
                 /\ post'[ring'[b][i].id[1]].pc = "done"
                 /\ ring'[b][i].ts <= newest'[n]
      <3>1. ASSUME NEW u \in DOMAIN ring[b], ring'[b][i] = ring[b][u]
            PROVE  /\ ring'[b][i].ts >= 1
                   /\ post'[ring'[b][i].id[1]].pc = "done"
                   /\ ring'[b][i].ts <= newest'[n]
        <4>1. ring[b][u].ts <= newest[n] /\ newest[n] <= newest'[n] /\ ring[b][u].ts >= 1
          BY <1>1, <2>1, <2>2 DEF Appended, RingOK
        <4> QED BY <1>1, <3>1, <4>1
      <3>2. ASSUME NEW v \in DOMAIN new, ring'[b][i] = new[v]
            PROVE  /\ ring'[b][i].ts >= 1
                   /\ post'[ring'[b][i].id[1]].pc = "done"
                   /\ ring'[b][i].ts <= newest'[n]
        BY <3>2 DEF Appended
      <3> QED BY <3>1, <3>2 DEF Appended, Joined
    <2>5. ASSUME NEW i \in DOMAIN ring'[b], NEW j \in DOMAIN ring'[b], i < j,
                 ring'[b][j].id \notin late'
          PROVE  ring'[b][i].ts < ring'[b][j].ts
      <3>1. ASSUME NEW u \in DOMAIN ring[b], NEW v \in DOMAIN ring[b], u < v,
                   ring'[b][i] = ring[b][u], ring'[b][j] = ring[b][v]
            PROVE  ring'[b][i].ts < ring'[b][j].ts
        BY <2>1, <2>5, <3>1 DEF RingOK, Appended
      <3>2. ASSUME NEW u \in DOMAIN ring[b], NEW v \in DOMAIN new,
                   ring'[b][i] = ring[b][u], ring'[b][j] = new[v]
            PROVE  ring'[b][i].ts < ring'[b][j].ts
        <4>1. newest[n] < new[v].ts /\ new[v].ts \in Nat
          BY <2>5, <3>2 DEF Appended
        <4> QED BY <1>1, <2>2, <3>2, <4>1
      <3>3. ASSUME NEW u \in DOMAIN new, NEW v \in DOMAIN new, u < v,
                   ring'[b][i] = new[u], ring'[b][j] = new[v]
            PROVE  ring'[b][i].ts < ring'[b][j].ts
        BY <2>5, <3>3 DEF Appended
      <3> QED BY <2>5, <3>1, <3>2, <3>3 DEF Appended, Joined
    <2> QED BY <2>3, <2>4, <2>5 DEF RingOK
  <1>4. ASSUME NEW c \in Buffers, NEW i \in DOMAIN ring'[c]
        PROVE  \/ \E u \in DOMAIN ring[c] : ring'[c][i] = ring[c][u]
               \/ c = b /\ \E v \in DOMAIN new : ring'[c][i] = new[v]
    BY <1>0 DEF Appended, Joined
  <1>5. RingsApart'
    <2> SUFFICES ASSUME NEW c \in Buffers, NEW d \in Buffers, c # d,
                        NEW i \in DOMAIN ring'[c], NEW j \in DOMAIN ring'[d]
                 PROVE  ring'[c][i].id # ring'[d][j].id
      BY DEF RingsApart
    <2>1. \A v \in DOMAIN new : new[v].id[1] = q
      BY DEF Appended
    <2>2. \A u \in DOMAIN ring[c], v \in DOMAIN ring[d] : ring[c][u].id # ring[d][v].id
      BY DEF Inv, RingsOK, RingsApart
    <2> QED BY <1>1, <1>4, <2>1, <2>2
  <1>6. PurgedDone'
    BY DEF Inv, RingsOK, PurgedDone, Appended, TypeOK, Ids
  <1>7. ASSUME NEW m \in Names PROVE CurrentOK(m)'
    <2> DEFINE c == buffers[m]
    <2> SUFFICES ASSUME c # NULL, NEW i \in DOMAIN ring'[c]
                 PROVE  /\ ring'[c][i].id \notin purged
                        /\ \A d \in Buffers :
                             Holds(d, m)' /\ d # c /\ ring'[c][i].id \notin late' =>
                             \A j \in DOMAIN ring'[d] : ring'[d][j].ts < ring'[c][i].ts
      BY DEF CurrentOK, Appended
    <2>1. c \in Buffers /\ CurrentOK(m) /\ Holds(c, m)
      BY DEF Inv, TypeOK, RingsOK, Holds
    <2>2. (c = b \/ c = buffers[n]) => m = n
      BY <2>1 DEF Inv, FramesOK, OneName, Holds
    <2>3. \A u \in DOMAIN ring[c] :
             /\ ring[c][u].id \notin purged
             /\ \A d \in Buffers : Holds(d, m) /\ d # c /\ ring[c][u].id \notin late =>
                   \A j \in DOMAIN ring[d] : ring[d][j].ts < ring[c][u].ts
      BY <2>1 DEF CurrentOK
    <2> HIDE DEF c
    <2>4. ring'[c][i].id \notin purged
      <3>1. CASE \E u \in DOMAIN ring[c] : ring'[c][i] = ring[c][u]
        BY <2>3, <3>1
      <3>2. ASSUME NEW v \in DOMAIN new, ring'[c][i] = new[v]
            PROVE  ring'[c][i].id \notin purged
        BY <3>2 DEF Inv, RingsOK, PurgedDone, Appended
      <3> QED BY <1>4, <2>1, <3>1, <3>2
    <2>5. ASSUME NEW d \in Buffers, Holds(d, m)', d # c, ring'[c][i].id \notin late',
                 NEW j \in DOMAIN ring'[d]
          PROVE  ring'[d][j].ts < ring'[c][i].ts
      <3>1. Holds(d, m) /\ late \subseteq late'
        BY <2>5 DEF Appended
      <3>2. ASSUME NEW u \in DOMAIN ring[c], ring'[c][i] = ring[c][u],
                   NEW w \in DOMAIN ring[d], ring'[d][j] = ring[d][w]
            PROVE  ring'[d][j].ts < ring'[c][i].ts
        BY <2>3, <2>5, <3>1, <3>2
      <3>3. ASSUME NEW u \in DOMAIN ring[c], ring'[c][i] = ring[c][u],
                   d = b, NEW v \in DOMAIN new, ring'[d][j] = new[v]
            PROVE  ring'[d][j].ts < ring'[c][i].ts
        <4>1. m = n
          BY <3>1, <3>3 DEF Inv, FramesOK, OneName
        <4> QED BY <2>1, <2>5, <3>3, <4>1 DEF Appended, c
      <3>4. ASSUME c = b, NEW v \in DOMAIN new, ring'[c][i] = new[v],
                   NEW w \in DOMAIN ring[d], ring'[d][j] = ring[d][w]
            PROVE  ring'[d][j].ts < ring'[c][i].ts
        <4>1. m = n
          BY <2>2, <3>4
        <4>2. ring[d][w].ts <= newest[n]
          BY <3>1, <4>1 DEF Inv, RingsOK, RingOK
        <4>3. newest[n] < new[v].ts /\ new[v].ts \in Nat
          BY <2>5, <3>4 DEF Appended
        <4> QED BY <1>1, <3>4, <4>2, <4>3
      <3> QED BY <1>4, <2>1, <2>5, <3>2, <3>3, <3>4
    <2> QED BY <2>4, <2>5
  <1> QED BY <1>2, <1>3, <1>5, <1>6, <1>7 DEF RingsOK

\* A follower after an append: a new line is ahead of its cursor and of all it
\* has left to write, or was overtaken.
LEMMA AppendedFollow ==
    ASSUME Inv, TypeOK', NEW q \in Posts, NEW b \in Buffers, NEW n \in Names, NEW new,
           post[q].pc = "append", Holds(b, n), Appended(q, b, n, new),
           NEW f \in Followers,
           fol'[f].pc = fol[f].pc, fol'[f].query = fol[f].query,
           fol'[f].name = fol[f].name, fol'[f].cursor = fol[f].cursor,
           fol'[f].todo = fol[f].todo, fol'[f].old = fol[f].old, fol'[f].buf = fol[f].buf
    PROVE  FollowOK(f)'
  <1>0. DOMAIN <<>> = {}
    OBVIOUS
  <1>1. SentOK(f) /\ fol[f] \in FolFrame
    BY DEF Inv, FollowOK, TypeOK
  <1>2. \A m \in Names : /\ newest[m] \in Nat /\ newest'[m] \in Nat
                         /\ newest[m] <= newest'[m]
    <2>1. newest \in [Names -> 0..MaxTime] /\ newest' \in [Names -> 0..MaxTime]
      BY DEF Inv, TypeOK
    <2>2. \A m \in Names : newest[m] \in Nat /\ newest'[m] \in Nat
      BY <2>1, Constants
    <2> QED BY <2>2 DEF Appended
  <1>3. /\ fol[f].pc # "idle" => fol[f].name \in Names /\ fol[f].query \in Queries
        /\ fol[f].pc = "idle" => fol[f].todo = <<>>
        /\ fol[f].todo \in Seq(Line) /\ fol[f].cursor \in Nat
    BY <1>1, Constants DEF Inv, FramesOK, FollowersNamed, FolFrame
  <1>4. SentOK(f)'
    <2>1. fol'[f].old \subseteq purged'
      BY <1>1 DEF SentOK, Appended
    <2>2. ASSUME fol[f].buf \in Buffers, NEW i \in DOMAIN ring'[fol[f].buf]
          PROVE  ring'[fol[f].buf][i].id \notin fol[f].old
      <3> DEFINE c == fol[f].buf
      <3>1. \A u \in DOMAIN ring[c] : ring[c][u].id \notin fol[f].old
        BY <1>1, <2>2 DEF SentOK
      <3>2. \A v \in DOMAIN new : new[v].id \notin fol[f].old
        BY <1>1 DEF SentOK, Inv, RingsOK, PurgedDone, Appended
      <3> QED BY <1>0, <2>2, <3>1, <3>2 DEF Appended, Joined
    <2>3. ASSUME NEW i \in DOMAIN fol[f].todo
          PROVE  /\ fol[f].todo[i].ts >= 1
                 /\ fol[f].todo[i].ts <= newest'[fol[f].name]
                 /\ fol[f].todo[i].id \notin fol[f].old
      <3>1. /\ fol[f].todo[i].ts >= 1
            /\ fol[f].todo[i].ts <= newest[fol[f].name]
            /\ fol[f].todo[i].id \notin fol[f].old
        BY <1>1 DEF SentOK
      <3>2. fol[f].name \in Names
        BY <1>0, <1>3
      <3>3. fol[f].todo[i].ts \in Nat
        BY <1>3, LineIsOf
      <3> QED BY <1>2, <3>1, <3>2, <3>3
    <2>4. \A i, j \in DOMAIN fol[f].todo :
             i < j /\ fol[f].todo[j].id \notin late' => fol[f].todo[i].ts < fol[f].todo[j].ts
      BY <1>1 DEF SentOK, Appended
    <2>5. fol[f].pc # "idle" => \/ fol[f].cursor = fol[f].query.since
                                \/ fol[f].cursor <= newest'[fol[f].name]
      BY <1>1, <1>2, <1>3 DEF SentOK
    <2>6. sent' = sent
      BY DEF Appended
    <2> QED BY <1>1, <2>1, <2>2, <2>3, <2>4, <2>5, <2>6 DEF SentOK
  <1>5. ASSUME NEW ln \in Current(f)' PROVE CoveredOK(f, ln)'
    <2> DEFINE m == fol[f].name
               c == buffers[m]
    <2>1. /\ fol[f].pc # "idle" /\ m \in Names /\ c \in Buffers /\ c # NULL
          /\ \E i \in DOMAIN ring'[c] : ln = ring'[c][i]
      BY <1>3 DEF Current, Following, ToSet, Inv, TypeOK, Appended
    <2>2. late \subseteq late' /\ sent'[f] = sent[f]
      BY DEF Appended
    <2>3. CASE ln \in Current(f)
      <3>1. CoveredOK(f, ln)
        BY <2>3 DEF Inv, FollowOK
      <3> QED BY <2>2, <3>1, CoveredKept
    <2>4. ASSUME c = b, NEW v \in DOMAIN new, ln = new[v] PROVE CoveredOK(f, ln)'
      <3>1. m = n
        <4>1. Holds(b, m)
          BY <2>1, <2>4 DEF Holds
        <4> QED BY <2>1, <4>1 DEF Inv, FramesOK, OneName
      <3>2. CASE ln.id \in late'
        BY <3>2 DEF CoveredOK
      <3>3. CASE ln.id \notin late'
        <4>1. newest[n] < ln.ts /\ ln.ts \in Nat
          BY <2>4, <3>3 DEF Appended
        <4>2. \A i \in DOMAIN fol'[f].todo : fol'[f].todo[i].ts < ln.ts
          <5> SUFFICES ASSUME NEW i \in DOMAIN fol[f].todo PROVE fol[f].todo[i].ts < ln.ts
            OBVIOUS
          <5>1. fol[f].todo[i].ts <= newest[n]
            BY <1>1, <3>1 DEF SentOK
          <5>2. fol[f].todo[i].ts \in Nat
            BY <1>3, LineIsOf
          <5> QED BY <1>2, <4>1, <5>1, <5>2
        <4>3. ~(ln.ts > fol[f].query.since /\ ln.ts <= fol[f].cursor)
          <5>1. fol[f].cursor = fol[f].query.since \/ fol[f].cursor <= newest[n]
            BY <1>1, <2>1, <3>1 DEF SentOK
          <5> QED BY <1>2, <1>3, <4>1, <5>1
        <4> QED BY <4>2, <4>3 DEF CoveredOK
      <3> QED BY <3>2, <3>3
    <2>5. ln \in Current(f) \/ (c = b /\ \E v \in DOMAIN new : ln = new[v])
      <3>1. \/ \E u \in DOMAIN ring[c] : ln = ring[c][u]
            \/ c = b /\ \E v \in DOMAIN new : ln = new[v]
        BY <1>0, <2>1 DEF Appended, Joined
      <3>2. ASSUME NEW u \in DOMAIN ring[c], ln = ring[c][u] PROVE ln \in Current(f)
        BY <2>1, <3>2 DEF Current, Following, ToSet
      <3> QED BY <3>1, <3>2
    <2> QED BY <2>3, <2>4, <2>5
  <1> QED BY <1>4, <1>5 DEF FollowOK

\* The append keeps the invariant.
LEMMA PostAppendKeeps ==
    ASSUME Inv, NEW q \in Posts, PostAppend(q)
    PROVE  Inv'
  <1> DEFINE b == post[q].buf
             n == post[q].name
  <1>1. /\ TypeOK' /\ FramesOK' /\ BlockedIsEnlisted'
        /\ post[q].pc = "append" /\ b \in Buffers /\ n \in Names /\ Holds(b, n)
        /\ \A f \in Followers :
             /\ fol'[f].pc = fol[f].pc /\ fol'[f].query = fol[f].query
             /\ fol'[f].name = fol[f].name /\ fol'[f].cursor = fol[f].cursor
             /\ fol'[f].todo = fol[f].todo /\ fol'[f].old = fol[f].old
             /\ fol'[f].buf = fol[f].buf
    BY PostAppendFacts
  <1>2. PICK new : Appended(q, b, n, new)
    BY PostAppendFacts
  <1>3. RingsOK'
    BY <1>1, <1>2, AppendedRings
  <1>4. \A f \in Followers : FollowOK(f)'
    BY <1>1, <1>2, AppendedFollow
  <1> QED BY <1>1, <1>3, <1>4 DEF Inv

-----------------------------------------------------------------------------
(* The theorems.                                                           *)

\* No ring, no request.
LEMMA LogInit ==
    ASSUME Init
    PROVE  Inv
  <1>0. DOMAIN <<>> = {} /\ ToSet(<<>>) = {}
    BY DEF ToSet
  <1>1. TypeOK
    <2>1. /\ NoPost \in PostFrame
          /\ Quiet \in FolFrame
      BY Constants DEF NoPost, PostFrame, Quiet, FolFrame, FolPC
    <2>2. now \in 1..MaxTime
      BY Constants DEF Init
    <2>3. <<>> \in Seq(Line) /\ Len(<<>>) <= max /\ 0 \in 0..MaxTime
      BY Constants
    <2> QED BY <2>1, <2>2, <2>3 DEF TypeOK, Init
  <1>2. \A b \in Buffers, n \in Names : ~Holds(b, n)
    BY Constants DEF Holds, Init, NoPost, Quiet
  <1>3. FramesOK
    BY <1>2 DEF FramesOK, PostsNamed, FollowersNamed, OneName, Emptied, Init, NoPost, Quiet
  <1>4. RingsOK
    BY <1>0 DEF RingsOK, RingOK, RingsApart, CurrentOK, PurgedDone, Init
  <1>5. \A f \in Followers : FollowOK(f)
    BY <1>0, Constants DEF FollowOK, SentOK, Current, Following, Init, Quiet
  <1>6. BlockedIsEnlisted
    BY DEF BlockedIsEnlisted, Init, Quiet
  <1> QED BY <1>1, <1>3, <1>4, <1>5, <1>6 DEF Inv

\* Every step keeps the invariant.
LEMMA LogNext ==
    ASSUME Inv, [Next]_vars
    PROVE  Inv'
  <1>1. CASE UNCHANGED vars
    <2>1. TypeOK' /\ BlockedIsEnlisted'
      BY <1>1 DEF vars, Inv, TypeOK, BlockedIsEnlisted
    <2>2. FramesOK'
      BY <1>1 DEF vars, Inv, FramesOK, PostsNamed, FollowersNamed, OneName, Holds,
                  Emptied, Reachable
    <2>3. RingsOK'
      BY <1>1 DEF vars, Inv, RingsOK, RingOK, RingsApart, CurrentOK, PurgedDone, Holds
    <2>4. \A f \in Followers : SentOK(f)'
      BY <1>1 DEF vars, Inv, FollowOK, SentOK
    <2>5. ASSUME NEW f \in Followers, NEW ln \in Current(f)' PROVE CoveredOK(f, ln)'
      <3>1. ln \in Current(f)
        BY <1>1, <2>5 DEF vars, Current, Following
      <3>2. CoveredOK(f, ln)
        BY <3>1 DEF Inv, FollowOK
      <3> QED BY <1>1, <3>2, CoveredKept DEF vars
    <2> QED BY <2>1, <2>2, <2>3, <2>4, <2>5 DEF Inv, FollowOK
  <1>2. ASSUME NEW q \in Posts, NEW n \in Names, NEW lines \in Batches,
               PostStart(q, n, lines)
        PROVE  Inv'
    BY <1>2, PostStartKeeps
  <1>3. ASSUME NEW q \in Posts, PostAppend(q) PROVE Inv'
    BY <1>3, PostAppendKeeps
  <1>4. ASSUME NEW f \in Followers, FollowStep(f) PROVE Inv'
    <2>1. ASSUME NEW n \in Names, NEW y \in Queries, FollowStart(f, n, y) PROVE Inv'
      BY <2>1, FollowStartKeeps
    <2>2. ASSUME FollowWake(f) \/ FollowTimeout(f) PROVE Inv'
      BY <2>2, AgainKeeps DEF FollowWake, FollowTimeout
    <2> QED BY <1>4, <2>1, <2>2, FollowLookupKeeps, FollowReadKeeps, FollowWriteKeeps,
               FollowFlushKeeps, FollowSubscribeKeeps, FollowEnlistKeeps,
               FollowCancelKeeps DEF FollowStep
  <1>5. ASSUME NEW n \in Names, SnapshotOnce(n) \/ RemoveRing(n) PROVE Inv'
    BY <1>5, SnapshotOnceKeeps, RemoveRingKeeps
  <1>6. CASE Tick
    BY <1>6, TickKeeps
  <1> QED BY <1>1, <1>2, <1>3, <1>4, <1>5, <1>6 DEF Next

\* The inductive invariant holds in every behaviour.
THEOREM LogInvariant == Spec => []Inv
  BY LogInit, LogNext, PTL DEF Spec

\* The rings keep to their capacity and every frame to its shape, however many
\* requests run and whatever is removed under them.
THEOREM LogTypeCorrect == Spec => []TypeOK
  <1>1. Inv => TypeOK
    BY DEF Inv
  <1> QED BY <1>1, LogInvariant, PTL

\* The cursor of the follow loops sends no line twice and none out of order.
THEOREM FollowersReadInOrder == Spec => []SentInOrder
  <1>1. Inv => SentInOrder
    BY DEF Inv, FollowOK, SentOK, SentInOrder
  <1> QED BY <1>1, LogInvariant, PTL

\* What the cursor skips was sent or overtaken.
THEOREM NothingIsSkipped == Spec => []NoSilentGap
  <1>1. Inv => NoSilentGap
    BY DEF Inv, FollowOK, CoveredOK, NoSilentGap, ToSet
  <1> QED BY <1>1, LogInvariant, PTL

\* A follower that blocks in the select is on the list of its buffer.
THEOREM SubscribersAreListed == Spec => []BlockedIsEnlisted
  <1>1. Inv => BlockedIsEnlisted
    BY DEF Inv
  <1> QED BY <1>1, LogInvariant, PTL

\* A follow request gets no line of a ring that was removed before it began.
THEOREM RemovedLinesStayUnsent == Spec => []PurgedIsNotSent
  <1>1. Inv => PurgedIsNotSent
    BY DEF Inv, FollowOK, SentOK, PurgedIsNotSent
  <1> QED BY <1>1, LogInvariant, PTL

=============================================================================
