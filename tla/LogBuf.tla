------------------------------- MODULE LogBuf -------------------------------
(***************************************************************************)
(* The per-sandbox log rings of internal/logbuf and the handlers on them:  *)
(* POST of lines, the SSE follower of handleSandboxLogs, the polling       *)
(* follower of /v1/logs and the Remove of a sandbox deletion.              *)
(*                                                                         *)
(* Hub.buf takes h.mu and returns a pointer; the ring is then locked on    *)
(* its own.  Each of the two sections is one action, so a ring may be      *)
(* removed while a request still holds it.  The lines of a snapshot are    *)
(* written one by one, each in an action of its own.                       *)
(*                                                                         *)
(* Abstractions.  A time is a number, 0 the zero time.Time.  A line is     *)
(* its identity, its time and its level; source filters like level does.   *)
(* A channel whose select has ended receives nothing anybody reads, so     *)
(* only the channel of the select under way is kept.                       *)
(***************************************************************************)
EXTENDS Naturals, Sequences, FiniteSets, SequencesExt

CONSTANTS
    Names,      \* sandbox names
    Posts,      \* POST requests
    Followers,  \* follow requests
    Buffers,    \* Buffer objects, numbers
    max,        \* capacity of a ring
    MaxTime,    \* the last time of the clock
    Batches,    \* bodies: sequences of lines, time 0 where the sender gave none
    Queries,    \* follow requests: kind, since (0 for none), level ("" for none)
    NULL

Levels == {"", "INFO", "LOW", "MED", "WARN", "HIGH", "CRIT", "FATAL", "ERROR", "OCSF"}

ASSUME LogAssumption ==
    /\ max \in Nat \ {0} /\ MaxTime \in Nat \ {0}
    /\ \A y \in Queries : y.since \in 0..MaxTime
    /\ \A y \in Queries : y.kind = "fleet" => y.since = 0 /\ y.level = ""
    /\ \A b \in Batches : b \in Seq([ts : 0..MaxTime, level : Levels])
    /\ NULL \notin Names \cup Buffers

\* The memory never runs out of Buffers: each entry of the map and each request
\* leads to at most one.
ASSUME BuffersAssumption ==
    /\ Buffers \subseteq Nat
    /\ IsFiniteSet(Names) /\ IsFiniteSet(Posts)
    /\ IsFiniteSet(Followers) /\ IsFiniteSet(Buffers)
    /\ Cardinality(Names) + Cardinality(Posts) + Cardinality(Followers)
         <= Cardinality(Buffers)

VARIABLES
    now,      \* the clock read by time.Now
    buffers,  \* h.buffers
    ring,     \* b.lines of each Buffer
    waiters,  \* b.waiters of each Buffer: the followers they belong to
    post,     \* frame of each POST
    fol,      \* frame of each follower
    sent,     \* history: the lines each follower was sent, in order
    newest,   \* history: the latest time appended under each name
    late,     \* history: lines a line of a later or equal time overtook
    purged    \* history: lines that were in a ring when it was removed

vars == <<now, buffers, ring, waiters, post, fol, sent, newest, late, purged>>

Ids == Posts \X UNION {DOMAIN b : b \in Batches}
Line == [id : Ids, ts : 0..MaxTime, level : Levels]

PostFrame == [pc : {"idle", "append", "done"}, name : Names \cup {NULL},
              buf : Buffers \cup {NULL}, lines : {<<>>} \cup Batches]
FolPC == {"idle", "lookup", "read", "write", "subscribe", "enlist", "select"}
FolFrame == [pc : FolPC, query : {NULL} \cup Queries, name : Names \cup {NULL},
             cursor : 0..MaxTime, buf : Buffers \cup {NULL}, signal : {0, 1},
             todo : Seq(Line), old : SUBSET Ids]

\* The rings keep to their capacity, and the frames and histories to their
\* shapes.
TypeOK ==
    /\ now \in 1..MaxTime
    /\ buffers \in [Names -> Buffers \cup {NULL}]
    /\ ring \in [Buffers -> Seq(Line)]
    /\ \A b \in Buffers : Len(ring[b]) <= max
    /\ waiters \in [Buffers -> SUBSET Followers]
    /\ post \in [Posts -> PostFrame]
    /\ fol \in [Followers -> FolFrame]
    /\ sent \in [Followers -> Seq(Line)]
    /\ newest \in [Names -> 0..MaxTime]
    /\ late \subseteq Ids /\ purged \subseteq Ids

NoPost == [pc |-> "idle", name |-> NULL, buf |-> NULL, lines |-> <<>>]
Quiet == [pc |-> "idle", query |-> NULL, name |-> NULL, cursor |-> 0,
          buf |-> NULL, signal |-> 0, todo |-> <<>>, old |-> {}]

\* NewHub: no buffers.
Init ==
    /\ now = 1
    /\ buffers = [n \in Names |-> NULL]
    /\ ring = [b \in Buffers |-> <<>>]
    /\ waiters = [b \in Buffers |-> {}]
    /\ post = [q \in Posts |-> NoPost]
    /\ fol = [f \in Followers |-> Quiet]
    /\ sent = [f \in Followers |-> <<>>]
    /\ newest = [n \in Names |-> 0]
    /\ late = {}
    /\ purged = {}

-----------------------------------------------------------------------------
(* Hub.                                                                    *)

\* Buffers some pointer leads to.  The others are garbage: they are emptied and
\* may be used again.
Reachable == {buffers[n] : n \in Names} \cup {post[q].buf : q \in Posts}
             \cup {fol[f].buf : f \in Followers}
Collect(lines) == [b \in Buffers |-> IF b \in Reachable' THEN lines[b] ELSE <<>>]

\* buf(name): the registered buffer, or a new one that is registered now.
Buf(n) == IF buffers[n] # NULL THEN buffers[n] ELSE Min(Buffers \ Reachable)
Lookup(n) == buffers' = [buffers EXCEPT ![n] = Buf(n)]

\* Variant: the entry stays, so that followers can finish reading.
RemoveKeepsEntry(n) ==
    /\ buffers[n] # NULL
    /\ purged' = purged \cup {ln.id : ln \in ToSet(ring[buffers[n]])}
    /\ UNCHANGED <<now, buffers, ring, waiters, post, fol, sent, newest, late>>

\* Remove, called by the DELETE of the sandbox.
RemoveRing(n) ==
    /\ buffers[n] # NULL
    /\ buffers' = [buffers EXCEPT ![n] = NULL]
    /\ purged' = purged \cup {ln.id : ln \in ToSet(ring[buffers[n]])}
    /\ UNCHANGED <<now, waiters, post, fol, sent, newest, late>>
    /\ ring' = Collect(ring)

-----------------------------------------------------------------------------
(* Append.                                                                 *)

\* POST: the body is decoded and the buffer looked up; an empty body ends here.
PostStart(q, n, lines) ==
    /\ post[q].pc = "idle"
    /\ IF lines = <<>>
       THEN /\ post' = [post EXCEPT ![q].pc = "done"]
            /\ UNCHANGED buffers
       ELSE /\ Lookup(n)
            /\ post' = [post EXCEPT ![q] = [pc |-> "append", name |-> n,
                                            buf |-> Buf(n), lines |-> lines]]
    /\ UNCHANGED <<now, ring, waiters, fol, sent, newest, late, purged>>

\* Readings of the clock while the lines are appended.
Readings(lines) ==
    {t \in [DOMAIN lines -> now..MaxTime] :
        \A i, j \in DOMAIN lines : i < j => t[i] <= t[j]}

\* Variant: a line without a time keeps the zero time.
StampMissing(q, lines, t) ==
    [i \in DOMAIN lines |-> [id |-> <<q, i>>, ts |-> lines[i].ts,
                             level |-> lines[i].level]]

\* A line that came without a time gets the time of its append.
Stamp(q, lines, t) ==
    [i \in DOMAIN lines |->
        [id |-> <<q, i>>, level |-> lines[i].level,
         ts |-> IF lines[i].ts = 0 THEN t[i] ELSE lines[i].ts]]

\* Variant: the ring is cut one line late.
NewestLate(lines) ==
    IF Len(lines) > max + 1 THEN SubSeq(lines, Len(lines) - max + 1, Len(lines))
    ELSE lines

\* The ring is cut to the newest max lines.
Newest(lines) ==
    IF Len(lines) > max THEN SubSeq(lines, Len(lines) - max + 1, Len(lines)) ELSE lines

\* Variant: no signal when lines are dropped, which still empties the list.
SignalNotFull(b) ==
    /\ fol' = [f \in Followers |-> IF f \in waiters[b] /\ Len(ring[b]) < max
                                   THEN [fol[f] EXCEPT !.signal = 1] ELSE fol[f]]
    /\ waiters' = [waiters EXCEPT ![b] = {}]

\* A non-blocking send to every waiter; the list is emptied.
Signal(b) ==
    /\ fol' = [f \in Followers |-> IF f \in waiters[b]
                                   THEN [fol[f] EXCEPT !.signal = 1] ELSE fol[f]]
    /\ waiters' = [waiters EXCEPT ![b] = {}]

\* History: what is overtaken when new lines are appended to buffer b.  When b
\* has been removed meanwhile, a follower that still reads it may get past the
\* lines of the buffer that took its place.
Overtaken(n, b, new) ==
    {new[i].id : i \in {i \in DOMAIN new :
        \/ new[i].ts <= newest[n]
        \/ \E j \in DOMAIN new : j < i /\ new[i].ts <= new[j].ts}}
    \cup (IF buffers[n] \in {b, NULL} THEN {}
          ELSE {ln.id : ln \in {ln \in ToSet(ring[buffers[n]]) :
                                  \E i \in DOMAIN new : ln.ts <= new[i].ts}})

\* The section under b.mu: stamp, append, cut, signal.
PostAppend(q) ==
    /\ post[q].pc = "append"
    /\ LET b == post[q].buf
           n == post[q].name
       IN  \E t \in Readings(post[q].lines) :
             LET new == Stamp(q, post[q].lines, t)
             IN  /\ now' = t[Len(new)]
                 /\ late' = late \cup Overtaken(n, b, new)
                 /\ newest' = [newest EXCEPT ![n] =
                                 Max({@} \cup {new[i].ts : i \in DOMAIN new})]
                 /\ Signal(b)
                 /\ post' = [post EXCEPT ![q] = [NoPost EXCEPT !.pc = "done"]]
                 /\ UNCHANGED buffers
                 /\ ring' = Collect([ring EXCEPT ![b] = Newest(@ \o new)])
    /\ UNCHANGED <<sent, purged>>

-----------------------------------------------------------------------------
(* Followers.  An SSE follower waits on a subscription and a timer of 15 s; *)
(* a fleet follower of /v1/logs only on a timer of 500 ms.                 *)

folOnly == <<now, post, newest, late, purged>>

FollowStart(f, n, y) ==
    /\ fol[f].pc = "idle"
    /\ fol' = [fol EXCEPT ![f] =
                 [Quiet EXCEPT !.pc = "lookup", !.query = y, !.name = n,
                               !.cursor = y.since, !.old = purged]]
    /\ UNCHANGED <<buffers, ring, waiters, sent, folOnly>>

\* Snapshot: the buffer is looked up ...
FollowLookup(f) ==
    /\ fol[f].pc = "lookup"
    /\ Lookup(fol[f].name)
    /\ fol' = [fol EXCEPT ![f].pc = "read", ![f].buf = Buf(fol[f].name)]
    /\ UNCHANGED <<ring, waiters, sent, folOnly>>

levelMatch(got, want) ==
    \/ got = want
    \/ want \in {"warn", "warning"} /\ got \in {"MED", "WARN", "HIGH"}
    \/ want = "error" /\ got \in {"HIGH", "CRIT", "FATAL", "ERROR"}
    \/ want \in {"debug", "info"} /\ got \in {"INFO", "LOW", "OCSF", ""}

Accepts(f, ln) ==
    fol[f].query.level = "" \/ levelMatch(ln.level, fol[f].query.level)

\* What the filters of snapshot(sent, source, level, 0) and of the follow loop
\* let through.  The loop skips every line that snapshot(sent, ...) leaves out
\* for its time, because the cursor only moves forward.
Passes(f, ln) ==
    Accepts(f, ln) /\ ~(fol[f].cursor # 0 /\ ln.ts <= fol[f].cursor)

\* ... and copied under b.mu.
FollowRead(f) ==
    /\ fol[f].pc = "read"
    /\ fol' = [fol EXCEPT ![f].pc = "write", ![f].todo = ring[fol[f].buf],
                          ![f].buf = NULL]
    /\ UNCHANGED <<buffers, waiters, sent, folOnly>>
    /\ ring' = Collect(ring)

\* The next line that passes is written and the cursor set to its time.
FollowWrite(f) ==
    /\ fol[f].pc = "write"
    /\ \E i \in DOMAIN fol[f].todo :
         LET ln == fol[f].todo[i]
         IN  /\ Passes(f, ln)
             /\ \A j \in 1..(i - 1) : ~Passes(f, fol[f].todo[j])
             /\ sent' = [sent EXCEPT ![f] = Append(@, ln)]
             /\ fol' = [fol EXCEPT ![f].cursor = ln.ts,
                                   ![f].todo = SubSeq(@, i + 1, Len(@))]
    /\ UNCHANGED <<buffers, ring, waiters, folOnly>>

\* Variant: the cursor is moved to the time the snapshot has been written.
FollowFlushToNow(f) ==
    /\ fol[f].pc = "write"
    /\ \A i \in DOMAIN fol[f].todo : ~Passes(f, fol[f].todo[i])
    /\ fol' = [fol EXCEPT ![f].todo = <<>>, ![f].cursor = now,
                          ![f].pc = IF fol[f].query.kind = "sse" THEN "subscribe"
                                                                 ELSE "select"]
    /\ UNCHANGED <<buffers, ring, waiters, sent, folOnly>>

\* No line of the snapshot is left: flush, and go on to the select.
FollowFlush(f) ==
    /\ fol[f].pc = "write"
    /\ \A i \in DOMAIN fol[f].todo : ~Passes(f, fol[f].todo[i])
    /\ fol' = [fol EXCEPT ![f].todo = <<>>,
                          ![f].pc = IF fol[f].query.kind = "sse" THEN "subscribe"
                                                                 ELSE "select"]
    /\ UNCHANGED <<buffers, ring, waiters, sent, folOnly>>

\* Subscribe: the buffer is looked up again ...
FollowSubscribe(f) ==
    /\ fol[f].pc = "subscribe"
    /\ Lookup(fol[f].name)
    /\ fol' = [fol EXCEPT ![f].pc = "enlist", ![f].buf = Buf(fol[f].name)]
    /\ UNCHANGED <<ring, waiters, sent, folOnly>>

\* ... and a fresh channel added to its waiters.
FollowEnlist(f) ==
    /\ fol[f].pc = "enlist"
    /\ waiters' = [waiters EXCEPT ![fol[f].buf] = @ \cup {f}]
    /\ fol' = [fol EXCEPT ![f].pc = "select", ![f].signal = 0]
    /\ UNCHANGED <<buffers, ring, sent, folOnly>>

\* The select ends; the channel it waited on is not read any more.
Resume(f, frame, out) ==
    /\ fol' = [fol EXCEPT ![f] = frame]
    /\ sent' = [sent EXCEPT ![f] = out]
    /\ waiters' = [b \in Buffers |-> waiters[b] \ {f}]
    /\ UNCHANGED <<buffers, folOnly>>
    /\ ring' = Collect(ring)
Again(f) == Resume(f, [fol[f] EXCEPT !.pc = "lookup", !.signal = 0, !.buf = NULL],
                   sent[f])

FollowWake(f) ==
    /\ fol[f].pc = "select" /\ fol[f].signal = 1
    /\ Again(f)

\* Variant: after the keepalive the follower goes back to its subscription.
FollowTimeoutWaits(f) ==
    /\ fol[f].pc = "select"
    /\ IF fol[f].query.kind = "sse" THEN UNCHANGED vars ELSE Again(f)

\* The timer: a keepalive is written and the loop starts over.
FollowTimeout(f) ==
    /\ fol[f].pc = "select"
    /\ Again(f)

\* A GET that does not follow: the lookup registers a ring, the rest only reads.
SnapshotOnce(n) ==
    /\ buffers[n] = NULL
    /\ Lookup(n)
    /\ UNCHANGED <<ring, waiters, fol, sent, folOnly>>

\* The client has gone: r.Context().Done().  It may come back later.
FollowCancel(f) ==
    /\ fol[f].pc = "select"
    /\ Resume(f, Quiet, <<>>)

Tick ==
    /\ now < MaxTime
    /\ now' = now + 1
    /\ UNCHANGED <<buffers, ring, waiters, post, fol, sent, newest, late, purged>>

-----------------------------------------------------------------------------

FollowStep(f) ==
    \/ \E n \in Names, y \in Queries : FollowStart(f, n, y)
    \/ FollowLookup(f) \/ FollowRead(f) \/ FollowWrite(f) \/ FollowFlush(f)
    \/ FollowSubscribe(f) \/ FollowEnlist(f)
    \/ FollowWake(f) \/ FollowTimeout(f) \/ FollowCancel(f)

Next ==
    \/ \E q \in Posts : \/ \E n \in Names, lines \in Batches : PostStart(q, n, lines)
                        \/ PostAppend(q)
    \/ \E f \in Followers : FollowStep(f)
    \/ \E n \in Names : SnapshotOnce(n) \/ RemoveRing(n)
    \/ Tick

Spec == Init /\ [][Next]_vars

\* A runnable goroutine runs and the timer of the select fires.  Nothing is owed
\* by the senders, by the clients that follow or by an operator who deletes.
FairSpec ==
    /\ Spec
    /\ \A f \in Followers :
          /\ WF_vars(FollowLookup(f)) /\ WF_vars(FollowRead(f))
          /\ WF_vars(FollowWrite(f)) /\ WF_vars(FollowFlush(f))
          /\ WF_vars(FollowSubscribe(f)) /\ WF_vars(FollowEnlist(f))
          /\ WF_vars(FollowWake(f) \/ FollowTimeout(f))

-----------------------------------------------------------------------------

Following(f) == fol[f].pc # "idle"
Current(f) == IF Following(f) /\ buffers[fol[f].name] # NULL
              THEN ToSet(ring[buffers[fol[f].name]]) ELSE {}

\* A follower is sent no line twice and none out of order, also when rings are
\* cut, removed and created again under its cursor; the cursor of the follow
\* loops relies on every line having a time.
SentInOrder ==
    \A f \in Followers : \A i, j \in DOMAIN sent[f] :
        i < j => sent[f][i].ts < sent[f][j].ts

\* The cursor skips nothing silently: a line still in the ring that is not
\* newer than the cursor was sent, or was overtaken by a line of the same or a
\* later time.
NoSilentGap ==
    \A f \in Followers : \A ln \in Current(f) :
        Accepts(f, ln) /\ ln.ts > fol[f].query.since /\ ln.ts <= fol[f].cursor
        => ln \in ToSet(sent[f]) \/ ln.id \in late

\* A follower that blocks on its subscription with no signal in the channel is
\* on the list of the buffer it subscribed to, so the next append wakes it.
BlockedIsEnlisted ==
    \A f \in Followers :
        fol[f].pc = "select" /\ fol[f].query.kind = "sse" /\ fol[f].signal = 0
        => f \in waiters[fol[f].buf]

\* A follow request made after a sandbox was deleted is never sent lines that
\* were buffered before (Remove "drops the ring buffer for a sandbox"), even
\* while requests that hold the old ring are still running.
PurgedIsNotSent ==
    \A f \in Followers : \A i \in DOMAIN sent[f] : sent[f][i].id \notin fol[f].old

\* A line newer than the cursor reaches the follower, unless it is cut from the
\* ring or removed or the client leaves: a line appended between the snapshot
\* and the subscription is picked up by the timer.
EventuallySent ==
    \A f \in Followers, id \in Ids :
        (/\ id \notin late
         /\ \E ln \in Current(f) : /\ ln.id = id /\ ln.ts > fol[f].cursor
                                   /\ Accepts(f, ln))
        ~> \/ \E ln \in ToSet(sent[f]) : ln.id = id
           \/ id \in late
           \/ \A ln \in Current(f) : ln.id # id
=============================================================================
