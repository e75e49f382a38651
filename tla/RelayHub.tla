------------------------------ MODULE RelayHub ------------------------------
(***************************************************************************)
(* The supervisor relay of internal/sshrelay/hub.go.                       *)
(*                                                                         *)
(* Three kinds of goroutine share Hub under one mutex: ServeSupervisor     *)
(* (one control stream), OpenChannel (one client waiting for a data        *)
(* stream) and ServeRelay (one data stream dialled back).  Every section   *)
(* under h.mu, every blocking select and every call made after an unlock   *)
(* is one action; the local variables of a call are its frame.             *)
(*                                                                         *)
(* Abstractions.  A channel id is the OpenChannel call that drew it        *)
(* (newChannelID draws 128 random bits).  session.close closes s.done and  *)
(* s.conn in one step.  Time is counted in ticks of KeepaliveInterval.     *)
(***************************************************************************)
EXTENDS Naturals, FiniteSets

CONSTANTS
    Sandboxes,       \* sandbox names
    Supervisors,     \* calls of ServeSupervisor; also the session each makes
    Openers,         \* calls of OpenChannel; also the channel id each draws
    Relays,          \* calls of ServeRelay; also the data stream each accepts
    KeepaliveTicks,  \* KeepaliveTimeout in units of KeepaliveInterval
    NULL             \* the nil pointer

ASSUME HubAssumption ==
    /\ KeepaliveTicks \in Nat \ {0}
    /\ NULL \notin Sandboxes \cup Supervisors \cup Openers \cup Relays

VARIABLES
    sessions,   \* h.sessions: sandbox -> session or NULL
    pending,    \* h.pending: channel id -> sandbox it is for, or NULL
    sup,        \* frame and session of each ServeSupervisor call
    closed,     \* sessions on which close has been called
    dropping,   \* sessions held by Disconnect calls between unlock and close
    opn,        \* frame of each OpenChannel call
    ready,      \* pending.ready, a channel of capacity one: data stream or NULL
    told,       \* channel ids some supervisor has received in a MsgOpen
    rel         \* frame of each ServeRelay call and the state of its stream

vars == <<sessions, pending, sup, closed, dropping, opn, ready, told, rel>>

SupPC == {"idle", "accepted", "registered", "serving", "leaving",
          "unregistered", "done"}
OpnPC == {"idle", "writing", "waiting", "cleanup", "draining", "done"}
RelPC == {"idle", "claimed", "accepted", "done", "failed", "unknown"}
Results == {"none", "stream", "ErrNotConnected", "ErrOpenTimeout", "cancelled"}

SupFrame == [pc : SupPC, sandbox : Sandboxes \cup {NULL},
             prev : Supervisors \cup {NULL}, seen : {0, 1},
             age : 0..KeepaliveTicks, peer : {"alive", "silent", "gone"}]
OpnFrame == [pc : OpnPC, sandbox : Sandboxes \cup {NULL},
             sess : Supervisors \cup {NULL}, result : Results,
             stream : Relays \cup {NULL}]
RelFrame == [pc : RelPC, sandbox : Sandboxes \cup {NULL},
             chan : Openers \cup {NULL}, conn : {"none", "open", "closed"}]

\* The shared maps, the frames and the channels have the shapes of hub.go.
TypeOK ==
    /\ sessions \in [Sandboxes -> Supervisors \cup {NULL}]
    /\ pending \in [Openers -> Sandboxes \cup {NULL}]
    /\ sup \in [Supervisors -> SupFrame]
    /\ closed \in SUBSET Supervisors
    /\ dropping \in SUBSET Supervisors
    /\ opn \in [Openers -> OpnFrame]
    /\ ready \in [Openers -> Relays \cup {NULL}]
    /\ told \in SUBSET Openers
    /\ rel \in [Relays -> RelFrame]

\* NewHub: empty maps; no call has been made.
Init ==
    /\ sessions = [sb \in Sandboxes |-> NULL]
    /\ pending = [o \in Openers |-> NULL]
    /\ sup = [s \in Supervisors |->
                [pc |-> "idle", sandbox |-> NULL, prev |-> NULL,
                 seen |-> 0, age |-> 0, peer |-> "alive"]]
    /\ closed = {}
    /\ dropping = {}
    /\ opn = [o \in Openers |->
                [pc |-> "idle", sandbox |-> NULL, sess |-> NULL,
                 result |-> "none", stream |-> NULL]]
    /\ ready = [o \in Openers |-> NULL]
    /\ told = {}
    /\ rel = [r \in Relays |->
                [pc |-> "idle", sandbox |-> NULL, chan |-> NULL, conn |-> "none"]]

-----------------------------------------------------------------------------
(* ServeSupervisor.                                                        *)

supOnly == <<pending, dropping, opn, ready, told, rel>>

\* relayproto.Accept upgraded the request and the session object exists; a
\* failed Accept returns with nothing changed.
SupervisorAccept(s, sb) ==
    /\ sup[s].pc = "idle"
    /\ sup' = [sup EXCEPT ![s].pc = "accepted", ![s].sandbox = sb]
    /\ UNCHANGED <<sessions, closed, supOnly>>

\* The locked section that replaces whatever session the sandbox had.
Register(s) ==
    /\ sup[s].pc = "accepted"
    /\ sup' = [sup EXCEPT ![s].pc = "registered",
                          ![s].prev = sessions[sup[s].sandbox]]
    /\ sessions' = [sessions EXCEPT ![sup[s].sandbox] = s]
    /\ UNCHANGED <<closed, supOnly>>

\* prev.close() after the unlock; the reader and the keepalive loop start.
ClosePrev(s) ==
    /\ sup[s].pc = "registered"
    /\ sup' = [sup EXCEPT ![s].pc = "serving", ![s].prev = NULL]
    /\ closed' = closed \cup ({sup[s].prev} \ {NULL})
    /\ UNCHANGED <<sessions, supOnly>>

\* The reader goroutine got a pong or a hello: a non-blocking send on seen.
ReaderSees(s) ==
    /\ sup[s].pc = "serving" /\ s \notin closed /\ sup[s].peer = "alive"
    /\ sup' = [sup EXCEPT ![s].seen = 1]
    /\ UNCHANGED <<sessions, closed, supOnly>>

\* The reader goroutine's Read failed because the peer went away.
ReaderFails(s) ==
    /\ sup[s].pc \in {"serving", "leaving", "unregistered"}
    /\ s \notin closed /\ sup[s].peer = "gone"
    /\ closed' = closed \cup {s}
    /\ UNCHANGED <<sessions, sup, supOnly>>

\* Returning from the loop: its local variables are gone.
Leave(s) == sup' = [sup EXCEPT ![s].pc = "leaving", ![s].seen = 0, ![s].age = 0]

\* case <-s.done, and case <-r.Context().Done() when the server stops.
LoopDone(s) ==
    /\ sup[s].pc = "serving" /\ s \in closed
    /\ Leave(s)
    /\ UNCHANGED <<sessions, closed, supOnly>>

LoopCancelled(s) ==
    /\ sup[s].pc = "serving"
    /\ Leave(s)
    /\ UNCHANGED <<sessions, closed, supOnly>>

\* case <-seen: last = now.
LoopSeen(s) ==
    /\ sup[s].pc = "serving" /\ sup[s].seen = 1
    /\ sup' = [sup EXCEPT ![s].seen = 0, ![s].age = 0]
    /\ UNCHANGED <<sessions, closed, supOnly>>

\* case <-tick.C with the peer silent for longer than KeepaliveTimeout.
KeepaliveTimeout(s) ==
    /\ sup[s].pc = "serving" /\ sup[s].age = KeepaliveTicks
    /\ Leave(s)
    /\ UNCHANGED <<sessions, closed, supOnly>>

\* Variant: a ping that could be written counts as a sign of life.
PingResetsAge(s) ==
    /\ sup[s].pc = "serving" /\ sup[s].age < KeepaliveTicks /\ s \notin closed
    /\ sup' = [sup EXCEPT ![s].age = 0]
    /\ UNCHANGED <<sessions, closed, supOnly>>

\* Variant: one tick too many is allowed.
PingOnceMore(s) ==
    /\ sup[s].pc = "serving" /\ sup[s].age <= KeepaliveTicks /\ s \notin closed
    /\ sup' = [sup EXCEPT ![s].age = @ + 1]
    /\ UNCHANGED <<sessions, closed, supOnly>>

\* case <-tick.C otherwise: a ping is written.
Ping(s) ==
    /\ sup[s].pc = "serving" /\ sup[s].age < KeepaliveTicks /\ s \notin closed
    /\ sup' = [sup EXCEPT ![s].age = @ + 1]
    /\ UNCHANGED <<sessions, closed, supOnly>>

\* ... or the write fails and the loop returns.
PingFails(s) ==
    /\ sup[s].pc = "serving" /\ sup[s].age < KeepaliveTicks
    /\ s \in closed \/ sup[s].peer = "gone"
    /\ Leave(s)
    /\ UNCHANGED <<sessions, closed, supOnly>>

\* Variant: the deferred function deletes whatever session is registered.
UnregisterAlways(s) ==
    /\ sup[s].pc = "leaving"
    /\ sup' = [sup EXCEPT ![s].pc = "unregistered"]
    /\ sessions' = [sessions EXCEPT ![sup[s].sandbox] = NULL]
    /\ UNCHANGED <<closed, supOnly>>

\* Variant: the deferred function leaves the map alone.
UnregisterNever(s) ==
    /\ sup[s].pc = "leaving"
    /\ sup' = [sup EXCEPT ![s].pc = "unregistered"]
    /\ UNCHANGED <<sessions, closed, supOnly>>

\* Variant: the deferred function returns early, with the lock held and the
\* handler stuck, when another session has taken the entry.
UnregisterStuck(s) ==
    /\ sup[s].pc = "leaving" /\ sessions[sup[s].sandbox] = s
    /\ sup' = [sup EXCEPT ![s].pc = "unregistered"]
    /\ sessions' = [sessions EXCEPT ![sup[s].sandbox] = NULL]
    /\ UNCHANGED <<closed, supOnly>>

\* The deferred function: delete the entry only if it is still this session.
Unregister(s) ==
    /\ sup[s].pc = "leaving"
    /\ sup' = [sup EXCEPT ![s].pc = "unregistered"]
    /\ sessions' = [sessions EXCEPT
                      ![sup[s].sandbox] = IF @ = s THEN NULL ELSE @]
    /\ UNCHANGED <<closed, supOnly>>

CloseSelf(s) ==
    /\ sup[s].pc = "unregistered"
    /\ sup' = [sup EXCEPT ![s].pc = "done"]
    /\ closed' = closed \cup {s}
    /\ UNCHANGED <<sessions, supOnly>>

\* The supervisor process on the other end (external): it may stop answering
\* with the connection up, or go away.
PeerFails(s) ==
    /\ sup[s].pc \notin {"idle", "done"}
    /\ \/ /\ sup[s].peer = "alive"
          /\ sup' = [sup EXCEPT ![s].peer = "silent"]
       \/ /\ sup[s].peer # "gone"
          /\ sup' = [sup EXCEPT ![s].peer = "gone"]
    /\ UNCHANGED <<sessions, closed, supOnly>>

-----------------------------------------------------------------------------
(* Disconnect: called when a sandbox is deleted or its token is rotated.   *)

DisconnectLock(sb) ==
    /\ sessions[sb] # NULL
    /\ dropping' = dropping \cup {sessions[sb]}
    /\ sessions' = [sessions EXCEPT ![sb] = NULL]
    /\ UNCHANGED <<pending, sup, closed, opn, ready, told, rel>>

DisconnectClose(s) ==
    /\ s \in dropping
    /\ dropping' = dropping \ {s}
    /\ closed' = closed \cup {s}
    /\ UNCHANGED <<sessions, pending, sup, opn, ready, told, rel>>

-----------------------------------------------------------------------------
(* OpenChannel.                                                            *)

opnOnly == <<sessions, sup, dropping, rel>>

\* No session for the sandbox: ErrNotConnected at once.
OpenRefused(o, sb) ==
    /\ opn[o].pc = "idle" /\ sessions[sb] = NULL
    /\ opn' = [opn EXCEPT ![o].pc = "done", ![o].sandbox = sb,
                          ![o].result = "ErrNotConnected"]
    /\ UNCHANGED <<pending, closed, ready, told, opnOnly>>

\* The locked section that files the channel under a fresh id.
OpenFile(o, sb) ==
    /\ opn[o].pc = "idle" /\ sessions[sb] # NULL
    /\ opn' = [opn EXCEPT ![o].pc = "writing", ![o].sandbox = sb,
                          ![o].sess = sessions[sb]]
    /\ pending' = [pending EXCEPT ![o] = sb]
    /\ UNCHANGED <<closed, ready, told, opnOnly>>

\* MsgOpen is written; a peer that has gone never reads it.
OpenWrite(o) ==
    /\ opn[o].pc = "writing" /\ opn[o].sess \notin closed
    /\ opn' = [opn EXCEPT ![o].pc = "waiting"]
    /\ told' = IF sup[opn[o].sess].peer = "gone" THEN told ELSE told \cup {o}
    /\ UNCHANGED <<pending, closed, ready, opnOnly>>

\* ... or the write fails: the session is closed and the call gives up.
OpenWriteFails(o) ==
    /\ opn[o].pc = "writing"
    /\ opn[o].sess \in closed \/ sup[opn[o].sess].peer = "gone"
    /\ closed' = closed \cup {opn[o].sess}
    /\ opn' = [opn EXCEPT ![o].pc = "cleanup", ![o].result = "ErrNotConnected"]
    /\ UNCHANGED <<pending, ready, told, opnOnly>>

\* case c := <-p.ready: the stream is delivered.
OpenReceive(o) ==
    /\ opn[o].pc = "waiting" /\ ready[o] # NULL
    /\ opn' = [opn EXCEPT ![o].pc = "cleanup", ![o].result = "stream",
                          ![o].stream = ready[o]]
    /\ ready' = [ready EXCEPT ![o] = NULL]
    /\ UNCHANGED <<pending, closed, told, opnOnly>>

\* Variant: the timer is not one of the cases.
OpenGiveUpUntimed(o, err) ==
    /\ opn[o].pc = "waiting" /\ err # "ErrOpenTimeout"
    /\ err = "ErrNotConnected" => opn[o].sess \in closed
    /\ opn' = [opn EXCEPT ![o].pc = "cleanup", ![o].result = err]
    /\ UNCHANGED <<pending, closed, ready, told, opnOnly>>

\* The other cases of the select; the caller's context may end at any time.
OpenGiveUp(o, err) ==
    /\ opn[o].pc = "waiting"
    /\ err = "ErrNotConnected" => opn[o].sess \in closed
    /\ opn' = [opn EXCEPT ![o].pc = "cleanup", ![o].result = err]
    /\ UNCHANGED <<pending, closed, ready, told, opnOnly>>

\* Variant: the deferred function does not delete the pending entry.
OpenForgetSkipped(o) ==
    /\ opn[o].pc = "cleanup"
    /\ opn' = [opn EXCEPT ![o].pc = "draining"]
    /\ UNCHANGED <<pending, closed, ready, told, opnOnly>>

\* The deferred function: delete(h.pending, id) under the lock ...
OpenForget(o) ==
    /\ opn[o].pc = "cleanup"
    /\ opn' = [opn EXCEPT ![o].pc = "draining"]
    /\ pending' = [pending EXCEPT ![o] = NULL]
    /\ UNCHANGED <<closed, ready, told, opnOnly>>

\* Variant: a stream that came too late is delivered after all.
OpenDrainDelivers(o) ==
    /\ opn[o].pc = "draining"
    /\ LET late == opn[o].result # "stream" /\ ready[o] # NULL
       IN  /\ opn' = [opn EXCEPT ![o].pc = "done",
                                 ![o].result = IF late THEN "stream" ELSE @,
                                 ![o].stream = IF late THEN ready[o] ELSE @]
           /\ ready' = IF late THEN [ready EXCEPT ![o] = NULL] ELSE ready
    /\ UNCHANGED <<sessions, pending, sup, closed, dropping, told, rel>>

\* ... then, if nothing was delivered, close a stream left in ready.
OpenDrain(o) ==
    /\ opn[o].pc = "draining"
    /\ opn' = [opn EXCEPT ![o].pc = "done"]
    /\ LET left == opn[o].result # "stream" /\ ready[o] # NULL
       IN  /\ rel' = IF left THEN [rel EXCEPT ![ready[o]].conn = "closed"] ELSE rel
           /\ ready' = IF left THEN [ready EXCEPT ![o] = NULL] ELSE ready
    /\ UNCHANGED <<sessions, pending, sup, closed, dropping, told>>

\* The caller is done with the stream it was given: the client upgrade failed,
\* the bridge ended, or exec returned.
CallerClose(o) ==
    /\ opn[o].pc = "done" /\ opn[o].stream # NULL
    /\ rel[opn[o].stream].conn = "open"
    /\ rel' = [rel EXCEPT ![opn[o].stream].conn = "closed"]
    /\ UNCHANGED <<sessions, pending, sup, closed, dropping, opn, ready, told>>

-----------------------------------------------------------------------------
(* ServeRelay.                                                             *)

relOnly == <<sessions, sup, closed, dropping, opn, told>>

\* Variant: the channel's sandbox is not compared.
RelayClaimAnySandbox(r, sb, c) ==
    /\ rel[r].pc = "idle" /\ c \in told /\ pending[c] # NULL
    /\ rel' = [rel EXCEPT ![r].pc = "claimed", ![r].sandbox = sb, ![r].chan = c]
    /\ pending' = [pending EXCEPT ![c] = NULL]
    /\ UNCHANGED <<ready, relOnly>>

\* Variant: the claimed entry stays in h.pending.
RelayClaimKeepsEntry(r, sb, c) ==
    /\ rel[r].pc = "idle" /\ c \in told /\ pending[c] = sb
    /\ rel' = [rel EXCEPT ![r].pc = "claimed", ![r].sandbox = sb, ![r].chan = c]
    /\ UNCHANGED <<pending, ready, relOnly>>

\* The locked section: the entry is taken out by the data stream of its sandbox.
RelayClaim(r, sb, c) ==
    /\ rel[r].pc = "idle" /\ c \in told /\ pending[c] = sb
    /\ rel' = [rel EXCEPT ![r].pc = "claimed", ![r].sandbox = sb, ![r].chan = c]
    /\ pending' = [pending EXCEPT ![c] = NULL]
    /\ UNCHANGED <<ready, relOnly>>

\* 404: no such entry, or it belongs to another sandbox.
RelayUnknown(r, sb, c) ==
    /\ rel[r].pc = "idle" /\ c \in told /\ pending[c] # sb
    /\ rel' = [rel EXCEPT ![r].pc = "unknown", ![r].sandbox = sb, ![r].chan = c]
    /\ UNCHANGED <<pending, ready, relOnly>>

\* relayproto.Accept upgrades the request, or fails and the claim is lost.
RelayAccept(r) ==
    /\ rel[r].pc = "claimed"
    /\ \/ rel' = [rel EXCEPT ![r].pc = "accepted", ![r].conn = "open"]
       \/ rel' = [rel EXCEPT ![r].pc = "failed"]
    /\ UNCHANGED <<pending, ready, relOnly>>

\* The non-blocking send on p.ready; a full channel closes the stream.
RelayHandOff(r) ==
    /\ rel[r].pc = "accepted"
    /\ LET c == rel[r].chan
           full == ready[c] # NULL
       IN  /\ ready' = [ready EXCEPT ![c] = IF full THEN @ ELSE r]
           /\ rel' = [rel EXCEPT ![r].pc = "done",
                                 ![r].conn = IF full THEN "closed" ELSE @]
    /\ UNCHANGED <<pending, relOnly>>

-----------------------------------------------------------------------------

GiveUps == {"ErrNotConnected", "ErrOpenTimeout", "cancelled"}

SupervisorStep(s) ==
    \/ \E sb \in Sandboxes : SupervisorAccept(s, sb)
    \/ Register(s) \/ ClosePrev(s)
    \/ ReaderSees(s) \/ ReaderFails(s)
    \/ LoopDone(s) \/ LoopCancelled(s) \/ LoopSeen(s)
    \/ KeepaliveTimeout(s) \/ Ping(s) \/ PingFails(s)
    \/ Unregister(s) \/ CloseSelf(s) \/ PeerFails(s)

OpenerStep(o) ==
    \/ \E sb \in Sandboxes : OpenRefused(o, sb) \/ OpenFile(o, sb)
    \/ OpenWrite(o) \/ OpenWriteFails(o) \/ OpenReceive(o)
    \/ \E err \in GiveUps : OpenGiveUp(o, err)
    \/ OpenForget(o) \/ OpenDrain(o) \/ CallerClose(o)

RelayStep(r) ==
    \/ \E sb \in Sandboxes, c \in Openers :
          RelayClaim(r, sb, c) \/ RelayUnknown(r, sb, c)
    \/ RelayAccept(r) \/ RelayHandOff(r)

Next ==
    \/ \E s \in Supervisors : SupervisorStep(s) \/ DisconnectClose(s)
    \/ \E sb \in Sandboxes : DisconnectLock(sb)
    \/ \E o \in Openers : OpenerStep(o)
    \/ \E r \in Relays : RelayStep(r)

Spec == Init /\ [][Next]_vars

\* The Go scheduler runs every runnable goroutine, tickers and timers fire, and
\* a failed connection makes Read return.  Nothing is owed by peers, by callers
\* or by relayproto.Accept.
Fairness ==
    /\ \A s \in Supervisors :
          /\ WF_vars(Register(s)) /\ WF_vars(ClosePrev(s))
          /\ WF_vars(ReaderFails(s)) /\ WF_vars(LoopDone(s))
          /\ WF_vars(LoopSeen(s))
          /\ WF_vars(KeepaliveTimeout(s) \/ Ping(s) \/ PingFails(s))
          /\ WF_vars(Unregister(s)) /\ WF_vars(CloseSelf(s))
          /\ WF_vars(DisconnectClose(s))
    /\ \A o \in Openers :
          /\ WF_vars(OpenWrite(o) \/ OpenWriteFails(o))
          /\ WF_vars(OpenReceive(o) \/ OpenGiveUp(o, "ErrNotConnected")
                                    \/ OpenGiveUp(o, "ErrOpenTimeout"))
          /\ WF_vars(OpenForget(o)) /\ WF_vars(OpenDrain(o))
    /\ \A r \in Relays : WF_vars(RelayHandOff(r))

FairSpec == Spec /\ Fairness

-----------------------------------------------------------------------------
(* Safety.                                                                 *)

\* A client gets the stream that was dialled back for its own channel, by the
\* supervisor of the sandbox it asked for, and gets it open (ServeRelay: "The
\* channel must belong to sandbox").
StreamMatchesRequest ==
    \A o \in Openers : opn[o].stream # NULL =>
        /\ rel[opn[o].stream].chan = o
        /\ rel[opn[o].stream].sandbox = opn[o].sandbox
        /\ opn[o].pc # "done" => rel[opn[o].stream].conn = "open"

\* A channel id is claimed by at most one data stream, so the send on p.ready
\* never finds the channel full and no client's stream is displaced.
Holding(r) == rel[r].pc \in {"claimed", "accepted", "done", "failed"}

OneClaimPerChannel ==
    \A r1, r2 \in Relays :
        Holding(r1) /\ Holding(r2) /\ rel[r1].chan = rel[r2].chan => r1 = r2

\* h.pending holds an id only while its OpenChannel call is running, under the
\* sandbox of that call: a long sequence of timeouts leaves nothing behind.
NoPendingLeak ==
    \A o \in Openers : pending[o] # NULL =>
        /\ opn[o].pc \in {"writing", "waiting", "cleanup"}
        /\ pending[o] = opn[o].sandbox

\* h.sessions never names a session whose ServeSupervisor has left: Connected
\* is not answered on behalf of a stream nobody serves.
RegisteredIsServed ==
    \A sb \in Sandboxes : sessions[sb] # NULL =>
        /\ sup[sessions[sb]].sandbox = sb
        /\ sup[sessions[sb]].pc \in {"registered", "serving", "leaving"}

\* A session that is being replaced or disconnected and will be closed.
Doomed(s) ==
    \/ s \in dropping
    \/ \E t \in Supervisors : sup[t].pc = "registered" /\ sup[t].prev = s

\* A reconnecting supervisor is never unregistered by the cleanup of the stream
\* it replaced: a control stream that is up and not about to be closed is the
\* registered one.
LiveIsRegistered ==
    \A s \in Supervisors :
        sup[s].pc \in {"registered", "serving"} /\ s \notin closed /\ ~Doomed(s)
        => sessions[sup[s].sandbox] = s

\* ServeRelay: it "hands [the stream] to the waiting OpenChannel caller".  A
\* stream that was accepted is therefore never left open in the ready channel
\* of a call that has returned, where nothing can receive or close it.
NoOrphanStream ==
    \A o \in Openers : opn[o].pc = "done" => ready[o] = NULL

-----------------------------------------------------------------------------
(* Liveness, under Fairness.                                               *)

\* OpenChannel returns whatever the supervisor does.
OpenChannelReturns ==
    \A o \in Openers : opn[o].pc # "idle" ~> opn[o].pc = "done"

\* A supervisor that stopped answering or went away is dropped by the keepalive
\* loop and its session closed.
DeadSupervisorDropped ==
    \A s \in Supervisors :
        sup[s].pc = "serving" /\ sup[s].peer # "alive" ~> sup[s].pc = "done"

\* A stream that was replaced or disconnected is eventually closed and its
\* ServeSupervisor returns.
SupersededReturns ==
    \A s \in Supervisors :
        sup[s].pc = "serving" /\ sessions[sup[s].sandbox] # s
        ~> sup[s].pc = "done" /\ s \in closed
-----------------------------------------------------------------------------
(* The promise to callers.                                                 *)

\* A call that gives up has answered once its entry is out of h.pending: until
\* then a data stream may still claim it.
Answer(o) ==
    IF opn[o].pc = "idle" THEN "none"
    ELSE IF opn[o].result = "stream" THEN "joined"
    ELSE IF opn[o].pc \in {"draining", "done"} THEN "refused" ELSE "open"

Broker == INSTANCE ChannelBroker WITH
    state <- [o \in Openers |-> Answer(o)],
    asked <- [o \in Openers |-> opn[o].sandbox],
    given <- [o \in Openers |-> opn[o].stream],
    offer <- [r \in Relays |-> IF Holding(r) THEN rel[r].chan ELSE NULL],
    by <- [r \in Relays |-> IF Holding(r) THEN rel[r].sandbox ELSE NULL]

\* OpenChannel and ServeRelay implement ChannelBroker: whatever supervisors,
\* timeouts and disconnects do, each request is answered once, finally, and with
\* the one stream its own sandbox offered for it.
ImplementsBroker == Broker!Spec
=============================================================================
