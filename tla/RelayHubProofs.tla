--------------------------- MODULE RelayHubProofs ---------------------------
(***************************************************************************)
(* Proofs about RelayHub for any number of sandboxes, supervisors, clients *)
(* and data streams.                                                       *)
(***************************************************************************)
EXTENDS RelayHub, TLAPS

\* The parameters of a call that has started are set: no step dereferences nil.
CallsBound ==
    /\ \A s \in Supervisors : sup[s].pc # "idle" => sup[s].sandbox \in Sandboxes
    /\ \A o \in Openers : opn[o].pc \in {"writing", "waiting"} =>
                             opn[o].sess \in Supervisors
    /\ \A r \in Relays : rel[r].pc # "idle" => rel[r].chan \in Openers

TypeInv == TypeOK /\ CallsBound

\* NewHub starts in the shapes TypeOK describes.
LEMMA TypeInit == Init => TypeInv
  BY HubAssumption DEF Init, TypeInv, TypeOK, CallsBound, SupFrame, OpnFrame,
     RelFrame, SupPC, OpnPC, RelPC, Results

\* The steps of ServeSupervisor, its reader and its peer keep TypeOK.
LEMMA TypeSupervisor ==
    ASSUME TypeInv, NEW s \in Supervisors, SupervisorStep(s)
    PROVE  TypeOK'
  <1>1. ASSUME NEW sb \in Sandboxes, SupervisorAccept(s, sb)
        PROVE  TypeOK'
    <2> DEFINE f == [sup[s] EXCEPT !.pc = "accepted", !.sandbox = sb]
    <2>1. sup \in [Supervisors -> SupFrame]
      BY DEF TypeInv, TypeOK
    <2>2. f \in SupFrame
      BY ZenonT(30), <1>1, <2>1, HubAssumption DEF SupFrame, SupPC
    <2>3. sup' = [sup EXCEPT ![s] = f]
      BY <1>1 DEF SupervisorAccept
    <2> HIDE DEF f
    <2> QED
      BY <1>1, <2>1, <2>2, <2>3 DEF TypeInv, TypeOK, SupervisorAccept, supOnly
  <1>2. CASE Register(s)
    <2> DEFINE f == [sup[s] EXCEPT !.pc = "registered",
                                   !.prev = sessions[sup[s].sandbox]]
    <2>1. sup \in [Supervisors -> SupFrame]
      BY DEF TypeInv, TypeOK
    <2>2. f \in SupFrame
      BY ZenonT(30), <1>2, <2>1, HubAssumption
         DEF TypeInv, TypeOK, CallsBound, SupFrame, SupPC, Register
    <2>3. sup' = [sup EXCEPT ![s] = f]
      BY <1>2 DEF Register
    <2> HIDE DEF f
    <2> QED
      BY <1>2, <2>1, <2>2, <2>3 DEF TypeInv, TypeOK, Register, supOnly
  <1>3. CASE ClosePrev(s)
    <2> DEFINE f == [sup[s] EXCEPT !.pc = "serving", !.prev = NULL]
    <2>1. sup \in [Supervisors -> SupFrame]
      BY DEF TypeInv, TypeOK
    <2>2. f \in SupFrame
      BY ZenonT(30), <1>3, <2>1, HubAssumption DEF SupFrame, SupPC
    <2>3. sup' = [sup EXCEPT ![s] = f]
      BY <1>3 DEF ClosePrev
    <2>4. closed' \in SUBSET Supervisors
      BY <1>3, <2>1 DEF TypeInv, TypeOK, ClosePrev, SupFrame
    <2> HIDE DEF f
    <2> QED
      BY <1>3, <2>1, <2>2, <2>3, <2>4 DEF TypeInv, TypeOK, ClosePrev, supOnly
  <1>4. CASE ReaderSees(s) \/ ReaderFails(s)
    BY <1>4, HubAssumption DEF TypeInv, TypeOK, ReaderSees, ReaderFails, supOnly, SupFrame, SupPC
  <1>5. CASE LoopDone(s) \/ LoopCancelled(s) \/ KeepaliveTimeout(s) \/ PingFails(s)
    BY <1>5, HubAssumption DEF TypeInv, TypeOK, LoopDone, LoopCancelled, KeepaliveTimeout,
       PingFails, Leave, supOnly, SupFrame, SupPC
  <1>6. CASE LoopSeen(s) \/ Ping(s)
    BY <1>6, HubAssumption DEF TypeInv, TypeOK, LoopSeen, Ping, supOnly, SupFrame, SupPC
  <1>7. CASE Unregister(s)
    BY ZenonT(30), <1>7 DEF TypeInv, TypeOK, Unregister, supOnly, SupFrame, SupPC
  <1>8. CASE CloseSelf(s) \/ PeerFails(s)
    BY <1>8 DEF TypeInv, TypeOK, CloseSelf, PeerFails, supOnly, SupFrame, SupPC
  <1> QED
    BY <1>1, <1>2, <1>3, <1>4, <1>5, <1>6, <1>7, <1>8 DEF SupervisorStep

\* The steps of OpenChannel and its caller, and of Disconnect, keep TypeOK.
LEMMA TypeOpener ==
    ASSUME TypeInv, NEW o \in Openers, OpenerStep(o)
    PROVE  TypeOK'
  <1>1. ASSUME NEW sb \in Sandboxes, OpenRefused(o, sb)
        PROVE  TypeOK'
    <2> DEFINE f == [opn[o] EXCEPT !.pc = "done", !.sandbox = sb,
                                   !.result = "ErrNotConnected"]
    <2>1. opn \in [Openers -> OpnFrame]
      BY DEF TypeInv, TypeOK
    <2>2. f \in OpnFrame
      BY <1>1, <2>1 DEF OpnFrame, OpnPC, Results
    <2>3. opn' = [opn EXCEPT ![o] = f]
      BY <1>1 DEF OpenRefused
    <2> HIDE DEF f
    <2> QED
      BY ZenonT(30), <1>1, <2>1, <2>2, <2>3 DEF TypeInv, TypeOK, OpenRefused, opnOnly
  <1>2. ASSUME NEW sb \in Sandboxes, OpenFile(o, sb)
        PROVE  TypeOK'
    <2> DEFINE f == [opn[o] EXCEPT !.pc = "writing", !.sandbox = sb,
                                   !.sess = sessions[sb]]
    <2>1. opn \in [Openers -> OpnFrame]
      BY DEF TypeInv, TypeOK
    <2>2. f \in OpnFrame
      BY <1>2, <2>1 DEF OpnFrame, OpnPC, TypeInv, TypeOK
    <2>3. opn' = [opn EXCEPT ![o] = f]
      BY <1>2 DEF OpenFile
    <2> HIDE DEF f
    <2> QED
      BY ZenonT(30), <1>2, <2>1, <2>2, <2>3 DEF TypeInv, TypeOK, OpenFile, opnOnly
  <1>3. CASE OpenWrite(o)
    BY <1>3 DEF TypeInv, TypeOK, OpenWrite, opnOnly, OpnFrame, OpnPC
  <1>4. CASE OpenWriteFails(o)
    <2> DEFINE f == [opn[o] EXCEPT !.pc = "cleanup", !.result = "ErrNotConnected"]
    <2>1. opn \in [Openers -> OpnFrame]
      BY DEF TypeInv, TypeOK
    <2>2. f \in OpnFrame
      BY <1>4, <2>1 DEF OpnFrame, OpnPC, Results
    <2>3. opn' = [opn EXCEPT ![o] = f]
      BY <1>4 DEF OpenWriteFails
    <2> HIDE DEF f
    <2> QED
      BY ZenonT(30), <1>4, <2>1, <2>2, <2>3 DEF TypeInv, TypeOK, CallsBound,
         OpenWriteFails, opnOnly
  <1>5. CASE OpenReceive(o)
    <2> DEFINE f == [opn[o] EXCEPT !.pc = "cleanup", !.result = "stream",
                                   !.stream = ready[o]]
    <2>1. opn \in [Openers -> OpnFrame]
      BY DEF TypeInv, TypeOK
    <2>2. f \in OpnFrame
      BY ZenonT(30), <1>5, <2>1 DEF OpnFrame, OpnPC, Results, TypeInv, TypeOK
    <2>3. opn' = [opn EXCEPT ![o] = f]
      BY <1>5 DEF OpenReceive
    <2> HIDE DEF f
    <2> QED
      BY ZenonT(30), <1>5, <2>1, <2>2, <2>3 DEF TypeInv, TypeOK, OpenReceive, opnOnly
  <1>6. ASSUME NEW err \in GiveUps, OpenGiveUp(o, err)
        PROVE  TypeOK'
    <2> DEFINE f == [opn[o] EXCEPT !.pc = "cleanup", !.result = err]
    <2>1. opn \in [Openers -> OpnFrame]
      BY DEF TypeInv, TypeOK
    <2>2. f \in OpnFrame
      BY <1>6, <2>1 DEF OpnFrame, OpnPC, Results, GiveUps
    <2>3. opn' = [opn EXCEPT ![o] = f]
      BY <1>6 DEF OpenGiveUp
    <2> HIDE DEF f
    <2> QED
      BY <1>6, <2>1, <2>2, <2>3 DEF TypeInv, TypeOK, OpenGiveUp, opnOnly
  <1>7. CASE OpenForget(o)
    BY ZenonT(30), <1>7 DEF TypeInv, TypeOK, OpenForget, opnOnly, OpnFrame, OpnPC
  <1>8. CASE OpenDrain(o)
    <2>1. opn' \in [Openers -> OpnFrame]
      BY <1>8 DEF TypeInv, TypeOK, OpenDrain, OpnFrame, OpnPC
    <2>2. rel' \in [Relays -> RelFrame]
      BY <1>8 DEF TypeInv, TypeOK, OpenDrain, RelFrame
    <2>3. ready' \in [Openers -> Relays \cup {NULL}]
      BY <1>8 DEF TypeInv, TypeOK, OpenDrain
    <2> QED
      BY <1>8, <2>1, <2>2, <2>3 DEF TypeInv, TypeOK, OpenDrain
  <1>9. CASE CallerClose(o)
    BY <1>9 DEF TypeInv, TypeOK, CallerClose, OpnFrame, RelFrame
  <1> QED
    BY <1>1, <1>2, <1>3, <1>4, <1>5, <1>6, <1>7, <1>8, <1>9 DEF OpenerStep

\* The steps of ServeRelay keep TypeOK.
LEMMA TypeRelay ==
    ASSUME TypeInv, NEW r \in Relays, RelayStep(r)
    PROVE  TypeOK'
  <1>1. ASSUME NEW sb \in Sandboxes, NEW c \in Openers,
               RelayClaim(r, sb, c)
        PROVE  TypeOK'
    <2> DEFINE f == [rel[r] EXCEPT !.pc = "claimed", !.sandbox = sb, !.chan = c]
    <2>1. rel \in [Relays -> RelFrame]
      BY DEF TypeInv, TypeOK
    <2>2. f \in RelFrame
      BY <1>1, <2>1 DEF RelFrame, RelPC
    <2>3. rel' = [rel EXCEPT ![r] = f]
      BY <1>1 DEF RelayClaim
    <2> HIDE DEF f
    <2> QED
      BY ZenonT(30), <1>1, <2>1, <2>2, <2>3 DEF TypeInv, TypeOK, RelayClaim, relOnly
  <1>2. ASSUME NEW sb \in Sandboxes, NEW c \in Openers,
               RelayUnknown(r, sb, c)
        PROVE  TypeOK'
    <2> DEFINE f == [rel[r] EXCEPT !.pc = "unknown", !.sandbox = sb, !.chan = c]
    <2>1. rel \in [Relays -> RelFrame]
      BY DEF TypeInv, TypeOK
    <2>2. f \in RelFrame
      BY <1>2, <2>1 DEF RelFrame, RelPC
    <2>3. rel' = [rel EXCEPT ![r] = f]
      BY <1>2 DEF RelayUnknown
    <2> HIDE DEF f
    <2> QED
      BY ZenonT(30), <1>2, <2>1, <2>2, <2>3 DEF TypeInv, TypeOK, RelayUnknown, relOnly
  <1>3. CASE RelayAccept(r)
    BY <1>3 DEF TypeInv, TypeOK, RelayAccept, relOnly, RelFrame, RelPC
  <1>4. CASE RelayHandOff(r)
    <2> DEFINE f == [rel[r] EXCEPT !.pc = "done",
                       !.conn = IF ready[rel[r].chan] # NULL THEN "closed" ELSE @]
    <2>1. rel \in [Relays -> RelFrame] /\ rel[r].chan \in Openers
      BY <1>4 DEF TypeInv, TypeOK, CallsBound, RelayHandOff
    <2>2. f \in RelFrame
      BY <2>1 DEF RelFrame, RelPC
    <2>3. rel' = [rel EXCEPT ![r] = f]
      BY <1>4 DEF RelayHandOff
    <2>4. ready' \in [Openers -> Relays \cup {NULL}]
      BY <1>4, <2>1 DEF TypeInv, TypeOK, RelayHandOff
    <2> HIDE DEF f
    <2> QED
      BY ZenonT(30), <1>4, <2>1, <2>2, <2>3, <2>4 DEF TypeInv, TypeOK, RelayHandOff, relOnly
  <1> QED
    BY <1>1, <1>2, <1>3, <1>4 DEF RelayStep

\* Disconnect keeps TypeOK.
LEMMA TypeDisconnect ==
    ASSUME TypeInv,
           \/ \E sb \in Sandboxes : DisconnectLock(sb)
           \/ \E s \in Supervisors : DisconnectClose(s)
    PROVE  TypeOK'
  BY DEF TypeInv, TypeOK, DisconnectLock, DisconnectClose

\* Every step keeps the parameters of the running calls set.
LEMMA BoundStep ==
    ASSUME TypeInv, Next
    PROVE  CallsBound'
  <1> USE DEF TypeInv, TypeOK, CallsBound
  <1>1. ASSUME NEW s \in Supervisors, NEW sb \in Sandboxes, SupervisorAccept(s, sb)
        PROVE  CallsBound'
    BY <1>1 DEF SupervisorAccept, supOnly, SupFrame
  <1>2. ASSUME NEW s \in Supervisors,
               \/ Register(s) \/ ClosePrev(s) \/ ReaderSees(s) \/ ReaderFails(s)
               \/ LoopSeen(s) \/ Ping(s)
        PROVE  CallsBound'
    BY <1>2 DEF Register, ClosePrev, ReaderSees, ReaderFails, LoopSeen, Ping, supOnly, SupFrame
  <1>3. ASSUME NEW s \in Supervisors,
               LoopDone(s) \/ LoopCancelled(s) \/ KeepaliveTimeout(s) \/ PingFails(s)
        PROVE  CallsBound'
    BY <1>3 DEF LoopDone, LoopCancelled, KeepaliveTimeout, PingFails, Leave, supOnly, SupFrame
  <1>4. ASSUME NEW s \in Supervisors, Unregister(s) \/ CloseSelf(s) \/ PeerFails(s)
        PROVE  CallsBound'
    BY <1>4 DEF Unregister, CloseSelf, PeerFails, supOnly, SupFrame
  <1>5. ASSUME \/ \E sb \in Sandboxes : DisconnectLock(sb)
               \/ \E s \in Supervisors : DisconnectClose(s)
        PROVE  CallsBound'
    BY <1>5 DEF DisconnectLock, DisconnectClose
  <1>6. ASSUME NEW o \in Openers, NEW sb \in Sandboxes,
               OpenRefused(o, sb) \/ OpenFile(o, sb)
        PROVE  CallsBound'
    BY <1>6 DEF OpenRefused, OpenFile, opnOnly, OpnFrame
  <1>7. ASSUME NEW o \in Openers,
               OpenWrite(o) \/ OpenWriteFails(o) \/ OpenReceive(o) \/ OpenForget(o)
        PROVE  CallsBound'
    BY <1>7 DEF OpenWrite, OpenWriteFails, OpenReceive, OpenForget, opnOnly, OpnFrame
  <1>8. ASSUME NEW o \in Openers, NEW err \in GiveUps, OpenGiveUp(o, err)
        PROVE  CallsBound'
    BY <1>8 DEF OpenGiveUp, opnOnly, OpnFrame
  <1>9. ASSUME NEW o \in Openers, OpenDrain(o)
        PROVE  CallsBound'
    BY <1>9 DEF OpenDrain, OpnFrame, RelFrame
  <1>10. ASSUME NEW o \in Openers, CallerClose(o)
         PROVE  CallsBound'
    BY <1>10 DEF CallerClose, RelFrame
  <1>11. ASSUME NEW r \in Relays, NEW sb \in Sandboxes, NEW c \in Openers,
                RelayClaim(r, sb, c) \/ RelayUnknown(r, sb, c)
         PROVE  CallsBound'
    BY <1>11 DEF RelayClaim, RelayUnknown, relOnly, RelFrame
  <1>12. ASSUME NEW r \in Relays, RelayAccept(r)
         PROVE  CallsBound'
    BY <1>12 DEF RelayAccept, relOnly, RelFrame
  <1>13. ASSUME NEW r \in Relays, RelayHandOff(r)
         PROVE  CallsBound'
    BY <1>13 DEF RelayHandOff, relOnly, RelFrame
  <1> HIDE DEF TypeInv, TypeOK, CallsBound
  <1> QED
    BY <1>1, <1>2, <1>3, <1>4, <1>5, <1>6, <1>7, <1>8, <1>9, <1>10, <1>11, <1>12,
       <1>13 DEF Next, SupervisorStep, OpenerStep, RelayStep

-----------------------------------------------------------------------------
(* Pairing: which stream an OpenChannel call can be given.                 *)

\* A claim takes the channel out of h.pending, for the sandbox that filed it.
ClaimTakesEntry ==
    \A r \in Relays : Holding(r) =>
        /\ pending[rel[r].chan] = NULL
        /\ opn[rel[r].chan].pc # "idle"
        /\ rel[r].sandbox = opn[rel[r].chan].sandbox

\* What waits in a ready channel is an open stream that claimed that channel.
ReadyIsOpen ==
    /\ \A r \in Relays : rel[r].pc = "accepted" => rel[r].conn = "open"
    /\ \A o \in Openers : ready[o] # NULL =>
          /\ rel[ready[o]].pc = "done"
          /\ rel[ready[o]].chan = o
          /\ rel[ready[o]].conn = "open"

\* What a call was given is the stream that claimed its channel, and nothing
\* more will arrive.
DeliveredIsMine ==
    \A o \in Openers : opn[o].stream # NULL =>
        /\ opn[o].result = "stream"
        /\ opn[o].pc \in {"cleanup", "draining", "done"}
        /\ rel[opn[o].stream].pc = "done"
        /\ rel[opn[o].stream].chan = o
        /\ opn[o].pc # "done" => rel[opn[o].stream].conn = "open"
        /\ ready[o] = NULL

PairInv == NoPendingLeak /\ OneClaimPerChannel /\ ClaimTakesEntry
           /\ ReadyIsOpen /\ DeliveredIsMine

\* Steps that leave the pairing state alone keep the invariant.
LEMMA PairFrame ==
    ASSUME PairInv, UNCHANGED <<pending, opn, ready, rel>>
    PROVE  PairInv'
  BY DEF PairInv, NoPendingLeak, OneClaimPerChannel, ClaimTakesEntry, ReadyIsOpen,
     DeliveredIsMine, Holding

\* The steps of OpenChannel keep the pairing invariant.
LEMMA PairOpener ==
    ASSUME TypeInv, TypeOK', PairInv, NEW o \in Openers, OpenerStep(o)
    PROVE  PairInv'
  <1>1. ASSUME NEW sb \in Sandboxes, OpenRefused(o, sb)
        PROVE  PairInv'
    <2>1. /\ opn'[o].pc = "done" /\ opn'[o].result = "ErrNotConnected"
          /\ opn'[o].stream = opn[o].stream /\ opn'[o].sandbox = sb
          /\ \A p \in Openers \ {o} : opn'[p] = opn[p]
      BY <1>1 DEF OpenRefused, TypeInv, TypeOK, OpnFrame
    <2> QED
      BY SMTT(30), <1>1, <2>1 DEF OpenRefused, TypeInv, TypeOK, CallsBound, PairInv,
         NoPendingLeak, OneClaimPerChannel, ClaimTakesEntry, ReadyIsOpen,
         DeliveredIsMine, Holding, opnOnly
  <1>2. ASSUME NEW sb \in Sandboxes, OpenFile(o, sb)
        PROVE  PairInv'
    <2>1. /\ opn'[o].pc = "writing" /\ opn'[o].result = opn[o].result
          /\ opn'[o].stream = opn[o].stream /\ opn'[o].sandbox = sb
          /\ \A p \in Openers \ {o} : opn'[p] = opn[p]
      BY <1>2 DEF OpenFile, TypeInv, TypeOK, OpnFrame
    <2> QED
      BY SMTT(30), <1>2, <2>1 DEF OpenFile, TypeInv, TypeOK, CallsBound, PairInv,
         NoPendingLeak, OneClaimPerChannel, ClaimTakesEntry, ReadyIsOpen,
         DeliveredIsMine, Holding, opnOnly
  <1>3. CASE OpenWrite(o)
    <2>1. /\ opn'[o].pc = "waiting" /\ opn'[o].result = opn[o].result
          /\ opn'[o].stream = opn[o].stream /\ opn'[o].sandbox = opn[o].sandbox
          /\ \A p \in Openers \ {o} : opn'[p] = opn[p]
      BY <1>3 DEF OpenWrite, TypeInv, TypeOK, OpnFrame
    <2> QED
      BY <1>3, <2>1 DEF OpenWrite, TypeInv, TypeOK, CallsBound, PairInv,
         NoPendingLeak, OneClaimPerChannel, ClaimTakesEntry, ReadyIsOpen,
         DeliveredIsMine, Holding, opnOnly
  <1>4. CASE OpenWriteFails(o)
    <2>1. /\ opn'[o].pc = "cleanup" /\ opn'[o].result = "ErrNotConnected"
          /\ opn'[o].stream = opn[o].stream /\ opn'[o].sandbox = opn[o].sandbox
          /\ \A p \in Openers \ {o} : opn'[p] = opn[p]
      BY <1>4 DEF OpenWriteFails, TypeInv, TypeOK, OpnFrame
    <2> QED
      BY <1>4, <2>1 DEF OpenWriteFails, TypeInv, TypeOK, CallsBound, PairInv,
         NoPendingLeak, OneClaimPerChannel, ClaimTakesEntry, ReadyIsOpen,
         DeliveredIsMine, Holding, opnOnly
  <1>5. CASE OpenReceive(o)
    <2>1. /\ opn'[o].pc = "cleanup" /\ opn'[o].result = "stream"
          /\ opn'[o].stream = ready[o] /\ opn'[o].sandbox = opn[o].sandbox
          /\ \A p \in Openers \ {o} : opn'[p] = opn[p]
      BY <1>5 DEF OpenReceive, TypeInv, TypeOK, OpnFrame
    <2> QED
      BY SMTT(30), <1>5, <2>1 DEF OpenReceive, TypeInv, TypeOK, CallsBound, PairInv,
         NoPendingLeak, OneClaimPerChannel, ClaimTakesEntry, ReadyIsOpen,
         DeliveredIsMine, Holding, opnOnly
  <1>6. ASSUME NEW err \in GiveUps, OpenGiveUp(o, err)
        PROVE  PairInv'
    <2>1. /\ opn'[o].pc = "cleanup" /\ opn'[o].result = err
          /\ opn'[o].stream = opn[o].stream /\ opn'[o].sandbox = opn[o].sandbox
          /\ \A p \in Openers \ {o} : opn'[p] = opn[p]
      BY <1>6 DEF OpenGiveUp, TypeInv, TypeOK, OpnFrame
    <2> QED
      BY <1>6, <2>1 DEF OpenGiveUp, TypeInv, TypeOK, CallsBound, PairInv,
         NoPendingLeak, OneClaimPerChannel, ClaimTakesEntry, ReadyIsOpen,
         DeliveredIsMine, Holding, opnOnly
  <1>7. CASE OpenForget(o)
    <2>1. /\ opn'[o].pc = "draining" /\ opn'[o].result = opn[o].result
          /\ opn'[o].stream = opn[o].stream /\ opn'[o].sandbox = opn[o].sandbox
          /\ \A p \in Openers \ {o} : opn'[p] = opn[p]
      BY <1>7 DEF OpenForget, TypeInv, TypeOK, OpnFrame
    <2> QED
      BY <1>7, <2>1 DEF OpenForget, TypeInv, TypeOK, CallsBound, PairInv,
         NoPendingLeak, OneClaimPerChannel, ClaimTakesEntry, ReadyIsOpen,
         DeliveredIsMine, Holding, opnOnly
  <1>8. CASE OpenDrain(o)
    <2>1. /\ opn'[o].pc = "done" /\ opn'[o].result = opn[o].result
          /\ opn'[o].stream = opn[o].stream /\ opn'[o].sandbox = opn[o].sandbox
          /\ \A p \in Openers \ {o} : opn'[p] = opn[p]
      BY <1>8 DEF OpenDrain, TypeInv, TypeOK, OpnFrame
    <2> QED
      BY SMTT(30), <1>8, <2>1 DEF OpenDrain, TypeInv, TypeOK, CallsBound, PairInv,
         NoPendingLeak, OneClaimPerChannel, ClaimTakesEntry, ReadyIsOpen,
         DeliveredIsMine, Holding, opnOnly
  <1>9. CASE CallerClose(o)
    <2>1. /\ opn[o].stream \in Relays /\ opn[o].pc = "done"
          /\ rel' = [rel EXCEPT ![opn[o].stream].conn = "closed"]
          /\ UNCHANGED <<pending, ready, opn>>
      BY <1>9 DEF CallerClose, TypeInv, TypeOK, OpnFrame
    <2>2. /\ \A r \in Relays : /\ rel'[r].pc = rel[r].pc /\ rel'[r].chan = rel[r].chan
                              /\ rel'[r].sandbox = rel[r].sandbox
          /\ \A r \in Relays \ {opn[o].stream} : rel'[r].conn = rel[r].conn
      BY <2>1 DEF TypeInv, TypeOK, RelFrame
    <2>3. /\ rel[opn[o].stream].pc = "done" /\ rel[opn[o].stream].chan = o
          /\ ready[o] = NULL
      BY <1>9 DEF CallerClose, PairInv, DeliveredIsMine
    <2>4. NoPendingLeak' /\ OneClaimPerChannel'
      BY <2>1, <2>2 DEF PairInv, NoPendingLeak, OneClaimPerChannel, Holding
    <2>5. ClaimTakesEntry'
      BY <2>1, <2>2 DEF PairInv, ClaimTakesEntry, Holding
    <2>6. ReadyIsOpen'
      BY <2>1, <2>2, <2>3 DEF PairInv, ReadyIsOpen, TypeInv, TypeOK
    <2>7. \A q \in Openers : opn[q].stream \in Relays \cup {NULL}
      BY DEF TypeInv, TypeOK, OpnFrame
    <2>8. DeliveredIsMine'
      BY <2>1, <2>2, <2>3, <2>7 DEF PairInv, DeliveredIsMine
    <2> QED
      BY <2>4, <2>5, <2>6, <2>8 DEF PairInv
  <1> QED
    BY <1>1, <1>2, <1>3, <1>4, <1>5, <1>6, <1>7, <1>8, <1>9 DEF OpenerStep

\* The steps of ServeRelay keep the pairing invariant.
LEMMA PairRelay ==
    ASSUME TypeInv, TypeOK', PairInv, NEW r \in Relays, RelayStep(r)
    PROVE  PairInv'
  <1>0. \A o \in Openers : opn[o].stream \in Relays \cup {NULL}
    BY DEF TypeInv, TypeOK, OpnFrame
  <1>1. ASSUME NEW sb \in Sandboxes, NEW c \in Openers,
               RelayClaim(r, sb, c)
        PROVE  PairInv'
    <2>1. /\ rel'[r].pc = "claimed" /\ rel'[r].sandbox = sb
          /\ rel'[r].chan = c /\ rel'[r].conn = rel[r].conn
          /\ \A q \in Relays \ {r} : rel'[q] = rel[q]
      BY <1>1 DEF RelayClaim, TypeInv, TypeOK, RelFrame
    <2> QED
      BY SMTT(30), <1>0, <1>1, <2>1, HubAssumption
         DEF RelayClaim, TypeInv, TypeOK, CallsBound, PairInv,
         NoPendingLeak, OneClaimPerChannel, ClaimTakesEntry, ReadyIsOpen,
         DeliveredIsMine, Holding, relOnly
  <1>2. ASSUME NEW sb \in Sandboxes, NEW c \in Openers,
               RelayUnknown(r, sb, c)
        PROVE  PairInv'
    <2>1. /\ rel'[r].pc = "unknown" /\ rel'[r].sandbox = sb
          /\ rel'[r].chan = c /\ rel'[r].conn = rel[r].conn
          /\ \A q \in Relays \ {r} : rel'[q] = rel[q]
      BY <1>2 DEF RelayUnknown, TypeInv, TypeOK, RelFrame
    <2> QED
      BY <1>0, <1>2, <2>1 DEF RelayUnknown, TypeInv, TypeOK, CallsBound, PairInv,
         NoPendingLeak, OneClaimPerChannel, ClaimTakesEntry, ReadyIsOpen,
         DeliveredIsMine, Holding, relOnly
  <1>3. CASE RelayAccept(r)
    <2>1. /\ rel'[r].pc \in {"accepted", "failed"}
          /\ rel'[r].pc = "accepted" => rel'[r].conn = "open"
          /\ rel'[r].sandbox = rel[r].sandbox /\ rel'[r].chan = rel[r].chan
          /\ \A q \in Relays \ {r} : rel'[q] = rel[q]
      <3>1. CASE rel' = [rel EXCEPT ![r].pc = "accepted", ![r].conn = "open"]
        BY <3>1 DEF TypeInv, TypeOK, RelFrame
      <3>2. CASE rel' = [rel EXCEPT ![r].pc = "failed"]
        BY <3>2 DEF TypeInv, TypeOK, RelFrame
      <3> QED
        BY <1>3, <3>1, <3>2 DEF RelayAccept
    <2>2. rel[r].pc = "claimed" /\ UNCHANGED <<pending, ready, opn>>
      BY <1>3 DEF RelayAccept, relOnly
    <2>3. NoPendingLeak' /\ OneClaimPerChannel'
      BY <2>1, <2>2 DEF PairInv, NoPendingLeak, OneClaimPerChannel, Holding
    <2>4. ClaimTakesEntry'
      BY <2>1, <2>2 DEF PairInv, ClaimTakesEntry, Holding
    <2>5. ReadyIsOpen'
      BY <2>1, <2>2 DEF PairInv, ReadyIsOpen, TypeInv, TypeOK
    <2>6. DeliveredIsMine'
      BY <1>0, <2>1, <2>2 DEF PairInv, DeliveredIsMine
    <2> QED
      BY <2>3, <2>4, <2>5, <2>6 DEF PairInv
  <1>4. CASE RelayHandOff(r)
    <2>0. ready[rel[r].chan] = NULL
      BY <1>4 DEF RelayHandOff, TypeInv, TypeOK, CallsBound, PairInv,
         OneClaimPerChannel, ReadyIsOpen, Holding
    <2>1. /\ rel'[r].pc = "done" /\ rel'[r].sandbox = rel[r].sandbox
          /\ rel'[r].chan = rel[r].chan /\ rel'[r].conn = rel[r].conn
          /\ \A q \in Relays \ {r} : rel'[q] = rel[q]
      BY <1>4, <2>0 DEF RelayHandOff, TypeInv, TypeOK, RelFrame
    <2> QED
      BY SMTT(30), <1>0, <1>4, <2>1, <2>0 DEF RelayHandOff, TypeInv, TypeOK, CallsBound, PairInv,
         NoPendingLeak, OneClaimPerChannel, ClaimTakesEntry, ReadyIsOpen,
         DeliveredIsMine, Holding, relOnly
  <1> QED
    BY <1>1, <1>2, <1>3, <1>4 DEF RelayStep

-----------------------------------------------------------------------------
(* Registration: which session h.sessions names.                           *)

SessionInv == RegisteredIsServed /\ LiveIsRegistered

\* Steps that leave the control streams alone, or only close sessions, keep the
\* invariant.
LEMMA SessionFrame ==
    ASSUME SessionInv, UNCHANGED <<sessions, sup, dropping>>, closed \subseteq closed'
    PROVE  SessionInv'
  BY DEF SessionInv, RegisteredIsServed, LiveIsRegistered, Doomed

\* The steps of ServeSupervisor and its peer keep the registration invariant.
LEMMA SessionSupervisor ==
    ASSUME TypeInv, TypeOK', SessionInv, NEW s \in Supervisors, SupervisorStep(s)
    PROVE  SessionInv'
  <1>1. ASSUME NEW sb \in Sandboxes, SupervisorAccept(s, sb)
        PROVE  SessionInv'
    <2>1. /\ sup'[s].pc = "accepted" /\ sup'[s].sandbox = sb
          /\ sup'[s].prev = sup[s].prev
          /\ \A t \in Supervisors \ {s} : sup'[t] = sup[t]
      BY <1>1 DEF SupervisorAccept, TypeInv, TypeOK, SupFrame
    <2> QED
      BY <1>1, <2>1, HubAssumption DEF SupervisorAccept, SessionInv,
         RegisteredIsServed, LiveIsRegistered, Doomed, TypeInv, TypeOK,
         CallsBound, supOnly
  <1>2. CASE Register(s)
    <2>1. /\ sup'[s].pc = "registered" /\ sup'[s].sandbox = sup[s].sandbox
          /\ sup'[s].prev = sessions[sup[s].sandbox]
          /\ \A t \in Supervisors \ {s} : sup'[t] = sup[t]
      BY <1>2 DEF Register, TypeInv, TypeOK, SupFrame
    <2> QED
      BY <1>2, <2>1, HubAssumption DEF Register, SessionInv,
         RegisteredIsServed, LiveIsRegistered, Doomed, TypeInv, TypeOK,
         CallsBound, supOnly
  <1>3. CASE ClosePrev(s)
    <2>1. /\ sup'[s].pc = "serving" /\ sup'[s].sandbox = sup[s].sandbox
          /\ sup'[s].prev = NULL
          /\ \A t \in Supervisors \ {s} : sup'[t] = sup[t]
      BY <1>3 DEF ClosePrev, TypeInv, TypeOK, SupFrame
    <2> QED
      BY SMTT(30), <1>3, <2>1, HubAssumption DEF ClosePrev, SessionInv,
         RegisteredIsServed, LiveIsRegistered, Doomed, TypeInv, TypeOK,
         CallsBound, supOnly
  <1>4. CASE ReaderSees(s) \/ LoopSeen(s) \/ Ping(s) \/ PeerFails(s)
    <2>1. /\ sup'[s].pc = sup[s].pc /\ sup'[s].sandbox = sup[s].sandbox
          /\ sup'[s].prev = sup[s].prev
          /\ \A t \in Supervisors \ {s} : sup'[t] = sup[t]
      BY <1>4 DEF ReaderSees, LoopSeen, Ping, PeerFails, TypeInv, TypeOK, SupFrame
    <2> QED
      BY <1>4, <2>1, HubAssumption DEF ReaderSees, LoopSeen, Ping, PeerFails, SessionInv,
         RegisteredIsServed, LiveIsRegistered, Doomed, TypeInv, TypeOK,
         CallsBound, supOnly
  <1>5. CASE ReaderFails(s)
    BY <1>5, SessionFrame DEF ReaderFails, supOnly
  <1>6. CASE LoopDone(s) \/ LoopCancelled(s) \/ KeepaliveTimeout(s) \/ PingFails(s)
    <2>1. /\ sup'[s].pc = "leaving" /\ sup'[s].sandbox = sup[s].sandbox
          /\ sup'[s].prev = sup[s].prev
          /\ \A t \in Supervisors \ {s} : sup'[t] = sup[t]
      BY <1>6 DEF LoopDone, LoopCancelled, KeepaliveTimeout, PingFails, Leave, TypeInv, TypeOK, SupFrame
    <2> QED
      BY <1>6, <2>1, HubAssumption DEF LoopDone, LoopCancelled, KeepaliveTimeout, PingFails, SessionInv,
         RegisteredIsServed, LiveIsRegistered, Doomed, TypeInv, TypeOK,
         CallsBound, supOnly
  <1>7. CASE Unregister(s)
    <2>1. /\ sup'[s].pc = "unregistered" /\ sup'[s].sandbox = sup[s].sandbox
          /\ sup'[s].prev = sup[s].prev
          /\ \A t \in Supervisors \ {s} : sup'[t] = sup[t]
      BY <1>7 DEF Unregister, TypeInv, TypeOK, SupFrame
    <2> QED
      BY <1>7, <2>1, HubAssumption DEF Unregister, SessionInv,
         RegisteredIsServed, LiveIsRegistered, Doomed, TypeInv, TypeOK,
         CallsBound, supOnly
  <1>8. CASE CloseSelf(s)
    <2>1. /\ sup'[s].pc = "done" /\ sup'[s].sandbox = sup[s].sandbox
          /\ sup'[s].prev = sup[s].prev
          /\ \A t \in Supervisors \ {s} : sup'[t] = sup[t]
      BY <1>8 DEF CloseSelf, TypeInv, TypeOK, SupFrame
    <2> QED
      BY <1>8, <2>1, HubAssumption DEF CloseSelf, SessionInv,
         RegisteredIsServed, LiveIsRegistered, Doomed, TypeInv, TypeOK,
         CallsBound, supOnly
  <1> QED
    BY <1>1, <1>2, <1>3, <1>4, <1>5, <1>6, <1>7, <1>8 DEF SupervisorStep

\* Disconnect keeps the registration invariant.
LEMMA SessionDisconnect ==
    ASSUME TypeInv, SessionInv,
           \/ \E sb \in Sandboxes : DisconnectLock(sb)
           \/ \E s \in Supervisors : DisconnectClose(s)
    PROVE  SessionInv'
  BY DEF TypeInv, TypeOK, CallsBound, SessionInv, RegisteredIsServed,
     LiveIsRegistered, Doomed, DisconnectLock, DisconnectClose

-----------------------------------------------------------------------------
(* The theorems.                                                           *)

\* The inductive invariant of the hub.
HubInv == TypeInv /\ PairInv /\ SessionInv

\* NewHub establishes the invariant.
LEMMA HubInvInit == Init => HubInv
  <1> SUFFICES ASSUME Init PROVE HubInv
    OBVIOUS
  <1>1. TypeInv
    BY TypeInit
  <1>2. PairInv
    BY DEF Init, PairInv, NoPendingLeak, OneClaimPerChannel, ClaimTakesEntry,
       ReadyIsOpen, DeliveredIsMine, Holding
  <1>3. SessionInv
    BY DEF Init, SessionInv, RegisteredIsServed, LiveIsRegistered
  <1> QED
    BY <1>1, <1>2, <1>3 DEF HubInv

\* Every step of the hub keeps the invariant.
LEMMA HubInvStep == HubInv /\ [Next]_vars => HubInv'
  <1> SUFFICES ASSUME HubInv, [Next]_vars PROVE HubInv'
    OBVIOUS
  <1> USE DEF HubInv
  <1>1. ASSUME NEW s \in Supervisors, SupervisorStep(s)
        PROVE  TypeOK' /\ PairInv' /\ SessionInv'
    <2>1. TypeOK'
      BY <1>1, TypeSupervisor
    <2>2. UNCHANGED <<pending, opn, ready, rel>>
      BY <1>1 DEF SupervisorStep, SupervisorAccept, Register, ClosePrev, ReaderSees,
         ReaderFails, LoopDone, LoopCancelled, LoopSeen, KeepaliveTimeout, Ping,
         PingFails, Unregister, CloseSelf, PeerFails, supOnly
    <2> QED
      BY <1>1, <2>1, <2>2, PairFrame, SessionSupervisor
  <1>2. ASSUME \/ \E sb \in Sandboxes : DisconnectLock(sb)
               \/ \E s \in Supervisors : DisconnectClose(s)
        PROVE  TypeOK' /\ PairInv' /\ SessionInv'
    <2>1. UNCHANGED <<pending, opn, ready, rel>>
      BY <1>2 DEF DisconnectLock, DisconnectClose
    <2> QED
      BY <1>2, <2>1, TypeDisconnect, PairFrame, SessionDisconnect
  <1>3. ASSUME NEW o \in Openers, OpenerStep(o)
        PROVE  TypeOK' /\ PairInv' /\ SessionInv'
    <2>1. TypeOK'
      BY <1>3, TypeOpener
    <2>2. UNCHANGED <<sessions, sup, dropping>> /\ closed \subseteq closed'
      BY <1>3 DEF OpenerStep, OpenRefused, OpenFile, OpenWrite, OpenWriteFails,
         OpenReceive, OpenGiveUp, OpenForget, OpenDrain, CallerClose, opnOnly
    <2> QED
      BY <1>3, <2>1, <2>2, PairOpener, SessionFrame
  <1>4. ASSUME NEW r \in Relays, RelayStep(r)
        PROVE  TypeOK' /\ PairInv' /\ SessionInv'
    <2>1. TypeOK'
      BY <1>4, TypeRelay
    <2>2. UNCHANGED <<sessions, sup, dropping, closed>>
      BY <1>4 DEF RelayStep, RelayClaim, RelayUnknown, RelayAccept, RelayHandOff,
         relOnly
    <2> QED
      BY <1>4, <2>1, <2>2, PairRelay, SessionFrame
  <1>5. CASE UNCHANGED vars
    <2>1. TypeInv'
      BY <1>5 DEF TypeInv, TypeOK, CallsBound, vars
    <2> QED
      BY <1>5, <2>1, PairFrame, SessionFrame DEF vars
  <1>6. CASE Next
    <2>1. TypeOK' /\ PairInv' /\ SessionInv'
      BY <1>1, <1>2, <1>3, <1>4, <1>6 DEF Next
    <2> QED
      BY <1>6, <2>1, BoundStep DEF TypeInv
  <1> QED
    BY <1>5, <1>6

\* The invariant holds in every reachable state of the hub.
THEOREM HubInvariant == Spec => []HubInv
  BY HubInvInit, HubInvStep, PTL DEF Spec

\* Type correctness of the hub: the frames and the shared maps keep their shapes.
THEOREM TypeCorrect == Spec => []TypeOK
  <1>1. HubInv => TypeOK
    BY DEF HubInv, TypeInv
  <1> QED
    BY HubInvariant, <1>1, PTL

\* OpenChannel returns the stream dialled back for its own channel by the
\* sandbox it asked for, however many clients, supervisors and streams race.
THEOREM StreamsArePaired == Spec => []StreamMatchesRequest
  <1>1. HubInv => StreamMatchesRequest
    BY DEF HubInv, TypeInv, TypeOK, OpnFrame, PairInv, DeliveredIsMine,
       ClaimTakesEntry, Holding, StreamMatchesRequest
  <1> QED
    BY HubInvariant, <1>1, PTL

\* ServeRelay's claim is exclusive.
THEOREM ClaimsAreExclusive == Spec => []OneClaimPerChannel
  <1>1. HubInv => OneClaimPerChannel
    BY DEF HubInv, PairInv
  <1> QED
    BY HubInvariant, <1>1, PTL

\* OpenChannel leaves nothing in h.pending, whoever removes its entry.
THEOREM PendingIsBounded == Spec => []NoPendingLeak
  <1>1. HubInv => NoPendingLeak
    BY DEF HubInv, PairInv
  <1> QED
    BY HubInvariant, <1>1, PTL

\* h.sessions names only streams that are being served.
THEOREM RegisteredAreServed == Spec => []RegisteredIsServed
  <1>1. HubInv => RegisteredIsServed
    BY DEF HubInv, SessionInv
  <1> QED
    BY HubInvariant, <1>1, PTL

\* A reconnected supervisor stays registered through the cleanup of the stream
\* it replaced.
THEOREM RegistrationIsSound == Spec => []LiveIsRegistered
  <1>1. HubInv => LiveIsRegistered
    BY DEF HubInv, SessionInv
  <1> QED
    BY HubInvariant, <1>1, PTL
=============================================================================
