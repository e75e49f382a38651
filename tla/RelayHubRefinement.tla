------------------------- MODULE RelayHubRefinement -------------------------
(***************************************************************************)
(* The proof that RelayHub implements ChannelBroker, for any number of     *)
(* sandboxes, supervisors, clients and data streams.                       *)
(***************************************************************************)
EXTENDS RelayHubProofs

\* A call has a result only when it is past its select, and a stream only when
\* its result says so.
AnswerInv ==
    \A o \in Openers :
        /\ opn[o].pc \in {"idle", "writing", "waiting"} => opn[o].result = "none"
        /\ opn[o].result = "stream" <=> opn[o].stream # NULL

\* Only the steps of OpenChannel change what a call has answered.
LEMMA AnswerInvStep ==
    ASSUME TypeOK, AnswerInv, [Next]_vars
    PROVE  AnswerInv'
  <1> USE DEF TypeOK, OpnFrame, AnswerInv
  <1>1. CASE UNCHANGED opn
    BY <1>1
  <1>2. ASSUME NEW o \in Openers, OpenerStep(o)
        PROVE  AnswerInv'
    <2>1. CASE UNCHANGED opn
      BY <2>1
    <2>2. CASE OpenReceive(o)
      BY <2>2, HubAssumption DEF OpenReceive
    <2>3. CASE \E sb \in Sandboxes : OpenRefused(o, sb) \/ OpenFile(o, sb)
      BY <2>3 DEF OpenRefused, OpenFile
    <2>4. CASE OpenWrite(o) \/ OpenForget(o) \/ OpenDrain(o)
      BY <2>4 DEF OpenWrite, OpenForget, OpenDrain
    <2>5. CASE OpenWriteFails(o) \/ \E err \in GiveUps : OpenGiveUp(o, err)
      BY <2>5 DEF OpenWriteFails, OpenGiveUp, GiveUps
    <2> QED
      BY <1>2, <2>1, <2>2, <2>3, <2>4, <2>5 DEF OpenerStep, CallerClose
  <1>3. Next => UNCHANGED opn \/ \E o \in Openers : OpenerStep(o)
    BY DEF Next, SupervisorStep, SupervisorAccept, Register, ClosePrev, ReaderSees,
       ReaderFails, LoopDone, LoopCancelled, LoopSeen, KeepaliveTimeout, Ping,
       PingFails, Unregister, CloseSelf, PeerFails, DisconnectLock, DisconnectClose,
       RelayStep, RelayClaim, RelayUnknown, RelayAccept, RelayHandOff, supOnly, relOnly
  <1> QED
    BY <1>1, <1>2, <1>3 DEF vars
-----------------------------------------------------------------------------
(* The variables of the broker.                                            *)

Answers == [o \in Openers |-> Answer(o)]
Asked == [o \in Openers |-> opn[o].sandbox]
Given == [o \in Openers |-> opn[o].stream]
Offers == [r \in Relays |-> IF Holding(r) THEN rel[r].chan ELSE NULL]
By == [r \in Relays |-> IF Holding(r) THEN rel[r].sandbox ELSE NULL]

\* A step of OpenChannel moves the answer of its own call only.
LEMMA CallMoves ==
    ASSUME TypeOK, NEW o \in Openers, NEW f, opn' = [opn EXCEPT ![o] = f]
    PROVE  /\ opn'[o] = f
           /\ Answers' = [Answers EXCEPT ![o] = Answer(o)']
           /\ Asked' = [Asked EXCEPT ![o] = f.sandbox]
           /\ Given' = [Given EXCEPT ![o] = f.stream]
  <1>1. opn'[o] = f /\ \A p \in Openers \ {o} : opn'[p] = opn[p]
    BY DEF TypeOK
  <1>2. \A p \in Openers \ {o} : Answer(p)' = Answer(p)
    BY <1>1 DEF Answer
  <1>3. Answers' = [Answers EXCEPT ![o] = Answer(o)']
    BY <1>2, Zenon DEF Answers
  <1>4. Asked' = [Asked EXCEPT ![o] = f.sandbox]
    <2>1. \A p \in Openers : opn'[p].sandbox = [Asked EXCEPT ![o] = f.sandbox][p]
      BY <1>1 DEF Asked
    <2> QED
      BY <2>1, Zenon DEF Asked
  <1>5. Given' = [Given EXCEPT ![o] = f.stream]
    <2>1. \A p \in Openers : opn'[p].stream = [Given EXCEPT ![o] = f.stream][p]
      BY <1>1 DEF Given
    <2> QED
      BY <2>1, Zenon DEF Given
  <1> QED
    BY <1>1, <1>3, <1>4, <1>5

\* A step that leaves the claims alone leaves the offers alone.
LEMMA ClaimsStay ==
    ASSUME \A r \in Relays : /\ Holding(r)' <=> Holding(r)
                             /\ rel'[r].chan = rel[r].chan
                             /\ rel'[r].sandbox = rel[r].sandbox
    PROVE  UNCHANGED <<Offers, By>>
  BY Zenon DEF Offers, By

\* A request for a sandbox without a supervisor is rejected.
LEMMA RefusedIsReject ==
    ASSUME TypeOK, NEW o \in Openers, NEW sb \in Sandboxes, OpenRefused(o, sb),
           AnswerInv
    PROVE  Broker!Reject(o, sb)
  <1> DEFINE f == [opn[o] EXCEPT !.pc = "done", !.sandbox = sb,
                                 !.result = "ErrNotConnected"]
  <1>1. opn' = [opn EXCEPT ![o] = f] /\ UNCHANGED rel /\ opn[o].pc = "idle"
    BY DEF OpenRefused, opnOnly
  <1>2. f.pc = "done" /\ f.sandbox = sb /\ f.result = "ErrNotConnected"
        /\ f.stream = opn[o].stream
    BY DEF TypeOK, OpnFrame
  <1> HIDE DEF f
  <1>3. /\ opn'[o] = f
        /\ Answers' = [Answers EXCEPT ![o] = Answer(o)']
        /\ Asked' = [Asked EXCEPT ![o] = sb]
        /\ Given' = [Given EXCEPT ![o] = opn[o].stream]
    BY <1>1, <1>2, CallMoves
  <1>4. Answer(o) = "none" /\ Answer(o)' = "refused"
    BY <1>1, <1>2, <1>3 DEF Answer
  <1>5. UNCHANGED <<Offers, By>>
    BY <1>1 DEF Offers, By, Holding
  <1>6. Answers[o] = "none" /\ Given' = Given
    BY <1>3, <1>4 DEF Answers, Given
  <1> QED
    BY <1>3, <1>4, <1>5, <1>6 DEF Broker!Reject, Answers, Asked, Given, Offers, By

\* A request that is filed is asked.
LEMMA FileIsAsk ==
    ASSUME TypeOK, NEW o \in Openers, NEW sb \in Sandboxes, OpenFile(o, sb),
           AnswerInv
    PROVE  Broker!Ask(o, sb)
  <1> DEFINE f == [opn[o] EXCEPT !.pc = "writing", !.sandbox = sb,
                                 !.sess = sessions[sb]]
  <1>1. opn' = [opn EXCEPT ![o] = f] /\ UNCHANGED rel /\ opn[o].pc = "idle"
    BY DEF OpenFile, opnOnly
  <1>2. f.pc = "writing" /\ f.sandbox = sb /\ f.result = "none"
        /\ f.stream = opn[o].stream
    BY <1>1 DEF TypeOK, OpnFrame, AnswerInv
  <1> HIDE DEF f
  <1>3. /\ opn'[o] = f
        /\ Answers' = [Answers EXCEPT ![o] = Answer(o)']
        /\ Asked' = [Asked EXCEPT ![o] = sb]
        /\ Given' = [Given EXCEPT ![o] = opn[o].stream]
    BY <1>1, <1>2, CallMoves
  <1>4. Answer(o) = "none" /\ Answer(o)' = "open"
    BY <1>1, <1>2, <1>3 DEF Answer
  <1>5. UNCHANGED <<Offers, By>>
    BY <1>1 DEF Offers, By, Holding
  <1>6. Answers[o] = "none" /\ Given' = Given
    BY <1>3, <1>4 DEF Answers, Given
  <1> QED
    BY <1>3, <1>4, <1>5, <1>6 DEF Broker!Ask, Answers, Asked, Given, Offers, By

\* Deleting the entry of a call that gave up refuses its request.
LEMMA ForgetIsRefuse ==
    ASSUME TypeOK, NEW o \in Openers, OpenForget(o), opn[o].result # "stream"
    PROVE  Broker!Refuse(o)
  <1> DEFINE f == [opn[o] EXCEPT !.pc = "draining"]
  <1>1. opn' = [opn EXCEPT ![o] = f] /\ UNCHANGED rel /\ opn[o].pc = "cleanup"
    BY DEF OpenForget, opnOnly
  <1>2. f.pc = "draining" /\ f.sandbox = opn[o].sandbox /\ f.result = opn[o].result
        /\ f.stream = opn[o].stream
    BY DEF TypeOK, OpnFrame
  <1> HIDE DEF f
  <1>3. /\ opn'[o] = f
        /\ Answers' = [Answers EXCEPT ![o] = Answer(o)']
        /\ Asked' = [Asked EXCEPT ![o] = f.sandbox]
        /\ Given' = [Given EXCEPT ![o] = f.stream]
    BY <1>1, CallMoves
  <1>4. Answer(o) = "open" /\ Answer(o)' = "refused"
    BY <1>1, <1>2, <1>3 DEF Answer
  <1>5. UNCHANGED <<Offers, By>>
    BY <1>1 DEF Offers, By, Holding
  <1>6. Answers[o] = "open" /\ Given' = Given /\ Asked' = Asked
    BY <1>2, <1>3, <1>4 DEF Answers, Given, Asked
  <1> QED
    BY <1>3, <1>4, <1>5, <1>6 DEF Broker!Refuse, Answers, Asked, Given, Offers, By

\* What a call receives is the stream its own sandbox offered for it.
LEMMA ReceiveIsJoin ==
    ASSUME HubInv, AnswerInv, NEW o \in Openers, OpenReceive(o)
    PROVE  \E r \in Relays : Broker!Join(o, r)
  <1>0. PICK r \in Relays : r = ready[o]
    BY DEF OpenReceive, HubInv, TypeInv, TypeOK
  <1> DEFINE f == [opn[o] EXCEPT !.pc = "cleanup", !.result = "stream", !.stream = r]
  <1>1. opn' = [opn EXCEPT ![o] = f] /\ UNCHANGED rel /\ opn[o].pc = "waiting"
    BY <1>0 DEF OpenReceive, opnOnly
  <1>2. f.pc = "cleanup" /\ f.sandbox = opn[o].sandbox /\ f.result = "stream"
        /\ f.stream = r
    BY DEF HubInv, TypeInv, TypeOK, OpnFrame
  <1>3. Holding(r) /\ rel[r].chan = o
        /\ rel[r].sandbox = opn[o].sandbox
    BY <1>0 DEF OpenReceive, HubInv, TypeInv, TypeOK, PairInv, ReadyIsOpen,
       ClaimTakesEntry, Holding
  <1> HIDE DEF f
  <1>4. /\ opn'[o] = f
        /\ Answers' = [Answers EXCEPT ![o] = Answer(o)']
        /\ Asked' = [Asked EXCEPT ![o] = opn[o].sandbox]
        /\ Given' = [Given EXCEPT ![o] = r]
    BY <1>1, <1>2, CallMoves DEF HubInv, TypeInv
  <1>5. Answer(o) = "open" /\ Answer(o)' = "joined"
    BY <1>1, <1>2, <1>4 DEF Answer, AnswerInv
  <1>6. UNCHANGED <<Offers, By>>
    BY <1>1 DEF Offers, By, Holding
  <1>7. Answers[o] = "open" /\ Asked' = Asked
    BY <1>4, <1>5 DEF Answers, Asked
  <1>8. Offers[r] = o /\ By[r] = Asked[o]
    BY <1>3 DEF Offers, By, Asked
  <1>9. Broker!Join(o, r)
    BY <1>4, <1>5, <1>6, <1>7, <1>8
       DEF Broker!Join, Answers, Asked, Given, Offers, By
  <1> QED
    BY <1>9

\* The other steps of OpenChannel change nothing the broker sees.
LEMMA QuietCall ==
    ASSUME TypeOK, NEW o \in Openers, NEW f, opn' = [opn EXCEPT ![o] = f],
           f.sandbox = opn[o].sandbox, f.stream = opn[o].stream,
           Answer(o)' = Answer(o)
    PROVE  UNCHANGED <<Answers, Asked, Given>>
  <1>1. /\ Answers' = [Answers EXCEPT ![o] = Answer(o)']
        /\ Asked' = [Asked EXCEPT ![o] = f.sandbox]
        /\ Given' = [Given EXCEPT ![o] = f.stream]
    BY CallMoves
  <1>2. Answers[o] = Answer(o) /\ Asked[o] = opn[o].sandbox
        /\ Given[o] = opn[o].stream
    BY DEF Answers, Asked, Given
  <1>3. /\ [Answers EXCEPT ![o] = Answers[o]] = Answers
        /\ [Asked EXCEPT ![o] = Asked[o]] = Asked
        /\ [Given EXCEPT ![o] = Given[o]] = Given
    BY Zenon DEF Answers, Asked, Given
  <1> QED
    BY <1>1, <1>2, <1>3

\* Writing MsgOpen, giving up, draining and closing are such steps, and so is the
\* cleanup of a call that was given a stream.
LEMMA QuietCalls ==
    ASSUME HubInv, AnswerInv, NEW o \in Openers,
           \/ OpenWrite(o) \/ OpenWriteFails(o)
           \/ \E err \in GiveUps : OpenGiveUp(o, err)
           \/ OpenForget(o) /\ opn[o].result = "stream"
           \/ OpenDrain(o) \/ CallerClose(o)
    PROVE  UNCHANGED <<Answers, Asked, Given, Offers, By>>
  <1> USE DEF HubInv, TypeInv
  <1>1. CASE OpenWrite(o)
    <2> DEFINE f == [opn[o] EXCEPT !.pc = "waiting"]
    <2>1. opn' = [opn EXCEPT ![o] = f] /\ opn'[o] = f /\ UNCHANGED rel
      BY <1>1 DEF OpenWrite, opnOnly, TypeOK
    <2>2. /\ f.sandbox = opn[o].sandbox /\ f.stream = opn[o].stream
          /\ f.pc = "waiting" /\ f.result = opn[o].result
      BY DEF TypeOK, OpnFrame
    <2> HIDE DEF f
    <2>3. Answer(o)' = Answer(o)
      BY <1>1, <2>1, <2>2 DEF Answer, OpenWrite, AnswerInv
    <2>4. UNCHANGED <<Answers, Asked, Given>>
      BY <2>1, <2>2, <2>3, QuietCall
    <2> QED
      BY <2>1, <2>4 DEF Offers, By, Holding
  <1>2. ASSUME NEW err \in GiveUps, UNCHANGED rel,
               opn[o].pc \in {"writing", "waiting"},
               opn' = [opn EXCEPT ![o].pc = "cleanup", ![o].result = err]
        PROVE  UNCHANGED <<Answers, Asked, Given, Offers, By>>
    <2> DEFINE f == [opn[o] EXCEPT !.pc = "cleanup", !.result = err]
    <2>1. opn' = [opn EXCEPT ![o] = f] /\ opn'[o] = f
      BY <1>2 DEF TypeOK
    <2>2. /\ f.sandbox = opn[o].sandbox /\ f.stream = opn[o].stream
          /\ f.pc = "cleanup" /\ f.result \in GiveUps
      BY <1>2 DEF TypeOK, OpnFrame
    <2> HIDE DEF f
    <2>3. Answer(o)' = Answer(o)
      BY <1>2, <2>1, <2>2 DEF Answer, AnswerInv, GiveUps
    <2>4. UNCHANGED <<Answers, Asked, Given>>
      BY <2>1, <2>2, <2>3, QuietCall
    <2> QED
      BY <1>2, <2>4 DEF Offers, By, Holding
  <1>3. CASE OpenForget(o) /\ opn[o].result = "stream"
    <2> DEFINE f == [opn[o] EXCEPT !.pc = "draining"]
    <2>1. opn' = [opn EXCEPT ![o] = f] /\ opn'[o] = f /\ UNCHANGED rel
      BY <1>3 DEF OpenForget, opnOnly, TypeOK
    <2>2. /\ f.sandbox = opn[o].sandbox /\ f.stream = opn[o].stream
          /\ f.pc = "draining" /\ f.result = opn[o].result
      BY DEF TypeOK, OpnFrame
    <2> HIDE DEF f
    <2>3. Answer(o)' = Answer(o)
      BY <1>3, <2>1, <2>2 DEF Answer, OpenForget
    <2>4. UNCHANGED <<Answers, Asked, Given>>
      BY <2>1, <2>2, <2>3, QuietCall
    <2> QED
      BY <2>1, <2>4 DEF Offers, By, Holding
  <1>4. CASE OpenDrain(o)
    <2> DEFINE f == [opn[o] EXCEPT !.pc = "done"]
    <2>1. opn' = [opn EXCEPT ![o] = f] /\ opn'[o] = f
      BY <1>4 DEF OpenDrain, TypeOK
    <2>2. /\ f.sandbox = opn[o].sandbox /\ f.stream = opn[o].stream
          /\ f.pc = "done" /\ f.result = opn[o].result
      BY DEF TypeOK, OpnFrame
    <2> HIDE DEF f
    <2>3. Answer(o)' = Answer(o)
      BY <1>4, <2>1, <2>2 DEF Answer, OpenDrain
    <2>4. UNCHANGED <<Answers, Asked, Given>>
      BY <2>1, <2>2, <2>3, QuietCall
    <2>5. \A r \in Relays : /\ rel'[r].pc = rel[r].pc
                            /\ rel'[r].chan = rel[r].chan
                            /\ rel'[r].sandbox = rel[r].sandbox
      BY <1>4 DEF OpenDrain, TypeOK, RelFrame
    <2>6. UNCHANGED <<Offers, By>>
      BY <2>5, ClaimsStay DEF Holding
    <2> QED
      BY <2>4, <2>6
  <1>5. CASE CallerClose(o)
    <2>1. \A r \in Relays : /\ rel'[r].pc = rel[r].pc
                            /\ rel'[r].chan = rel[r].chan
                            /\ rel'[r].sandbox = rel[r].sandbox
      BY <1>5 DEF CallerClose, TypeOK, RelFrame, OpnFrame
    <2>2. UNCHANGED <<Offers, By>>
      BY <2>1, ClaimsStay DEF Holding
    <2> QED
      BY <1>5, <2>2 DEF CallerClose, Answers, Answer, Asked, Given
  <1>6. CASE OpenWriteFails(o)
    BY <1>2, <1>6 DEF OpenWriteFails, opnOnly, GiveUps
  <1>7. ASSUME NEW err \in GiveUps, OpenGiveUp(o, err)
        PROVE  UNCHANGED <<Answers, Asked, Given, Offers, By>>
    BY <1>2, <1>7 DEF OpenGiveUp, opnOnly
  <1> QED
    BY <1>1, <1>3, <1>4, <1>5, <1>6, <1>7

\* A claim is the one offer of a stream for its request, by the sandbox asked.
LEMMA ClaimIsOffer ==
    ASSUME HubInv, AnswerInv, NEW r \in Relays, NEW sb \in Sandboxes,
           NEW c \in Openers, RelayClaim(r, sb, c)
    PROVE  Broker!Offer(r, c)
  <1> DEFINE f == [rel[r] EXCEPT !.pc = "claimed", !.sandbox = sb, !.chan = c]
  <1>1. /\ rel' = [rel EXCEPT ![r] = f] /\ UNCHANGED opn
        /\ rel[r].pc = "idle" /\ pending[c] = sb /\ pending[c] # NULL
    BY HubAssumption DEF RelayClaim, relOnly
  <1>2. f.pc = "claimed" /\ f.sandbox = sb /\ f.chan = c
    BY DEF HubInv, TypeInv, TypeOK, RelFrame
  <1> HIDE DEF f
  <1>3. rel'[r] = f /\ \A q \in Relays \ {r} : rel'[q] = rel[q]
    BY <1>1 DEF HubInv, TypeInv, TypeOK
  <1>4. opn[c].pc \in {"writing", "waiting", "cleanup"} /\ opn[c].sandbox = sb
    BY <1>1 DEF HubInv, PairInv, NoPendingLeak
  <1>5. \A q \in Relays : Holding(q) => rel[q].chan # c
    BY <1>1 DEF HubInv, PairInv, ClaimTakesEntry
  <1>6. opn[c].result # "stream"
    <2>1. CASE opn[c].stream = NULL
      BY <2>1 DEF AnswerInv
    <2>2. CASE opn[c].stream # NULL
      <3>1. opn[c].stream \in Relays
        BY <2>2 DEF HubInv, TypeInv, TypeOK, OpnFrame
      <3> QED
        BY <2>2, <3>1, <1>5 DEF HubInv, PairInv, DeliveredIsMine, Holding
    <2> QED
      BY <2>1, <2>2
  <1>7. Answers[c] = "open" /\ Asked[c] = sb
    BY <1>4, <1>6 DEF Answers, Answer, Asked
  <1>8. Offers[r] = NULL /\ \A q \in Relays : Offers[q] # c
    BY <1>1, <1>5, HubAssumption DEF Offers, Holding
  <1>9. \A q \in Relays \ {r} : /\ Holding(q)' <=> Holding(q)
                                /\ rel'[q].chan = rel[q].chan
                                /\ rel'[q].sandbox = rel[q].sandbox
    BY <1>3 DEF Holding
  <1>10. Holding(r)' /\ rel'[r].chan = c /\ rel'[r].sandbox = sb
    BY <1>2, <1>3 DEF Holding
  <1>11. Offers' = [Offers EXCEPT ![r] = c] /\ By' = [By EXCEPT ![r] = sb]
    BY <1>9, <1>10, Zenon DEF Offers, By
  <1>12. UNCHANGED <<Answers, Asked, Given>>
    BY <1>1 DEF Answers, Answer, Asked, Given
  <1> QED
    BY <1>7, <1>8, <1>11, <1>12 DEF Broker!Offer, Answers, Asked, Given, Offers, By

\* A rejected data stream, and what a claimed one does next, offer nothing new.
LEMMA QuietRelays ==
    ASSUME HubInv, NEW r \in Relays,
           \/ \E sb \in Sandboxes, c \in Openers : RelayUnknown(r, sb, c)
           \/ RelayAccept(r) \/ RelayHandOff(r)
    PROVE  UNCHANGED <<Answers, Asked, Given, Offers, By>>
  <1> USE DEF HubInv, TypeInv, TypeOK, RelFrame
  <1>1. UNCHANGED opn
    BY DEF RelayUnknown, RelayAccept, RelayHandOff, relOnly
  <1>2. CASE \E sb \in Sandboxes, c \in Openers : RelayUnknown(r, sb, c)
    <2>1. PICK sb \in Sandboxes, c \in Openers : RelayUnknown(r, sb, c)
      BY <1>2
    <2> DEFINE f == [rel[r] EXCEPT !.pc = "unknown", !.sandbox = sb, !.chan = c]
    <2>2. rel' = [rel EXCEPT ![r] = f] /\ rel[r].pc = "idle" /\ f.pc = "unknown"
      BY <2>1 DEF RelayUnknown
    <2> HIDE DEF f
    <2>3. rel'[r].pc = "unknown" /\ \A q \in Relays \ {r} : rel'[q] = rel[q]
      BY <2>2
    <2>4. /\ \A q \in Relays \ {r} : /\ Holding(q)' <=> Holding(q)
                                     /\ rel'[q].chan = rel[q].chan
                                     /\ rel'[q].sandbox = rel[q].sandbox
          /\ ~Holding(r) /\ ~Holding(r)'
      BY <2>2, <2>3 DEF Holding
    <2>5. UNCHANGED <<Offers, By>>
      BY <2>4, Zenon DEF Offers, By
    <2> QED
      BY <1>1, <2>5 DEF Answers, Answer, Asked, Given
  <1>3. CASE RelayAccept(r) \/ RelayHandOff(r)
    <2>1. /\ rel[r].pc \in {"claimed", "accepted"}
          /\ rel'[r].pc \in {"accepted", "failed", "done"}
          /\ rel'[r].chan = rel[r].chan /\ rel'[r].sandbox = rel[r].sandbox
          /\ \A q \in Relays \ {r} : rel'[q] = rel[q]
      BY <1>3 DEF RelayAccept, RelayHandOff
    <2>2. \A q \in Relays : /\ Holding(q)' <=> Holding(q)
                            /\ rel'[q].chan = rel[q].chan
                            /\ rel'[q].sandbox = rel[q].sandbox
      BY <2>1 DEF Holding
    <2>3. UNCHANGED <<Offers, By>>
      BY <2>2, ClaimsStay
    <2> QED
      BY <1>1, <2>3 DEF Answers, Answer, Asked, Given
  <1> QED
    BY <1>2, <1>3

\* Every step of the hub is a step of the broker, or one it does not see.
LEMMA BrokerStep ==
    ASSUME HubInv, AnswerInv, [Next]_vars
    PROVE  [Broker!Next]_(Broker!bvars)
  <1>1. ASSUME UNCHANGED <<Answers, Asked, Given, Offers, By>>
        PROVE  UNCHANGED Broker!bvars
    BY <1>1 DEF Broker!bvars, Answers, Asked, Given, Offers, By
  <1>2. ASSUME UNCHANGED <<opn, rel>>
        PROVE  UNCHANGED Broker!bvars
    <2>1. UNCHANGED <<Answers, Asked, Given, Offers, By>>
      BY <1>2 DEF Answers, Answer, Asked, Given, Offers, By, Holding
    <2> QED
      BY <1>1, <2>1
  <1>3. ASSUME NEW o \in Openers, OpenerStep(o)
        PROVE  [Broker!Next]_(Broker!bvars)
    <2>1. ASSUME NEW sb \in Sandboxes, OpenRefused(o, sb) \/ OpenFile(o, sb)
          PROVE  Broker!Next
      BY <2>1, RefusedIsReject, FileIsAsk DEF Broker!Next, HubInv, TypeInv
    <2>2. CASE OpenReceive(o)
      BY <2>2, ReceiveIsJoin DEF Broker!Next
    <2>3. CASE OpenForget(o) /\ opn[o].result # "stream"
      BY <2>3, ForgetIsRefuse DEF Broker!Next, HubInv, TypeInv
    <2>4. CASE \/ OpenWrite(o) \/ OpenWriteFails(o)
               \/ \E err \in GiveUps : OpenGiveUp(o, err)
               \/ OpenForget(o) /\ opn[o].result = "stream"
               \/ OpenDrain(o) \/ CallerClose(o)
      BY <1>1, <2>4, QuietCalls
    <2> QED
      BY <1>3, <2>1, <2>2, <2>3, <2>4 DEF OpenerStep
  <1>4. ASSUME NEW r \in Relays, RelayStep(r)
        PROVE  [Broker!Next]_(Broker!bvars)
    <2>1. ASSUME NEW sb \in Sandboxes, NEW c \in Openers, RelayClaim(r, sb, c)
          PROVE  Broker!Next
      BY <2>1, ClaimIsOffer DEF Broker!Next
    <2>2. CASE \/ \E sb \in Sandboxes, c \in Openers : RelayUnknown(r, sb, c)
               \/ RelayAccept(r) \/ RelayHandOff(r)
      BY <1>1, <2>2, QuietRelays
    <2> QED
      BY <1>4, <2>1, <2>2 DEF RelayStep
  <1>5. Next => \/ UNCHANGED <<opn, rel>>
                \/ \E o \in Openers : OpenerStep(o)
                \/ \E r \in Relays : RelayStep(r)
    BY DEF Next, SupervisorStep, SupervisorAccept, Register, ClosePrev, ReaderSees,
       ReaderFails, LoopDone, LoopCancelled, LoopSeen, KeepaliveTimeout, Ping,
       PingFails, Unregister, CloseSelf, PeerFails, DisconnectLock, DisconnectClose,
       supOnly
  <1> QED
    BY <1>2, <1>3, <1>4, <1>5 DEF vars

\* OpenChannel and ServeRelay implement the broker: every request is answered
\* once, with the one stream its own sandbox offered for it, or refused.
THEOREM HubImplementsBroker == Spec => ImplementsBroker
  <1>1. Init => AnswerInv /\ Broker!Init
    BY DEF Init, AnswerInv, Broker!Init, Answer, Holding
  <1>2. HubInv /\ AnswerInv /\ [Next]_vars => AnswerInv'
    BY AnswerInvStep DEF HubInv, TypeInv
  <1>3. HubInv /\ AnswerInv /\ [Next]_vars => [Broker!Next]_(Broker!bvars)
    BY BrokerStep
  <1> QED
    BY <1>1, <1>2, <1>3, HubInvariant, PTL DEF Spec, ImplementsBroker, Broker!Spec
=============================================================================
