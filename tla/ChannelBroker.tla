---------------------------- MODULE ChannelBroker ----------------------------
(***************************************************************************)
(* What the relay promises its callers, without sessions, ids or locks:    *)
(* a request for a channel to a sandbox is answered once, with a stream    *)
(* that very sandbox offered for that very request, or with an error.      *)
(***************************************************************************)
CONSTANTS
    Sandboxes, Openers, Relays, NULL

VARIABLES
    state,  \* of each request: none, open, joined or refused
    asked,  \* the sandbox it is for
    given,  \* the stream it was answered with
    offer,  \* of each stream: the request it is offered for
    by      \* and the sandbox that offers it

bvars == <<state, asked, given, offer, by>>

Init ==
    /\ state = [o \in Openers |-> "none"]
    /\ asked = [o \in Openers |-> NULL]
    /\ given = [o \in Openers |-> NULL]
    /\ offer = [r \in Relays |-> NULL]
    /\ by = [r \in Relays |-> NULL]

Ask(o, sb) ==
    /\ state[o] = "none"
    /\ state' = [state EXCEPT ![o] = "open"]
    /\ asked' = [asked EXCEPT ![o] = sb]
    /\ UNCHANGED <<given, offer, by>>

\* No supervisor at all: the request is answered at once.
Reject(o, sb) ==
    /\ state[o] = "none"
    /\ state' = [state EXCEPT ![o] = "refused"]
    /\ asked' = [asked EXCEPT ![o] = sb]
    /\ UNCHANGED <<given, offer, by>>

Refuse(o) ==
    /\ state[o] = "open"
    /\ state' = [state EXCEPT ![o] = "refused"]
    /\ UNCHANGED <<asked, given, offer, by>>

\* The sandbox of an open request offers a new stream, the only one.
Offer(r, o) ==
    /\ state[o] = "open" /\ offer[r] = NULL
    /\ \A q \in Relays : offer[q] # o
    /\ offer' = [offer EXCEPT ![r] = o]
    /\ by' = [by EXCEPT ![r] = asked[o]]
    /\ UNCHANGED <<state, asked, given>>

Join(o, r) ==
    /\ state[o] = "open" /\ offer[r] = o /\ by[r] = asked[o]
    /\ state' = [state EXCEPT ![o] = "joined"]
    /\ given' = [given EXCEPT ![o] = r]
    /\ UNCHANGED <<asked, offer, by>>

Next ==
    \E o \in Openers :
        \/ \E sb \in Sandboxes : Ask(o, sb) \/ Reject(o, sb)
        \/ Refuse(o)
        \/ \E r \in Relays : Offer(r, o) \/ Join(o, r)

Spec == Init /\ [][Next]_bvars
=============================================================================
