--------------------- MODULE SupervisorLifecycleProofs ----------------------
(***************************************************************************)
(* Proofs about SupervisorLifecycle for any numbers of sandboxes, secrets, *)
(* streams and requests.                                                   *)
(***************************************************************************)
EXTENDS SupervisorLifecycle, TLAPS

\* A request that is past its first step knows its sandbox.
FramesNamed ==
    /\ \A s \in Controls : ctl[s].pc # "idle" =>
          ctl[s].token \in Tokens /\ ctl[s].sandbox \in Names
    /\ \A d \in Datas : dat[d].pc # "idle" =>
          dat[d].token \in Tokens /\ dat[d].sandbox \in Names
    /\ \A a \in Admins : adm[a].pc # "idle" => adm[a].sandbox \in Names
    /\ \A k \in Minters : mint[k].pc # "idle" => mint[k].sandbox \in Names
    /\ \A c \in Clients : cli[c].pc # "idle" => cli[c].sandbox \in Names

\* A secret in force was drawn for the sandbox that honours it, and a stream was
\* let in with a token of the sandbox it names.
SecretsOwned ==
    /\ \A n \in Names : tokens[n] # NULL => issued[tokens[n]] = n
    /\ \A x \in Sessions : ssh[x] # NULL => issued[x] = ssh[x]
    /\ \A s \in Controls : ctl[s].pc # "idle" => issued[ctl[s].token] = ctl[s].sandbox
    /\ \A d \in Datas : dat[d].pc # "idle" => issued[dat[d].token] = dat[d].sandbox

\* The hub knows a stream under the sandbox it was let in for, and knows it for
\* as long as it is open.
StreamsFiled ==
    /\ \A n \in Names : streams[n] # NULL =>
          ctl[streams[n]].pc = "serving" /\ ctl[streams[n]].sandbox = n
    /\ \A s \in Controls : ctl[s].pc = "serving" /\ s \notin closed =>
          streams[ctl[s].sandbox] = s

\* What a client was given belongs to its sandbox.
ClientsJoined ==
    \A c \in Clients :
        /\ cli[c].via # NULL => /\ ctl[cli[c].via].pc # "idle"
                                /\ ctl[cli[c].via].sandbox = cli[c].sandbox
        /\ cli[c].sess # NULL => /\ cli[c].pc # "idle"
                                 /\ issued[cli[c].sess] = cli[c].sandbox
        /\ cli[c].data # NULL => /\ dat[cli[c].data].pc # "idle"
                                 /\ dat[cli[c].data].sandbox = cli[c].sandbox

\* A stream whose token has ended is accounted for from the moment it was let
\* in, not only from its registration.
EndedIsKnown ==
    \A s \in Controls :
        /\ ctl[s].pc \in {"authed", "serving"} /\ s \notin closed
        /\ ~Principal(ctl[s].token, ctl[s].sandbox)
        => \/ Disconnecting(ctl[s].sandbox) \/ s \in late
           \/ ctl[s].sandbox \in unflushed

Inv == /\ TypeOK /\ FramesNamed /\ SecretsOwned /\ StreamsFiled
       /\ ClientsJoined /\ EndedIsKnown

-----------------------------------------------------------------------------

\* Nothing has been asked for.
LEMMA LifecycleInit == Init => Inv
  BY LifecycleAssumption DEF Init, Inv, TypeOK, FramesNamed, SecretsOwned, StreamsFiled,
     ClientsJoined, EndedIsKnown, CtlFrame, DatFrame, AdmFrame, MintFrame, CliFrame

\* A session a client presented was drawn for a sandbox.
LEMMA SessionIsNamed ==
    ASSUME Inv, NEW c \in Clients, cli[c].sess # NULL
    PROVE  cli[c].sess \in Sessions /\ issued[cli[c].sess] \in Names
  BY LifecycleAssumption DEF Inv, TypeOK, CliFrame, FramesNamed, ClientsJoined

\* withAuth lets a stream in with the token in force.
LEMMA ControlAuthKeeps ==
    ASSUME Inv, NEW s \in Controls, NEW tok \in Tokens, NEW n \in Names,
           ControlAuth(s, tok, n)
    PROVE  Inv'
  <1>1. TypeOK'
    BY LifecycleAssumption DEF Inv, TypeOK, FramesNamed, ControlAuth, RouteAllowed,
       Principal, store, hub, CtlFrame
  <1>2. FramesNamed'
    BY LifecycleAssumption DEF Inv, TypeOK, FramesNamed, ControlAuth, RouteAllowed,
       Principal, store, hub
  <1>3. SecretsOwned'
    BY LifecycleAssumption DEF Inv, TypeOK, FramesNamed, SecretsOwned, ControlAuth,
       RouteAllowed, Principal, store, hub, CtlFrame, DatFrame
  <1>4. StreamsFiled'
    BY LifecycleAssumption DEF Inv, TypeOK, FramesNamed, StreamsFiled, ControlAuth,
       RouteAllowed, Principal, store, hub
  <1>5. ClientsJoined'
    BY LifecycleAssumption DEF Inv, TypeOK, FramesNamed, SecretsOwned, StreamsFiled,
       ClientsJoined, ControlAuth, RouteAllowed, Principal, store, hub, CliFrame
  <1>6. EndedIsKnown'
    BY LifecycleAssumption DEF Inv, TypeOK, FramesNamed, SecretsOwned, StreamsFiled,
       EndedIsKnown, Disconnecting, ControlAuth, RouteAllowed, Principal, store, hub
  <1> QED
    BY <1>1, <1>2, <1>3, <1>4, <1>5, <1>6 DEF Inv

\* A stream that is registered takes the place of the one it closes.
LEMMA ControlServeKeeps ==
    ASSUME Inv, NEW s \in Controls, ControlServe(s)
    PROVE  Inv'
  <1>1. TypeOK'
    BY LifecycleAssumption DEF Inv, TypeOK, FramesNamed, ControlServe, store, hub,
       CtlFrame
  <1>2. FramesNamed'
    BY LifecycleAssumption DEF Inv, TypeOK, FramesNamed, ControlServe, store, hub
  <1>3. SecretsOwned'
    BY LifecycleAssumption DEF Inv, TypeOK, FramesNamed, SecretsOwned, ControlServe,
       store, hub, CtlFrame, DatFrame
  <1>4. StreamsFiled'
    BY LifecycleAssumption DEF Inv, TypeOK, FramesNamed, StreamsFiled, ControlServe,
       store, hub
  <1>5. ClientsJoined'
    BY LifecycleAssumption DEF Inv, TypeOK, FramesNamed, SecretsOwned, StreamsFiled,
       ClientsJoined, ControlServe, store, hub, CliFrame
  <1>6. EndedIsKnown'
    BY LifecycleAssumption DEF Inv, TypeOK, FramesNamed, SecretsOwned, StreamsFiled,
       EndedIsKnown, Disconnecting, Principal, ControlServe, store, hub
  <1> QED
    BY <1>1, <1>2, <1>3, <1>4, <1>5, <1>6 DEF Inv

\* A stream that ends leaves the hub.
LEMMA ControlEndKeeps ==
    ASSUME Inv, NEW s \in Controls, ControlEnd(s)
    PROVE  Inv'
  <1>1. TypeOK'
    <2>1. streams' \in [Names -> Controls \cup {NULL}]
      BY DEF Inv, TypeOK, ControlEnd
    <2>2. ctl' \in [Controls -> CtlFrame]
      BY DEF Inv, TypeOK, ControlEnd, CtlFrame
    <2> QED
      BY <2>1, <2>2 DEF Inv, TypeOK, ControlEnd, store
  <1>2. FramesNamed'
    BY LifecycleAssumption DEF Inv, TypeOK, FramesNamed, ControlEnd, store, hub
  <1>3. SecretsOwned'
    BY LifecycleAssumption DEF Inv, TypeOK, FramesNamed, SecretsOwned, ControlEnd,
       store, hub, CtlFrame, DatFrame
  <1>4. StreamsFiled'
    BY LifecycleAssumption DEF Inv, TypeOK, FramesNamed, StreamsFiled, ControlEnd,
       store, hub
  <1>5. ClientsJoined'
    BY LifecycleAssumption DEF Inv, TypeOK, FramesNamed, SecretsOwned, StreamsFiled,
       ClientsJoined, ControlEnd, store, hub, CliFrame
  <1>6. EndedIsKnown'
    BY LifecycleAssumption DEF Inv, TypeOK, FramesNamed, SecretsOwned, StreamsFiled,
       EndedIsKnown, Disconnecting, Principal, ControlEnd, store, hub
  <1> QED
    BY <1>1, <1>2, <1>3, <1>4, <1>5, <1>6 DEF Inv

\* The same for a data stream.
LEMMA DataAuthKeeps ==
    ASSUME Inv, NEW d \in Datas, NEW tok \in Tokens, NEW n \in Names, DataAuth(d, tok, n)
    PROVE  Inv'
  <1>1. TypeOK'
    BY LifecycleAssumption DEF Inv, TypeOK, FramesNamed, DataAuth, Principal, store,
       hub, DatFrame
  <1>2. FramesNamed'
    BY LifecycleAssumption DEF Inv, TypeOK, FramesNamed, DataAuth, Principal, store, hub
  <1>3. SecretsOwned'
    BY LifecycleAssumption DEF Inv, TypeOK, FramesNamed, SecretsOwned, DataAuth,
       Principal, store, hub, CtlFrame, DatFrame
  <1>4. StreamsFiled'
    BY LifecycleAssumption DEF Inv, TypeOK, FramesNamed, StreamsFiled, DataAuth,
       Principal, store, hub
  <1>5. ClientsJoined'
    BY LifecycleAssumption DEF Inv, TypeOK, FramesNamed, SecretsOwned, StreamsFiled,
       ClientsJoined, DataAuth, Principal, store, hub, CliFrame
  <1>6. EndedIsKnown'
    BY LifecycleAssumption DEF Inv, TypeOK, FramesNamed, SecretsOwned, StreamsFiled,
       EndedIsKnown, Disconnecting, DataAuth, Principal, store, hub
  <1> QED
    BY <1>1, <1>2, <1>3, <1>4, <1>5, <1>6 DEF Inv

\* A data stream is handed to a client of its sandbox.
LEMMA DataServeKeeps ==
    ASSUME Inv, NEW d \in Datas, NEW c \in Clients, DataServe(d, c)
    PROVE  Inv'
  <1>1. TypeOK'
    <2>1. cli' \in [Clients -> CliFrame]
      <3>1. cli[c] \in CliFrame
        BY DEF Inv, TypeOK
      <3>2. [cli[c] EXCEPT !.pc = "connected", !.data = d] \in CliFrame
        BY <3>1 DEF CliFrame
      <3> QED
        BY <3>2 DEF Inv, TypeOK, DataServe
    <2>2. dat' \in [Datas -> DatFrame]
      BY DEF Inv, TypeOK, DataServe, DatFrame
    <2> QED
      BY <2>1, <2>2 DEF Inv, TypeOK, DataServe, store, hub
  <1>2. FramesNamed'
    BY LifecycleAssumption DEF Inv, TypeOK, FramesNamed, DataServe, store, hub
  <1>3. SecretsOwned'
    BY LifecycleAssumption DEF Inv, TypeOK, FramesNamed, SecretsOwned, DataServe, store,
       hub, CtlFrame, DatFrame
  <1>4. StreamsFiled'
    BY LifecycleAssumption DEF Inv, TypeOK, FramesNamed, StreamsFiled, DataServe, store,
       hub
  <1>5. ClientsJoined'
    BY LifecycleAssumption DEF Inv, TypeOK, FramesNamed, SecretsOwned, StreamsFiled,
       ClientsJoined, DataServe, store, hub, CliFrame
  <1>6. EndedIsKnown'
    BY LifecycleAssumption DEF Inv, TypeOK, FramesNamed, SecretsOwned, StreamsFiled,
       EndedIsKnown, Disconnecting, Principal, DataServe, store, hub
  <1> QED
    BY <1>1, <1>2, <1>3, <1>4, <1>5, <1>6 DEF Inv

\* A claim whose upgrade fails.
LEMMA DataAcceptFailsKeeps ==
    ASSUME Inv, NEW d \in Datas, NEW c \in Clients, DataAcceptFails(d, c)
    PROVE  Inv'
  <1>1. TypeOK'
    <2>1. cli' \in [Clients -> CliFrame]
      <3>1. cli[c] \in CliFrame
        BY DEF Inv, TypeOK
      <3>2. [cli[c] EXCEPT !.pc = "waiting"] \in CliFrame
        BY <3>1 DEF CliFrame
      <3> QED
        BY <3>2 DEF Inv, TypeOK, DataAcceptFails
    <2>2. dat' \in [Datas -> DatFrame]
      BY DEF Inv, TypeOK, DataAcceptFails, DatFrame
    <2> QED
      BY <2>1, <2>2 DEF Inv, TypeOK, DataAcceptFails, store, hub
  <1>2. FramesNamed'
    BY LifecycleAssumption DEF Inv, TypeOK, FramesNamed, DataAcceptFails, store, hub
  <1>3. SecretsOwned'
    BY LifecycleAssumption DEF Inv, TypeOK, FramesNamed, SecretsOwned, DataAcceptFails,
       store, hub, CtlFrame, DatFrame
  <1>4. StreamsFiled'
    BY LifecycleAssumption DEF Inv, TypeOK, FramesNamed, StreamsFiled, DataAcceptFails,
       store, hub
  <1>5. ClientsJoined'
    BY LifecycleAssumption DEF Inv, TypeOK, FramesNamed, SecretsOwned, StreamsFiled,
       ClientsJoined, DataAcceptFails, store, hub, CliFrame
  <1>6. EndedIsKnown'
    BY LifecycleAssumption DEF Inv, TypeOK, FramesNamed, SecretsOwned, StreamsFiled,
       EndedIsKnown, Disconnecting, Principal, DataAcceptFails, store, hub
  <1> QED
    BY <1>1, <1>2, <1>3, <1>4, <1>5, <1>6 DEF Inv

\* A data stream that is turned away.
LEMMA DataUnknownKeeps ==
    ASSUME Inv, NEW d \in Datas, DataUnknown(d)
    PROVE  Inv'
  <1>1. TypeOK'
    BY LifecycleAssumption DEF Inv, TypeOK, FramesNamed, DataUnknown, store, hub,
       DatFrame
  <1>2. FramesNamed'
    BY LifecycleAssumption DEF Inv, TypeOK, FramesNamed, DataUnknown, store, hub
  <1>3. SecretsOwned'
    BY LifecycleAssumption DEF Inv, TypeOK, FramesNamed, SecretsOwned, DataUnknown,
       store, hub, CtlFrame, DatFrame
  <1>4. StreamsFiled'
    BY LifecycleAssumption DEF Inv, TypeOK, FramesNamed, StreamsFiled, DataUnknown,
       store, hub
  <1>5. ClientsJoined'
    BY LifecycleAssumption DEF Inv, TypeOK, FramesNamed, SecretsOwned, StreamsFiled,
       ClientsJoined, DataUnknown, store, hub, CliFrame
  <1>6. EndedIsKnown'
    BY LifecycleAssumption DEF Inv, TypeOK, FramesNamed, SecretsOwned, StreamsFiled,
       EndedIsKnown, Disconnecting, Principal, DataUnknown, store, hub
  <1> QED
    BY <1>1, <1>2, <1>3, <1>4, <1>5, <1>6 DEF Inv

\* A sandbox is registered.
LEMMA CreateSandboxKeeps ==
    ASSUME Inv, NEW n \in Names, CreateSandbox(n)
    PROVE  Inv'
  <1>1. TypeOK'
    BY LifecycleAssumption DEF Inv, TypeOK, FramesNamed, CreateSandbox, store, hub
  <1>2. FramesNamed'
    BY LifecycleAssumption DEF Inv, TypeOK, FramesNamed, CreateSandbox, store, hub
  <1>3. SecretsOwned'
    BY LifecycleAssumption DEF Inv, TypeOK, FramesNamed, SecretsOwned, CreateSandbox,
       store, hub, CtlFrame, DatFrame
  <1>4. StreamsFiled'
    BY LifecycleAssumption DEF Inv, TypeOK, FramesNamed, StreamsFiled, CreateSandbox,
       store, hub
  <1>5. ClientsJoined'
    BY LifecycleAssumption DEF Inv, TypeOK, FramesNamed, SecretsOwned, StreamsFiled,
       ClientsJoined, CreateSandbox, store, hub, CliFrame
  <1>6. EndedIsKnown'
    BY LifecycleAssumption DEF Inv, TypeOK, FramesNamed, SecretsOwned, StreamsFiled,
       EndedIsKnown, Disconnecting, Principal, CreateSandbox, store, hub
  <1> QED
    BY <1>1, <1>2, <1>3, <1>4, <1>5, <1>6 DEF Inv

\* A deletion ends the secrets of the sandbox; its Disconnect is to come, or the
\* error has been answered.
LEMMA AdminDeleteKeeps ==
    ASSUME Inv, NEW a \in Admins, NEW n \in Names, NEW ok \in BOOLEAN, AdminDelete(a, n, ok)
    PROVE  Inv'
  <1>1. TypeOK'
    BY LifecycleAssumption DEF Inv, TypeOK, FramesNamed, AdminDelete, Stored, store,
       hub, AdmFrame
  <1>2. FramesNamed'
    BY LifecycleAssumption DEF Inv, TypeOK, FramesNamed, AdminDelete, Stored, store, hub
  <1>3. SecretsOwned'
    BY LifecycleAssumption DEF Inv, TypeOK, FramesNamed, SecretsOwned, AdminDelete,
       Stored, store, hub, CtlFrame, DatFrame
  <1>4. StreamsFiled'
    BY LifecycleAssumption DEF Inv, TypeOK, FramesNamed, StreamsFiled, AdminDelete,
       Stored, store, hub
  <1>5. ClientsJoined'
    BY LifecycleAssumption DEF Inv, TypeOK, FramesNamed, SecretsOwned, StreamsFiled,
       ClientsJoined, AdminDelete, Stored, store, hub, CliFrame
  <1>6. EndedIsKnown'
    BY LifecycleAssumption DEF Inv, TypeOK, FramesNamed, SecretsOwned, StreamsFiled,
       EndedIsKnown, Disconnecting, Principal, AdminDelete, Stored, store, hub
  <1> QED
    BY <1>1, <1>2, <1>3, <1>4, <1>5, <1>6 DEF Inv

\* A rotation draws a token nobody has held, and ends the one before.
LEMMA AdminRotateKeeps ==
    ASSUME Inv, NEW a \in Admins, NEW n \in Names, NEW tok \in Tokens, NEW ok \in BOOLEAN,
           AdminRotate(a, n, tok, ok)
    PROVE  Inv'
  <1>1. TypeOK'
    BY LifecycleAssumption DEF Inv, TypeOK, FramesNamed, AdminRotate, Stored, store,
       hub, AdmFrame
  <1>2. FramesNamed'
    BY LifecycleAssumption DEF Inv, TypeOK, FramesNamed, AdminRotate, Stored, store, hub
  <1>3. SecretsOwned'
    BY LifecycleAssumption DEF Inv, TypeOK, FramesNamed, SecretsOwned, AdminRotate,
       Stored, store, hub, CtlFrame, DatFrame
  <1>4. StreamsFiled'
    BY LifecycleAssumption DEF Inv, TypeOK, FramesNamed, StreamsFiled, AdminRotate,
       Stored, store, hub
  <1>5. ClientsJoined'
    <2>1. \A x \in Sessions : issued[x] # NULL => issued'[x] = issued[x]
      BY DEF Inv, TypeOK, AdminRotate
    <2>2. UNCHANGED <<ctl, dat, cli>>
      BY DEF AdminRotate
    <2> QED
      BY <2>1, <2>2, SessionIsNamed, LifecycleAssumption DEF Inv, ClientsJoined
  <1>6. EndedIsKnown'
    BY LifecycleAssumption DEF Inv, TypeOK, FramesNamed, SecretsOwned, StreamsFiled,
       EndedIsKnown, Disconnecting, Principal, AdminRotate, Stored, store, hub
  <1> QED
    BY <1>1, <1>2, <1>3, <1>4, <1>5, <1>6 DEF Inv

\* A Disconnect closes the stream the hub knows, which is every open one of the
\* sandbox; those still on their way are the ones in late.
LEMMA AdminDisconnectKeeps ==
    ASSUME Inv, NEW a \in Admins, AdminDisconnect(a)
    PROVE  Inv'
  <1>1. TypeOK'
    BY LifecycleAssumption DEF Inv, TypeOK, FramesNamed, AdminDisconnect, Overtaken,
       store, hub, AdmFrame
  <1>2. FramesNamed'
    BY LifecycleAssumption DEF Inv, TypeOK, FramesNamed, AdminDisconnect, Overtaken,
       store, hub
  <1>3. SecretsOwned'
    BY LifecycleAssumption DEF Inv, TypeOK, FramesNamed, SecretsOwned, AdminDisconnect,
       Overtaken, store, hub, CtlFrame, DatFrame
  <1>4. StreamsFiled'
    BY LifecycleAssumption DEF Inv, TypeOK, FramesNamed, StreamsFiled, AdminDisconnect,
       Overtaken, store, hub
  <1>5. ClientsJoined'
    BY LifecycleAssumption DEF Inv, TypeOK, FramesNamed, SecretsOwned, StreamsFiled,
       ClientsJoined, AdminDisconnect, Overtaken, store, hub, CliFrame
  <1>6. EndedIsKnown'
    BY LifecycleAssumption DEF Inv, TypeOK, FramesNamed, SecretsOwned, StreamsFiled,
       EndedIsKnown, Disconnecting, Principal, AdminDisconnect, Overtaken, store, hub
  <1> QED
    BY <1>1, <1>2, <1>3, <1>4, <1>5, <1>6 DEF Inv

\* The steps of a session request.
LEMMA MintResolveKeeps ==
    ASSUME Inv, NEW k \in Minters, NEW n \in Names, MintResolve(k, n)
    PROVE  Inv'
  <1>1. TypeOK'
    BY LifecycleAssumption DEF Inv, TypeOK, FramesNamed, MintResolve, store, hub,
       MintFrame
  <1>2. FramesNamed'
    BY LifecycleAssumption DEF Inv, TypeOK, FramesNamed, MintResolve, store, hub
  <1>3. SecretsOwned'
    BY LifecycleAssumption DEF Inv, TypeOK, FramesNamed, SecretsOwned, MintResolve,
       store, hub, CtlFrame, DatFrame
  <1>4. StreamsFiled'
    BY LifecycleAssumption DEF Inv, TypeOK, FramesNamed, StreamsFiled, MintResolve,
       store, hub
  <1>5. ClientsJoined'
    BY LifecycleAssumption DEF Inv, TypeOK, FramesNamed, SecretsOwned, StreamsFiled,
       ClientsJoined, MintResolve, store, hub, CliFrame
  <1>6. EndedIsKnown'
    BY LifecycleAssumption DEF Inv, TypeOK, FramesNamed, SecretsOwned, StreamsFiled,
       EndedIsKnown, Disconnecting, Principal, MintResolve, store, hub
  <1> QED
    BY <1>1, <1>2, <1>3, <1>4, <1>5, <1>6 DEF Inv

\* hub.Connected is asked.
LEMMA MintConnectedKeeps ==
    ASSUME Inv, NEW k \in Minters, MintConnected(k)
    PROVE  Inv'
  <1>1. TypeOK'
    BY LifecycleAssumption DEF Inv, TypeOK, FramesNamed, MintConnected, store, hub,
       MintFrame
  <1>2. FramesNamed'
    <2>1. /\ mint[k].pc # "idle"
          /\ \A i \in Minters : mint'[i].sandbox = mint[i].sandbox
                               /\ (mint'[i].pc # "idle" => mint[i].pc # "idle")
      BY DEF Inv, TypeOK, MintFrame, MintConnected
    <2> QED
      BY <2>1 DEF Inv, FramesNamed, MintConnected
  <1>3. SecretsOwned'
    BY LifecycleAssumption DEF Inv, TypeOK, FramesNamed, SecretsOwned, MintConnected,
       store, hub, CtlFrame, DatFrame
  <1>4. StreamsFiled'
    BY LifecycleAssumption DEF Inv, TypeOK, FramesNamed, StreamsFiled, MintConnected,
       store, hub
  <1>5. ClientsJoined'
    BY LifecycleAssumption DEF Inv, TypeOK, FramesNamed, SecretsOwned, StreamsFiled,
       ClientsJoined, MintConnected, store, hub, CliFrame
  <1>6. EndedIsKnown'
    BY LifecycleAssumption DEF Inv, TypeOK, FramesNamed, SecretsOwned, StreamsFiled,
       EndedIsKnown, Disconnecting, Principal, MintConnected, store, hub
  <1> QED
    BY <1>1, <1>2, <1>3, <1>4, <1>5, <1>6 DEF Inv

\* A session is drawn for the sandbox that was found.
LEMMA MintCreateKeeps ==
    ASSUME Inv, NEW k \in Minters, NEW x \in Sessions, MintCreate(k, x)
    PROVE  Inv'
  <1>1. TypeOK'
    <2>1. mint' \in [Minters -> MintFrame]
      BY DEF Inv, TypeOK, MintCreate, MintFrame
    <2>2. ssh' \in [Sessions -> Names \cup {NULL}]
          /\ issued' \in [Tokens \cup Sessions -> Names \cup {NULL}]
      BY DEF Inv, TypeOK, FramesNamed, MintCreate
    <2> QED
      BY <2>1, <2>2 DEF Inv, TypeOK, MintCreate, hub
  <1>2. FramesNamed'
    BY LifecycleAssumption DEF Inv, TypeOK, FramesNamed, MintCreate, store, hub
  <1>3. SecretsOwned'
    BY LifecycleAssumption DEF Inv, TypeOK, FramesNamed, SecretsOwned, MintCreate,
       store, hub, CtlFrame, DatFrame
  <1>4. StreamsFiled'
    BY LifecycleAssumption DEF Inv, TypeOK, FramesNamed, StreamsFiled, MintCreate,
       store, hub
  <1>5. ClientsJoined'
    <2>1. \A y \in Sessions : issued[y] # NULL => issued'[y] = issued[y]
      BY DEF Inv, TypeOK, MintCreate
    <2>2. UNCHANGED <<ctl, dat, cli>>
      BY DEF MintCreate
    <2> QED
      BY <2>1, <2>2, SessionIsNamed, LifecycleAssumption DEF Inv, ClientsJoined
  <1>6. EndedIsKnown'
    BY LifecycleAssumption DEF Inv, TypeOK, FramesNamed, SecretsOwned, StreamsFiled,
       EndedIsKnown, Disconnecting, Principal, MintCreate, store, hub
  <1> QED
    BY <1>1, <1>2, <1>3, <1>4, <1>5, <1>6 DEF Inv

\* A session ends.
LEMMA EndSessionKeeps ==
    ASSUME Inv, NEW x \in Sessions, EndSession(x)
    PROVE  Inv'
  <1>1. TypeOK'
    BY LifecycleAssumption DEF Inv, TypeOK, FramesNamed, EndSession, store, hub
  <1>2. FramesNamed'
    BY LifecycleAssumption DEF Inv, TypeOK, FramesNamed, EndSession, store, hub
  <1>3. SecretsOwned'
    BY LifecycleAssumption DEF Inv, TypeOK, FramesNamed, SecretsOwned, EndSession,
       store, hub, CtlFrame, DatFrame
  <1>4. StreamsFiled'
    BY LifecycleAssumption DEF Inv, TypeOK, FramesNamed, StreamsFiled, EndSession,
       store, hub
  <1>5. ClientsJoined'
    BY LifecycleAssumption DEF Inv, TypeOK, FramesNamed, SecretsOwned, StreamsFiled,
       ClientsJoined, EndSession, store, hub, CliFrame
  <1>6. EndedIsKnown'
    BY LifecycleAssumption DEF Inv, TypeOK, FramesNamed, SecretsOwned, StreamsFiled,
       EndedIsKnown, Disconnecting, Principal, EndSession, store, hub
  <1> QED
    BY <1>1, <1>2, <1>3, <1>4, <1>5, <1>6 DEF Inv

\* A client is let in with a session of the sandbox.
LEMMA ClientAllowedKeeps ==
    ASSUME Inv, NEW c \in Clients, NEW n \in Names, NEW x \in Sessions \cup {NULL},
           ClientAllowed(c, n, x)
    PROVE  Inv'
  <1>1. TypeOK'
    <2>1. cli' \in [Clients -> CliFrame]
      <3>1. cli[c] \in CliFrame /\ n \in Names \cup {NULL}
        BY DEF Inv, TypeOK
      <3>2. [cli[c] EXCEPT !.pc = "allowed", !.sandbox = n, !.sess = x] \in CliFrame
        BY <3>1 DEF CliFrame
      <3> QED
        BY <3>2 DEF Inv, TypeOK, ClientAllowed
    <2> QED
      BY <2>1 DEF Inv, TypeOK, ClientAllowed, store, hub
  <1>2. FramesNamed'
    BY LifecycleAssumption DEF Inv, TypeOK, FramesNamed, ClientAllowed, Valid, store,
       hub
  <1>3. SecretsOwned'
    BY LifecycleAssumption DEF Inv, TypeOK, FramesNamed, SecretsOwned, ClientAllowed,
       Valid, store, hub, CtlFrame, DatFrame
  <1>4. StreamsFiled'
    BY LifecycleAssumption DEF Inv, TypeOK, FramesNamed, StreamsFiled, ClientAllowed,
       Valid, store, hub
  <1>5. ClientsJoined'
    BY LifecycleAssumption DEF Inv, TypeOK, FramesNamed, SecretsOwned, StreamsFiled,
       ClientsJoined, ClientAllowed, Valid, store, hub, CliFrame
  <1>6. EndedIsKnown'
    BY LifecycleAssumption DEF Inv, TypeOK, FramesNamed, SecretsOwned, StreamsFiled,
       EndedIsKnown, Disconnecting, Principal, ClientAllowed, Valid, store, hub
  <1> QED
    BY <1>1, <1>2, <1>3, <1>4, <1>5, <1>6 DEF Inv

\* Its MsgOpen goes to the stream the hub knows for the sandbox.
LEMMA ClientOpenKeeps ==
    ASSUME Inv, NEW c \in Clients, ClientOpen(c)
    PROVE  Inv'
  <1>1. TypeOK'
    <2> DEFINE s == streams[cli[c].sandbox]
    <2>1. cli' \in [Clients -> CliFrame]
      <3>1. cli[c] \in CliFrame /\ s \in Controls \cup {NULL}
        BY DEF Inv, TypeOK, FramesNamed, ClientOpen
      <3>2. [cli[c] EXCEPT !.pc = IF s = NULL THEN "done" ELSE "opening", !.via = s] \in CliFrame
        BY <3>1 DEF CliFrame
      <3> QED
        BY <3>2 DEF Inv, TypeOK, ClientOpen
    <2> QED
      BY <2>1 DEF Inv, TypeOK, ClientOpen, store, hub
  <1>2. FramesNamed'
    BY LifecycleAssumption DEF Inv, TypeOK, FramesNamed, ClientOpen, store, hub
  <1>3. SecretsOwned'
    BY LifecycleAssumption DEF Inv, TypeOK, FramesNamed, SecretsOwned, ClientOpen,
       store, hub, CtlFrame, DatFrame
  <1>4. StreamsFiled'
    BY LifecycleAssumption DEF Inv, TypeOK, FramesNamed, StreamsFiled, ClientOpen,
       store, hub
  <1>5. ClientsJoined'
    BY LifecycleAssumption, SMTT(30) DEF Inv, TypeOK, FramesNamed, SecretsOwned,
       StreamsFiled, ClientsJoined, ClientOpen, store, hub, CliFrame
  <1>6. EndedIsKnown'
    BY LifecycleAssumption DEF Inv, TypeOK, FramesNamed, SecretsOwned, StreamsFiled,
       EndedIsKnown, Disconnecting, Principal, ClientOpen, store, hub
  <1> QED
    BY <1>1, <1>2, <1>3, <1>4, <1>5, <1>6 DEF Inv

\* The client is gone.
LEMMA ClientEndKeeps ==
    ASSUME Inv, NEW c \in Clients, ClientEnd(c)
    PROVE  Inv'
  <1>1. TypeOK'
    <2>1. cli' \in [Clients -> CliFrame]
      <3>1. cli[c] \in CliFrame
        BY DEF Inv, TypeOK
      <3>2. [cli[c] EXCEPT !.pc = "done"] \in CliFrame
        BY <3>1 DEF CliFrame
      <3> QED
        BY <3>2 DEF Inv, TypeOK, ClientEnd
    <2> QED
      BY <2>1 DEF Inv, TypeOK, ClientEnd, store, hub
  <1>2. FramesNamed'
    BY LifecycleAssumption DEF Inv, TypeOK, FramesNamed, ClientEnd, store, hub
  <1>3. SecretsOwned'
    BY LifecycleAssumption DEF Inv, TypeOK, FramesNamed, SecretsOwned, ClientEnd, store,
       hub, CtlFrame, DatFrame
  <1>4. StreamsFiled'
    BY LifecycleAssumption DEF Inv, TypeOK, FramesNamed, StreamsFiled, ClientEnd, store,
       hub
  <1>5. ClientsJoined'
    BY LifecycleAssumption DEF Inv, TypeOK, FramesNamed, SecretsOwned, StreamsFiled,
       ClientsJoined, ClientEnd, store, hub, CliFrame
  <1>6. EndedIsKnown'
    BY LifecycleAssumption DEF Inv, TypeOK, FramesNamed, SecretsOwned, StreamsFiled,
       EndedIsKnown, Disconnecting, Principal, ClientEnd, store, hub
  <1> QED
    BY <1>1, <1>2, <1>3, <1>4, <1>5, <1>6 DEF Inv

-----------------------------------------------------------------------------

\* Every step keeps the invariant.
LEMMA LifecycleNext == Inv /\ [Next]_vars => Inv'
  <1> SUFFICES ASSUME Inv, [Next]_vars PROVE Inv'
    OBVIOUS
  <1>1. CASE UNCHANGED vars
    BY <1>1 DEF Inv, TypeOK, FramesNamed, SecretsOwned, StreamsFiled, ClientsJoined,
       EndedIsKnown, Disconnecting, Principal, vars, store, hub
  <1>2. ASSUME NEW n \in Names, CreateSandbox(n) PROVE Inv'
    BY <1>2, CreateSandboxKeeps
  <1>3. ASSUME NEW a \in Admins, AdminStep(a) PROVE Inv'
    BY <1>3, AdminDeleteKeeps, AdminRotateKeeps, AdminDisconnectKeeps DEF AdminStep
  <1>4. ASSUME NEW s \in Controls, ControlStep(s) PROVE Inv'
    BY <1>4, ControlAuthKeeps, ControlServeKeeps, ControlEndKeeps DEF ControlStep
  <1>5. ASSUME NEW d \in Datas, DataStep(d) PROVE Inv'
    BY <1>5, DataAuthKeeps, DataServeKeeps, DataAcceptFailsKeeps, DataUnknownKeeps
       DEF DataStep
  <1>6. CASE SessionStep
    BY <1>6, MintResolveKeeps, MintConnectedKeeps, MintCreateKeeps, EndSessionKeeps
       DEF SessionStep
  <1>7. ASSUME NEW c \in Clients, ClientStep(c) PROVE Inv'
    BY <1>7, ClientAllowedKeeps, ClientOpenKeeps, ClientEndKeeps DEF ClientStep
  <1> QED
    BY <1>1, <1>2, <1>3, <1>4, <1>5, <1>6, <1>7 DEF Next

\* The inductive invariant holds in every reachable state.
THEOREM LifecycleInvariant == Spec => []Inv
  BY LifecycleInit, LifecycleNext, PTL DEF Spec

\* The store, the hub and the frames of the handlers keep to their shapes.
THEOREM LifecycleTypeCorrect == Spec => []TypeOK
  <1>1. Inv => TypeOK
    BY DEF Inv
  <1> QED
    BY <1>1, LifecycleInvariant, PTL

\* Streams, sessions and clients of two sandboxes are never joined, whatever
\* deletions, re-creations and rotations run between the steps of the handlers.
THEOREM SandboxesStayApart == Spec => []NoCrossSandbox
  <1>1. Inv => NoCrossSandbox
    <2> SUFFICES ASSUME Inv PROVE NoCrossSandbox
      OBVIOUS
    <2>1. \A n \in Names : streams[n] # NULL =>
             streams[n] \in Controls /\ issued[ctl[streams[n]].token] = n
      BY DEF Inv, TypeOK, SecretsOwned, StreamsFiled
    <2>2. ASSUME NEW c \in Clients
          PROVE  /\ cli[c].via \in Controls \cup {NULL}
                 /\ cli[c].data \in Datas \cup {NULL}
      BY DEF Inv, TypeOK, CliFrame
    <2> QED
      BY <2>1, <2>2 DEF Inv, SecretsOwned, ClientsJoined, NoCrossSandbox
  <1> QED
    BY <1>1, LifecycleInvariant, PTL

\* Rotation and deletion reach every open stream of the old token, but for the
\* streams that were past withAuth already and for operations answered with an
\* error.
THEOREM EndedTokensAreDisconnected == Spec => []EndedTokenIsDisconnected
  <1>1. Inv => EndedTokenIsDisconnected
    BY DEF Inv, EndedIsKnown, EndedTokenIsDisconnected, Outlived
  <1> QED
    BY <1>1, LifecycleInvariant, PTL
=============================================================================
