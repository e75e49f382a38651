------------------------ MODULE SupervisorLifecycle -------------------------
(***************************************************************************)
(* How the HTTP handlers combine the auth middleware, the store and the    *)
(* relay hub: supervisor streams, token rotation, deletion, SSH sessions,  *)
(* ssh connect and exec.                                                   *)
(*                                                                         *)
(* A request passes withAuth and its handler makes one call after another  *)
(* on the store and on the hub; each call is atomic here (CredentialStore  *)
(* and RelayHub look inside) and requests interleave between calls.        *)
(*                                                                         *)
(* Abstractions.  A secret stands for its hash and is drawn fresh.         *)
(* Revocation, expiry and reaping of an SSH session all end it.  A failed  *)
(* flush leaves its change in memory; the file does not matter here, since *)
(* a restart ends every stream.                                            *)
(***************************************************************************)
EXTENDS Naturals, FiniteSets

CONSTANTS
    Names,      \* sandbox names
    Tokens,     \* supervisor tokens that may be drawn
    Sessions,   \* SSH session tokens that may be drawn
    Controls,   \* requests for a control stream; also the stream
    Datas,      \* requests for a data stream; also the stream
    Admins,     \* requests that delete a sandbox or rotate its token
    Minters,    \* requests for an SSH session
    Clients,    \* ssh connect and exec requests
    NULL

ASSUME LifecycleAssumption ==
    NULL \notin UNION {Names, Tokens, Sessions, Controls, Datas, Clients}

VARIABLES
    sandboxes,  \* store: registered sandboxes
    tokens,     \* store: supervisor token of each sandbox, or NULL
    ssh,        \* store: sandbox of each SSH session that is in force, or NULL
    issued,     \* history: the sandbox each secret was drawn for, or NULL
    streams,    \* hub: registered control stream of each sandbox, or NULL
    closed,     \* hub: control streams that have been closed
    ctl, dat, adm, mint, cli,   \* frames of the requests
    late,       \* history: streams authenticated before a Disconnect ran and
                \* registered after it, with a token that had ended by then
    unflushed   \* history: sandboxes whose last rotation or deletion was
                \* answered with an error, so Disconnect was not called

store == <<sandboxes, tokens, ssh, issued>>
hub == <<streams, closed>>
vars == <<store, hub, ctl, dat, adm, mint, cli, late, unflushed>>

CtlFrame == [pc : {"idle", "authed", "serving", "done"},
             token : Tokens \cup {NULL}, sandbox : Names \cup {NULL}]
DatFrame == [pc : {"idle", "authed", "handed", "done"},
             token : Tokens \cup {NULL}, sandbox : Names \cup {NULL}]
AdmFrame == [pc : {"idle", "stored", "done"}, sandbox : Names \cup {NULL}]
MintFrame == [pc : {"idle", "resolved", "ready", "done"},
              sandbox : Names \cup {NULL}]
CliFrame == [pc : {"idle", "allowed", "opening", "waiting", "connected", "done"},
             sandbox : Names \cup {NULL}, sess : Sessions \cup {NULL},
             via : Controls \cup {NULL}, data : Datas \cup {NULL}]

\* The registry, the hub and the frames have the shapes of the code.
TypeOK ==
    /\ sandboxes \in SUBSET Names
    /\ tokens \in [Names -> Tokens \cup {NULL}]
    /\ ssh \in [Sessions -> Names \cup {NULL}]
    /\ issued \in [Tokens \cup Sessions -> Names \cup {NULL}]
    /\ streams \in [Names -> Controls \cup {NULL}]
    /\ closed \in SUBSET Controls
    /\ ctl \in [Controls -> CtlFrame]
    /\ dat \in [Datas -> DatFrame]
    /\ adm \in [Admins -> AdmFrame]
    /\ mint \in [Minters -> MintFrame]
    /\ cli \in [Clients -> CliFrame]
    /\ late \in SUBSET Controls
    /\ unflushed \in SUBSET Names

Init ==
    /\ sandboxes = {}
    /\ tokens = [n \in Names |-> NULL]
    /\ ssh = [x \in Sessions |-> NULL]
    /\ issued = [x \in Tokens \cup Sessions |-> NULL]
    /\ streams = [n \in Names |-> NULL]
    /\ closed = {}
    /\ ctl = [s \in Controls |-> [pc |-> "idle", token |-> NULL, sandbox |-> NULL]]
    /\ dat = [d \in Datas |-> [pc |-> "idle", token |-> NULL, sandbox |-> NULL]]
    /\ adm = [a \in Admins |-> [pc |-> "idle", sandbox |-> NULL]]
    /\ mint = [k \in Minters |-> [pc |-> "idle", sandbox |-> NULL]]
    /\ cli = [c \in Clients |-> [pc |-> "idle", sandbox |-> NULL, sess |-> NULL,
                                 via |-> NULL, data |-> NULL]]
    /\ late = {}
    /\ unflushed = {}

-----------------------------------------------------------------------------
(* withAuth and the supervisor routes.                                     *)

\* resolvePrincipal: SandboxForToken accepts tok for n.
Principal(tok, n) == n \in sandboxes /\ tokens[n] = tok

\* Variant: the control stream is served for the sandbox that was asked for.
RouteUnchecked(asked, n) == {asked, n} \subseteq Names

\* sandboxRouteAllowed and handleSupervisorConnect: the sandbox asked for is
\* the principal's.
RouteAllowed(asked, n) == asked = n

\* GET supervisor/connect passes withAuth and the handler's own check; a
\* request that is answered 401 or 403 leaves nothing behind.
ControlAuth(s, tok, asked) ==
    /\ ctl[s].pc = "idle"
    /\ \E n \in Names : Principal(tok, n) /\ RouteAllowed(asked, n)
    /\ ctl' = [ctl EXCEPT ![s] = [pc |-> "authed", token |-> tok, sandbox |-> asked]]
    /\ UNCHANGED <<store, hub, dat, adm, mint, cli, late, unflushed>>

\* hub.ServeSupervisor registers the stream and closes the one it replaces.
ControlServe(s) ==
    /\ ctl[s].pc = "authed"
    /\ LET n == ctl[s].sandbox
       IN  /\ streams' = [streams EXCEPT ![n] = s]
           /\ closed' = closed \cup ({streams[n]} \ {NULL})
    /\ ctl' = [ctl EXCEPT ![s].pc = "serving"]
    /\ UNCHANGED <<store, dat, adm, mint, cli, late, unflushed>>

\* ... and returns when the stream ends, for any reason, or never was accepted.
ControlEnd(s) ==
    /\ ctl[s].pc \in {"authed", "serving"}
    /\ ctl' = [ctl EXCEPT ![s].pc = "done"]
    /\ streams' = [n \in Names |-> IF streams[n] = s THEN NULL ELSE streams[n]]
    /\ closed' = closed \cup {s}
    /\ UNCHANGED <<store, dat, adm, mint, cli, late, unflushed>>

\* GET supervisor/relay/{channel}: withAuth, then handleSupervisorRelay.
DataAuth(d, tok, n) ==
    /\ dat[d].pc = "idle" /\ Principal(tok, n)
    /\ dat' = [dat EXCEPT ![d] = [pc |-> "authed", token |-> tok, sandbox |-> n]]
    /\ UNCHANGED <<store, hub, ctl, adm, mint, cli, late, unflushed>>

\* hub.ServeRelay: the stream goes to the client whose channel it names, if
\* that channel is pending and belongs to the principal's sandbox.
DataServe(d, c) ==
    /\ dat[d].pc = "authed"
    /\ cli[c].pc = "opening" /\ cli[c].sandbox = dat[d].sandbox
    /\ cli' = [cli EXCEPT ![c].pc = "connected", ![c].data = d]
    /\ dat' = [dat EXCEPT ![d].pc = "handed"]
    /\ UNCHANGED <<store, hub, ctl, adm, mint, late, unflushed>>

\* The channel is claimed but the upgrade fails: its client waits in vain.
DataAcceptFails(d, c) ==
    /\ dat[d].pc = "authed"
    /\ cli[c].pc = "opening" /\ cli[c].sandbox = dat[d].sandbox
    /\ cli' = [cli EXCEPT ![c].pc = "waiting"]
    /\ dat' = [dat EXCEPT ![d].pc = "done"]
    /\ UNCHANGED <<store, hub, ctl, adm, mint, late, unflushed>>

\* The channel is not pending, or another sandbox's: answered 404.
DataUnknown(d) ==
    /\ dat[d].pc = "authed"
    /\ dat' = [dat EXCEPT ![d].pc = "done"]
    /\ UNCHANGED <<store, hub, ctl, adm, mint, cli, late, unflushed>>

-----------------------------------------------------------------------------
(* The sandbox routes of an operator.                                      *)

CreateSandbox(n) ==
    /\ sandboxes' = sandboxes \cup {n}
    /\ UNCHANGED <<tokens, ssh, issued, hub, ctl, dat, adm, mint, cli, late, unflushed>>

\* The first call of the two handlers below has been made on sandbox n; an
\* error of the flush is answered at once.
Stored(a, n, ok) ==
    /\ adm' = [adm EXCEPT ![a] = [pc |-> IF ok THEN "stored" ELSE "done",
                                  sandbox |-> n]]
    /\ unflushed' = IF ok THEN unflushed ELSE unflushed \cup {n}

\* DELETE of a sandbox: st.DeleteSandbox.
AdminDelete(a, n, ok) ==
    /\ adm[a].pc = "idle"
    /\ sandboxes' = sandboxes \ {n}
    /\ tokens' = [tokens EXCEPT ![n] = NULL]
    /\ ssh' = [x \in Sessions |-> IF ssh[x] = n THEN NULL ELSE ssh[x]]
    /\ Stored(a, n, ok)
    /\ UNCHANGED <<issued, hub, ctl, dat, mint, cli, late>>

\* issueSandboxToken: st.IssueSandboxToken.
AdminRotate(a, n, tok, ok) ==
    /\ adm[a].pc = "idle" /\ n \in sandboxes /\ issued[tok] = NULL
    /\ tokens' = [tokens EXCEPT ![n] = tok]
    /\ issued' = [issued EXCEPT ![tok] = n]
    /\ Stored(a, n, ok)
    /\ UNCHANGED <<sandboxes, ssh, hub, ctl, dat, mint, cli, late>>

\* Control streams let in for n with a token that has ended since.
Overtaken(n) == {s \in Controls : /\ ctl[s].pc = "authed" /\ ctl[s].sandbox = n
                                  /\ ~Principal(ctl[s].token, n)}

\* Variant: Disconnect is left out.
AdminForgets(a) ==
    /\ adm[a].pc = "stored"
    /\ adm' = [adm EXCEPT ![a].pc = "done"]
    /\ UNCHANGED <<store, hub, ctl, dat, mint, cli, late, unflushed>>

\* Variant: Disconnect closes what it found without a look at nil.
AdminClosesNil(a) ==
    /\ adm[a].pc = "stored"
    /\ adm' = [adm EXCEPT ![a].pc = "done"]
    /\ LET n == adm[a].sandbox
       IN  /\ streams' = [streams EXCEPT ![n] = NULL]
           /\ closed' = closed \cup {streams[n]}
           /\ late' = late \cup Overtaken(n)
           /\ unflushed' = unflushed \ {n}
    /\ UNCHANGED <<store, ctl, dat, mint, cli>>

\* Then both call hub.Disconnect and answer.
AdminDisconnect(a) ==
    /\ adm[a].pc = "stored"
    /\ adm' = [adm EXCEPT ![a].pc = "done"]
    /\ LET n == adm[a].sandbox
       IN  /\ streams' = [streams EXCEPT ![n] = NULL]
           /\ closed' = closed \cup ({streams[n]} \ {NULL})
           /\ late' = late \cup Overtaken(n)
           /\ unflushed' = unflushed \ {n}
    /\ UNCHANGED <<store, ctl, dat, mint, cli>>

-----------------------------------------------------------------------------
(* createSession, handleSession (DELETE).                                  *)

\* resolveSandbox finds the sandbox ...
MintResolve(k, n) ==
    /\ mint[k].pc = "idle" /\ n \in sandboxes
    /\ mint' = [mint EXCEPT ![k] = [pc |-> "resolved", sandbox |-> n]]
    /\ UNCHANGED <<store, hub, ctl, dat, adm, cli, late, unflushed>>

\* ... hub.Connected must say yes ...
MintConnected(k) ==
    /\ mint[k].pc = "resolved"
    /\ mint' = [mint EXCEPT ![k].pc = IF streams[mint[k].sandbox] # NULL
                                      THEN "ready" ELSE "done"]
    /\ UNCHANGED <<store, hub, ctl, dat, adm, cli, late, unflushed>>

\* ... and st.CreateSSHSession looks the sandbox up again.
MintCreate(k, x) ==
    /\ mint[k].pc = "ready" /\ issued[x] = NULL
    /\ mint' = [mint EXCEPT ![k].pc = "done"]
    /\ IF mint[k].sandbox \in sandboxes
       THEN /\ ssh' = [ssh EXCEPT ![x] = mint[k].sandbox]
            /\ issued' = [issued EXCEPT ![x] = mint[k].sandbox]
       ELSE UNCHANGED <<ssh, issued>>
    /\ UNCHANGED <<sandboxes, tokens, hub, ctl, dat, adm, cli, late, unflushed>>

\* A session is revoked, or expires.
EndSession(x) ==
    /\ ssh[x] # NULL
    /\ ssh' = [ssh EXCEPT ![x] = NULL]
    /\ UNCHANGED <<sandboxes, tokens, issued, hub, ctl, dat, adm, mint, cli, late, unflushed>>

-----------------------------------------------------------------------------
(* handleSSHConnect, exec and execOverRelay.                               *)

\* st.ValidateSSHSession accepts session x for sandbox n.
Valid(x, n) == ssh[x] = n /\ n \in sandboxes

\* ssh connect with a session, or exec by an operator (no session).
ClientAllowed(c, n, x) ==
    /\ cli[c].pc = "idle"
    /\ IF x = NULL THEN n \in sandboxes ELSE Valid(x, n)
    /\ cli' = [cli EXCEPT ![c].pc = "allowed", ![c].sandbox = n, ![c].sess = x]
    /\ UNCHANGED <<store, hub, ctl, dat, adm, mint, late, unflushed>>

\* hub.OpenChannel sends MsgOpen to the registered control stream, or fails.
ClientOpen(c) ==
    /\ cli[c].pc = "allowed"
    /\ LET s == streams[cli[c].sandbox]
       IN  cli' = [cli EXCEPT ![c].pc = IF s = NULL THEN "done" ELSE "opening",
                              ![c].via = s]
    /\ UNCHANGED <<store, hub, ctl, dat, adm, mint, late, unflushed>>

\* The timeout, the end of the session or of the client while opening; the end
\* of the bridge or of the command when connected.
ClientEnd(c) ==
    /\ cli[c].pc \in {"opening", "waiting", "connected"}
    /\ cli' = [cli EXCEPT ![c].pc = "done"]
    /\ UNCHANGED <<store, hub, ctl, dat, adm, mint, late, unflushed>>

-----------------------------------------------------------------------------

AdminStep(a) ==
    \/ \E n \in Names, ok \in BOOLEAN :
          AdminDelete(a, n, ok) \/ \E tok \in Tokens : AdminRotate(a, n, tok, ok)
    \/ AdminDisconnect(a)

ControlStep(s) ==
    \/ \E tok \in Tokens, n \in Names : ControlAuth(s, tok, n)
    \/ ControlServe(s) \/ ControlEnd(s)

DataStep(d) ==
    \/ \E tok \in Tokens, n \in Names : DataAuth(d, tok, n)
    \/ \E c \in Clients : DataServe(d, c) \/ DataAcceptFails(d, c)
    \/ DataUnknown(d)

SessionStep ==
    \/ \E k \in Minters :
          \/ \E n \in Names : MintResolve(k, n)
          \/ MintConnected(k)
          \/ \E x \in Sessions : MintCreate(k, x)
    \/ \E x \in Sessions : EndSession(x)

ClientStep(c) ==
    \/ \E n \in Names, x \in Sessions \cup {NULL} : ClientAllowed(c, n, x)
    \/ ClientOpen(c) \/ ClientEnd(c)

Next ==
    \/ \E n \in Names : CreateSandbox(n)
    \/ \E a \in Admins : AdminStep(a)
    \/ \E s \in Controls : ControlStep(s)
    \/ \E d \in Datas : DataStep(d)
    \/ SessionStep
    \/ \E c \in Clients : ClientStep(c)

Spec == Init /\ [][Next]_vars

-----------------------------------------------------------------------------

\* Stream s is open and the token it presented has ended since.
Outlived(s) == /\ ctl[s].pc = "serving" /\ s \notin closed
               /\ ~Principal(ctl[s].token, ctl[s].sandbox)

\* A Disconnect for n is still to come.
Disconnecting(n) == \E a \in Admins : adm[a].pc = "stored" /\ adm[a].sandbox = n

\* A registered control stream presented a token that was issued for the very
\* sandbox it serves; a client's MsgOpen went to such a stream, its SSH session
\* is one of that sandbox, and the data stream it is bridged to was dialled by
\* that sandbox's supervisor: no interleaving of deletions, re-creations and
\* rotations joins two sandboxes (sandboxRouteAllowed, ValidateSSHSession,
\* ServeRelay).
NoCrossSandbox ==
    /\ \A n \in Names : streams[n] # NULL => issued[ctl[streams[n]].token] = n
    /\ \A c \in Clients :
          /\ cli[c].via # NULL => issued[ctl[cli[c].via].token] = cli[c].sandbox
          /\ cli[c].sess # NULL => issued[cli[c].sess] = cli[c].sandbox
          /\ cli[c].data # NULL => issued[dat[cli[c].data].token] = cli[c].sandbox

\* Rotation and deletion reach every open stream of a supervisor that held the
\* old token: one that outlives its token does so only until the Disconnect
\* that is under way, or because it was already past withAuth when that
\* Disconnect ran, or because the operation was answered with an error
\* (issueSandboxToken, DELETE of a sandbox, Hub.Disconnect).
EndedTokenIsDisconnected ==
    \A s \in Controls : Outlived(s) =>
        LET n == ctl[s].sandbox
        IN  Disconnecting(n) \/ s \in late \/ n \in unflushed

\* TestSupervisorTokenRotationKicksOldSupervisor, and hub.go on Disconnect:
\* once a rotation or a deletion is answered, the old supervisor is gone.
OldSupervisorIsKicked ==
    \A s \in Controls : Outlived(s) =>
        LET n == ctl[s].sandbox IN Disconnecting(n) \/ n \in unflushed
=============================================================================
