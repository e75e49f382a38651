-------------------------- MODULE CredentialStore ---------------------------
(***************************************************************************)
(* The durable registry of internal/storage/store: sandboxes, supervisor   *)
(* tokens, SSH sessions, provider attachments and the local-dev bearer.    *)
(*                                                                         *)
(* Every operation runs under s.mu from its first read to the end of       *)
(* flushLocked, so it is one action.  flushLocked writes the whole state   *)
(* to a temporary file and renames it: it replaces state.json or leaves it *)
(* alone, and when it fails the change in memory stays.  The process may   *)
(* stop at any step and is started again from the file.                    *)
(*                                                                         *)
(* Abstractions.  A secret and the hash stored for it are one value, drawn *)
(* fresh (newSecret: 256 random bits); the id of an SSH session is its     *)
(* token.  Time is counted in units of the shortest session lifetime.      *)
(***************************************************************************)
EXTENDS Naturals, FiniteSets

CONSTANTS
    Names,        \* sandbox names
    Providers,    \* provider names
    Tokens,       \* supervisor tokens that may be drawn
    Sessions,     \* SSH session tokens that may be drawn
    Bearers,      \* local-dev bearer tokens that may be drawn
    TTLs,         \* session lifetimes in use; 0 means no expiry
    MaxTime,      \* bound on the clock
    NULL          \* an absent map entry, an empty string

\* A session record; expires = 0 means it does not expire.
SSHSession == [sandbox : Names, expires : Nat, revoked : {"yes", "no"}]

ASSUME StoreAssumption ==
    /\ TTLs \subseteq Nat
    /\ MaxTime \in Nat
    /\ Tokens \cap Sessions = {}
    /\ NULL \notin Names \cup Tokens \cup Sessions \cup Bearers \cup SSHSession

VARIABLES
    mem,     \* s.state
    disk,    \* the contents of state.json
    file,    \* the contents of DataDir/auth_token
    proc,    \* how far the process is in NewHandler
    now,     \* the clock
    owner,   \* history: the sandbox each drawn secret was issued for
    given,   \* history: secrets returned to a caller, not expired, no end requested
    dead,    \* history: secrets whose end was acknowledged to a caller
    acked    \* history: attachments acknowledged, no end of them requested

vars == <<mem, disk, file, proc, now, owner, given, dead, acked>>
history == <<owner, given, dead, acked>>

Secrets == Tokens \cup Sessions

State == [sandboxes : SUBSET Names,
          attached : [Names -> SUBSET Providers],
          tokens : [Names -> Tokens \cup {NULL}],
          ssh : [Sessions -> SSHSession \cup {NULL}],
          bearer : Bearers \cup {NULL}]

Empty == [sandboxes |-> {},
          attached |-> [n \in Names |-> {}],
          tokens |-> [n \in Names |-> NULL],
          ssh |-> [x \in Sessions |-> NULL],
          bearer |-> NULL]

\* The registry, the file and the histories have the shapes of store.State.
TypeOK ==
    /\ mem \in State /\ disk \in State
    /\ file \in Bearers \cup {NULL}
    /\ proc \in {"down", "opened", "token", "serving"}
    /\ now \in 0..MaxTime
    /\ owner \in [Secrets -> Names \cup {NULL}]
    /\ given \in SUBSET Secrets /\ dead \in SUBSET Secrets
    /\ acked \in [Names -> SUBSET Providers]

Init ==
    /\ mem = Empty /\ disk = Empty
    /\ file = NULL /\ proc = "down" /\ now = 0
    /\ owner = [x \in Secrets |-> NULL]
    /\ given = {} /\ dead = {}
    /\ acked = [n \in Names |-> {}]

\* flushLocked: ok says whether the rename happened.
Flush(new, ok) == mem' = new /\ disk' = IF ok THEN new ELSE disk

\* HashToken and the scan of SandboxForToken: the token resolves to n.
SandboxForToken(st, tok, n) == st.tokens[n] = tok /\ n \in st.sandboxes

Expired(sess, t) == sess.expires > 0 /\ t >= sess.expires

\* ValidateSSHSession returns no error.
ValidateSSHSession(st, tok, n, t) ==
    /\ st.ssh[tok] # NULL
    /\ st.ssh[tok].revoked = "no" /\ ~Expired(st.ssh[tok], t)
    /\ st.ssh[tok].sandbox = n /\ n \in st.sandboxes

-----------------------------------------------------------------------------
(* NewHandler: Open, then WriteAuthTokenFile, then serve.  An error ends   *)
(* the process.                                                            *)

\* The process ends; what was in memory is gone.
Exit == proc' = "down" /\ mem' = Empty

\* Open loads the file, makes missing maps and flushes: state.json keeps its
\* contents whether that flush succeeds or not.
Open(ok) ==
    /\ proc = "down"
    /\ IF ok THEN proc' = "opened" /\ mem' = disk ELSE Exit
    /\ UNCHANGED <<disk, file, now, history>>

\* Variant: an error of the flush is not returned.
EnsureUnflushed(b, ok) ==
    /\ proc = "opened" /\ proc' = "token"
    /\ IF mem.bearer = NULL THEN Flush([mem EXCEPT !.bearer = b], ok)
                            ELSE UNCHANGED <<mem, disk>>
    /\ UNCHANGED <<file, now, history>>

\* EnsureAuthToken draws a bearer if there is none.
EnsureAuthToken(b, ok) ==
    /\ proc = "opened"
    /\ \/ /\ mem.bearer # NULL
          /\ proc' = "token" /\ UNCHANGED <<mem, disk>>
       \/ /\ mem.bearer = NULL /\ ok
          /\ proc' = "token" /\ Flush([mem EXCEPT !.bearer = b], TRUE)
       \/ /\ mem.bearer = NULL /\ ~ok
          /\ Exit /\ UNCHANGED disk
    /\ UNCHANGED <<file, now, history>>

\* The rest of WriteAuthTokenFile: temporary file and rename.
WriteAuthTokenFile(ok) ==
    /\ proc = "token"
    /\ file' = IF ok THEN mem.bearer ELSE file
    /\ IF ok THEN proc' = "serving" /\ UNCHANGED mem ELSE Exit
    /\ UNCHANGED <<disk, now, history>>

\* The process stops at any moment.
Crash ==
    /\ proc # "down"
    /\ Exit
    /\ UNCHANGED <<disk, file, now, history>>

\* Time passes; a session that was handed out may reach the end of its life.
Tick ==
    /\ now < MaxTime
    /\ now' = now + 1
    /\ given' = {x \in given : x \in Sessions => ~Expired(disk.ssh[x], now')}
    /\ UNCHANGED <<mem, disk, file, proc, owner, dead, acked>>

-----------------------------------------------------------------------------
(* The operations of Store, called by the handlers.                        *)

still == <<file, proc, now>>
Serving == proc = "serving"

\* UpsertSandbox: an empty attachment list keeps the previous one.
UpsertSandbox(n, ps, ok) ==
    /\ Serving
    /\ Flush([mem EXCEPT !.sandboxes = @ \cup {n},
                         !.attached[n] = IF ps = {} THEN @ ELSE ps], ok)
    /\ acked' = IF ps = {} THEN acked ELSE [acked EXCEPT ![n] = @ \cap ps]
    /\ UNCHANGED <<owner, given, dead, still>>

\* The secrets issued for a sandbox name so far.
IssuedFor(n) == {x \in Secrets : owner[x] = n}

\* DeleteSandbox: the record, its token and its sessions.
DeleteSandbox(n, ok) ==
    /\ Serving
    /\ Flush([mem EXCEPT !.sandboxes = @ \ {n}, !.attached[n] = {},
                         !.tokens[n] = NULL,
                         !.ssh = [x \in Sessions |->
                                    IF @[x] # NULL /\ @[x].sandbox = n
                                    THEN NULL ELSE @[x]]], ok)
    /\ given' = given \ IssuedFor(n)
    /\ dead' = IF ok THEN dead \cup IssuedFor(n) ELSE dead
    /\ acked' = [acked EXCEPT ![n] = {}]
    /\ UNCHANGED <<owner, still>>

\* IssueSandboxToken: rotate; the plaintext is returned only if it was flushed.
IssueSandboxToken(n, tok, ok) ==
    /\ Serving /\ n \in mem.sandboxes /\ owner[tok] = NULL
    /\ Flush([mem EXCEPT !.tokens[n] = tok], ok)
    /\ owner' = [owner EXCEPT ![tok] = n]
    /\ LET old == IssuedFor(n) \cap Tokens
       IN  /\ given' = (given \ old) \cup IF ok THEN {tok} ELSE {}
           /\ dead' = IF ok THEN dead \cup old ELSE dead
    /\ UNCHANGED <<acked, still>>

\* Variant: the plaintext is returned although the flush failed.
CreateUnflushed(n, x, ttl, ok) ==
    /\ Serving /\ n \in mem.sandboxes /\ owner[x] = NULL
    /\ Flush([mem EXCEPT !.ssh[x] =
                [sandbox |-> n, expires |-> IF ttl > 0 THEN now + ttl ELSE 0,
                 revoked |-> "no"]], ok)
    /\ owner' = [owner EXCEPT ![x] = n]
    /\ given' = given \cup {x}
    /\ UNCHANGED <<dead, acked, still>>

\* Variant: the sandbox is not looked up under the lock.
CreateUnchecked(n, x, ttl, ok) ==
    /\ Serving /\ owner[x] = NULL
    /\ Flush([mem EXCEPT !.ssh[x] =
                [sandbox |-> n, expires |-> IF ttl > 0 THEN now + ttl ELSE 0,
                 revoked |-> "no"]], ok)
    /\ owner' = [owner EXCEPT ![x] = n]
    /\ given' = IF ok THEN given \cup {x} ELSE given
    /\ UNCHANGED <<dead, acked, still>>

\* CreateSSHSession.
CreateSSHSession(n, x, ttl, ok) ==
    /\ Serving /\ n \in mem.sandboxes /\ owner[x] = NULL
    /\ Flush([mem EXCEPT !.ssh[x] =
                [sandbox |-> n, expires |-> IF ttl > 0 THEN now + ttl ELSE 0,
                 revoked |-> "no"]], ok)
    /\ owner' = [owner EXCEPT ![x] = n]
    /\ given' = IF ok THEN given \cup {x} ELSE given
    /\ UNCHANGED <<dead, acked, still>>

\* Variant: a revoked record is wiped in place.
RevokeWipes(x, ok) ==
    /\ Serving /\ mem.ssh[x] # NULL
    /\ Flush([mem EXCEPT !.ssh[x].revoked = "yes", !.ssh[x].sandbox = NULL], ok)
    /\ given' = given \ {x}
    /\ dead' = IF ok THEN dead \cup {x} ELSE dead
    /\ UNCHANGED <<owner, acked, still>>

\* Variant: the revocation is left for the next flush to write.
RevokeUnflushed(x, ok) ==
    /\ Serving /\ mem.ssh[x] # NULL
    /\ Flush([mem EXCEPT !.ssh[x].revoked = "yes"], FALSE)
    /\ given' = given \ {x}
    /\ dead' = IF ok THEN dead \cup {x} ELSE dead
    /\ UNCHANGED <<owner, acked, still>>

\* RevokeSSHSession.
RevokeSSHSession(x, ok) ==
    /\ Serving /\ mem.ssh[x] # NULL
    /\ Flush([mem EXCEPT !.ssh[x].revoked = "yes"], ok)
    /\ given' = given \ {x}
    /\ dead' = IF ok THEN dead \cup {x} ELSE dead
    /\ UNCHANGED <<owner, acked, still>>

\* The sessions a reap at time t removes.
Stale(t) == {x \in Sessions : /\ mem.ssh[x] # NULL
                              /\ \/ mem.ssh[x].revoked = "yes"
                                 \/ Expired(mem.ssh[x], t)}

\* Variant: revoked sessions are left to expire.
ReapExpiredOnly(t, ok) ==
    LET old == {x \in Stale(t) : Expired(mem.ssh[x], t)}
    IN  /\ Serving /\ t <= now /\ old # {}
        /\ Flush([mem EXCEPT !.ssh = [x \in Sessions |->
                                        IF x \in old THEN NULL ELSE @[x]]], ok)
        /\ UNCHANGED <<history, still>>

\* ReapSSHSessions with the time of the tick, which the lock may delay.
ReapSSHSessions(t, ok) ==
    /\ Serving /\ t <= now /\ Stale(t) # {}
    /\ Flush([mem EXCEPT !.ssh = [x \in Sessions |->
                                    IF x \in Stale(t) THEN NULL ELSE @[x]]], ok)
    /\ UNCHANGED <<history, still>>

\* AttachProvider: no flush when the provider is already in the list.
AttachProvider(n, p, ok) ==
    /\ Serving /\ n \in mem.sandboxes
    /\ IF p \in mem.attached[n]
       THEN UNCHANGED <<mem, disk>> /\ acked' = [acked EXCEPT ![n] = @ \cup {p}]
       ELSE /\ Flush([mem EXCEPT !.attached[n] = @ \cup {p}], ok)
            /\ acked' = IF ok THEN [acked EXCEPT ![n] = @ \cup {p}] ELSE acked
    /\ UNCHANGED <<owner, given, dead, still>>

\* DetachProvider.
DetachProvider(n, p, ok) ==
    /\ Serving /\ n \in mem.sandboxes
    /\ Flush([mem EXCEPT !.attached[n] = @ \ {p}], ok)
    /\ acked' = [acked EXCEPT ![n] = @ \ {p}]
    /\ UNCHANGED <<owner, given, dead, still>>

-----------------------------------------------------------------------------

StoreStep(n, ok) ==
    \/ \E ps \in SUBSET Providers : UpsertSandbox(n, ps, ok)
    \/ DeleteSandbox(n, ok)
    \/ \E tok \in Tokens : IssueSandboxToken(n, tok, ok)
    \/ \E x \in Sessions, ttl \in TTLs : CreateSSHSession(n, x, ttl, ok)
    \/ \E p \in Providers : AttachProvider(n, p, ok) \/ DetachProvider(n, p, ok)

SessionStep(ok) ==
    \/ \E x \in Sessions : RevokeSSHSession(x, ok)
    \/ \E t \in 0..MaxTime : ReapSSHSessions(t, ok)

BootStep(ok) ==
    \/ Open(ok) \/ WriteAuthTokenFile(ok)
    \/ \E b \in Bearers : EnsureAuthToken(b, ok)

Next ==
    \/ \E ok \in BOOLEAN : \/ BootStep(ok)
                           \/ SessionStep(ok)
                           \/ \E n \in Names : StoreStep(n, ok)
    \/ Crash
    \/ Tick

Spec == Init /\ [][Next]_vars

\* reapSSHSessions runs on a ticker for the life of the process.
FairSpec == Spec /\ WF_vars(\E ok \in BOOLEAN : ReapSSHSessions(now, ok))

-----------------------------------------------------------------------------

\* Whether a state grants anything to the holder of a secret.
Grants(st, x) ==
    \E n \in Names :
        \/ x \in Tokens /\ SandboxForToken(st, x, n)
        \/ x \in Sessions /\ ValidateSSHSession(st, x, n, now)

\* A credential whose delete, rotation or revocation was acknowledged grants
\* nothing again: not after the sandbox is created anew, not after a failed
\* flush, not after a restart from state.json ("Re-creating the same name must
\* not resurrect old credentials", TestDeleteSandboxRevokesCredentials).
DeadStaysDead == \A x \in dead : ~Grants(mem, x) /\ ~Grants(disk, x)

\* Tokens and sessions exist only for registered sandboxes, in memory and in
\* the file: DeleteSandbox and the issuing operations look at one snapshot.
NoDanglingCredential ==
    \A st \in {mem, disk} : \A n \in Names \ st.sandboxes :
        /\ st.tokens[n] = NULL
        /\ \A x \in Sessions : st.ssh[x] # NULL => st.ssh[x].sandbox # n

\* Secret x is accepted for the sandbox it was issued for.  A credential that
\* was handed out and whose end nobody asked for is honoured
\* until it expires, now and after a restart, whatever operations failed in
\* between (TestCredentialsSurviveReopen).
Honours(st, x) ==
    \/ x \in Tokens /\ SandboxForToken(st, x, owner[x])
    \/ x \in Sessions /\ ValidateSSHSession(st, x, owner[x], now)

GivenIsHonoured ==
    \A x \in given : Honours(disk, x) /\ (Serving => Honours(mem, x))

\* The bearer in DataDir/auth_token is the one state.json holds, so it still
\* works after a restart, and the one the running gateway accepts.
BearerFileMatches ==
    file # NULL => file = disk.bearer /\ (Serving => file = mem.bearer)

\* README: "Durable state: state.json".  An attachment that was acknowledged is
\* in the file.
AckedAttachIsDurable ==
    \A n \in Names : acked[n] \subseteq disk.attached[n]

\* A revoked or expired session record does not stay in a running gateway for
\* ever, even when every flush of the reaper fails.
StaleIsReaped ==
    \A x \in Sessions :
        Serving /\ x \in Stale(now) ~> ~Serving \/ x \notin Stale(now)
=============================================================================
