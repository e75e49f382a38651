----------------------- MODULE CredentialStoreProofs ------------------------
(***************************************************************************)
(* Proofs about CredentialStore for any sets of names, secrets, providers  *)
(* and lifetimes.                                                          *)
(***************************************************************************)
EXTENDS CredentialStore, TLAPS

\* Every secret of st belongs to a registered sandbox, the one it was issued
\* for, and no secret of st whose end was acknowledged is usable.
Sound(st) ==
    /\ \A n \in Names : st.tokens[n] # NULL =>
          n \in st.sandboxes /\ owner[st.tokens[n]] = n /\ st.tokens[n] \notin dead
    /\ \A x \in Sessions : st.ssh[x] # NULL =>
          /\ st.ssh[x].sandbox \in st.sandboxes
          /\ owner[x] = st.ssh[x].sandbox
          /\ x \in dead => st.ssh[x].revoked = "yes"

\* Only secrets that were drawn can be dead or handed out.
DrawnFirst == \A x \in dead \cup given : owner[x] # NULL

SoundInv == TypeOK /\ DrawnFirst /\ Sound(mem) /\ Sound(disk)

\* The empty state.
LEMMA EmptyState == Empty \in State
  BY DEF Empty, State

\* A process that starts on a fresh data directory satisfies the invariant.
LEMMA SoundInit == Init => SoundInv
  BY EmptyState, StoreAssumption DEF Init, SoundInv, TypeOK, DrawnFirst, Sound, Empty, Secrets

\* What flushLocked leaves in memory and in the file are the new state or the
\* old one.
LEMMA FlushStates ==
    ASSUME NEW new \in State, NEW ok, Flush(new, ok), TypeOK
    PROVE  mem' \in State /\ disk' \in State /\ mem' = new /\ disk' \in {new, disk}
  BY DEF Flush, TypeOK

\* The steps of NewHandler, a crash and the clock keep the invariant.
LEMMA SoundBoot ==
    ASSUME SoundInv, NEW ok \in BOOLEAN, BootStep(ok) \/ Crash \/ Tick
    PROVE  SoundInv'
  <1>1. CASE Open(ok) \/ WriteAuthTokenFile(ok) \/ Crash
    BY <1>1, EmptyState DEF SoundInv, TypeOK, DrawnFirst, Sound, Open, WriteAuthTokenFile, Crash,
       Exit, history, Empty, State
  <1>2. ASSUME NEW b \in Bearers, EnsureAuthToken(b, ok)
        PROVE  SoundInv'
    <2>1. CASE mem.bearer = NULL /\ ok
      <3> DEFINE new == [mem EXCEPT !.bearer = b]
      <3>1. new \in State /\ new.tokens = mem.tokens /\ new.ssh = mem.ssh
            /\ new.sandboxes = mem.sandboxes
        BY DEF SoundInv, TypeOK, State
      <3>2. mem' = new /\ disk' = new /\ proc' = "token"
            /\ UNCHANGED <<file, now, history>>
        BY <1>2, <2>1 DEF EnsureAuthToken, Flush
      <3> HIDE DEF new
      <3> QED
        BY <3>1, <3>2 DEF SoundInv, TypeOK, DrawnFirst, Sound, history
    <2>2. CASE mem.bearer # NULL
      BY <1>2, <2>2 DEF SoundInv, TypeOK, DrawnFirst, Sound, EnsureAuthToken, history
    <2>3. CASE mem.bearer = NULL /\ ~ok
      <3>1. mem' = Empty /\ proc' = "down" /\ UNCHANGED <<disk, file, now, history>>
        BY <1>2, <2>3 DEF EnsureAuthToken, Exit
      <3> QED
        BY <3>1, EmptyState DEF SoundInv, TypeOK, DrawnFirst, Sound, history, Empty
    <2> QED
      BY <2>1, <2>2, <2>3
  <1>3. CASE Tick
    <2>1. now' \in 0..MaxTime
      BY <1>3, StoreAssumption DEF SoundInv, TypeOK, Tick
    <2>2. given' \in SUBSET Secrets
      BY <1>3 DEF SoundInv, TypeOK, Tick
    <2> QED
      BY <1>3, <2>1, <2>2 DEF SoundInv, TypeOK, DrawnFirst, Sound, Tick
  <1> QED
    BY <1>1, <1>2, <1>3 DEF BootStep

\* The operations on one sandbox keep the invariant.
LEMMA SoundStore ==
    ASSUME SoundInv, NEW ok \in BOOLEAN, NEW n \in Names, StoreStep(n, ok)
    PROVE  SoundInv'
  <1>1. ASSUME NEW ps \in SUBSET Providers, UpsertSandbox(n, ps, ok)
        PROVE  SoundInv'
    <2> DEFINE new == [mem EXCEPT !.sandboxes = @ \cup {n},
                                  !.attached[n] = IF ps = {} THEN @ ELSE ps]
    <2>1. /\ new \in State /\ new.tokens = mem.tokens /\ new.ssh = mem.ssh
          /\ new.sandboxes = mem.sandboxes \cup {n}
      BY DEF SoundInv, TypeOK, State
    <2>2. Flush(new, ok) /\ UNCHANGED <<owner, given, dead, still>>
          /\ acked' \in [Names -> SUBSET Providers]
      BY <1>1 DEF UpsertSandbox, SoundInv, TypeOK
    <2> HIDE DEF new
    <2> QED
      BY <2>1, <2>2 DEF SoundInv, TypeOK, DrawnFirst, Sound, Flush, still
  <1>2. CASE DeleteSandbox(n, ok)
    <2> DEFINE ssh == [x \in Sessions |->
                         IF mem.ssh[x] # NULL /\ mem.ssh[x].sandbox = n
                         THEN NULL ELSE mem.ssh[x]]
               new == [mem EXCEPT !.sandboxes = @ \ {n}, !.attached[n] = {},
                                  !.tokens[n] = NULL, !.ssh = ssh]
    <2>1. ssh \in [Sessions -> SSHSession \cup {NULL}]
      BY DEF SoundInv, TypeOK, State
    <2>2. /\ new \in State /\ new.tokens = [mem.tokens EXCEPT ![n] = NULL]
          /\ new.ssh = ssh /\ new.sandboxes = mem.sandboxes \ {n}
      BY <2>1 DEF SoundInv, TypeOK, State
    <2>3. /\ Flush(new, ok)
          /\ given' = given \ IssuedFor(n)
          /\ dead' = IF ok THEN dead \cup IssuedFor(n) ELSE dead
          /\ acked' \in [Names -> SUBSET Providers]
          /\ UNCHANGED <<owner, still>>
      BY <1>2 DEF DeleteSandbox, SoundInv, TypeOK
    <2> HIDE DEF new
    <2>4. TypeOK'
      BY <2>2, <2>3 DEF SoundInv, TypeOK, Flush, still, IssuedFor
    <2>5. Sound(mem)'
      BY <2>2, <2>3, StoreAssumption DEF SoundInv, TypeOK, State, Sound, Flush, IssuedFor
    <2>6. Sound(disk)'
      BY <2>3, <2>5 DEF SoundInv, Sound, Flush
    <2>7. DrawnFirst'
      BY <2>3, StoreAssumption DEF SoundInv, DrawnFirst, IssuedFor
    <2> QED
      BY <2>4, <2>5, <2>6, <2>7 DEF SoundInv
  <1>3. ASSUME NEW tok \in Tokens, IssueSandboxToken(n, tok, ok)
        PROVE  SoundInv'
    <2> DEFINE new == [mem EXCEPT !.tokens[n] = tok]
               old == IssuedFor(n) \cap Tokens
    <2>1. /\ new \in State /\ new.tokens = [mem.tokens EXCEPT ![n] = tok]
          /\ new.ssh = mem.ssh /\ new.sandboxes = mem.sandboxes
      BY DEF SoundInv, TypeOK, State
    <2>2. /\ Flush(new, ok) /\ n \in mem.sandboxes /\ owner[tok] = NULL
          /\ owner' = [owner EXCEPT ![tok] = n]
          /\ dead' = IF ok THEN dead \cup old ELSE dead
          /\ UNCHANGED <<acked, still>>
      BY <1>3 DEF IssueSandboxToken
    <2>3. given' \subseteq given \cup {tok}
      BY <1>3 DEF IssueSandboxToken
    <2> HIDE DEF new
    <2>4. TypeOK'
      BY <2>1, <2>2, <2>3 DEF SoundInv, TypeOK, Flush, still, IssuedFor, Secrets
    <2>5. tok \notin dead' /\ \A x \in Sessions : x \in dead' => x \in dead
      BY <2>2, StoreAssumption DEF SoundInv, TypeOK, DrawnFirst, IssuedFor, Secrets
    <2>6. Sound(mem)'
      BY <2>1, <2>2, <2>5, StoreAssumption DEF SoundInv, TypeOK, State, Sound, Flush,
         IssuedFor, Secrets
    <2>7. Sound(disk)'
      <3>1. CASE ok
        BY <2>2, <2>6, <3>1 DEF Sound, Flush
      <3>2. CASE ~ok
        BY <2>2, <3>2, StoreAssumption DEF SoundInv, TypeOK, State, Sound, Flush, Secrets
      <3> QED
        BY <3>1, <3>2
    <2>8. DrawnFirst'
      BY <2>2, <2>3, StoreAssumption DEF SoundInv, TypeOK, DrawnFirst, IssuedFor, Secrets
    <2> QED
      BY <2>4, <2>6, <2>7, <2>8 DEF SoundInv
  <1>4. ASSUME NEW y \in Sessions, NEW ttl \in TTLs, CreateSSHSession(n, y, ttl, ok)
        PROVE  SoundInv'
    <2> DEFINE sess == [sandbox |-> n, expires |-> IF ttl > 0 THEN now + ttl ELSE 0,
                        revoked |-> "no"]
               new == [mem EXCEPT !.ssh[y] = sess]
    <2>1. sess \in SSHSession
      BY StoreAssumption DEF SSHSession, SoundInv, TypeOK
    <2>2. sess.sandbox = n
      OBVIOUS
    <2>3. Flush(new, ok) /\ n \in mem.sandboxes /\ owner[y] = NULL
          /\ owner' = [owner EXCEPT ![y] = n]
          /\ given' \subseteq given \cup {y}
          /\ UNCHANGED <<dead, acked, still>>
      BY <1>4 DEF CreateSSHSession
    <2> HIDE DEF sess
    <2>4. /\ new \in State /\ new.ssh = [mem.ssh EXCEPT ![y] = sess]
          /\ new.tokens = mem.tokens /\ new.sandboxes = mem.sandboxes
      BY <2>1 DEF SoundInv, TypeOK, State
    <2> HIDE DEF new
    <2>5. TypeOK'
      BY <2>3, <2>4 DEF SoundInv, TypeOK, Flush, still, Secrets
    <2>6. y \notin dead
      BY <2>3 DEF SoundInv, DrawnFirst
    <2>7. Sound(mem)'
      BY <2>2, <2>3, <2>4, <2>6, StoreAssumption DEF SoundInv, TypeOK, State, Sound,
         Flush, Secrets
    <2>8. Sound(disk)'
      <3>1. CASE ok
        BY <2>3, <2>7, <3>1 DEF Sound, Flush
      <3>2. CASE ~ok
        BY <2>3, <3>2, StoreAssumption DEF SoundInv, TypeOK, State, Sound, Flush, Secrets
      <3> QED
        BY <3>1, <3>2
    <2>9. DrawnFirst'
      BY <2>3, StoreAssumption DEF SoundInv, TypeOK, DrawnFirst, Secrets
    <2> QED
      BY <2>5, <2>7, <2>8, <2>9 DEF SoundInv
  <1>5. ASSUME NEW p \in Providers, AttachProvider(n, p, ok) \/ DetachProvider(n, p, ok)
        PROVE  SoundInv'
    <2> DEFINE more == [mem EXCEPT !.attached[n] = @ \cup {p}]
               less == [mem EXCEPT !.attached[n] = @ \ {p}]
    <2>1. /\ more \in State /\ more.tokens = mem.tokens /\ more.ssh = mem.ssh
          /\ more.sandboxes = mem.sandboxes
          /\ less \in State /\ less.tokens = mem.tokens /\ less.ssh = mem.ssh
          /\ less.sandboxes = mem.sandboxes
      BY DEF SoundInv, TypeOK, State
    <2>2. /\ Flush(more, ok) \/ Flush(less, ok) \/ UNCHANGED <<mem, disk>>
          /\ acked' \in [Names -> SUBSET Providers]
          /\ UNCHANGED <<owner, given, dead, still>>
      BY <1>5 DEF AttachProvider, DetachProvider, SoundInv, TypeOK
    <2> HIDE DEF more, less
    <2> QED
      BY <2>1, <2>2 DEF SoundInv, TypeOK, DrawnFirst, Sound, Flush, still
  <1> QED
    BY <1>1, <1>2, <1>3, <1>4, <1>5 DEF StoreStep

\* Revoking and reaping keep the invariant.
LEMMA SoundSession ==
    ASSUME SoundInv, NEW ok \in BOOLEAN, SessionStep(ok)
    PROVE  SoundInv'
  <1>1. ASSUME NEW y \in Sessions, RevokeSSHSession(y, ok)
        PROVE  SoundInv'
    <2> DEFINE sess == [mem.ssh[y] EXCEPT !.revoked = "yes"]
               new == [mem EXCEPT !.ssh[y] = sess]
    <2>1. /\ mem.ssh[y] # NULL /\ Flush(new, ok)
          /\ given' \subseteq given
          /\ dead' = IF ok THEN dead \cup {y} ELSE dead
          /\ UNCHANGED <<owner, acked, still>>
      BY <1>1 DEF RevokeSSHSession
    <2>2. mem.ssh[y] \in SSHSession
      BY <2>1 DEF SoundInv, TypeOK, State
    <2>3. sess \in SSHSession /\ sess.sandbox = mem.ssh[y].sandbox
          /\ sess.revoked = "yes"
      BY <2>2 DEF SSHSession
    <2> HIDE DEF sess
    <2>4. /\ new \in State /\ new.ssh = [mem.ssh EXCEPT ![y] = sess]
          /\ new.tokens = mem.tokens /\ new.sandboxes = mem.sandboxes
      BY <2>3 DEF SoundInv, TypeOK, State
    <2> HIDE DEF new
    <2>5. TypeOK'
      BY <2>1, <2>4 DEF SoundInv, TypeOK, Flush, still, Secrets
    <2>6. Sound(mem)'
      BY <2>1, <2>3, <2>4, StoreAssumption DEF SoundInv, TypeOK, State, Sound, Flush
    <2>7. Sound(disk)'
      BY <2>1, <2>6 DEF SoundInv, Sound, Flush
    <2>8. DrawnFirst'
      <3>1. owner[y] # NULL
        BY <2>1, <2>2, StoreAssumption DEF SoundInv, Sound, SSHSession
      <3> QED
        BY <2>1, <3>1 DEF SoundInv, DrawnFirst
    <2> QED
      BY <2>5, <2>6, <2>7, <2>8 DEF SoundInv
  <1>2. ASSUME NEW t \in 0..MaxTime, ReapSSHSessions(t, ok)
        PROVE  SoundInv'
    <2> DEFINE ssh == [x \in Sessions |-> IF x \in Stale(t) THEN NULL ELSE mem.ssh[x]]
               new == [mem EXCEPT !.ssh = ssh]
    <2>1. Flush(new, ok) /\ UNCHANGED <<history, still>>
      BY <1>2 DEF ReapSSHSessions
    <2>2. ssh \in [Sessions -> SSHSession \cup {NULL}]
      BY DEF SoundInv, TypeOK, State
    <2>3. \A x \in Sessions : ssh[x] # NULL => ssh[x] = mem.ssh[x]
      OBVIOUS
    <2> HIDE DEF ssh
    <2>4. /\ new \in State /\ new.ssh = ssh
          /\ new.tokens = mem.tokens /\ new.sandboxes = mem.sandboxes
      BY <2>2 DEF SoundInv, TypeOK, State
    <2> HIDE DEF new
    <2> QED
      BY <2>1, <2>3, <2>4 DEF SoundInv, TypeOK, DrawnFirst, Sound, Flush, history, still
  <1> QED
    BY <1>1, <1>2 DEF SessionStep

-----------------------------------------------------------------------------
(* What is handed out is honoured, and the bearer file matches.            *)

BearerInv ==
    /\ file # NULL => file = disk.bearer
    /\ proc # "down" => mem.bearer = disk.bearer

\* Memory and file agree on when a session ends.
SameExpiry ==
    \A x \in Sessions : mem.ssh[x] # NULL /\ disk.ssh[x] # NULL =>
        mem.ssh[x].expires = disk.ssh[x].expires

GivenInv ==
    /\ SameExpiry
    /\ \A x \in given : Honours(disk, x) /\ (proc # "down" => Honours(mem, x))

\* Secret x is in b as it is in a.
SameSecret(a, b, x) ==
    /\ \A n \in Names : a.tokens[n] = x => b.tokens[n] = x
    /\ x \in Sessions => b.ssh[x] = a.ssh[x]
    /\ \A n \in a.sandboxes : owner[x] = n => n \in b.sandboxes

\* An operation that leaves the surviving secrets of the running gateway as they
\* are, whether its flush succeeds or not, keeps the promises made before.
LEMMA HonourFlush ==
    ASSUME SoundInv, GivenInv, BearerInv, Serving, NEW new \in State, NEW ok \in BOOLEAN,
           Flush(new, ok), UNCHANGED still, new.bearer = mem.bearer,
           \A x \in Sessions : new.ssh[x] # NULL /\ mem.ssh[x] # NULL =>
               new.ssh[x].expires = mem.ssh[x].expires,
           \A x \in Sessions : new.ssh[x] # NULL /\ mem.ssh[x] = NULL =>
               disk.ssh[x] = NULL,
           \A x \in given' :
               \/ x \in given /\ owner'[x] = owner[x] /\ SameSecret(mem, new, x)
               \/ Honours(mem, x)' /\ ok
    PROVE  GivenInv' /\ BearerInv'
  <1>1. BearerInv'
    BY DEF BearerInv, Flush, still, Serving
  <1>2. SameExpiry'
    <2>1. CASE ok
      BY <2>1 DEF Flush, SameExpiry
    <2>2. CASE ~ok
      BY <2>2 DEF Flush, SameExpiry, GivenInv
    <2> QED
      BY <2>1, <2>2
  <1>3. ASSUME NEW x \in given', x \in given, owner'[x] = owner[x], SameSecret(mem, new, x)
        PROVE  Honours(mem, x)' /\ Honours(disk, x)'
    <2>1. Honours(mem, x) /\ Honours(disk, x)
      BY <1>3 DEF GivenInv, Serving
    <2>2. owner[x] \in Names
      BY <1>3, StoreAssumption DEF SoundInv, TypeOK, DrawnFirst
    <2>3. Honours(mem, x)'
      BY <1>3, <2>1, <2>2 DEF Honours, SandboxForToken, ValidateSSHSession, SameSecret,
         Flush, still
    <2> QED
      BY <1>3, <2>1, <2>3 DEF Honours, Flush, still
  <1>4. ASSUME NEW x \in given', Honours(mem, x)', ok
        PROVE  Honours(mem, x)' /\ Honours(disk, x)'
    BY <1>4 DEF Honours, Flush
  <1> QED
    BY <1>1, <1>2, <1>3, <1>4 DEF GivenInv

\* The operations on one sandbox keep the promises.
LEMMA HonourStore ==
    ASSUME SoundInv, GivenInv, BearerInv, NEW ok \in BOOLEAN, NEW n \in Names,
           StoreStep(n, ok)
    PROVE  GivenInv' /\ BearerInv'
  <1>1. ASSUME NEW ps \in SUBSET Providers, UpsertSandbox(n, ps, ok)
        PROVE  GivenInv' /\ BearerInv'
    <2> DEFINE new == [mem EXCEPT !.sandboxes = @ \cup {n},
                                  !.attached[n] = IF ps = {} THEN @ ELSE ps]
    <2>1. /\ new \in State /\ new.tokens = mem.tokens /\ new.ssh = mem.ssh
          /\ new.sandboxes = mem.sandboxes \cup {n} /\ new.bearer = mem.bearer
      BY DEF SoundInv, TypeOK, State
    <2>2. Flush(new, ok) /\ UNCHANGED <<owner, given, still>> /\ Serving
      BY <1>1 DEF UpsertSandbox
    <2> HIDE DEF new
    <2>3. \A x \in given : SameSecret(mem, new, x)
      BY <2>1 DEF SameSecret
    <2> QED
      BY <2>1, <2>2, <2>3, HonourFlush DEF still
  <1>2. CASE DeleteSandbox(n, ok)
    <2> DEFINE ssh == [x \in Sessions |->
                         IF mem.ssh[x] # NULL /\ mem.ssh[x].sandbox = n
                         THEN NULL ELSE mem.ssh[x]]
               new == [mem EXCEPT !.sandboxes = @ \ {n}, !.attached[n] = {},
                                  !.tokens[n] = NULL, !.ssh = ssh]
    <2>1. ssh \in [Sessions -> SSHSession \cup {NULL}]
      BY DEF SoundInv, TypeOK, State
    <2>2. /\ new \in State /\ new.tokens = [mem.tokens EXCEPT ![n] = NULL]
          /\ new.ssh = ssh /\ new.sandboxes = mem.sandboxes \ {n}
          /\ new.bearer = mem.bearer
      BY <2>1 DEF SoundInv, TypeOK, State
    <2>3. /\ Flush(new, ok) /\ UNCHANGED <<owner, still>> /\ Serving
          /\ given' = given \ IssuedFor(n)
      BY <1>2 DEF DeleteSandbox
    <2> HIDE DEF new
    <2>4. ASSUME NEW x \in given' PROVE x \in given /\ SameSecret(mem, new, x)
      <3>1. x \in Secrets /\ x \in given /\ owner[x] # n
        BY <2>3 DEF SoundInv, TypeOK, IssuedFor
      <3> QED
        BY <2>2, <3>1, StoreAssumption DEF SoundInv, TypeOK, State, Sound, SameSecret,
           Secrets
    <2>5. \A x \in Sessions : new.ssh[x] # NULL => new.ssh[x] = mem.ssh[x]
      BY <2>2
    <2> QED
      BY <2>2, <2>3, <2>4, <2>5, HonourFlush DEF still
  <1>3. ASSUME NEW tok \in Tokens, IssueSandboxToken(n, tok, ok)
        PROVE  GivenInv' /\ BearerInv'
    <2> DEFINE new == [mem EXCEPT !.tokens[n] = tok]
    <2>1. /\ new \in State /\ new.tokens = [mem.tokens EXCEPT ![n] = tok]
          /\ new.ssh = mem.ssh /\ new.sandboxes = mem.sandboxes
          /\ new.bearer = mem.bearer
      BY DEF SoundInv, TypeOK, State
    <2>2. /\ Flush(new, ok) /\ n \in mem.sandboxes /\ owner[tok] = NULL
          /\ owner' = [owner EXCEPT ![tok] = n]
          /\ given' = (given \ (IssuedFor(n) \cap Tokens)) \cup IF ok THEN {tok} ELSE {}
          /\ UNCHANGED still /\ Serving
      BY <1>3 DEF IssueSandboxToken
    <2> HIDE DEF new
    <2>3. ASSUME NEW x \in given', x # tok
          PROVE  x \in given /\ owner'[x] = owner[x] /\ SameSecret(mem, new, x)
      <3>1. /\ x \in given /\ x \in Secrets /\ (owner[x] # n \/ x \notin Tokens)
            /\ owner'[x] = owner[x]
        BY <2>2, <2>3 DEF SoundInv, TypeOK, IssuedFor
      <3>2. mem.tokens[n] # x
        BY <3>1, StoreAssumption DEF SoundInv, TypeOK, State, Sound, Secrets
      <3> QED
        BY <2>1, <3>1, <3>2 DEF SameSecret
    <2>4. ASSUME tok \in given' PROVE Honours(mem, tok)' /\ ok
      <3>1. ok
        BY <2>2, <2>4 DEF SoundInv, DrawnFirst
      <3>2. mem'.tokens[n] = tok /\ n \in mem'.sandboxes /\ owner'[tok] = n
        BY <2>1, <2>2 DEF Flush, SoundInv, TypeOK, State, Secrets
      <3> QED
        BY <3>1, <3>2 DEF Honours, SandboxForToken
    <2> QED
      BY <2>1, <2>2, <2>3, <2>4, HonourFlush DEF still
  <1>4. ASSUME NEW y \in Sessions, NEW ttl \in TTLs, CreateSSHSession(n, y, ttl, ok)
        PROVE  GivenInv' /\ BearerInv'
    <2> DEFINE sess == [sandbox |-> n, expires |-> IF ttl > 0 THEN now + ttl ELSE 0,
                        revoked |-> "no"]
               new == [mem EXCEPT !.ssh[y] = sess]
    <2>1. sess \in SSHSession
      BY StoreAssumption DEF SSHSession, SoundInv, TypeOK
    <2>2. sess.sandbox = n /\ sess.revoked = "no" /\ ~Expired(sess, now)
      BY StoreAssumption DEF Expired, SoundInv, TypeOK
    <2>3. /\ Flush(new, ok) /\ n \in mem.sandboxes /\ owner[y] = NULL
          /\ owner' = [owner EXCEPT ![y] = n]
          /\ given' = IF ok THEN given \cup {y} ELSE given
          /\ UNCHANGED still /\ Serving
      BY <1>4 DEF CreateSSHSession
    <2> HIDE DEF sess
    <2>4. /\ new \in State /\ new.ssh = [mem.ssh EXCEPT ![y] = sess]
          /\ new.tokens = mem.tokens /\ new.sandboxes = mem.sandboxes
          /\ new.bearer = mem.bearer
      BY <2>1 DEF SoundInv, TypeOK, State
    <2> HIDE DEF new
    <2>5. mem.ssh[y] = NULL /\ disk.ssh[y] = NULL /\ sess # NULL /\ y \notin given
      BY <2>1, <2>2, <2>3, StoreAssumption DEF SoundInv, TypeOK, State, Sound, DrawnFirst,
         SSHSession
    <2>6. ASSUME NEW x \in given', x # y
          PROVE  x \in given /\ owner'[x] = owner[x] /\ SameSecret(mem, new, x)
      BY <2>3, <2>4, <2>6 DEF SoundInv, TypeOK, State, SameSecret
    <2>7. ASSUME y \in given' PROVE Honours(mem, y)' /\ ok
      <3>1. ok
        BY <2>3, <2>5, <2>7
      <3>2. /\ mem'.ssh[y] = sess /\ n \in mem'.sandboxes /\ owner'[y] = n
            /\ now' = now
        BY <2>3, <2>4 DEF Flush, SoundInv, TypeOK, State, Secrets, still
      <3> QED
        BY <2>2, <2>5, <3>1, <3>2 DEF Honours, ValidateSSHSession, Expired
    <2>8. \A x \in Sessions : x # y => new.ssh[x] = mem.ssh[x]
      BY <2>4 DEF SoundInv, TypeOK, State
    <2> QED
      <3>1. \A x \in given' :
              \/ x \in given /\ owner'[x] = owner[x] /\ SameSecret(mem, new, x)
              \/ Honours(mem, x)' /\ ok
        <4> TAKE x \in given'
        <4>1. CASE x = y
          <5>1. y \in given'
            BY <4>1
          <5>2. Honours(mem, y)' /\ ok
            BY <2>7, <5>1
          <5> QED
            BY <4>1, <5>2 DEF Honours
        <4>2. CASE x # y
          BY <2>6, <4>2
        <4> QED
          BY <4>1, <4>2
      <3> QED
        BY <2>3, <2>4, <2>5, <2>8, <3>1, HonourFlush
  <1>5. ASSUME NEW p \in Providers, AttachProvider(n, p, ok) \/ DetachProvider(n, p, ok)
        PROVE  GivenInv' /\ BearerInv'
    <2> DEFINE more == [mem EXCEPT !.attached[n] = @ \cup {p}]
               less == [mem EXCEPT !.attached[n] = @ \ {p}]
    <2>1. /\ more \in State /\ more.tokens = mem.tokens /\ more.ssh = mem.ssh
          /\ more.sandboxes = mem.sandboxes /\ more.bearer = mem.bearer
          /\ less \in State /\ less.tokens = mem.tokens /\ less.ssh = mem.ssh
          /\ less.sandboxes = mem.sandboxes /\ less.bearer = mem.bearer
      BY DEF SoundInv, TypeOK, State
    <2>2. /\ Flush(more, ok) \/ Flush(less, ok) \/ UNCHANGED <<mem, disk>>
          /\ UNCHANGED <<owner, given, still>> /\ Serving
      BY <1>5 DEF AttachProvider, DetachProvider
    <2> HIDE DEF more, less
    <2>3. \A x \in given : SameSecret(mem, more, x) /\ SameSecret(mem, less, x)
      BY <2>1 DEF SameSecret
    <2>4. CASE Flush(more, ok)
      BY <2>1, <2>2, <2>3, <2>4, HonourFlush DEF still
    <2>5. CASE Flush(less, ok)
      BY <2>1, <2>2, <2>3, <2>5, HonourFlush DEF still
    <2>6. CASE UNCHANGED <<mem, disk>>
      BY <2>2, <2>6 DEF GivenInv, SameExpiry, Honours, SandboxForToken,
         ValidateSSHSession, Expired, BearerInv, still
    <2> QED
      BY <2>2, <2>4, <2>5, <2>6
  <1> QED
    BY <1>1, <1>2, <1>3, <1>4, <1>5 DEF StoreStep

\* Revoking and reaping keep the promises made about the other sessions.
LEMMA HonourSession ==
    ASSUME SoundInv, GivenInv, BearerInv, NEW ok \in BOOLEAN, SessionStep(ok)
    PROVE  GivenInv' /\ BearerInv'
  <1>1. ASSUME NEW y \in Sessions, RevokeSSHSession(y, ok)
        PROVE  GivenInv' /\ BearerInv'
    <2> DEFINE sess == [mem.ssh[y] EXCEPT !.revoked = "yes"]
               new == [mem EXCEPT !.ssh[y] = sess]
    <2>1. /\ mem.ssh[y] # NULL /\ Flush(new, ok)
          /\ given' = given \ {y}
          /\ UNCHANGED <<owner, still>> /\ Serving
      BY <1>1 DEF RevokeSSHSession
    <2>2. mem.ssh[y] \in SSHSession
      BY <2>1 DEF SoundInv, TypeOK, State
    <2>3. sess \in SSHSession /\ sess.expires = mem.ssh[y].expires
      BY <2>2 DEF SSHSession
    <2> HIDE DEF sess
    <2>4. /\ new \in State /\ new.ssh = [mem.ssh EXCEPT ![y] = sess]
          /\ new.tokens = mem.tokens /\ new.sandboxes = mem.sandboxes
          /\ new.bearer = mem.bearer
      BY <2>3 DEF SoundInv, TypeOK, State
    <2> HIDE DEF new
    <2>5. \A x \in given' : x \in given /\ SameSecret(mem, new, x)
      BY <2>1, <2>4 DEF SoundInv, TypeOK, State, SameSecret
    <2>6. \A x \in Sessions : x # y => new.ssh[x] = mem.ssh[x]
      BY <2>4 DEF SoundInv, TypeOK, State
    <2>7. new.ssh[y].expires = mem.ssh[y].expires
      BY <2>3, <2>4 DEF SoundInv, TypeOK, State
    <2> QED
      BY <2>1, <2>4, <2>5, <2>6, <2>7, HonourFlush
  <1>2. ASSUME NEW t \in 0..MaxTime, ReapSSHSessions(t, ok)
        PROVE  GivenInv' /\ BearerInv'
    <2> DEFINE ssh == [x \in Sessions |-> IF x \in Stale(t) THEN NULL ELSE mem.ssh[x]]
               new == [mem EXCEPT !.ssh = ssh]
    <2>1. Flush(new, ok) /\ UNCHANGED <<owner, given, still>> /\ Serving /\ t <= now
      BY <1>2 DEF ReapSSHSessions, history
    <2>2. ssh \in [Sessions -> SSHSession \cup {NULL}]
      BY DEF SoundInv, TypeOK, State
    <2>3. \A x \in Sessions : ssh[x] # NULL => ssh[x] = mem.ssh[x]
      OBVIOUS
    <2>4. ASSUME NEW x \in given, x \in Sessions
          PROVE  ssh[x] = mem.ssh[x]
      <3>1. /\ mem.ssh[x] # NULL /\ mem.ssh[x].revoked = "no"
            /\ ~Expired(mem.ssh[x], now)
        BY <2>1, <2>4, StoreAssumption DEF GivenInv, Serving, Honours, ValidateSSHSession
      <3>2. mem.ssh[x].expires \in Nat
        BY <2>4, <3>1 DEF SoundInv, TypeOK, State, SSHSession
      <3>3. ~Expired(mem.ssh[x], t)
        BY <2>1, <3>1, <3>2, StoreAssumption DEF Expired, SoundInv, TypeOK
      <3> QED
        BY <2>4, <3>1, <3>3 DEF Stale
    <2> HIDE DEF ssh
    <2>5. /\ new \in State /\ new.ssh = ssh /\ new.bearer = mem.bearer
          /\ new.tokens = mem.tokens /\ new.sandboxes = mem.sandboxes
      BY <2>2 DEF SoundInv, TypeOK, State
    <2> HIDE DEF new
    <2>6. \A x \in given : SameSecret(mem, new, x)
      BY <2>4, <2>5 DEF SameSecret
    <2> QED
      BY <2>1, <2>3, <2>5, <2>6, HonourFlush
  <1> QED
    BY <1>1, <1>2 DEF SessionStep

\* Starting, stopping and the clock keep the promises.
LEMMA HonourBoot ==
    ASSUME SoundInv, GivenInv, BearerInv, NEW ok \in BOOLEAN,
           BootStep(ok) \/ Crash \/ Tick
    PROVE  GivenInv' /\ BearerInv'
  <1> USE DEF Honours, SandboxForToken, ValidateSSHSession, Expired
  <1>1. CASE Open(ok) \/ WriteAuthTokenFile(ok) \/ Crash
    BY <1>1 DEF GivenInv, SameExpiry, BearerInv, Open, WriteAuthTokenFile, Crash, Exit,
       history, Empty
  <1>2. ASSUME NEW b \in Bearers, EnsureAuthToken(b, ok)
        PROVE  GivenInv' /\ BearerInv'
    <2>1. CASE mem.bearer = NULL /\ ok
      <3> DEFINE new == [mem EXCEPT !.bearer = b]
      <3>1. new \in State /\ new.tokens = mem.tokens /\ new.ssh = mem.ssh
            /\ new.sandboxes = mem.sandboxes
        BY DEF SoundInv, TypeOK, State
      <3>2. mem' = new /\ disk' = new /\ proc' = "token" /\ proc = "opened"
            /\ UNCHANGED <<file, now, history>>
        BY <1>2, <2>1 DEF EnsureAuthToken, Flush
      <3>3. file = NULL
        BY <2>1, <3>2 DEF BearerInv
      <3> HIDE DEF new
      <3> QED
        BY <3>1, <3>2, <3>3 DEF GivenInv, SameExpiry, BearerInv, history
    <2>2. CASE mem.bearer # NULL
      BY <1>2, <2>2 DEF GivenInv, SameExpiry, BearerInv, EnsureAuthToken, history
    <2>3. CASE mem.bearer = NULL /\ ~ok
      <3>1. mem' = Empty /\ proc' = "down" /\ UNCHANGED <<disk, file, now, history>>
        BY <1>2, <2>3 DEF EnsureAuthToken, Exit
      <3> QED
        BY <3>1 DEF GivenInv, SameExpiry, BearerInv, history, Empty
    <2> QED
      BY <2>1, <2>2, <2>3
  <1>3. CASE Tick
    <2>1. UNCHANGED <<mem, disk, file, proc, owner>> /\ given' \subseteq given
      BY <1>3 DEF Tick
    <2>2. ASSUME NEW x \in given'
          PROVE  Honours(disk, x)' /\ (proc # "down" => Honours(mem, x)')
      <3>1. Honours(disk, x) /\ (proc # "down" => Honours(mem, x))
        BY <2>1, <2>2 DEF GivenInv
      <3>2. CASE x \in Tokens
        BY <2>1, <3>1, <3>2, StoreAssumption
      <3>3. CASE x \in Sessions
        <4>1. ~Expired(disk.ssh[x], now')
          BY <1>3, <2>2, <3>3 DEF Tick
        <4>2. disk.ssh[x] # NULL /\ (mem.ssh[x] # NULL => ~Expired(mem.ssh[x], now'))
          BY <3>1, <3>3, <4>1, StoreAssumption DEF GivenInv, SameExpiry
        <4> QED
          BY <2>1, <3>1, <3>3, <4>1, <4>2, StoreAssumption
      <3> QED
        BY <2>1, <3>2, <3>3 DEF SoundInv, TypeOK, Secrets
    <2> QED
      BY <2>1, <2>2 DEF GivenInv, SameExpiry, BearerInv
  <1> QED
    BY <1>1, <1>2, <1>3 DEF BootStep

-----------------------------------------------------------------------------
(* The theorems.                                                           *)

StoreInv == SoundInv /\ GivenInv /\ BearerInv

\* A fresh data directory satisfies the invariant.
LEMMA StoreInvInit == Init => StoreInv
  BY SoundInit DEF Init, StoreInv, GivenInv, SameExpiry, BearerInv, Empty

\* Every step of the store keeps the invariant.
LEMMA StoreInvStep == StoreInv /\ [Next]_vars => StoreInv'
  <1> SUFFICES ASSUME StoreInv, [Next]_vars PROVE StoreInv'
    OBVIOUS
  <1>1. CASE UNCHANGED vars
    <2>1. SoundInv'
      BY <1>1 DEF StoreInv, SoundInv, TypeOK, DrawnFirst, Sound, vars
    <2>2. GivenInv' /\ BearerInv'
      BY <1>1 DEF StoreInv, GivenInv, SameExpiry, BearerInv, Honours, SandboxForToken,
         ValidateSSHSession, Expired, vars
    <2> QED
      BY <2>1, <2>2 DEF StoreInv
  <1>2. ASSUME NEW ok \in BOOLEAN, BootStep(ok) \/ Crash \/ Tick
        PROVE  StoreInv'
    BY <1>2, SoundBoot, HonourBoot DEF StoreInv
  <1>3. ASSUME NEW ok \in BOOLEAN, SessionStep(ok)
        PROVE  StoreInv'
    BY <1>3, SoundSession, HonourSession DEF StoreInv
  <1>4. ASSUME NEW ok \in BOOLEAN, NEW n \in Names, StoreStep(n, ok)
        PROVE  StoreInv'
    BY <1>4, SoundStore, HonourStore DEF StoreInv
  <1>5. CASE Next
    BY <1>2, <1>3, <1>4, <1>5 DEF Next
  <1> QED
    BY <1>1, <1>5

\* The invariant holds in every reachable state of the store.
THEOREM StoreInvariant == Spec => []StoreInv
  BY StoreInvInit, StoreInvStep, PTL DEF Spec

\* Type correctness of the store.
THEOREM StoreTypeCorrect == Spec => []TypeOK
  <1>1. StoreInv => TypeOK
    BY DEF StoreInv, SoundInv
  <1> QED
    BY StoreInvariant, <1>1, PTL

\* A credential whose delete, rotation or revocation was acknowledged never
\* resolves again, whatever fails and however often the gateway restarts.
THEOREM EndedCredentialsStayEnded == Spec => []DeadStaysDead
  <1>1. StoreInv => DeadStaysDead
    BY StoreAssumption DEF StoreInv, SoundInv, TypeOK, State, Sound, DeadStaysDead,
       Grants, SandboxForToken, ValidateSSHSession
  <1> QED
    BY StoreInvariant, <1>1, PTL

\* No token or session outlives its sandbox, in memory or in state.json.
THEOREM CredentialsHaveSandboxes == Spec => []NoDanglingCredential
  <1>1. StoreInv => NoDanglingCredential
    BY DEF StoreInv, SoundInv, Sound, NoDanglingCredential
  <1> QED
    BY StoreInvariant, <1>1, PTL

\* What was handed out is honoured until it expires or its end is requested,
\* through failed flushes and restarts.
THEOREM HandedOutIsHonoured == Spec => []GivenIsHonoured
  <1>1. StoreInv => GivenIsHonoured
    BY DEF StoreInv, GivenInv, GivenIsHonoured, Serving
  <1> QED
    BY StoreInvariant, <1>1, PTL

\* The bearer in the file auth_token is the one the gateway that serves accepts,
\* wherever an earlier one stopped between writing state.json and that file.
THEOREM BearerFileIsHonoured == Spec => []BearerFileMatches
  <1>1. StoreInv => BearerFileMatches
    BY DEF StoreInv, BearerInv, BearerFileMatches, Serving
  <1> QED
    BY StoreInvariant, <1>1, PTL
=============================================================================
