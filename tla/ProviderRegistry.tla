-------------------------- MODULE ProviderRegistry --------------------------
(***************************************************************************)
(* Provider instances: their records in the store, their credentials in    *)
(* the secret store, the refresh settings and rotation of the credentials, *)
(* and the list of providers attached to a sandbox.                        *)
(*                                                                         *)
(* A method of Store is one action: it holds s.mu.  What the handlers do   *)
(* between two calls they do without a lock, on what the first call        *)
(* returned.  Two such returns are pointers into the store: the Refresh    *)
(* map of a record and the array of an attachment list.  Maps and arrays   *)
(* are therefore objects with an identity.                                 *)
(*                                                                         *)
(* Abstractions.  A refresh setting is its strategy; a provider has        *)
(* credentials in the secret store or it has none.  The expiry map of a    *)
(* record is carried over and written together with the Refresh map and    *)
(* left out.  Provider names have one length, so that a string header read *)
(* while it is being written is the old or the new name.  Two writes of    *)
(* one map at a time may make the Go runtime end the process: that is a    *)
(* Restart.  The lists of two sandboxes share no array, so there is one    *)
(* sandbox; what attachments grant is in PolicyFlow.                       *)
(***************************************************************************)
EXTENDS Naturals, Sequences, FiniteSets, SequencesExt

CONSTANTS
    Providers,  \* provider names
    Keys,       \* credential keys
    Strategies, \* refresh strategies
    Requests,   \* requests under way, and
    Readers,    \* those that go through the attachment list
    Maps,       \* Refresh maps, numbers
    Arrays,     \* arrays of attachment lists, numbers
    MaxCap,     \* their largest capacity
    Lists,      \* attachment lists in the body of a sandbox PUT
    Casts,      \* bounds of a behaviour: the kinds of request, the providers, how
                \* many requests at a time, the outcomes of a write (1 success)
    NIL,        \* a nil map or slice
    NULL

RequestKinds == {"put", "delete", "set", "unset", "rotate", "attach", "detach",
                 "sandbox", "resolve", "restart"}

ASSUME RegistryAssumption ==
    /\ Maps \subseteq Nat /\ Arrays \subseteq Nat /\ MaxCap \in Nat
    /\ Strategies \subseteq {"env", "oauth2-refresh-token",
                             "oauth2-client-credentials", "aws-sts-assume-role",
                             "unsupported"}
    /\ \A l \in Lists : Len(l) <= MaxCap
    /\ \A c \in Casts : c.kinds \subseteq RequestKinds /\ c.provs \subseteq Providers
                       /\ c.most \in Nat /\ c.outcomes \subseteq {0, 1}

ASSUME NilAssumption ==
    /\ NIL # NULL /\ NIL \notin Maps \cup Arrays
    /\ NULL \notin Maps \cup Providers
    /\ NULL \notin [Keys -> Strategies \cup {NULL}]
    /\ Lists \subseteq Seq(Providers)

\* The memory never runs out of maps and arrays: each record and each request
\* leads to at most one map, the list and each reader to at most one array, and
\* one more is made before the old one of the list is dropped.
ASSUME MemoryAssumption ==
    /\ IsFiniteSet(Providers) /\ IsFiniteSet(Requests) /\ IsFiniteSet(Readers)
    /\ IsFiniteSet(Maps) /\ IsFiniteSet(Arrays)
    /\ Cardinality(Providers) + Cardinality(Requests) <= Cardinality(Maps)
    /\ Cardinality(Readers) + 2 <= Cardinality(Arrays)

VARIABLES
    cast,    \* the member of Casts this behaviour belongs to
    rec,     \* state.Providers: the Refresh pointer of each record, or NULL
    maps,    \* contents of the Refresh maps
    disk,    \* state.json: the refresh settings of each record, or NULL,
    listed,  \* and the attached providers of the sandbox, or NULL
    secret,  \* secret store: the providers with credentials in it
    req,     \* frame of each request
    list,    \* AttachedProviders of the sandbox, or NULL
    cells,   \* contents of the arrays
    det,     \* frame of the DetachProvider that holds s.mu, or NULL
    rd,      \* frame of each reader
    want,    \* history: the settings made last, as of the write to the shared map
    raced,   \* history: the settings a request wrote back over newer ones
    gone,    \* history: providers deleted, with nothing under way on them
    saved    \* history: 1 if the last write of state.json succeeded

recVars == <<rec, maps, secret, want, raced, gone>>
listVars == <<list, cells, det, rd>>
fileVars == <<disk, listed, saved>>
vars == <<cast, recVars, fileVars, req, listVars>>

Settings == [Keys -> Strategies \cup {NULL}]
Nothing == [k \in Keys |-> NULL]

ReqPC == {"idle", "upsert", "creds", "purge", "mutate", "store", "rotate", "append"}
ReqFrame == [pc : ReqPC, kind : RequestKinds \cup {NULL}, prov : Providers \cup {NULL},
             key : Keys \cup {NULL}, cfg : Strategies \cup {"env", NULL},
             read : Maps \cup {NIL, NULL}, ptr : Maps \cup {NIL, NULL},
             creds : {0, 1},
             late : {0, 1}]  \* history: 1 if the provider was deleted since read
Idle == [pc |-> "idle", kind |-> NULL, prov |-> NULL, key |-> NULL, cfg |-> NULL,
         read |-> NULL, ptr |-> NULL, creds |-> 0, late |-> 0]

Slice == [arr : Arrays \cup {NIL}, len : 0..MaxCap]
Names(s) == IF s.arr = NIL THEN <<>> ELSE SubSeq(cells[s.arr], 1, s.len)
Attached == IF list = NULL THEN <<>> ELSE Names(list)

Away == [pc |-> "idle", slice |-> [arr |-> NIL, len |-> 0], at |-> NULL,
         got |-> <<>>, start |-> <<>>, seen |-> {}, calm |-> 1]
ReaderOK(f) ==
    /\ f.pc \in {"idle", "cell", "lookup"} /\ f.slice \in Slice
    /\ f.at \in Providers \cup {NULL} /\ f.got \in Seq(Providers)
    /\ f.start \in Seq(Providers) /\ f.seen \subseteq Providers /\ f.calm \in {0, 1}

\* The frames, pointers and histories keep to their shapes, and a list lies
\* within its array and holds names only.
TypeOK ==
    /\ cast \in Casts
    /\ rec \in [Providers -> Maps \cup {NIL, NULL}]
    /\ maps \in [Maps -> Settings]
    /\ \A p \in Providers : disk[p] = NULL \/ disk[p] \in Settings
    /\ listed # NULL => listed \in Seq(Providers)
    /\ secret \subseteq Providers
    /\ req \in [Requests -> ReqFrame]
    /\ list # NULL => list \in Slice
    /\ \A a \in Arrays : Len(cells[a]) <= MaxCap
    /\ Len(Attached) = (IF list = NULL THEN 0 ELSE list.len)
    /\ ToSet(Attached) \subseteq Providers
    /\ det = NULL \/ (det.prov \in Providers /\ det.n < det.i)
    /\ \A r \in Readers : ReaderOK(rd[r])
    /\ want \in [Providers -> Settings]
    /\ raced \in [Providers -> SUBSET Keys]
    /\ gone \subseteq Providers /\ saved \in {0, 1}

\* A process that has loaded a state.json with or without the providers.
Init ==
    /\ cast \in Casts
    /\ \E v \in {NIL, NULL} :
          rec = [p \in Providers |-> IF p \in cast.provs THEN v ELSE NULL]
    /\ maps = [m \in Maps |-> Nothing]
    /\ disk = [p \in Providers |-> IF rec[p] = NULL THEN NULL ELSE Nothing]
    /\ secret = {}
    /\ req = [t \in Requests |-> Idle]
    /\ list = NULL /\ listed = NULL
    /\ cells = [a \in Arrays |-> <<>>]
    /\ det = NULL
    /\ rd = [r \in Readers |-> Away]
    /\ want = [p \in Providers |-> Nothing]
    /\ raced = [p \in Providers |-> {}]
    /\ gone = {}
    /\ saved = 1

-----------------------------------------------------------------------------
(* Records.                                                                *)

Start(t, kind) ==
    /\ req[t].pc = "idle" /\ kind \in cast.kinds
    /\ Cardinality({u \in Requests : req[u].pc # "idle"}) < cast.most
Unlocked == det = NULL    \* s.mu is free
Return(t) == req' = [req EXCEPT ![t] = Idle]
Busy(p) == \E t \in Requests : req[t].prov = p

\* Maps some pointer leads to.  The others are garbage and may be used again.
MapsInUse == {rec[p] : p \in Providers}
             \cup UNION {{req[t].read, req[t].ptr} : t \in Requests}
FreshMap == Min(Maps \ MapsInUse)
Kept(contents) == [m \in Maps |-> IF m \in MapsInUse' THEN contents[m] ELSE Nothing]

Config(p) == IF rec[p] \in Maps THEN maps[rec[p]] ELSE Nothing

\* flushLocked: the whole state is written to a file that then takes the place
\* of state.json, or state.json stays as it is.
Flush(ok) ==
    /\ disk' = IF ok = 1
               THEN [p \in Providers |-> IF rec'[p] = NULL THEN NULL ELSE Config(p)']
               ELSE disk
    /\ listed' = IF ok = 1 THEN IF list' = NULL THEN NULL ELSE Attached' ELSE listed
    /\ saved' = ok

\* The Refresh pointer UpsertProvider stores: nil keeps the one there is.
UpsertProvider(p, ptr) == IF ptr = NIL /\ rec[p] \in Maps THEN rec[p] ELSE ptr

\* PUT of a provider: the body and its profile are good; creds is 1 if credentials
\* come with it.
PutStart(t, p, creds) ==
    /\ Start(t, "put")
    /\ req' = [req EXCEPT ![t] = [Idle EXCEPT !.pc = "upsert", !.kind = "put", !.prov = p,
                                             !.read = NIL, !.ptr = NIL, !.creds = creds]]
    /\ UNCHANGED <<cast, recVars, fileVars, listVars>>

\* UpsertProvider.  A handler that had read the record writes back what it read.
\* History: raced notes when the record was deleted meanwhile, and when there was
\* no map then and there is one now.
Upsert(t, ok) ==
    /\ req[t].pc = "upsert" /\ Unlocked
    /\ LET f == req[t]
           p == f.prov
           ptr == UpsertProvider(p, f.ptr)
       IN  /\ rec' = [rec EXCEPT ![p] = ptr]
           /\ raced' = [raced EXCEPT ![p] =
                           IF /\ f.kind # "put"
                              /\ f.late = 1 \/ (f.read = NIL /\ rec[p] \notin {NIL, ptr})
                           THEN Keys ELSE @]
           /\ want' = IF f.kind = "set" /\ f.read = NIL
                      THEN [want EXCEPT ![p][f.key] = f.cfg] ELSE want
           /\ gone' = IF f.kind = "put" THEN gone \ {p} ELSE gone
           /\ req' = [req EXCEPT ![t] = IF f.kind = "put" /\ ok = 1 /\ f.creds = 1
                                        THEN [f EXCEPT !.pc = "creds"] ELSE Idle]
    /\ maps' = Kept(maps)
    /\ UNCHANGED <<cast, secret, listVars>>
    /\ Flush(ok)

\* PutProviderCredentials of the PUT.
PutCredentials(t, ok) ==
    /\ req[t].pc = "creds"
    /\ secret' = IF ok = 1 THEN secret \cup {req[t].prov} ELSE secret
    /\ Return(t)
    /\ UNCHANGED <<cast, rec, maps, want, raced, gone, fileVars, listVars>>

\* DELETE: DeleteProvider; on an error the credentials stay.
DeleteProvider(t, p, ok) ==
    /\ Start(t, "delete") /\ Unlocked
    /\ rec' = [rec EXCEPT ![p] = NULL]
    /\ want' = [want EXCEPT ![p] = Nothing]
    /\ raced' = [raced EXCEPT ![p] = {}]
    /\ req' = [u \in Requests |->
                 CASE u = t /\ ok = 1 -> [Idle EXCEPT !.pc = "purge", !.prov = p,
                                                     !.kind = "delete"]
                   [] u # t /\ req[u].prov = p -> [req[u] EXCEPT !.late = 1]
                   [] OTHER -> req[u]]
    /\ maps' = Kept(maps)
    /\ UNCHANGED <<cast, secret, gone, listVars>>
    /\ Flush(ok)

\* History: no request has put the record back or may do so.
Deleted(t) ==
    LET p == req[t].prov
    IN  /\ rec[p] = NULL /\ disk[p] = NULL
        /\ \A u \in Requests \ {t} : req[u].prov # p

\* Variant: the credentials are left in the secret store.
DeletePrefixSkipped(t, ok) ==
    /\ req[t].pc = "purge"
    /\ Return(t)
    /\ gone' = IF ok = 1 /\ Deleted(t) THEN gone \cup {req[t].prov} ELSE gone
    /\ UNCHANGED <<cast, rec, maps, secret, want, raced, fileVars, listVars>>

\* DeletePrefix of its credentials, whose error is ignored.
DeletePrefix(t, ok) ==
    /\ req[t].pc = "purge"
    /\ secret' = IF ok = 1 THEN secret \ {req[t].prov} ELSE secret
    /\ Return(t)
    /\ gone' = IF ok = 1 /\ Deleted(t) THEN gone \cup {req[t].prov} ELSE gone
    /\ UNCHANGED <<cast, rec, maps, want, raced, fileVars, listVars>>

-----------------------------------------------------------------------------
(* Refresh settings and rotation.                                          *)

\* GetProvider, and the setting of the key; a rotation without one uses env.
Read(t, p, k, kind, cfg) ==
    /\ Start(t, kind) /\ Unlocked /\ rec[p] # NULL
    /\ req' = [req EXCEPT ![t] =
                  [pc |-> IF kind = "rotate" THEN "rotate" ELSE "mutate", kind |-> kind,
                   prov |-> p, key |-> k, cfg |-> cfg, read |-> rec[p], ptr |-> rec[p],
                   creds |-> 0, late |-> 0]]
    /\ UNCHANGED <<cast, recVars, fileVars, listVars>>

SetStart(t, p, k, s) == Read(t, p, k, "set", s)
UnsetStart(t, p, k) == Read(t, p, k, "unset", NULL)
RotateStart(t, p, k) ==
    LET set == Config(p)[k]
    IN  Read(t, p, k, "rotate", IF set = NULL THEN "env" ELSE set)

\* The map of the record it read is changed, without a lock; nil is replaced by
\* a new map.  A rotation puts back the setting it read, with a new expiry.
Change(t, ptr) ==
    LET f == req[t]
        p == f.prov
        s == IF f.kind = "unset" THEN NULL ELSE f.cfg
    IN  /\ maps' = IF ptr \in Maps THEN [maps EXCEPT ![ptr][f.key] = s] ELSE maps
        /\ req' = [req EXCEPT ![t].pc = "upsert", ![t].ptr = ptr]
        /\ want' = IF f.kind = "rotate" \/ f.read = NIL THEN want
                   ELSE [want EXCEPT ![p][f.key] = s]
        /\ raced' = IF f.kind = "rotate" /\ maps[ptr][f.key] # s
                    THEN [raced EXCEPT ![p] = @ \cup {f.key}] ELSE raced
        /\ UNCHANGED <<cast, rec, secret, gone, fileVars, listVars>>

\* Variant: the handler works on a copy of the map.
MutateCopy(t) ==
    /\ req[t].pc = "mutate"
    /\ LET f == req[t]
           s == IF f.kind = "unset" THEN NULL ELSE f.cfg
           old == IF f.ptr = NIL THEN Nothing ELSE maps[f.ptr]
       IN  /\ maps' = [maps EXCEPT ![FreshMap] = [old EXCEPT ![f.key] = s]]
           /\ req' = [req EXCEPT ![t].pc = "upsert", ![t].ptr = FreshMap]
           /\ want' = IF f.kind = "rotate" \/ f.read = NIL THEN want
                      ELSE [want EXCEPT ![f.prov][f.key] = s]
    /\ UNCHANGED <<cast, rec, secret, raced, gone, fileVars, listVars>>

\* Variant: a setting that is removed is not saved.
MutateUnsaved(t) ==
    /\ req[t].pc = "mutate"
    /\ LET f == req[t]
           ptr == IF f.ptr = NIL /\ f.kind # "unset" THEN FreshMap ELSE f.ptr
           s == IF f.kind = "unset" THEN NULL ELSE f.cfg
       IN  /\ maps' = IF ptr \in Maps THEN [maps EXCEPT ![ptr][f.key] = s] ELSE maps
           /\ req' = [req EXCEPT ![t] = IF f.kind = "unset" THEN Idle
                                        ELSE [f EXCEPT !.pc = "upsert", !.ptr = ptr]]
           /\ want' = IF f.kind = "rotate" \/ f.read = NIL THEN want
                      ELSE [want EXCEPT ![f.prov][f.key] = s]
    /\ UNCHANGED <<cast, rec, secret, raced, gone, fileVars, listVars>>

Mutate(t) ==
    /\ req[t].pc = "mutate"
    /\ Change(t, IF req[t].ptr = NIL /\ req[t].kind # "unset" THEN FreshMap
                 ELSE req[t].ptr)

\* What rotateCredential may return: an error, a value, a value that expires.
Outcomes(s) ==
    CASE s = "env" -> {"error", "plain"}
      [] s \in {"oauth2-refresh-token", "oauth2-client-credentials",
                "aws-sts-assume-role"} -> {"error", "plain", "expiring"}
      [] OTHER -> {"error"}

\* rotateCredential has returned; for oauth2 that takes up to 20 seconds.  A
\* value without an expiry leaves the record alone, so its setting is dropped.
Rotated(t, res) ==
    /\ req[t].pc = "rotate" /\ res \in Outcomes(req[t].cfg)
    /\ req' = [req EXCEPT ![t] =
                  CASE res = "error" -> Idle
                    [] res = "plain" -> [@ EXCEPT !.pc = "store", !.cfg = NULL]
                    [] OTHER -> [@ EXCEPT !.pc = "store"]]
    /\ UNCHANGED rec
    /\ maps' = Kept(maps)
    /\ UNCHANGED <<cast, secret, want, raced, gone, fileVars, listVars>>

\* PutProviderCredentials of the rotation.
StoreRotated(t, ok) ==
    /\ req[t].pc = "store"
    /\ secret' = IF ok = 1 THEN secret \cup {req[t].prov} ELSE secret
    /\ req' = [req EXCEPT ![t] = IF ok = 1 /\ req[t].cfg # NULL
                                 THEN [@ EXCEPT !.pc = "mutate"] ELSE Idle]
    /\ UNCHANGED rec
    /\ maps' = Kept(maps)
    /\ UNCHANGED <<cast, want, raced, gone, fileVars, listVars>>
-----------------------------------------------------------------------------
(* The attachment list.                                                    *)

\* Arrays some slice leads to.  The others are garbage and may be used again.
ArraysInUse == (IF list = NULL THEN {} ELSE {list.arr})
               \cup {rd[r].slice.arr : r \in Readers}
FreshArray == Min(Arrays \ ArraysInUse)
KeptCells(contents) ==
    [a \in Arrays |-> IF a \in ArraysInUse' THEN contents[a] ELSE <<>>]

\* A new array that begins with names; the language leaves its capacity open.
Padded(names, cap) == [i \in 1..cap |-> IF i <= Len(names) THEN names[i] ELSE NULL]
NewCells(names, cap) == [cells EXCEPT ![FreshArray] = Padded(names, cap)]

\* History: what the readers under way may have seen attached.
Reading(r) == rd[r].pc # "idle"
Watch(names) == rd' = [r \in Readers |-> IF Reading(r)
                                         THEN [rd[r] EXCEPT !.seen = @ \cup ToSet(names)]
                                         ELSE rd[r]]

\* PUT of the sandbox, UpsertSandbox: an empty list keeps the one there is.
PutSandbox(names, cap, ok) ==
    /\ "sandbox" \in cast.kinds /\ Unlocked /\ cap >= Len(names)
    /\ list' = IF names # <<>> THEN [arr |-> FreshArray, len |-> Len(names)]
               ELSE IF Attached = <<>> THEN Away.slice ELSE list
    /\ Watch(names)
    /\ cells' = KeptCells(IF names # <<>> THEN NewCells(names, cap) ELSE cells)
    /\ UNCHANGED <<cast, recVars, req, det>>
    /\ Flush(ok)

DeleteSandbox(ok) ==
    /\ "sandbox" \in cast.kinds /\ Unlocked
    /\ list' = NULL
    /\ UNCHANGED rd
    /\ cells' = KeptCells(cells)
    /\ UNCHANGED <<cast, recVars, req, det>>
    /\ Flush(ok)

\* The attach handler has found the provider.
AttachStart(t, p) ==
    /\ Start(t, "attach") /\ Unlocked /\ rec[p] # NULL
    /\ req' = [req EXCEPT ![t] = [Idle EXCEPT !.pc = "append", !.kind = "attach",
                                             !.prov = p]]
    /\ UNCHANGED <<cast, recVars, fileVars, listVars>>

Room == list.arr # NIL /\ list.len < Len(cells[list.arr])

\* Variant: the name is put at the front, the others move up.
AppendAtFront(p, cap) ==
    /\ list' = [arr |-> IF Room THEN list.arr ELSE FreshArray, len |-> list.len + 1]
    /\ Watch(<<p>>)
    /\ cells' = KeptCells(
                  IF Room THEN [cells EXCEPT ![list.arr] =
                                  [i \in DOMAIN @ |-> IF i = 1 THEN p ELSE @[i - 1]]]
                  ELSE NewCells(<<p>> \o Attached, cap))

\* Variant: the new length is not that of the array written.
AppendMisplaced(p, cap) ==
    /\ list' = [arr |-> IF Room THEN list.arr ELSE FreshArray, len |-> list.len + 1]
    /\ Watch(<<p>>)
    /\ cells' = KeptCells(IF Room THEN cells ELSE NewCells(Append(Attached, p), cap))

\* append: in the array of the list when there is room, else in a larger one.
AppendName(p, cap) ==
    /\ list' = [arr |-> IF Room THEN list.arr ELSE FreshArray, len |-> list.len + 1]
    /\ Watch(<<p>>)
    /\ cells' = KeptCells(IF Room THEN [cells EXCEPT ![list.arr][list.len + 1] = p]
                          ELSE NewCells(Append(Attached, p), cap))

\* AttachProvider: no sandbox, attached already, or appended.
AttachProvider(t, cap, ok) ==
    /\ req[t].pc = "append" /\ Unlocked
    /\ Return(t)
    /\ UNCHANGED recVars
    /\ IF list = NULL \/ req[t].prov \in ToSet(Attached)
       THEN UNCHANGED <<fileVars, list, cells, rd>>
       ELSE /\ cap > list.len
            /\ AppendName(req[t].prov, cap)
            /\ Flush(ok)
    /\ UNCHANGED <<cast, det>>

\* DetachProvider takes s.mu; it filters the list in its own array ...
DetachStart(p) ==
    /\ "detach" \in cast.kinds /\ Unlocked /\ list # NULL
    /\ det' = [prov |-> p, i |-> 1, n |-> 0]
    /\ rd' = [r \in Readers |->
                 IF Reading(r) THEN [rd[r] EXCEPT !.calm = 0, !.start = <<>>] ELSE rd[r]]
    /\ UNCHANGED <<cast, recVars, fileVars, req, list, cells>>

\* ... name by name ...
DetachMove ==
    /\ det # NULL /\ det.i <= list.len
    /\ LET name == cells[list.arr][det.i]
       IN  IF name = det.prov
           THEN /\ det' = [det EXCEPT !.i = @ + 1]
                /\ UNCHANGED cells
           ELSE /\ det' = [det EXCEPT !.i = @ + 1, !.n = @ + 1]
                /\ cells' = [cells EXCEPT ![list.arr][det.n + 1] = name]
    /\ UNCHANGED <<cast, recVars, fileVars, req, list, rd>>

\* ... and stores the shorter list.
DetachEnd(ok) ==
    /\ det # NULL /\ det.i > list.len
    /\ list' = [list EXCEPT !.len = det.n]
    /\ det' = NULL
    /\ UNCHANGED <<cast, recVars, req, cells, rd>>
    /\ Flush(ok)

\* resolveSandboxSecrets, and likewise effectivePolicy and the list of attached
\* providers: GetSandbox returns the slice ...
ResolveStart(r) ==
    /\ "resolve" \in cast.kinds /\ ~Reading(r)
    /\ Unlocked /\ list # NULL
    /\ rd' = [rd EXCEPT ![r] = [Away EXCEPT !.pc = "cell", !.slice = list,
                                           !.start = Attached, !.seen = ToSet(Attached)]]
    /\ UNCHANGED <<cast, recVars, fileVars, req, list, cells, det>>

\* Variant: one name too many is read.
ResolveCellBeyond(r) ==
    /\ rd[r].pc = "cell"
    /\ LET i == Len(rd[r].got) + 1
           a == rd[r].slice.arr
       IN  IF /\ i <= rd[r].slice.len + 1 /\ a # NIL /\ i <= Len(cells[a])
              /\ cells[a][i] # NULL
           THEN rd' = [rd EXCEPT ![r].pc = "lookup", ![r].at = cells[a][i]]
           ELSE rd' = [rd EXCEPT ![r] = Away]
    /\ UNCHANGED list
    /\ cells' = KeptCells(cells)
    /\ UNCHANGED <<cast, recVars, fileVars, req, det>>

\* ... the next name is read from its array, without the lock ...
ResolveCell(r) ==
    /\ rd[r].pc = "cell"
    /\ LET i == Len(rd[r].got) + 1
       IN  IF i <= rd[r].slice.len
           THEN rd' = [rd EXCEPT ![r].pc = "lookup",
                                 ![r].at = cells[rd[r].slice.arr][i]]
           ELSE rd' = [rd EXCEPT ![r] = Away]
    /\ UNCHANGED list
    /\ cells' = KeptCells(cells)
    /\ UNCHANGED <<cast, recVars, fileVars, req, det>>

\* ... and GetProvider called with it; its credentials are added to the answer.
ResolveLookup(r) ==
    /\ rd[r].pc = "lookup" /\ Unlocked
    /\ rd' = [rd EXCEPT ![r].pc = "cell", ![r].got = Append(@, rd[r].at), ![r].at = NULL]
    /\ UNCHANGED <<cast, recVars, fileVars, req, list, cells, det>>

-----------------------------------------------------------------------------

\* The process ends and state.json is loaded; empty maps and lists were not
\* written and become nil.
Restart(cap) ==
    /\ "restart" \in cast.kinds
    /\ rec' = CHOOSE new \in [Providers -> Maps \cup {NIL, NULL}] :
                 \A p, q \in Providers :
                    /\ new[p] = NULL <=> disk[p] = NULL
                    /\ new[p] = NIL <=> disk[p] = Nothing
                    /\ new[p] \in Maps /\ new[p] = new[q] => p = q
    /\ maps' = [m \in Maps |-> IF \E p \in Providers : rec'[p] = m
                               THEN disk[CHOOSE p \in Providers : rec'[p] = m]
                               ELSE Nothing]
    /\ IF listed \in {NULL, <<>>}
       THEN /\ list' = IF listed = NULL THEN NULL ELSE Away.slice
            /\ cells' = [a \in Arrays |-> <<>>]
       ELSE /\ cap >= Len(listed)
            /\ list' = [arr |-> Min(Arrays), len |-> Len(listed)]
            /\ cells' = [a \in Arrays |-> IF a = Min(Arrays) THEN Padded(listed, cap)
                                                            ELSE <<>>]
    /\ req' = [t \in Requests |-> Idle]
    /\ det' = NULL
    /\ rd' = [r \in Readers |-> Away]
    /\ want' = [p \in Providers |-> IF disk[p] = NULL THEN Nothing ELSE disk[p]]
    /\ raced' = [p \in Providers |-> {}]
    /\ saved' = 1
    /\ UNCHANGED <<cast, disk, listed, secret, gone>>

RecordStep(t, ok) ==
    \/ \E p \in cast.provs :
          \/ \E creds \in {0, 1} : PutStart(t, p, creds)
          \/ DeleteProvider(t, p, ok)
          \/ \E k \in Keys : \/ \E s \in Strategies : SetStart(t, p, k, s)
                              \/ UnsetStart(t, p, k)
                              \/ RotateStart(t, p, k)
    \/ Upsert(t, ok) \/ PutCredentials(t, ok) \/ DeletePrefix(t, ok)
    \/ Mutate(t) \/ StoreRotated(t, ok)
    \/ \E res \in {"error", "plain", "expiring"} : Rotated(t, res)

ListStep(ok) ==
    \/ \E p \in cast.provs, t \in Requests : AttachStart(t, p)
    \/ \E t \in Requests, cap \in 0..MaxCap : AttachProvider(t, cap, ok)
    \/ \E names \in Lists, cap \in 0..MaxCap : PutSandbox(names, cap, ok)
    \/ DeleteSandbox(ok)
    \/ \E p \in cast.provs : DetachStart(p)
    \/ DetachMove \/ DetachEnd(ok)
    \/ \E r \in Readers : ResolveStart(r) \/ ResolveCell(r) \/ ResolveLookup(r)

Next ==
    \/ \E ok \in cast.outcomes : \/ \E t \in Requests : RecordStep(t, ok)
                               \/ ListStep(ok)
    \/ \E cap \in 0..MaxCap : Restart(cap)

Spec == Init /\ [][Next]_vars

-----------------------------------------------------------------------------

\* No setting is lost: requests on different keys, and a PUT of the provider
\* between the steps of a refresh request, leave each other's settings in place,
\* although each writes back a whole record it read earlier.  Excepted are the
\* write-backs that raced names: two requests that both found no map, a
\* provider deleted meanwhile, and a rotation whose setting was changed
\* meanwhile.
SettingsAreKept ==
    \A p \in Providers, k \in Keys :
        rec[p] # NULL /\ k \notin raced[p]
        /\ (\A t \in Requests : req[t].prov # p \/ req[t].key # k)
        => Config(p)[k] = want[p][k]

\* What the handlers change through a shared map they also save: when nothing is
\* under way on a provider and the last write of state.json succeeded, a restart
\* brings back the provider and its settings as they are.
SettingsAreDurable ==
    \A p \in Providers :
        saved = 1 /\ ~Busy(p)
        => disk[p] = IF rec[p] = NULL THEN NULL ELSE Config(p)

\* A provider whose deletion returned, with nothing else under way on it, is gone
\* from memory and disk with all its credentials until it is PUT again: refresh
\* requests and rotations, restarts and writes of the state for other reasons do
\* not bring any of it back.
DeletedStaysDeleted ==
    \A p \in gone : rec[p] = NULL /\ disk[p] = NULL /\ p \notin secret

\* Whoever goes through the list without the lock reads only providers that
\* were attached at some time during the request, though attach and detach
\* write in the array it reads.
ResolvedWasAttached ==
    \A r \in Readers : ToSet(rd[r].got) \cup ({rd[r].at} \ {NULL}) \subseteq rd[r].seen

\* As long as no detach overlaps, it reads name by name the list as it was when
\* the request began: attaching, and replacing the list or the sandbox, does not
\* touch it.
ListIsStable ==
    \A r \in Readers :
        rd[r].calm = 1 => IsPrefix(rd[r].got, rd[r].start)
=============================================================================
