----------------------------- MODULE PolicyFlow -----------------------------
(***************************************************************************)
(* Setting the base policy of a sandbox: handleSandboxPolicy (PUT) and     *)
(* approveProposal, which share setSandboxBasePolicy, and the registry     *)
(* operations that run between their steps.                                *)
(*                                                                         *)
(* Each store operation holds s.mu and is one action; a handler calls      *)
(* several of them with the lock free in between, so its local variables   *)
(* are a frame.  flushLocked behaves as in CredentialStore.                *)
(*                                                                         *)
(* Abstractions.  A policy document is the set of its rules; a provider    *)
(* in that set stands for the rules "provider.<name>.*" composed from it.  *)
(* BROKEN is text that policy.Parse or Validate rejects, NULL the empty    *)
(* string.  policy.MergeGlobal and the last Validate (external) reject a   *)
(* base that holds a rule clashing with the global policy.                 *)
(***************************************************************************)
EXTENDS Naturals, Sequences, FiniteSets

CONSTANTS
    Names,               \* sandbox names
    Rules,               \* network policy rules a user or an agent may write
    Globals,             \* global policies
    Clash,               \* pairs <<rule, global>> that do not merge
    Providers,           \* provider instance names
    Profiles,            \* ids of custom profiles; also the provider types
    Proposals,           \* proposal ids
    Calls,               \* PUT and approve requests
    MaxPolicyRevisions,  \* the cap on the revision list
    RegisteredBases,     \* base policies clients send when they register
    FlushResults,        \* outcomes of flushLocked considered
    BROKEN, NULL

ASSUME PolicyAssumption ==
    /\ MaxPolicyRevisions \in Nat \ {0}
    /\ FlushResults \subseteq BOOLEAN
    /\ Clash \subseteq Rules \X Globals
    /\ RegisteredBases \subseteq {BROKEN, NULL} \cup SUBSET Rules
    /\ Rules \cap Providers = {}
    /\ NULL \notin Names \cup Globals \cup Profiles \cup Proposals \cup Rules
    /\ BROKEN # NULL
    /\ \A doc \in SUBSET (Rules \cup Providers) : doc # BROKEN /\ doc # NULL

VARIABLES
    mem,      \* s.state: the parts that decide the effective policy
    disk,     \* the contents of state.json
    call,     \* frame of each request
    before,   \* history: the base each request replaced when it stored its own
    touched   \* history: requests during or after which somebody else wrote
              \* the base or the proposal they work on

vars == <<mem, disk, call, before, touched>>

Policies == SUBSET (Rules \cup Providers)
Texts == {BROKEN, NULL} \cup Policies

PolicyRevision == [rev : Nat, yaml : Texts]
Sandbox == [base : Texts, attached : SUBSET Providers,
            rev : Nat, revs : Seq(PolicyRevision)]
Proposal == [sandbox : Names, rule : Rules,
             status : {"pending", "approved", "rejected"}]

State == [sandboxes : [Names -> Sandbox \cup {NULL}],
          global : Globals \cup {NULL},
          providers : [Providers -> Profiles \cup {NULL}],
          profiles : SUBSET Profiles,
          proposals : [Proposals -> Proposal \cup {NULL}]]

\* A missing record is none of the records.
ASSUME NullAssumption == NULL \notin Sandbox /\ NULL \notin Proposal

PCs == {"idle", "merge", "check", "prev", "set", "sandbox", "global", "layers",
        "profile", "rollback", "decide", "done"}
Results == {"none", "ok", "failed", "refused", "lost"}

Frame == [pc : PCs, kind : {"put", "approve"}, sandbox : Names \cup {NULL},
          prop : Proposals \cup {NULL}, rule : Rules \cup {NULL},
          body : Texts, prev : Texts, view : Texts,
          todo : SUBSET Providers, prof : Profiles \cup {NULL},
          result : Results]

\* The registry, the frames and the histories have the shapes of the code.
TypeOK ==
    /\ mem \in State /\ disk \in State
    /\ call \in [Calls -> Frame]
    /\ before \in [Calls -> Texts]
    /\ touched \in SUBSET Calls

Empty == [sandboxes |-> [n \in Names |-> NULL],
          global |-> NULL,
          providers |-> [p \in Providers |-> NULL],
          profiles |-> {},
          proposals |-> [i \in Proposals |-> NULL]]

Idle == [pc |-> "idle", kind |-> "put", sandbox |-> NULL, prop |-> NULL,
         rule |-> NULL, body |-> NULL, prev |-> NULL, view |-> NULL,
         todo |-> {}, prof |-> NULL, result |-> "none"]

Init ==
    /\ mem = Empty /\ disk = Empty
    /\ call = [c \in Calls |-> Idle]
    /\ before = [c \in Calls |-> NULL]
    /\ touched = {}

\* flushLocked: ok says whether the rename happened.
Flush(new, ok) == mem' = new /\ disk' = IF ok THEN new ELSE disk

Exists(n) == mem.sandboxes[n] # NULL

\* Requests at work on sandbox n, or that were.
On(n) == {c \in Calls : call[c].pc # "idle" /\ call[c].sandbox = n}

-----------------------------------------------------------------------------
(* SetBasePolicy.                                                          *)

\* Variant: the cut is made before the new revision is appended.
KeepLastEarly(revs, r) ==
    LET len == Len(revs)
    IN  Append(IF len > MaxPolicyRevisions
               THEN SubSeq(revs, len - MaxPolicyRevisions + 1, len)
               ELSE revs, r)

\* Append a revision and drop the oldest ones beyond the cap.
KeepLast(revs, r) ==
    LET all == Append(revs, r)
        len == Len(all)
    IN  IF len > MaxPolicyRevisions
        THEN SubSeq(all, len - MaxPolicyRevisions + 1, len)
        ELSE all

\* The record after SetBasePolicy(_, yaml).
WithBase(sb, yaml) ==
    [sb EXCEPT !.base = yaml, !.rev = @ + 1,
               !.revs = KeepLast(@, [rev |-> sb.rev + 1, yaml |-> yaml])]

SetBasePolicy(n, yaml, ok) ==
    Flush([mem EXCEPT !.sandboxes[n] = WithBase(@, yaml)], ok)

\* The base as a document: an empty text is the empty policy.
Doc(text) == IF text = NULL THEN {} ELSE text

\* provider.OmitProviderComposed.
OmitProviderComposed(body) == body \ Providers

-----------------------------------------------------------------------------
(* approveProposal, up to its call of setSandboxBasePolicy.                *)

\* A request has been answered: its local variables are gone.
Answered(f, res) == [Idle EXCEPT !.pc = "done", !.kind = f.kind,
                                 !.sandbox = f.sandbox, !.prop = f.prop,
                                 !.result = res]
Return(c, res) == call' = [call EXCEPT ![c] = Answered(@, res)]
Goto(c, pc) == call' = [call EXCEPT ![c].pc = pc]

\* The proposal is looked up: unknown here, already approved, or to be merged.
ApproveStart(c, n, i) ==
    LET p == mem.proposals[i]
        f == [Idle EXCEPT !.kind = "approve", !.sandbox = n, !.prop = i]
    IN  /\ call[c].pc = "idle"
        /\ call' = [call EXCEPT ![c] =
                      IF p = NULL THEN Answered(f, "failed")
                      ELSE IF p.sandbox # n THEN Answered(f, "failed")
                      ELSE IF p.status = "approved" THEN Answered(f, "ok")
                      ELSE [f EXCEPT !.pc = "merge", !.rule = p.rule]]
        /\ UNCHANGED <<mem, disk, before, touched>>

\* Variant: the rule replaces the base.
MergeReplaces(c) ==
    /\ call[c].pc = "merge"
    /\ IF ~Exists(call[c].sandbox) THEN Return(c, "failed")
       ELSE LET base == mem.sandboxes[call[c].sandbox].base
            IN  IF base = BROKEN THEN Return(c, "failed")
                ELSE call' = [call EXCEPT ![c].pc = "check",
                                          ![c].body = {call[c].rule}]
    /\ UNCHANGED <<mem, disk, before, touched>>

\* GetSandbox and mergeProposalYAML: the rule is added to the base read now.
Merge(c) ==
    /\ call[c].pc = "merge"
    /\ IF ~Exists(call[c].sandbox) THEN Return(c, "failed")
       ELSE LET base == mem.sandboxes[call[c].sandbox].base
            IN  IF base = BROKEN THEN Return(c, "failed")
                ELSE call' = [call EXCEPT ![c].pc = "check",
                                          ![c].body = Doc(base) \cup {call[c].rule}]
    /\ UNCHANGED <<mem, disk, before, touched>>

-----------------------------------------------------------------------------
(* handleSandboxPolicy (PUT) and setSandboxBasePolicy.                     *)

PutStart(c, n, body) ==
    /\ call[c].pc = "idle"
    /\ call' = [call EXCEPT ![c] = [Idle EXCEPT !.pc = "check", !.sandbox = n,
                                                !.body = body]]
    /\ UNCHANGED <<mem, disk, before, touched>>

\* Variant: composed rules stay in the base.
CheckKeepsComposed(c) ==
    /\ call[c].pc = "check"
    /\ IF Exists(call[c].sandbox) /\ call[c].body # BROKEN
       THEN call' = [call EXCEPT ![c].pc = "prev"]
       ELSE Return(c, "failed")
    /\ UNCHANGED <<mem, disk, before, touched>>

\* GetSandbox, Parse, OmitProviderComposed and Validate.
Check(c) ==
    /\ call[c].pc = "check"
    /\ IF Exists(call[c].sandbox) /\ call[c].body # BROKEN
       THEN call' = [call EXCEPT ![c].pc = "prev",
                                 ![c].body = OmitProviderComposed(@)]
       ELSE Return(c, "failed")
    /\ UNCHANGED <<mem, disk, before, touched>>

\* The second GetSandbox; a sandbox that has gone gives an empty prevBase.
ReadPrev(c) ==
    /\ call[c].pc = "prev"
    /\ LET sb == mem.sandboxes[call[c].sandbox]
       IN  call' = [call EXCEPT ![c].pc = "set",
                                ![c].prev = IF sb = NULL THEN NULL ELSE sb.base]
    /\ UNCHANGED <<mem, disk, before, touched>>

\* The candidate is stored; an error of the store is returned as it is.
Store(c, ok) ==
    /\ call[c].pc = "set"
    /\ LET n == call[c].sandbox
       IN  IF ~Exists(n)
           THEN Return(c, "failed") /\ UNCHANGED <<mem, disk, before, touched>>
           ELSE /\ SetBasePolicy(n, call[c].body, ok)
                /\ IF ok THEN Goto(c, "sandbox") ELSE Return(c, "failed")
                /\ before' = [before EXCEPT ![c] = mem.sandboxes[n].base]
                /\ touched' = touched \cup (On(n) \ {c})

\* effectivePolicy reads the record ...
EffSandbox(c) ==
    /\ call[c].pc = "sandbox"
    /\ LET sb == mem.sandboxes[call[c].sandbox]
       IN  IF sb = NULL THEN Goto(c, "rollback")
           ELSE IF sb.base = BROKEN THEN Goto(c, "rollback")
           ELSE call' = [call EXCEPT ![c].pc = "global", ![c].view = sb.base,
                                     ![c].todo = sb.attached]
    /\ UNCHANGED <<mem, disk, before, touched>>

\* ... then the global policy, and merges it ...
EffGlobal(c) ==
    /\ call[c].pc = "global"
    /\ IF \E r \in Doc(call[c].view) : <<r, mem.global>> \in Clash
       THEN Goto(c, "rollback")
       ELSE Goto(c, "layers")
    /\ UNCHANGED <<mem, disk, before, touched>>

\* ... then each attached provider; one that is gone is skipped ...
EffProvider(c, p) ==
    /\ call[c].pc = "layers" /\ p \in call[c].todo
    /\ call' = [call EXCEPT ![c].todo = @ \ {p},
                            ![c].prof = mem.providers[p],
                            ![c].pc = IF mem.providers[p] = NULL THEN "layers"
                                                                 ELSE "profile"]
    /\ UNCHANGED <<mem, disk, before, touched>>

\* ... and its profile, which must be found ...
EffProfile(c) ==
    /\ call[c].pc = "profile"
    /\ call' = [call EXCEPT ![c].prof = NULL,
                            ![c].pc = IF call[c].prof \in mem.profiles
                                      THEN "layers" ELSE "rollback"]
    /\ UNCHANGED <<mem, disk, before, touched>>

\* ... and the PUT is answered, or approveProposal goes on.
EffDone(c) ==
    /\ call[c].pc = "layers" /\ call[c].todo = {}
    /\ IF call[c].kind = "put" THEN Return(c, "ok") ELSE Goto(c, "decide")
    /\ UNCHANGED <<mem, disk, before, touched>>

\* Variant: a refused candidate is left in the store.
RollbackForgotten(c, ok) ==
    /\ call[c].pc = "rollback" /\ ok \in BOOLEAN
    /\ Return(c, "refused")
    /\ UNCHANGED <<mem, disk, before, touched>>

\* Variant: a rollback takes its revision number back.
RollbackUncounts(c, ok) ==
    /\ call[c].pc = "rollback"
    /\ Return(c, "refused")
    /\ LET n == call[c].sandbox
       IN  IF Exists(n)
           THEN /\ Flush([mem EXCEPT !.sandboxes[n].base = call[c].prev,
                                     !.sandboxes[n].rev = @ - 1], ok)
                /\ touched' = touched \cup (On(n) \ {c})
           ELSE UNCHANGED <<mem, disk, touched>>
    /\ UNCHANGED before

\* Composition failed: SetBasePolicy(prevBase), whatever it returns.
Rollback(c, ok) ==
    /\ call[c].pc = "rollback"
    /\ Return(c, "refused")
    /\ LET n == call[c].sandbox
       IN  IF Exists(n)
           THEN /\ SetBasePolicy(n, call[c].prev, ok)
                /\ touched' = touched \cup (On(n) \ {c})
           ELSE UNCHANGED <<mem, disk, touched>>
    /\ UNCHANGED before

\* DecideProposal(id, "approved").
Decide(c, ok) ==
    /\ call[c].pc = "decide"
    /\ Flush([mem EXCEPT !.proposals[call[c].prop].status = "approved"], ok)
    /\ Return(c, IF ok THEN "ok" ELSE "failed")
    /\ UNCHANGED <<before, touched>>

-----------------------------------------------------------------------------
(* The operations that run between those steps.                            *)

\* UpsertSandbox: empty fields of the body keep what was there.  Clients send
\* no revision fields.
UpsertSandbox(n, base, ps, ok) ==
    /\ LET old == IF Exists(n) THEN mem.sandboxes[n]
                  ELSE [base |-> NULL, attached |-> {}, rev |-> 0, revs |-> <<>>]
       IN  Flush([mem EXCEPT !.sandboxes[n] =
                   [old EXCEPT !.base = IF base = NULL THEN @ ELSE base,
                               !.attached = IF ps = {} THEN @ ELSE ps]], ok)
    /\ touched' = touched \cup On(n)
    /\ UNCHANGED <<call, before>>

\* DeleteSandbox; proposals for it stay.
DeleteSandbox(n, ok) ==
    /\ Flush([mem EXCEPT !.sandboxes[n] = NULL], ok)
    /\ touched' = touched \cup On(n)
    /\ UNCHANGED <<call, before>>

\* AttachProvider and DetachProvider.  The handler looked the provider up
\* before it took the lock again; it may have been deleted since.
AttachProvider(n, p, ok) ==
    /\ Exists(n) /\ p \notin mem.sandboxes[n].attached
    /\ Flush([mem EXCEPT !.sandboxes[n].attached = @ \cup {p}], ok)
    /\ UNCHANGED <<call, before, touched>>

DetachProvider(n, p, ok) ==
    /\ Exists(n)
    /\ Flush([mem EXCEPT !.sandboxes[n].attached = @ \ {p}], ok)
    /\ UNCHANGED <<call, before, touched>>

\* PUT and DELETE of a provider (its type must resolve) and of a custom profile;
\* a type with a built-in profile always resolves and is left out.  Credentials
\* go to the secrets store, which decides nothing here.
UpsertProvider(p, t, ok) ==
    /\ t \in mem.profiles
    /\ Flush([mem EXCEPT !.providers[p] = t], ok)
    /\ UNCHANGED <<call, before, touched>>

DeleteProvider(p, ok) ==
    /\ Flush([mem EXCEPT !.providers[p] = NULL], ok)
    /\ UNCHANGED <<call, before, touched>>

UpsertProfile(t, ok) ==
    /\ Flush([mem EXCEPT !.profiles = @ \cup {t}], ok)
    /\ UNCHANGED <<call, before, touched>>

DeleteProfile(t, ok) ==
    /\ Flush([mem EXCEPT !.profiles = @ \ {t}], ok)
    /\ UNCHANGED <<call, before, touched>>

\* PUT /v1/policy/global, with a body that parses and validates by itself.
SetGlobalPolicy(g, ok) ==
    /\ Flush([mem EXCEPT !.global = g], ok)
    /\ UNCHANGED <<call, before, touched>>

\* POST of a proposal: inserts or replaces, with the status the body gives.
PutProposal(i, n, r, status, ok) ==
    /\ Flush([mem EXCEPT !.proposals[i] =
                [sandbox |-> n, rule |-> r, status |-> status]], ok)
    /\ touched' = touched \cup {c \in Calls : call[c].prop = i}
    /\ UNCHANGED <<call, before>>

\* POST .../reject: the decision is made before the sandbox is compared, so
\* the 404 for another sandbox's proposal comes with the change.
RejectProposal(i, ok) ==
    /\ mem.proposals[i] # NULL
    /\ Flush([mem EXCEPT !.proposals[i].status = "rejected"], ok)
    /\ UNCHANGED <<call, before, touched>>

\* The process stops and starts again from the file; requests are cut off.
Restart ==
    /\ mem' = disk
    /\ call' = [c \in Calls |->
                  IF call[c].pc \in {"idle", "done"} THEN call[c]
                  ELSE Answered(call[c], "lost")]
    /\ touched' = {c \in Calls : call[c].pc # "idle"}
    /\ UNCHANGED <<disk, before>>

-----------------------------------------------------------------------------

CallStep(c) ==
    \/ \E n \in Names, i \in Proposals : ApproveStart(c, n, i)
    \/ \E n \in Names, body \in Policies \cup {BROKEN} : PutStart(c, n, body)
    \/ Merge(c) \/ Check(c) \/ ReadPrev(c)
    \/ EffSandbox(c) \/ EffGlobal(c) \/ EffProfile(c) \/ EffDone(c)
    \/ \E p \in Providers : EffProvider(c, p)
    \/ \E ok \in FlushResults : Store(c, ok) \/ Rollback(c, ok) \/ Decide(c, ok)

SandboxStep(n, ok) ==
    \/ \E base \in RegisteredBases, ps \in SUBSET Providers :
          UpsertSandbox(n, base, ps, ok)
    \/ DeleteSandbox(n, ok)
    \/ \E p \in Providers : AttachProvider(n, p, ok) \/ DetachProvider(n, p, ok)

RegistryStep(ok) ==
    \/ \E p \in Providers : DeleteProvider(p, ok)
    \/ \E p \in Providers, t \in Profiles : UpsertProvider(p, t, ok)
    \/ \E t \in Profiles : UpsertProfile(t, ok) \/ DeleteProfile(t, ok)
    \/ \E g \in Globals : SetGlobalPolicy(g, ok)
    \/ \E i \in Proposals : RejectProposal(i, ok)
    \/ \E i \in Proposals, n \in Names, r \in Rules,
          status \in {"pending", "approved", "rejected"} :
          PutProposal(i, n, r, status, ok)

Next ==
    \/ \E c \in Calls : CallStep(c)
    \/ \E ok \in FlushResults :
          RegistryStep(ok) \/ \E n \in Names : SandboxStep(n, ok)
    \/ Restart

Spec == Init /\ [][Next]_vars

-----------------------------------------------------------------------------

\* GetPolicyRevision is unambiguous: the revisions of a sandbox are numbered
\* without gaps up to policy_rev and only the newest are kept, in memory and in
\* the file, however stores, rollbacks and re-registrations interleave.
RevisionsAreConsecutive ==
    \A st \in {mem, disk}, n \in Names : st.sandboxes[n] # NULL =>
        LET sb == st.sandboxes[n]
        IN  /\ Len(sb.revs) = IF sb.rev < MaxPolicyRevisions
                              THEN sb.rev ELSE MaxPolicyRevisions
            /\ \A k \in 1..Len(sb.revs) :
                  sb.revs[k].rev = sb.rev - Len(sb.revs) + k

\* Detaching a provider ends what it granted: rules composed from a provider
\* never enter a stored base, not even by putting back the effective policy
\* ("provider rule leaked into base", TestSetSandboxBasePolicyPreservesProviders).
DetachEndsGrant ==
    \A n \in Names : Exists(n) /\ mem.sandboxes[n].base # BROKEN =>
        Doc(mem.sandboxes[n].base) \cap Providers = {}

\* A request whose effective policy did not compose leaves the base it found,
\* if nobody else wrote the sandbox meanwhile.
RefusalKeepsBase ==
    \A c \in Calls : call[c].result = "refused" /\ c \notin touched =>
        mem.sandboxes[call[c].sandbox].base = before[c]

\* When approveProposal is about to record its decision and nobody interfered,
\* the base holds the rule of the proposal and every rule it held before.
ApprovalIsApplied ==
    \A c \in Calls : call[c].pc = "decide" /\ c \notin touched =>
        LET base == mem.sandboxes[call[c].sandbox].base
        IN  /\ mem.proposals[call[c].prop].rule \in base
            /\ Doc(before[c]) \subseteq base

\* "On compose/validate failure the previous base is kept (fail-closed)": a
\* refused request undoes its own store and nothing else; a base that somebody
\* stored after it stays.
PreviousBaseKept ==
    [][\A c \in Calls :
         LET n == call[c].sandbox
             base == mem.sandboxes[n].base
         IN  call[c].pc = "rollback" /\ call'[c].result = "refused"
             /\ Exists(n) /\ base # NULL
             => mem'.sandboxes[n].base = IF base = call[c].body THEN before[c]
                                                                ELSE base]_vars
=============================================================================
