-------------------------- MODULE PolicyFlowProofs --------------------------
(***************************************************************************)
(* Proofs about PolicyFlow for any sandboxes, rules, providers, profiles,  *)
(* proposals and requests, and any cap on the revisions.                   *)
(***************************************************************************)
EXTENDS PolicyFlow, TLAPS, SequenceTheorems

\* Where a request has stored its candidate, and where it works on one.
Storing == {"sandbox", "global", "layers", "profile", "rollback", "decide"}
Preparing == {"check", "prev", "set"}
Busy(c) == call[c].pc \notin {"idle", "done"}

\* Base policies without rules composed from a provider.
Bases == {BROKEN, NULL} \cup SUBSET Rules
Clean(st) == \A n \in Names : st.sandboxes[n] # NULL => st.sandboxes[n].base \in Bases

\* The revisions of a record are the newest ones, numbered without a gap.
Numbered(sb) ==
    /\ Len(sb.revs) = IF sb.rev < MaxPolicyRevisions THEN sb.rev ELSE MaxPolicyRevisions
    /\ \A k \in 1..Len(sb.revs) : sb.revs[k].rev = sb.rev - Len(sb.revs) + k
AllNumbered(st) == \A n \in Names : st.sandboxes[n] # NULL => Numbered(st.sandboxes[n])

\* What the local variables of a request hold at each of its steps.
FrameOK(c) ==
    LET f == call[c]
    IN  /\ f.pc # "idle" => f.sandbox \in Names
        /\ f.pc # "done" => f.result = "none"
        /\ f.pc \in {"merge", "decide"} => f.kind = "approve"
        /\ f.kind = "approve" /\ Busy(c) =>
              f.prop \in Proposals /\ f.rule \in Rules /\ mem.proposals[f.prop] # NULL
        /\ f.pc = "check" => f.body \in Policies \cup {BROKEN}
        /\ f.pc = "check" /\ f.kind = "approve" => f.body \in SUBSET Rules
        /\ f.pc \in {"prev", "set"} \cup Storing => f.body \in SUBSET Rules
        /\ f.prev \in Bases

\* What a request may rely on as long as nobody else wrote its sandbox or its
\* proposal.
Relies(c) ==
    LET f == call[c]
        sb == mem.sandboxes[f.sandbox]
    IN  /\ f.kind = "approve" /\ Busy(c) => mem.proposals[f.prop].rule = f.rule
        /\ f.kind = "approve" /\ f.pc \in Preparing =>
              sb # NULL /\ sb.base # BROKEN /\ f.body = Doc(sb.base) \cup {f.rule}
        /\ f.pc = "set" /\ sb # NULL => f.prev = sb.base
        /\ f.pc \in Storing => /\ sb # NULL /\ sb.base = f.body /\ before[c] = f.prev
                               /\ f.kind = "approve" =>
                                     Doc(before[c]) \cup {f.rule} \subseteq f.body
        /\ f.result = "refused" => sb.base = before[c]

Inv == /\ TypeOK
       /\ Clean(mem) /\ Clean(disk)
       /\ AllNumbered(mem) /\ AllNumbered(disk)
       /\ \A c \in Calls : FrameOK(c) /\ (c \notin touched => Relies(c))

-----------------------------------------------------------------------------
(* Operators.                                                              *)

\* Appending to the list and dropping the oldest keeps at most the cap, and the
\* last ones in their order.
LEMMA KeepLastSeq ==
    ASSUME NEW revs \in Seq(PolicyRevision), NEW r \in PolicyRevision,
           Len(revs) <= MaxPolicyRevisions
    PROVE  LET new == KeepLast(revs, r)
               len == Len(revs)
           IN  /\ new \in Seq(PolicyRevision)
               /\ len < MaxPolicyRevisions =>
                     /\ Len(new) = len + 1 /\ new[len + 1] = r
                     /\ \A k \in 1..len : new[k] = revs[k]
               /\ len = MaxPolicyRevisions =>
                     /\ Len(new) = len /\ new[len] = r
                     /\ \A k \in 1..(len - 1) : new[k] = revs[k + 1]
  <1> DEFINE all == Append(revs, r)
             len == Len(revs)
             cap == MaxPolicyRevisions
  <1>1. /\ all \in Seq(PolicyRevision) /\ Len(all) = len + 1 /\ all[len + 1] = r
        /\ \A k \in 1..len : all[k] = revs[k]
        /\ len \in Nat /\ cap \in Nat \ {0}
    BY AppendProperties, LenProperties, PolicyAssumption
  <1>2. \A k \in 1..(len + 1) : all[k] \in PolicyRevision
    BY <1>1, ElementOfSeq
  <1> HIDE DEF all, len, cap
  <1>3. CASE len < cap
    <2>1. KeepLast(revs, r) = all
      BY <1>1, <1>3 DEF KeepLast, all, cap
    <2> QED
      BY <1>1, <1>3, <2>1 DEF len, cap
  <1>4. CASE len = cap
    <2>1. KeepLast(revs, r) = SubSeq(all, 2, len + 1)
      BY <1>1, <1>4 DEF KeepLast, all, cap
    <2>2. /\ SubSeq(all, 2, len + 1) \in Seq(PolicyRevision)
          /\ Len(SubSeq(all, 2, len + 1)) = len
          /\ \A k \in 1..len : SubSeq(all, 2, len + 1)[k] = all[k + 1]
      <3>1. \A k \in 2..(len + 1) : all[k] \in PolicyRevision
        BY <1>1, <1>2
      <3>2. 2 \in Int /\ len + 1 \in Int
        BY <1>1
      <3> DEFINE lo == 2
                 hi == len + 1
      <3> HIDE DEF lo, hi
      <3>3. /\ SubSeq(all, lo, hi) \in Seq(PolicyRevision)
            /\ Len(SubSeq(all, lo, hi)) = IF lo <= hi THEN hi - lo + 1 ELSE 0
            /\ \A k \in 1..(hi - lo + 1) : SubSeq(all, lo, hi)[k] = all[lo + k - 1]
        BY <3>1, <3>2, SubSeqProperties DEF lo, hi
      <3> QED
        BY <1>1, <1>4, <3>3 DEF lo, hi
    <2> QED
      BY <1>1, <1>4, <2>1, <2>2 DEF len, cap
  <1> QED
    BY <1>1, <1>3, <1>4 DEF len, cap

\* The numbers in a list that is extended, or shifted by one when it is full.
LEMMA Renumbered ==
    ASSUME NEW rev \in Nat, NEW cap \in Nat \ {0}, NEW len \in Nat, NEW old, NEW new,
           NEW r, r.rev = rev + 1,
           len = IF rev < cap THEN rev ELSE cap,
           \A k \in 1..len : old[k].rev = rev - len + k,
           len < cap => new[len + 1] = r /\ \A k \in 1..len : new[k] = old[k],
           len = cap => new[len] = r /\ \A k \in 1..(len - 1) : new[k] = old[k + 1],
           NEW m \in Nat, m = IF rev + 1 < cap THEN rev + 1 ELSE cap,
           NEW k \in 1..m
    PROVE  new[k].rev = (rev + 1) - m + k
  <1>1. CASE rev < cap
    <2>1. len = rev /\ m = rev + 1
      BY <1>1
    <2>2. CASE k = m
      BY <1>1, <2>1, <2>2
    <2>3. CASE k # m
      <3>1. k \in 1..len
        BY <2>1, <2>3
      <3> QED
        BY <1>1, <2>1, <3>1
    <2> QED
      BY <2>2, <2>3
  <1>2. CASE ~(rev < cap)
    <2>1. len = cap /\ m = cap
      BY <1>2
    <2>2. CASE k = m
      BY <2>1, <2>2
    <2>3. CASE k # m
      <3>1. k \in 1..(len - 1) /\ k + 1 \in 1..len
        BY <2>1, <2>3
      <3>2. new[k] = old[k + 1] /\ old[k + 1].rev = rev - len + (k + 1)
        BY <2>1, <3>1
      <3> QED
        BY <2>1, <3>1, <3>2
    <2> QED
      BY <2>2, <2>3
  <1> QED
    BY <1>1, <1>2

\* SetBasePolicy numbers the new revision after the last one.
LEMMA WithBaseNumbered ==
    ASSUME NEW sb \in Sandbox, Numbered(sb), NEW yaml \in Texts
    PROVE  /\ WithBase(sb, yaml) \in Sandbox
           /\ WithBase(sb, yaml).base = yaml
           /\ Numbered(WithBase(sb, yaml))
  <1> DEFINE r == [rev |-> sb.rev + 1, yaml |-> yaml]
             old == sb.revs
             revs == KeepLast(old, r)
             new == WithBase(sb, yaml)
             cap == MaxPolicyRevisions
  <1>1. /\ sb.rev \in Nat /\ old \in Seq(PolicyRevision) /\ Len(old) \in Nat
        /\ r \in PolicyRevision /\ r.rev = sb.rev + 1 /\ cap \in Nat \ {0}
    BY LenProperties, PolicyAssumption DEF Sandbox, PolicyRevision
  <1>2. /\ Len(old) = IF sb.rev < cap THEN sb.rev ELSE cap
        /\ \A k \in 1..Len(old) : old[k].rev = sb.rev - Len(old) + k
    BY DEF Numbered
  <1>3. Len(old) <= cap
    BY <1>1, <1>2
  <1>4. /\ revs \in Seq(PolicyRevision)
        /\ Len(old) < cap => /\ Len(revs) = Len(old) + 1 /\ revs[Len(old) + 1] = r
                             /\ \A k \in 1..Len(old) : revs[k] = old[k]
        /\ Len(old) = cap => /\ Len(revs) = Len(old) /\ revs[Len(old)] = r
                             /\ \A k \in 1..(Len(old) - 1) : revs[k] = old[k + 1]
    BY <1>1, <1>3, KeepLastSeq
  <1>5. /\ new \in Sandbox /\ new.base = yaml
        /\ new.rev = sb.rev + 1 /\ new.revs = revs
    <2>1. new = [sb EXCEPT !.base = yaml, !.rev = sb.rev + 1, !.revs = revs]
      BY DEF WithBase
    <2>2. sb.rev + 1 \in Nat
      BY <1>1
    <2>3. revs \in Seq(PolicyRevision)
      BY <1>4
    <2> HIDE DEF new, revs, r, old, cap
    <2> QED
      BY <2>1, <2>2, <2>3 DEF Sandbox
  <1> HIDE DEF new, revs, r, old, cap
  <1>6. Len(revs) = IF sb.rev + 1 < cap THEN sb.rev + 1 ELSE cap
    BY <1>1, <1>2, <1>4
  <1>7. \A k \in 1..Len(revs) : revs[k].rev = (sb.rev + 1) - Len(revs) + k
    <2> DEFINE i == sb.rev
               len == Len(old)
               m == Len(revs)
    <2>1. i \in Nat /\ len \in Nat /\ m \in Nat
      BY <1>1, <1>6
    <2> HIDE DEF i, len, m
    <2>2. SUFFICES ASSUME NEW k \in 1..m PROVE revs[k].rev = (i + 1) - m + k
      BY DEF i, m
    <2>3. /\ len = IF i < cap THEN i ELSE cap
          /\ m = IF i + 1 < cap THEN i + 1 ELSE cap
          /\ \A j \in 1..len : old[j].rev = i - len + j
          /\ r.rev = i + 1
      BY <1>1, <1>2, <1>6 DEF i, len, m
    <2>4. /\ len < cap => revs[len + 1] = r /\ \A j \in 1..len : revs[j] = old[j]
          /\ len = cap => revs[len] = r /\ \A j \in 1..(len - 1) : revs[j] = old[j + 1]
      BY <1>4 DEF len
    <2>5. cap \in Nat \ {0}
      BY <1>1
    <2> QED
      BY <2>1, <2>3, <2>4, <2>5, Renumbered
  <1>8. Numbered(new)
    BY <1>5, <1>6, <1>7 DEF Numbered, cap
  <1> QED
    BY <1>5, <1>8 DEF new

-----------------------------------------------------------------------------
(* Steps on the registry.                                                  *)

RecordsOK(st) == st \in State /\ Clean(st) /\ AllNumbered(st)

\* A record of a sandbox is replaced, or removed.
LEMMA SandboxFlush ==
    ASSUME Inv, NEW n \in Names, NEW sb \in Sandbox \cup {NULL}, NEW ok,
           sb # NULL => sb.base \in Bases /\ Numbered(sb),
           Flush([mem EXCEPT !.sandboxes[n] = sb], ok)
    PROVE  /\ RecordsOK(mem') /\ RecordsOK(disk')
           /\ mem'.sandboxes[n] = sb
           /\ \A m \in Names : m # n => mem'.sandboxes[m] = mem.sandboxes[m]
           /\ mem'.proposals = mem.proposals
  <1> DEFINE new == [mem EXCEPT !.sandboxes[n] = sb]
  <1>1. mem \in State /\ disk \in State
    BY DEF Inv, TypeOK
  <1>2. /\ new \in State /\ new.sandboxes = [mem.sandboxes EXCEPT ![n] = sb]
        /\ new.proposals = mem.proposals
    BY <1>1 DEF State
  <1>3. mem' = new /\ disk' \in {new, disk}
    BY DEF Flush
  <1> HIDE DEF new
  <1>4. /\ new.sandboxes[n] = sb
        /\ \A m \in Names : m # n => new.sandboxes[m] = mem.sandboxes[m]
    BY <1>1, <1>2 DEF State
  <1>5. RecordsOK(new)
    BY <1>2, <1>4 DEF Inv, RecordsOK, Clean, AllNumbered
  <1> QED
    BY <1>1, <1>2, <1>3, <1>4, <1>5 DEF Inv, RecordsOK

\* Something else is changed.
LEMMA OtherFlush ==
    ASSUME Inv, NEW new \in State, new.sandboxes = mem.sandboxes, NEW ok, Flush(new, ok)
    PROVE  RecordsOK(mem') /\ RecordsOK(disk') /\ mem' = new
  BY DEF Flush, Inv, TypeOK, RecordsOK, Clean, AllNumbered

\* A request that does nothing in a step may rely on what it relied on, unless
\* it is touched.
LEMMA RelianceKept ==
    ASSUME Inv, NEW c \in Calls, call'[c] = call[c], before'[c] = before[c],
           \A i \in Proposals : mem.proposals[i] # NULL => mem'.proposals[i] # NULL,
           c \notin touched' =>
              /\ c \notin touched
              /\ call[c].prop \in Proposals /\ mem.proposals[call[c].prop] # NULL =>
                    mem'.proposals[call[c].prop].rule = mem.proposals[call[c].prop].rule
              /\ call[c].pc # "idle" =>
                    LET n == call[c].sandbox
                    IN  /\ mem'.sandboxes[n] # NULL <=> mem.sandboxes[n] # NULL
                        /\ mem.sandboxes[n] # NULL =>
                              mem'.sandboxes[n].base = mem.sandboxes[n].base
    PROVE  FrameOK(c)' /\ (c \notin touched' => Relies(c)')
  <1>1. FrameOK(c)'
    BY DEF Inv, FrameOK, Busy
  <1>2. ASSUME c \notin touched' PROVE Relies(c)'
    BY <1>1, <1>2 DEF Inv, FrameOK, Relies, Busy, Storing, Preparing
  <1> QED
    BY <1>1, <1>2

\* A step that touches every request on the one sandbox it writes keeps the
\* invariant.
LEMMA SandboxWritten ==
    ASSUME Inv, NEW n \in Names, NEW sb \in Sandbox \cup {NULL}, NEW ok,
           sb # NULL => sb.base \in Bases /\ Numbered(sb),
           Flush([mem EXCEPT !.sandboxes[n] = sb], ok),
           touched' = touched \cup On(n) \/
              (/\ touched' = touched
               /\ sb # NULL <=> mem.sandboxes[n] # NULL
               /\ sb # NULL => sb.base = mem.sandboxes[n].base),
           UNCHANGED <<call, before>>
    PROVE  Inv'
  <1>1. /\ RecordsOK(mem') /\ RecordsOK(disk')
        /\ mem'.sandboxes[n] = sb
        /\ \A m \in Names : m # n => mem'.sandboxes[m] = mem.sandboxes[m]
        /\ mem'.proposals = mem.proposals
    BY SandboxFlush
  <1>2. touched' \in SUBSET Calls /\ touched \subseteq touched'
    BY DEF Inv, TypeOK, On
  <1>3. ASSUME NEW c \in Calls
        PROVE  FrameOK(c)' /\ (c \notin touched' => Relies(c)')
    <2>1. call[c].pc # "idle" => call[c].sandbox \in Names
      BY DEF Inv, FrameOK
    <2>2. ASSUME c \notin touched', call[c].pc # "idle"
          PROVE  LET m == call[c].sandbox
                 IN  /\ mem'.sandboxes[m] # NULL <=> mem.sandboxes[m] # NULL
                     /\ mem.sandboxes[m] # NULL =>
                           mem'.sandboxes[m].base = mem.sandboxes[m].base
      BY <1>1, <2>1, <2>2 DEF On
    <2> QED
      BY <1>1, <1>2, <2>2, RelianceKept
  <1> QED
    BY <1>1, <1>2, <1>3 DEF Inv, TypeOK, RecordsOK

\* A step that changes neither a sandbox nor the rule of a proposal keeps the
\* invariant.
LEMMA OtherWritten ==
    ASSUME Inv, NEW new \in State, new.sandboxes = mem.sandboxes, NEW ok, Flush(new, ok),
           \A i \in Proposals : mem.proposals[i] # NULL =>
              new.proposals[i] # NULL /\ new.proposals[i].rule = mem.proposals[i].rule,
           UNCHANGED <<call, before, touched>>
    PROVE  Inv'
  <1>1. RecordsOK(mem') /\ RecordsOK(disk') /\ mem' = new
    BY OtherFlush
  <1>2. ASSUME NEW c \in Calls
        PROVE  FrameOK(c)' /\ (c \notin touched' => Relies(c)')
    BY <1>1, RelianceKept
  <1> QED
    BY <1>1, <1>2 DEF Inv, TypeOK, RecordsOK

\* Registration, deletion, attachment and detachment of a provider.
LEMMA SandboxStepKeeps ==
    ASSUME Inv, NEW n \in Names, NEW ok \in FlushResults, SandboxStep(n, ok)
    PROVE  Inv'
  <1> DEFINE old == mem.sandboxes[n]
  <1>1. old # NULL => old \in Sandbox /\ old.base \in Bases /\ Numbered(old)
    BY DEF Inv, TypeOK, State, Clean, AllNumbered
  <1>2. ASSUME NEW base \in RegisteredBases, NEW ps \in SUBSET Providers,
               UpsertSandbox(n, base, ps, ok)
        PROVE  Inv'
    <2> DEFINE none == [base |-> NULL, attached |-> {}, rev |-> 0, revs |-> <<>>]
               was == IF Exists(n) THEN old ELSE none
               sb == [was EXCEPT !.base = IF base = NULL THEN @ ELSE base,
                                 !.attached = IF ps = {} THEN @ ELSE ps]
    <2>1. none \in Sandbox /\ none.base \in Bases /\ Numbered(none)
      BY PolicyAssumption DEF Sandbox, Bases, Texts, Numbered
    <2>2. was \in Sandbox /\ was.base \in Bases /\ Numbered(was)
      BY <1>1, <2>1 DEF Exists
    <2>3. base \in Bases /\ Bases \subseteq Texts
      BY PolicyAssumption DEF Bases, Texts, Policies
    <2>4. Flush([mem EXCEPT !.sandboxes[n] = sb], ok)
          /\ touched' = touched \cup On(n) /\ UNCHANGED <<call, before>>
      BY <1>2 DEF UpsertSandbox
    <2> HIDE DEF was
    <2>5. /\ sb \in Sandbox /\ sb.base \in Bases
          /\ sb.rev = was.rev /\ sb.revs = was.revs
      BY <2>2, <2>3 DEF Sandbox
    <2> HIDE DEF sb
    <2>6. Numbered(sb)
      BY <2>2, <2>5 DEF Numbered
    <2> QED
      BY <2>4, <2>5, <2>6, SandboxWritten
  <1>3. CASE DeleteSandbox(n, ok)
    BY <1>3, SandboxWritten DEF DeleteSandbox
  <1>4. ASSUME NEW ps \in SUBSET Providers, Exists(n),
               Flush([mem EXCEPT !.sandboxes[n].attached = ps], ok),
               UNCHANGED <<call, before, touched>>
        PROVE  Inv'
    <2> DEFINE sb == [old EXCEPT !.attached = ps]
    <2>1. old \in Sandbox /\ old.base \in Bases /\ Numbered(old)
      BY <1>1, <1>4 DEF Exists
    <2>2. /\ sb \in Sandbox /\ sb.base = old.base /\ sb.rev = old.rev
          /\ sb.revs = old.revs
      BY <2>1 DEF Sandbox
    <2>3. sb # NULL
      BY <2>2, NullAssumption
    <2>4. Flush([mem EXCEPT !.sandboxes[n] = sb], ok)
      BY <1>4
    <2> HIDE DEF sb, old
    <2>5. Numbered(sb)
      BY <2>1, <2>2 DEF Numbered
    <2> QED
      BY <1>4, <2>1, <2>2, <2>3, <2>4, <2>5, SandboxWritten DEF Exists, old
  <1>5. ASSUME NEW p \in Providers, AttachProvider(n, p, ok) \/ DetachProvider(n, p, ok)
        PROVE  Inv'
    <2>1. Exists(n) /\ old.attached \in SUBSET Providers
      BY <1>1, <1>5 DEF AttachProvider, DetachProvider, Exists, Sandbox
    <2>2. CASE AttachProvider(n, p, ok)
      BY <1>4, <2>1, <2>2 DEF AttachProvider
    <2>3. CASE DetachProvider(n, p, ok)
      BY <1>4, <2>1, <2>3 DEF DetachProvider
    <2> QED
      BY <1>5, <2>2, <2>3
  <1> QED
    BY <1>2, <1>3, <1>5 DEF SandboxStep

\* Providers, profiles, the global policy and proposals.
LEMMA RegistryStepKeeps ==
    ASSUME Inv, NEW ok \in FlushResults, RegistryStep(ok)
    PROVE  Inv'
  <1>1. mem \in State
    BY DEF Inv, TypeOK
  <1>2. ASSUME NEW p \in Providers, NEW t \in Profiles \cup {NULL},
               Flush([mem EXCEPT !.providers[p] = t], ok),
               UNCHANGED <<call, before, touched>>
        PROVE  Inv'
    <2> DEFINE new == [mem EXCEPT !.providers[p] = t]
    <2>1. new \in State /\ new.sandboxes = mem.sandboxes /\ new.proposals = mem.proposals
      BY <1>1 DEF State
    <2> HIDE DEF new
    <2> QED
      BY <1>2, <2>1, OtherWritten DEF new
  <1>3. ASSUME NEW ts \in SUBSET Profiles, Flush([mem EXCEPT !.profiles = ts], ok),
               UNCHANGED <<call, before, touched>>
        PROVE  Inv'
    <2> DEFINE new == [mem EXCEPT !.profiles = ts]
    <2>1. new \in State /\ new.sandboxes = mem.sandboxes /\ new.proposals = mem.proposals
      BY <1>1 DEF State
    <2> HIDE DEF new
    <2> QED
      BY <1>3, <2>1, OtherWritten DEF new
  <1>4. ASSUME NEW g \in Globals, SetGlobalPolicy(g, ok)
        PROVE  Inv'
    <2> DEFINE new == [mem EXCEPT !.global = g]
    <2>1. new \in State /\ new.sandboxes = mem.sandboxes /\ new.proposals = mem.proposals
      BY <1>1 DEF State
    <2>2. Flush(new, ok) /\ UNCHANGED <<call, before, touched>>
      BY <1>4 DEF SetGlobalPolicy
    <2> HIDE DEF new
    <2> QED
      BY <2>1, <2>2, OtherWritten
  <1>5. ASSUME NEW i \in Proposals, RejectProposal(i, ok)
        PROVE  Inv'
    <2> DEFINE q == [mem.proposals[i] EXCEPT !.status = "rejected"]
               new == [mem EXCEPT !.proposals[i] = q]
    <2>1. q \in Proposal /\ q.rule = mem.proposals[i].rule /\ q # NULL
      BY <1>1, <1>5, NullAssumption DEF RejectProposal, State, Proposal
    <2>2. Flush(new, ok) /\ UNCHANGED <<call, before, touched>>
      BY <1>5 DEF RejectProposal
    <2> HIDE DEF q
    <2>3. /\ new \in State /\ new.sandboxes = mem.sandboxes
          /\ new.proposals = [mem.proposals EXCEPT ![i] = q]
      BY <1>1, <2>1 DEF State
    <2> HIDE DEF new
    <2> QED
      BY <1>1, <2>1, <2>2, <2>3, OtherWritten DEF State
  <1>6. ASSUME NEW i \in Proposals, NEW n \in Names, NEW r \in Rules,
               NEW status \in {"pending", "approved", "rejected"},
               PutProposal(i, n, r, status, ok)
        PROVE  Inv'
    <2> DEFINE q == [sandbox |-> n, rule |-> r, status |-> status]
               new == [mem EXCEPT !.proposals[i] = q]
    <2>1. q \in Proposal /\ q # NULL
      BY NullAssumption DEF Proposal
    <2>2. /\ Flush(new, ok) /\ UNCHANGED <<call, before>>
          /\ touched' = touched \cup {c \in Calls : call[c].prop = i}
      BY <1>6 DEF PutProposal
    <2> HIDE DEF q
    <2>3. /\ new \in State /\ new.sandboxes = mem.sandboxes
          /\ new.proposals = [mem.proposals EXCEPT ![i] = q]
      BY <1>1, <2>1 DEF State
    <2> HIDE DEF new
    <2>4. RecordsOK(mem') /\ RecordsOK(disk') /\ mem' = new
      BY <2>2, <2>3, OtherFlush
    <2>5. /\ \A j \in Proposals : mem.proposals[j] # NULL => mem'.proposals[j] # NULL
          /\ \A j \in Proposals : j # i => mem'.proposals[j] = mem.proposals[j]
      BY <1>1, <2>1, <2>3, <2>4 DEF State
    <2>6. touched' \in SUBSET Calls
      BY <2>2 DEF Inv, TypeOK
    <2>7. ASSUME NEW c \in Calls
          PROVE  FrameOK(c)' /\ (c \notin touched' => Relies(c)')
      <3>1. c \notin touched' => c \notin touched /\ call[c].prop # i
        BY <2>2
      <3> QED
        BY <2>2, <2>3, <2>4, <2>5, <3>1, RelianceKept
    <2> QED
      BY <2>2, <2>4, <2>6, <2>7 DEF Inv, TypeOK, RecordsOK
  <1>7. mem.profiles \in SUBSET Profiles
    BY <1>1 DEF State
  <1>8. ASSUME NEW p \in Providers, DeleteProvider(p, ok) PROVE Inv'
    BY <1>2, <1>8 DEF DeleteProvider
  <1>9. ASSUME NEW p \in Providers, NEW t \in Profiles, UpsertProvider(p, t, ok) PROVE Inv'
    BY <1>2, <1>9 DEF UpsertProvider
  <1>10. ASSUME NEW t \in Profiles, UpsertProfile(t, ok) \/ DeleteProfile(t, ok) PROVE Inv'
    BY <1>3, <1>7, <1>10 DEF UpsertProfile, DeleteProfile
  <1> QED
    BY <1>4, <1>5, <1>6, <1>8, <1>9, <1>10 DEF RegistryStep

\* The process starts again from the file, and no request goes on.
LEMMA RestartKeeps ==
    ASSUME Inv, Restart
    PROVE  Inv'
  <1>1. ASSUME NEW c \in Calls
        PROVE  /\ call'[c] \in Frame /\ FrameOK(c)'
               /\ c \notin touched' => call'[c] = call[c] /\ call[c].pc = "idle"
    <2>1. call[c] \in Frame /\ FrameOK(c)
      BY DEF Inv, TypeOK
    <2>2. CASE call[c].pc \in {"idle", "done"}
      <3>1. call'[c] = call[c]
        BY <2>2 DEF Restart
      <3> QED
        BY <2>1, <2>2, <3>1 DEF FrameOK, Busy, Storing, Restart
    <2>3. CASE call[c].pc \notin {"idle", "done"}
      <3>1. call'[c] = Answered(call[c], "lost") /\ c \in touched'
        BY <2>3 DEF Restart
      <3>2. /\ call'[c] \in Frame /\ call'[c].pc = "done" /\ call'[c].prev = NULL
            /\ call'[c].sandbox = call[c].sandbox
        BY <2>1, <3>1 DEF Answered, Idle, Frame, PCs, Results, Texts
      <3> QED
        BY <2>1, <2>3, <3>1, <3>2 DEF FrameOK, Busy, Storing, Bases
    <2> QED
      BY <2>2, <2>3
  <1>2. ASSUME NEW c \in Calls, c \notin touched'
        PROVE  Relies(c)'
    BY <1>1, <1>2 DEF Inv, FrameOK, Relies, Busy, Storing, Preparing
  <1>3. TypeOK'
    <2>1. call' \in [Calls -> Frame]
      BY <1>1 DEF Restart
    <2> QED
      BY <2>1 DEF Inv, TypeOK, Restart
  <1> QED
    BY <1>1, <1>2, <1>3 DEF Inv, Restart, Clean, AllNumbered

-----------------------------------------------------------------------------
(* Steps of a request.                                                     *)

\* A step of a request that writes nothing.
LEMMA OwnStep ==
    ASSUME Inv, NEW c \in Calls, NEW f \in Frame, call' = [call EXCEPT ![c] = f],
           UNCHANGED <<mem, disk, before, touched>>,
           FrameOK(c)', c \notin touched => Relies(c)'
    PROVE  Inv'
  <1>1. \A d \in Calls : d # c => call'[d] = call[d]
    BY DEF Inv, TypeOK
  <1>2. ASSUME NEW d \in Calls
        PROVE  FrameOK(d)' /\ (d \notin touched' => Relies(d)')
    <2>1. CASE d = c
      BY <2>1
    <2>2. CASE d # c
      BY <1>1, <2>2 DEF Inv, FrameOK, Relies, Busy
    <2> QED
      BY <2>1, <2>2
  <1>3. TypeOK'
    BY DEF Inv, TypeOK
  <1> QED
    BY <1>2, <1>3 DEF Inv, Clean, AllNumbered

\* The frame of a request that has been answered.
LEMMA AnsweredFrame ==
    ASSUME NEW f \in Frame, NEW res \in Results, NEW g, g = Answered(f, res)
    PROVE  /\ g \in Frame /\ g.pc = "done" /\ g.result = res
           /\ g.sandbox = f.sandbox /\ g.prev = NULL
  BY DEF Answered, Idle, Frame, PCs, Results, Texts

\* An answer that leaves the store alone.
LEMMA ReturnKeeps ==
    ASSUME Inv, NEW c \in Calls, call[c].pc # "idle", NEW res \in Results \ {"refused"},
           Return(c, res), UNCHANGED <<mem, disk, before, touched>>
    PROVE  Inv'
  <1> DEFINE g == Answered(call[c], res)
  <1>1. call[c] \in Frame /\ call[c].sandbox \in Names
    BY DEF Inv, TypeOK, FrameOK
  <1>2. /\ g \in Frame /\ g.pc = "done" /\ g.result = res
        /\ g.sandbox = call[c].sandbox /\ g.prev = NULL
    BY <1>1, AnsweredFrame
  <1>3. call' = [call EXCEPT ![c] = g] /\ call'[c] = g
    BY DEF Return, Inv, TypeOK
  <1> HIDE DEF g
  <1>4. FrameOK(c)' /\ Relies(c)'
    BY <1>1, <1>2, <1>3 DEF FrameOK, Relies, Busy, Storing, Preparing, Bases
  <1> QED
    BY <1>2, <1>3, <1>4, OwnStep

\* approveProposal looks the proposal up.
LEMMA ApproveStartKeeps ==
    ASSUME Inv, NEW c \in Calls, NEW n \in Names, NEW i \in Proposals, ApproveStart(c, n, i)
    PROVE  Inv'
  <1> DEFINE p == mem.proposals[i]
             f == [Idle EXCEPT !.kind = "approve", !.sandbox = n, !.prop = i]
             go == [f EXCEPT !.pc = "merge", !.rule = p.rule]
  <1>1. p # NULL => p \in Proposal
    BY DEF Inv, TypeOK, State
  <1>2. f \in Frame /\ f.sandbox = n
    BY DEF Idle, Frame, PCs, Results, Texts
  <1>3. PICK g : /\ call' = [call EXCEPT ![c] = g] /\ call'[c] = g
                 /\ \/ g = Answered(f, "failed") \/ g = Answered(f, "ok")
                    \/ p # NULL /\ g = go
    BY DEF ApproveStart, Inv, TypeOK
  <1>4. UNCHANGED <<mem, disk, before, touched>>
    BY DEF ApproveStart
  <1>5. CASE g \in {Answered(f, "failed"), Answered(f, "ok")}
    <2>1. /\ g \in Frame /\ g.pc = "done" /\ g.result \in {"failed", "ok"}
          /\ g.sandbox = n /\ g.prev = NULL
      <3> HIDE DEF f
      <3>1. PICK res \in {"failed", "ok"} : g = Answered(f, res)
        BY <1>5
      <3> QED
        BY <1>2, <3>1, AnsweredFrame DEF Results
    <2>2. FrameOK(c)' /\ Relies(c)'
      BY <1>3, <2>1 DEF FrameOK, Relies, Busy, Storing, Preparing, Bases
    <2> QED
      BY <1>3, <1>4, <2>1, <2>2, OwnStep
  <1>6. CASE p # NULL /\ g = go
    <2>1. /\ g \in Frame /\ g.pc = "merge" /\ g.sandbox = n /\ g.prop = i
          /\ g.rule = p.rule /\ g.rule \in Rules /\ g.prev = NULL /\ g.result = "none"
          /\ g.kind = "approve"
      BY <1>1, <1>6 DEF Idle, Frame, PCs, Results, Texts, Proposal
    <2>2. FrameOK(c)' /\ Relies(c)'
      BY <1>3, <1>4, <1>6, <2>1, ZenonT(60)
         DEF FrameOK, Relies, Busy, Storing, Preparing, Bases
    <2> QED
      BY <1>3, <1>4, <2>1, <2>2, OwnStep
  <1> QED
    BY <1>3, <1>5, <1>6

\* The rule is added to the base that is read.
LEMMA MergeKeeps ==
    ASSUME Inv, NEW c \in Calls, Merge(c)
    PROVE  Inv'
  <1> DEFINE f == call[c]
             sb == mem.sandboxes[f.sandbox]
             g == [f EXCEPT !.pc = "check", !.body = Doc(sb.base) \cup {f.rule}]
  <1>1. /\ f \in Frame /\ f.pc = "merge" /\ f.kind = "approve" /\ f.sandbox \in Names
        /\ f.rule \in Rules /\ f.prop \in Proposals /\ mem.proposals[f.prop] # NULL
        /\ f.prev \in Bases /\ f.result = "none"
        /\ UNCHANGED <<mem, disk, before, touched>>
    BY DEF Inv, TypeOK, FrameOK, Busy, Merge
  <1>2. CASE sb = NULL \/ sb.base = BROKEN
    <2>1. Return(c, "failed")
      BY <1>2 DEF Merge, Exists
    <2> QED
      BY <1>1, <2>1, ReturnKeeps DEF Results
  <1>3. CASE sb # NULL /\ sb.base # BROKEN
    <2>1. call' = [call EXCEPT ![c] = g] /\ call'[c] = g
      BY <1>3 DEF Merge, Exists, Inv, TypeOK
    <2>2. Doc(sb.base) \cup {f.rule} \in SUBSET Rules
      BY <1>1, <1>3 DEF Inv, Clean, Bases, Doc
    <2>3. /\ g \in Frame /\ g.pc = "check" /\ g.body = Doc(sb.base) \cup {f.rule}
          /\ g.kind = f.kind /\ g.sandbox = f.sandbox /\ g.rule = f.rule
          /\ g.prop = f.prop /\ g.prev = f.prev /\ g.result = f.result
      BY <1>1, <2>2 DEF Frame, PCs, Texts, Policies
    <2> HIDE DEF g
    <2>4. FrameOK(c)'
      BY <1>1, <2>1, <2>2, <2>3 DEF FrameOK, Busy, Storing, Policies
    <2>5. c \notin touched => Relies(c)'
      BY <1>1, <1>3, <2>1, <2>3 DEF Inv, Relies, Busy, Storing, Preparing
    <2> QED
      BY <1>1, <2>1, <2>3, <2>4, <2>5, OwnStep
  <1> QED
    BY <1>2, <1>3

\* PUT of a policy.
LEMMA PutStartKeeps ==
    ASSUME Inv, NEW c \in Calls, NEW n \in Names, NEW body \in Policies \cup {BROKEN},
           PutStart(c, n, body)
    PROVE  Inv'
  <1> DEFINE g == [Idle EXCEPT !.pc = "check", !.sandbox = n, !.body = body]
  <1>1. /\ g \in Frame /\ g.pc = "check" /\ g.kind = "put" /\ g.sandbox = n
        /\ g.body = body /\ g.prev = NULL /\ g.result = "none"
    BY DEF Idle, Frame, PCs, Results, Texts
  <1>2. /\ call' = [call EXCEPT ![c] = g] /\ call'[c] = g
        /\ UNCHANGED <<mem, disk, before, touched>>
    BY DEF PutStart, Inv, TypeOK
  <1> HIDE DEF g
  <1>3. FrameOK(c)' /\ Relies(c)'
    BY <1>1, <1>2 DEF FrameOK, Relies, Busy, Storing, Preparing, Bases
  <1> QED
    BY <1>1, <1>2, <1>3, OwnStep

\* The candidate is checked, and what was composed is taken out of it.
LEMMA CheckKeeps ==
    ASSUME Inv, NEW c \in Calls, Check(c)
    PROVE  Inv'
  <1> DEFINE f == call[c]
             sb == mem.sandboxes[f.sandbox]
             body == OmitProviderComposed(f.body)
             g == [f EXCEPT !.pc = "prev", !.body = body]
  <1>1. /\ f \in Frame /\ f.pc = "check" /\ f.sandbox \in Names
        /\ f.body \in Policies \cup {BROKEN}
        /\ UNCHANGED <<mem, disk, before, touched>>
    BY DEF Inv, TypeOK, FrameOK, Check
  <1>2. CASE sb = NULL \/ f.body = BROKEN
    <2>1. Return(c, "failed")
      BY <1>2 DEF Check, Exists
    <2> QED
      BY <1>1, <2>1, ReturnKeeps DEF Results
  <1>3. CASE sb # NULL /\ f.body # BROKEN
    <2>1. call' = [call EXCEPT ![c] = g] /\ call'[c] = g
      BY <1>3 DEF Check, Exists, Inv, TypeOK
    <2>2. body \in SUBSET Rules /\ body \in Texts
      BY <1>1, <1>3, PolicyAssumption DEF OmitProviderComposed, Policies, Texts
    <2>3. f.kind = "approve" => body = f.body
      BY <1>1, PolicyAssumption DEF Inv, FrameOK, OmitProviderComposed
    <2> HIDE DEF body
    <2>4. /\ g \in Frame /\ g.pc = "prev" /\ g.body = body
          /\ g.kind = f.kind /\ g.sandbox = f.sandbox /\ g.rule = f.rule
          /\ g.prop = f.prop /\ g.prev = f.prev /\ g.result = f.result
      BY <1>1, <2>2 DEF Frame, PCs
    <2> HIDE DEF g
    <2>5. FrameOK(c)'
      BY <1>1, <2>1, <2>2, <2>4 DEF Inv, FrameOK, Busy, Storing
    <2>6. c \notin touched => Relies(c)'
      BY <1>1, <2>1, <2>3, <2>4 DEF Inv, FrameOK, Relies, Busy, Storing, Preparing
    <2> QED
      BY <1>1, <2>1, <2>4, <2>5, <2>6, OwnStep
  <1> QED
    BY <1>2, <1>3

\* prevBase is read.
LEMMA ReadPrevKeeps ==
    ASSUME Inv, NEW c \in Calls, ReadPrev(c)
    PROVE  Inv'
  <1> DEFINE f == call[c]
             sb == mem.sandboxes[f.sandbox]
             prev == IF sb = NULL THEN NULL ELSE sb.base
             g == [f EXCEPT !.pc = "set", !.prev = prev]
  <1>1. /\ f \in Frame /\ f.pc = "prev" /\ f.sandbox \in Names
        /\ UNCHANGED <<mem, disk, before, touched>>
        /\ call' = [call EXCEPT ![c] = g] /\ call'[c] = g
    BY DEF Inv, TypeOK, FrameOK, ReadPrev
  <1>2. prev \in Bases /\ prev \in Texts
    BY <1>1 DEF Inv, Clean, Bases, Texts, Policies
  <1>3. sb # NULL => prev = sb.base
    OBVIOUS
  <1> HIDE DEF prev
  <1>4. /\ g \in Frame /\ g.pc = "set" /\ g.prev = prev /\ g.body = f.body
        /\ g.kind = f.kind /\ g.sandbox = f.sandbox /\ g.rule = f.rule
        /\ g.prop = f.prop /\ g.result = f.result
    BY <1>1, <1>2 DEF Frame, PCs
  <1> HIDE DEF g
  <1>5. FrameOK(c)'
    BY <1>1, <1>2, <1>4 DEF Inv, FrameOK, Busy, Storing
  <1>6. c \notin touched => Relies(c)'
    BY <1>1, <1>3, <1>4 DEF Inv, FrameOK, Relies, Busy, Storing, Preparing
  <1> QED
    BY <1>1, <1>4, <1>5, <1>6, OwnStep

\* A step of effectivePolicy: nothing of what the request relies on changes.
LEMMA EffectiveStep ==
    ASSUME Inv, NEW c \in Calls, call[c].pc \in Storing, NEW g \in Frame,
           call' = [call EXCEPT ![c] = g], g.pc \in Storing,
           g.pc = "decide" => g.kind = "approve",
           g.kind = call[c].kind, g.sandbox = call[c].sandbox, g.prop = call[c].prop,
           g.rule = call[c].rule, g.body = call[c].body, g.prev = call[c].prev,
           g.result = call[c].result, UNCHANGED <<mem, disk, before, touched>>
    PROVE  Inv'
  <1>1. call'[c] = g /\ "idle" \notin Storing /\ "done" \notin Storing /\ "set" \notin Storing
        /\ "check" \notin Storing /\ "merge" \notin Storing /\ "prev" \notin Storing
    BY DEF Inv, TypeOK, Storing
  <1>2. FrameOK(c) /\ (c \notin touched => Relies(c))
    BY DEF Inv
  <1>3. FrameOK(c)'
    BY <1>1, <1>2 DEF FrameOK, Busy
  <1>4. c \notin touched => Relies(c)'
    BY <1>1, <1>2 DEF FrameOK, Relies, Busy, Preparing
  <1> QED
    BY <1>3, <1>4, OwnStep

\* effectivePolicy, up to its end.
LEMMA EffectiveKeeps ==
    ASSUME Inv, NEW c \in Calls,
           \/ EffSandbox(c) \/ EffGlobal(c) \/ EffProfile(c) \/ EffDone(c)
           \/ \E p \in Providers : EffProvider(c, p)
    PROVE  Inv'
  <1> DEFINE f == call[c]
  <1>1. /\ f \in Frame /\ f.pc \in Storing \ {"rollback", "decide"} /\ f.sandbox \in Names
        /\ UNCHANGED <<mem, disk, before, touched>>
    BY DEF Inv, TypeOK, FrameOK, Storing, EffSandbox, EffGlobal, EffProfile, EffDone, EffProvider
  <1>2. ASSUME NEW pc \in Storing, pc = "decide" => f.kind = "approve", Goto(c, pc)
        PROVE  Inv'
    <2> DEFINE g == [f EXCEPT !.pc = pc]
    <2>1. call' = [call EXCEPT ![c] = g]
      BY <1>2 DEF Goto, Inv, TypeOK
    <2>2. /\ g \in Frame /\ g.pc = pc /\ g.kind = f.kind /\ g.sandbox = f.sandbox
          /\ g.prop = f.prop /\ g.rule = f.rule /\ g.body = f.body /\ g.prev = f.prev
          /\ g.result = f.result
      BY <1>1 DEF Frame, Storing, PCs
    <2> HIDE DEF g
    <2> QED
      BY <1>1, <1>2, <2>1, <2>2, EffectiveStep
  <1>3. CASE EffSandbox(c)
    <2> DEFINE sb == mem.sandboxes[f.sandbox]
               g == [f EXCEPT !.pc = "global", !.view = sb.base, !.todo = sb.attached]
    <2>1. CASE sb = NULL \/ sb.base = BROKEN
      BY <1>2, <1>3, <2>1 DEF EffSandbox, Storing
    <2>2. CASE sb # NULL /\ sb.base # BROKEN
      <3>1. sb.base \in Texts /\ sb.attached \in SUBSET Providers
        BY <1>1, <2>2 DEF Inv, TypeOK, State, Sandbox
      <3>2. call' = [call EXCEPT ![c] = g]
        BY <1>3, <2>2 DEF EffSandbox
      <3> HIDE DEF sb
      <3>3. /\ g \in Frame /\ g.pc = "global" /\ g.kind = f.kind /\ g.sandbox = f.sandbox
            /\ g.prop = f.prop /\ g.rule = f.rule /\ g.body = f.body /\ g.prev = f.prev
            /\ g.result = f.result
        BY <1>1, <3>1 DEF Frame, PCs
      <3> HIDE DEF g
      <3> QED
        BY <1>1, <3>2, <3>3, EffectiveStep DEF Storing
    <2> QED
      BY <2>1, <2>2
  <1>4. CASE EffGlobal(c)
    BY <1>2, <1>4 DEF EffGlobal, Storing
  <1>5. ASSUME NEW p \in Providers, EffProvider(c, p)
        PROVE  Inv'
    <2> DEFINE t == mem.providers[p]
               pc == IF t = NULL THEN "layers" ELSE "profile"
               g == [f EXCEPT !.todo = @ \ {p}, !.prof = t, !.pc = pc]
    <2>1. t \in Profiles \cup {NULL} /\ pc \in {"layers", "profile"}
      BY DEF Inv, TypeOK, State
    <2>2. call' = [call EXCEPT ![c] = g]
      BY <1>5 DEF EffProvider
    <2> HIDE DEF t, pc
    <2>3. /\ g \in Frame /\ g.pc = pc /\ g.kind = f.kind /\ g.sandbox = f.sandbox
          /\ g.prop = f.prop /\ g.rule = f.rule /\ g.body = f.body /\ g.prev = f.prev
          /\ g.result = f.result
      BY <1>1, <2>1 DEF Frame, PCs
    <2> HIDE DEF g
    <2> QED
      BY <1>1, <2>1, <2>2, <2>3, EffectiveStep DEF Storing
  <1>6. CASE EffProfile(c)
    <2> DEFINE pc == IF f.prof \in mem.profiles THEN "layers" ELSE "rollback"
               g == [f EXCEPT !.prof = NULL, !.pc = pc]
    <2>1. call' = [call EXCEPT ![c] = g] /\ pc \in {"layers", "rollback"}
      BY <1>6 DEF EffProfile
    <2> HIDE DEF pc
    <2>2. /\ g \in Frame /\ g.pc = pc /\ g.kind = f.kind /\ g.sandbox = f.sandbox
          /\ g.prop = f.prop /\ g.rule = f.rule /\ g.body = f.body /\ g.prev = f.prev
          /\ g.result = f.result
      BY <1>1, <2>1 DEF Frame, PCs
    <2> HIDE DEF g
    <2> QED
      BY <1>1, <2>1, <2>2, EffectiveStep DEF Storing
  <1>7. CASE EffDone(c)
    <2>1. CASE f.kind = "put"
      BY <1>1, <1>7, <2>1, ReturnKeeps DEF EffDone, Storing, Results
    <2>2. CASE f.kind # "put"
      <3>1. f.kind = "approve"
        BY <1>1, <2>2 DEF Frame
      <3> QED
        BY <1>2, <1>7, <2>2, <3>1 DEF EffDone, Storing
    <2> QED
      BY <2>1, <2>2
  <1> QED
    BY <1>3, <1>4, <1>5, <1>6, <1>7

\* A step of a request that writes the sandbox it works on, and so touches every
\* other request on it.
LEMMA OwnWrite ==
    ASSUME Inv, NEW c \in Calls, call[c].pc # "idle", NEW n \in Names,
           call[c].sandbox = n, Exists(n),
           NEW yaml \in Bases, NEW ok, SetBasePolicy(n, yaml, ok),
           NEW g \in Frame, call' = [call EXCEPT ![c] = g],
           touched' = touched \cup (On(n) \ {c}),
           before' \in [Calls -> Texts], \A d \in Calls : d # c => before'[d] = before[d],
           mem'.sandboxes[n] # NULL /\ mem'.sandboxes[n].base = yaml
              /\ mem'.proposals = mem.proposals
           => FrameOK(c)' /\ (c \notin touched => Relies(c)')
    PROVE  Inv'
  <1> DEFINE sb == WithBase(mem.sandboxes[n], yaml)
  <1>1. mem.sandboxes[n] \in Sandbox /\ Numbered(mem.sandboxes[n]) /\ yaml \in Texts
    BY DEF Inv, TypeOK, State, AllNumbered, Exists, Bases, Texts, Policies
  <1>2. sb \in Sandbox /\ sb.base = yaml /\ Numbered(sb)
    BY <1>1, WithBaseNumbered
  <1>3. Flush([mem EXCEPT !.sandboxes[n] = sb], ok)
    BY DEF SetBasePolicy
  <1> HIDE DEF sb
  <1>4. /\ RecordsOK(mem') /\ RecordsOK(disk')
        /\ mem'.sandboxes[n] = sb
        /\ \A m \in Names : m # n => mem'.sandboxes[m] = mem.sandboxes[m]
        /\ mem'.proposals = mem.proposals
    BY <1>2, <1>3, SandboxFlush
  <1>5. sb # NULL
    BY <1>2, NullAssumption
  <1>6. FrameOK(c)' /\ (c \notin touched => Relies(c)')
    BY <1>2, <1>4, <1>5
  <1>7. ASSUME NEW d \in Calls, d # c
        PROVE  FrameOK(d)' /\ (d \notin touched' => Relies(d)')
    <2>1. call'[d] = call[d] /\ before'[d] = before[d]
      BY <1>7 DEF Inv, TypeOK
    <2>2. call[d].pc # "idle" => call[d].sandbox \in Names
      BY DEF Inv, FrameOK
    <2>3. d \notin touched' => d \notin touched /\ (call[d].pc # "idle" => call[d].sandbox # n)
      BY <1>7 DEF On
    <2> QED
      BY <1>4, <2>1, <2>2, <2>3, RelianceKept
  <1>8. TypeOK'
    BY <1>4 DEF Inv, TypeOK, RecordsOK, On
  <1> QED
    BY <1>4, <1>6, <1>7, <1>8 DEF Inv, RecordsOK

\* The candidate is stored.
LEMMA StoreKeeps ==
    ASSUME Inv, NEW c \in Calls, NEW ok \in FlushResults, Store(c, ok)
    PROVE  Inv'
  <1> DEFINE f == call[c]
             n == f.sandbox
             sb == mem.sandboxes[n]
  <1>1. /\ f \in Frame /\ f.pc = "set" /\ n \in Names /\ f.body \in SUBSET Rules
        /\ f.prev \in Bases /\ f.result = "none" /\ ok \in BOOLEAN
    BY PolicyAssumption DEF Inv, TypeOK, FrameOK, Store
  <1>2. CASE sb = NULL
    BY <1>1, <1>2, ReturnKeeps DEF Store, Exists, Results
  <1>3. CASE sb # NULL
    <2>1. /\ SetBasePolicy(n, f.body, ok)
          /\ IF ok THEN Goto(c, "sandbox") ELSE Return(c, "failed")
          /\ before' = [before EXCEPT ![c] = sb.base]
          /\ touched' = touched \cup (On(n) \ {c})
      BY <1>3 DEF Store, Exists
    <2>2. sb.base \in Texts /\ f.body \in Bases
      BY <1>1, <1>3 DEF Inv, TypeOK, State, Sandbox, Bases
    <2>3. /\ before' \in [Calls -> Texts] /\ before'[c] = sb.base
          /\ \A d \in Calls : d # c => before'[d] = before[d]
      BY <2>1, <2>2 DEF Inv, TypeOK
    <2>4. CASE ok
      <3> DEFINE g == [f EXCEPT !.pc = "sandbox"]
      <3>1. call' = [call EXCEPT ![c] = g] /\ call'[c] = g
        BY <2>1, <2>4 DEF Goto, Inv, TypeOK
      <3>2. /\ g \in Frame /\ g.pc = "sandbox" /\ g.kind = f.kind /\ g.sandbox = f.sandbox
            /\ g.prop = f.prop /\ g.rule = f.rule /\ g.body = f.body /\ g.prev = f.prev
            /\ g.result = f.result
        BY <1>1 DEF Frame, PCs
      <3> HIDE DEF g
      <3>3. ASSUME mem'.sandboxes[n] # NULL, mem'.sandboxes[n].base = f.body,
                   mem'.proposals = mem.proposals
            PROVE  FrameOK(c)' /\ (c \notin touched => Relies(c)')
        <4>1. FrameOK(c) /\ (c \notin touched => Relies(c))
          BY DEF Inv
        <4>2. FrameOK(c)'
          BY <1>1, <3>1, <3>2, <3>3, <4>1 DEF FrameOK, Busy, Storing
        <4>3. ASSUME c \notin touched PROVE Relies(c)'
          BY <1>1, <1>3, <2>3, <3>1, <3>2, <3>3, <4>1, <4>3, SMTT(30)
             DEF FrameOK, Relies, Busy, Storing, Preparing
        <4> QED
          BY <4>2, <4>3
      <3> QED
        BY <1>1, <1>3, <2>1, <2>2, <2>3, <3>1, <3>2, <3>3, OwnWrite DEF Exists
    <2>5. CASE ~ok
      <3> DEFINE g == Answered(f, "failed")
      <3>1. call' = [call EXCEPT ![c] = g] /\ call'[c] = g
        BY <2>1, <2>5 DEF Return, Inv, TypeOK
      <3> HIDE DEF g
      <3>2. /\ g \in Frame /\ g.pc = "done" /\ g.result = "failed"
            /\ g.sandbox = n /\ g.prev = NULL
        BY <1>1, AnsweredFrame DEF g, Results
      <3>3. FrameOK(c)' /\ Relies(c)'
        BY <1>1, <3>1, <3>2 DEF FrameOK, Relies, Busy, Storing, Preparing, Bases
      <3> QED
        BY <1>1, <1>3, <2>1, <2>2, <2>3, <3>1, <3>2, <3>3, OwnWrite DEF Exists
    <2> QED
      BY <2>4, <2>5
  <1> QED
    BY <1>2, <1>3

\* prevBase is put back.
LEMMA RollbackKeeps ==
    ASSUME Inv, NEW c \in Calls, NEW ok \in FlushResults, Rollback(c, ok)
    PROVE  Inv'
  <1> DEFINE f == call[c]
             n == f.sandbox
             g == Answered(f, "refused")
  <1>1. /\ f \in Frame /\ f.pc = "rollback" /\ f.pc \in Storing /\ n \in Names
        /\ f.prev \in Bases
        /\ c \notin touched => mem.sandboxes[n] # NULL /\ before[c] = f.prev
    BY DEF Inv, TypeOK, FrameOK, Relies, Rollback, Storing
  <1>2. /\ call' = [call EXCEPT ![c] = g] /\ call'[c] = g /\ before' = before
        /\ before' \in [Calls -> Texts]
    BY DEF Rollback, Return, Inv, TypeOK
  <1> HIDE DEF g
  <1>3. /\ g \in Frame /\ g.pc = "done" /\ g.result = "refused"
        /\ g.sandbox = n /\ g.prev = NULL
    BY <1>1, AnsweredFrame DEF g, Results
  <1>4. FrameOK(c)'
    BY <1>1, <1>2, <1>3 DEF FrameOK, Busy, Storing, Bases
  <1>5. CASE mem.sandboxes[n] = NULL
    <2>1. UNCHANGED <<mem, disk, before, touched>> /\ c \in touched
      BY <1>1, <1>5 DEF Rollback, Exists
    <2> QED
      BY <1>2, <1>3, <1>4, <2>1, OwnStep
  <1>6. CASE mem.sandboxes[n] # NULL
    <2>1. SetBasePolicy(n, f.prev, ok) /\ touched' = touched \cup (On(n) \ {c})
      BY <1>6 DEF Rollback, Exists
    <2>2. ASSUME mem'.sandboxes[n].base = f.prev, c \notin touched
          PROVE  Relies(c)'
      BY <1>1, <1>2, <1>3, <2>2 DEF Relies, Busy, Storing, Preparing
    <2> QED
      BY <1>1, <1>2, <1>3, <1>4, <1>6, <2>1, <2>2, OwnWrite DEF Exists
  <1> QED
    BY <1>5, <1>6

\* The decision is recorded.
LEMMA DecideKeeps ==
    ASSUME Inv, NEW c \in Calls, NEW ok \in FlushResults, Decide(c, ok)
    PROVE  Inv'
  <1> DEFINE f == call[c]
             q == [mem.proposals[f.prop] EXCEPT !.status = "approved"]
             new == [mem EXCEPT !.proposals[f.prop] = q]
             g == Answered(f, IF ok THEN "ok" ELSE "failed")
  <1>1. /\ f \in Frame /\ f.pc = "decide" /\ f.sandbox \in Names /\ f.prop \in Proposals
        /\ mem.proposals[f.prop] # NULL /\ mem \in State
    BY DEF Inv, TypeOK, FrameOK, Busy, Decide
  <1>2. q \in Proposal /\ q.rule = mem.proposals[f.prop].rule /\ q # NULL
    BY <1>1, NullAssumption DEF State, Proposal
  <1>3. /\ Flush(new, ok) /\ before' = before /\ touched' = touched
        /\ call' = [call EXCEPT ![c] = g] /\ call'[c] = g
    BY DEF Decide, Return, Inv, TypeOK
  <1> HIDE DEF q
  <1>4. /\ new \in State /\ new.sandboxes = mem.sandboxes
        /\ new.proposals = [mem.proposals EXCEPT ![f.prop] = q]
    BY <1>1, <1>2 DEF State
  <1> HIDE DEF new, g
  <1>5. RecordsOK(mem') /\ RecordsOK(disk') /\ mem' = new
    BY <1>3, <1>4, OtherFlush
  <1>6. \A i \in Proposals : mem.proposals[i] # NULL =>
           mem'.proposals[i] # NULL /\ mem'.proposals[i].rule = mem.proposals[i].rule
    BY <1>1, <1>2, <1>4, <1>5 DEF State
  <1>7. /\ g \in Frame /\ g.pc = "done" /\ g.result \in {"ok", "failed"}
        /\ g.sandbox = f.sandbox /\ g.prev = NULL
    <2>1. PICK res \in {"ok", "failed"} : g = Answered(f, res)
      BY DEF g
    <2> QED
      BY <1>1, <2>1, AnsweredFrame DEF Results
  <1>8. FrameOK(c)' /\ Relies(c)'
    BY <1>1, <1>3, <1>7 DEF FrameOK, Relies, Busy, Storing, Preparing, Bases
  <1>9. ASSUME NEW d \in Calls, d # c
        PROVE  FrameOK(d)' /\ (d \notin touched' => Relies(d)')
    <2>1. call'[d] = call[d] /\ before'[d] = before[d]
      BY <1>3, <1>9 DEF Inv, TypeOK
    <2> QED
      BY <1>3, <1>4, <1>5, <1>6, <2>1, RelianceKept
  <1>10. TypeOK'
    BY <1>3, <1>5, <1>7 DEF Inv, TypeOK, RecordsOK
  <1> QED
    BY <1>5, <1>8, <1>9, <1>10 DEF Inv, RecordsOK

-----------------------------------------------------------------------------

\* A fresh registry.
LEMMA PolicyInit == Init => Inv
  <1> SUFFICES ASSUME Init PROVE Inv
    OBVIOUS
  <1>1. Empty \in State /\ Idle \in Frame /\ NULL \in Texts
    BY DEF Empty, State, Idle, Frame, PCs, Results, Texts
  <1>2. TypeOK
    BY <1>1 DEF Init, TypeOK
  <1>3. ASSUME NEW c \in Calls PROVE FrameOK(c) /\ Relies(c)
    BY DEF Init, Idle, FrameOK, Relies, Busy, Storing, Preparing, Bases
  <1> QED
    BY <1>2, <1>3 DEF Init, Empty, Inv, Clean, AllNumbered

\* Every step keeps the invariant.
LEMMA PolicyNext == Inv /\ [Next]_vars => Inv'
  <1> SUFFICES ASSUME Inv, [Next]_vars PROVE Inv'
    OBVIOUS
  <1>1. CASE UNCHANGED vars
    BY <1>1 DEF vars, Inv, TypeOK, Clean, AllNumbered, FrameOK, Relies, Busy
  <1>2. ASSUME NEW c \in Calls, CallStep(c) PROVE Inv'
    BY <1>2, ApproveStartKeeps, PutStartKeeps, MergeKeeps, CheckKeeps, ReadPrevKeeps,
       EffectiveKeeps, StoreKeeps, RollbackKeeps, DecideKeeps DEF CallStep
  <1>3. ASSUME NEW ok \in FlushResults,
               RegistryStep(ok) \/ \E n \in Names : SandboxStep(n, ok)
        PROVE  Inv'
    BY <1>3, RegistryStepKeeps, SandboxStepKeeps
  <1>4. CASE Restart
    BY <1>4, RestartKeeps
  <1> QED
    BY <1>1, <1>2, <1>3, <1>4 DEF Next

\* The inductive invariant holds in every reachable state.
THEOREM PolicyInvariant == Spec => []Inv
  BY PolicyInit, PolicyNext, PTL DEF Spec

\* The registry, the file and the frames of the requests keep to their shapes.
THEOREM PolicyTypeCorrect == Spec => []TypeOK
  <1>1. Inv => TypeOK
    BY DEF Inv
  <1> QED
    BY <1>1, PolicyInvariant, PTL

\* Revisions are numbered without gaps up to policy_rev, for every cap, in memory
\* and in the file.
THEOREM RevisionsAreNumbered == Spec => []RevisionsAreConsecutive
  <1>1. Inv => RevisionsAreConsecutive
    BY DEF Inv, AllNumbered, Numbered, RevisionsAreConsecutive
  <1> QED
    BY <1>1, PolicyInvariant, PTL

\* No rule composed from a provider is ever part of a stored base.
THEOREM GrantsEndWithDetach == Spec => []DetachEndsGrant
  <1>1. Inv => DetachEndsGrant
    BY PolicyAssumption DEF Inv, Clean, Bases, Doc, Exists, DetachEndsGrant
  <1> QED
    BY <1>1, PolicyInvariant, PTL

\* A refused request leaves the base it found, unless somebody else wrote.
THEOREM RefusalsRestore == Spec => []RefusalKeepsBase
  <1>1. Inv => RefusalKeepsBase
    BY DEF Inv, Relies, RefusalKeepsBase
  <1> QED
    BY <1>1, PolicyInvariant, PTL

\* An approval is recorded when the base holds its rule and all it held before.
THEOREM ApprovalsAreApplied == Spec => []ApprovalIsApplied
  <1>1. Inv => ApprovalIsApplied
    <2> SUFFICES ASSUME Inv, NEW c \in Calls, call[c].pc = "decide", c \notin touched
                 PROVE  LET base == mem.sandboxes[call[c].sandbox].base
                        IN  /\ mem.proposals[call[c].prop].rule \in base
                            /\ Doc(before[c]) \subseteq base
      BY DEF ApprovalIsApplied
    <2>1. FrameOK(c) /\ Relies(c)
      BY DEF Inv
    <2> QED
      BY <2>1 DEF FrameOK, Relies, Busy, Storing
  <1> QED
    BY <1>1, PolicyInvariant, PTL
=============================================================================
