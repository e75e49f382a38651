----------------------- MODULE ProviderRegistryProofs -----------------------
(***************************************************************************)
(* Proofs about ProviderRegistry, for any number of providers, keys,       *)
(* requests and readers, and for requests of all kinds at the same time.   *)
(***************************************************************************)
EXTENDS ProviderRegistry, FreshObjects, TLAPS, FiniteSetTheorems, SequenceTheorems

-----------------------------------------------------------------------------
(* The inductive invariant: the frames of the requests.                    *)

\* The requests that have read a record, and those that will write one back.
Refreshing(t) == req[t].pc \in {"rotate", "store", "mutate"}
WritingBack(t) == req[t].pc = "upsert" /\ req[t].kind # "put"

\* A request knows its provider while it runs.  One on the refresh settings
\* works on the map it read, or on a map of its own where it read none; a
\* rotation that read none has no setting to put back.
FrameOK(t) ==
    /\ req[t].pc = "idle" => req[t] = Idle
    /\ req[t].pc # "idle" => req[t].prov \in Providers
    /\ req[t].pc = "purge" => req[t].kind = "delete"
    /\ req[t].pc = "mutate" \/ WritingBack(t) => req[t].kind \in {"set", "unset", "rotate"}
    /\ req[t].pc \in {"rotate", "store"} => req[t].kind = "rotate"
    /\ req[t].pc = "upsert" /\ req[t].kind = "put" => req[t].read = NIL /\ req[t].ptr = NIL
    /\ req[t].pc \in {"creds", "purge", "append"} =>
          req[t].read \notin Maps /\ req[t].ptr \notin Maps
    /\ Refreshing(t) \/ WritingBack(t) =>
          /\ req[t].read \in Maps \cup {NIL}
          /\ req[t].key \in Keys
          /\ req[t].read \in Maps => req[t].ptr = req[t].read
    /\ Refreshing(t) => req[t].ptr = req[t].read
    /\ WritingBack(t) /\ req[t].read = NIL =>
          \/ req[t].kind = "unset" /\ req[t].ptr = NIL
          \/ req[t].kind = "set" /\ req[t].ptr \in Maps
    /\ req[t].pc = "rotate" => req[t].cfg \in Strategies \cup {"env"}
    /\ req[t].pc = "store" => req[t].cfg = NULL \/ req[t].cfg \in Strategies
    /\ req[t].pc = "mutate" => req[t].kind = "unset" \/ req[t].cfg \in Strategies
    /\ req[t].kind = "rotate" /\ req[t].read = NIL =>
          \/ req[t].pc = "rotate" /\ req[t].cfg = "env"
          \/ req[t].pc = "store" /\ req[t].cfg = NULL

\* No map belongs to two providers.
MapsApart ==
    /\ \A p, q \in Providers : rec[p] \in Maps /\ rec[p] = rec[q] => p = q
    /\ \A t \in Requests, p \in Providers :
          req[t].ptr \in Maps /\ req[t].ptr = rec[p] => req[t].prov = p
    /\ \A t, u \in Requests :
          req[t].ptr \in Maps /\ req[t].ptr = req[u].ptr => req[t].prov = req[u].prov

\* A request that set a key in a new map is the only one to lead to that map.
OwnsMap(t) == req[t].pc = "upsert" /\ req[t].kind = "set" /\ req[t].read = NIL
MapsPrivate ==
    \A t \in Requests : OwnsMap(t) =>
        /\ \A p \in Providers : rec[p] # req[t].ptr
        /\ \A u \in Requests \ {t} : req[u].ptr # req[t].ptr
        /\ maps[req[t].ptr] = [Nothing EXCEPT ![req[t].key] = req[t].cfg]

\* A map that nothing leads to is empty.
MapsSwept == \A m \in Maps : m \notin MapsInUse => maps[m] = Nothing

-----------------------------------------------------------------------------
(* The inductive invariant: what the records say.                          *)

\* A request that read a map still works on the map of the record, unless the
\* provider was deleted or a request that found no map wrote its own.
MapsShared ==
    \A t \in Requests :
        req[t].read \in Maps /\ req[t].late = 0 /\ raced[req[t].prov] # Keys
        => rec[req[t].prov] = req[t].read

\* A key whose setting a request changed that had read the provider before it
\* was deleted.
Outdated(p, k) ==
    \E t \in Requests : /\ WritingBack(t) /\ req[t].late = 1
                        /\ req[t].prov = p /\ req[t].key = k
SettingsInStep ==
    \A p \in Providers, k \in Keys :
        k \notin raced[p] /\ ~Outdated(p, k) => Config(p)[k] = want[p][k]

\* A change that is not saved yet is that of a request that will save it.
Image(p) == IF rec[p] = NULL THEN NULL ELSE Config(p)
Unsaved(p) == \E t \in Requests : req[t].pc = "upsert" /\ req[t].prov = p
SettingsSaved == \A p \in Providers : saved = 1 /\ ~Unsaved(p) => disk[p] = Image(p)

\* Requests on a provider that is gone are only those that make it again and
\* those that delete it once more.
GoneOK(p) ==
    /\ rec[p] = NULL /\ disk[p] = NULL /\ p \notin secret
    /\ \A t \in Requests : req[t].prov = p => \/ req[t].pc = "upsert" /\ req[t].kind = "put"
                                              \/ req[t].pc = "purge"

RecordTypes ==
    /\ rec \in [Providers -> Maps \cup {NIL, NULL}]
    /\ maps \in [Maps -> Settings]
    /\ disk \in [Providers -> Settings \cup {NULL}]
    /\ secret \subseteq Providers
    /\ req \in [Requests -> ReqFrame]
    /\ want \in [Providers -> Settings]
    /\ raced \in [Providers -> SUBSET Keys]
    /\ gone \subseteq Providers /\ saved \in {0, 1}

RecordInv ==
    /\ RecordTypes
    /\ \A t \in Requests : FrameOK(t)
    /\ MapsApart /\ MapsPrivate /\ MapsSwept
    /\ MapsShared /\ SettingsInStep /\ SettingsSaved
    /\ \A p \in gone : GoneOK(p)

-----------------------------------------------------------------------------
(* The inductive invariant: the attachment list.                           *)

ReaderFrame ==
    [pc : {"idle", "cell", "lookup"}, slice : Slice, at : Providers \cup {NULL},
     got : Seq(Providers), start : Seq(Providers), seen : SUBSET Providers, calm : {0, 1}]

ListedOK == listed # NULL => listed \in Seq(Providers)
ListTypes ==
    /\ list # NULL => list \in Slice
    /\ cells \in [Arrays -> Seq(Providers \cup {NULL})]
    /\ \A a \in Arrays : Len(cells[a]) <= MaxCap
    /\ rd \in [Readers -> ReaderFrame]

\* A slice lies within its array and shows members of S only.
Shows(s, S) ==
    /\ s.arr = NIL => s.len = 0
    /\ s.arr # NIL => s.len <= Len(cells[s.arr])
    /\ \A i \in 1..s.len : cells[s.arr][i] \in S

\* A detach writes no further than it has read.
DetachOK ==
    det # NULL => /\ list # NULL /\ det \in [prov : Providers, i : Nat \ {0}, n : Nat]
                  /\ det.n < det.i /\ det.i <= list.len + 1
                  /\ \A r \in Readers : Reading(r) => rd[r].calm = 0

\* What a reader has read and what it still may read, in its slice and in the
\* list that may be written over it, was attached while it ran.
ReaderSafe(r) ==
    /\ ~Reading(r) => rd[r] = Away
    /\ Shows(rd[r].slice, rd[r].seen)
    /\ Reading(r) /\ list # NULL => Shows(list, rd[r].seen)
    /\ \A i \in 1..Len(rd[r].got) : rd[r].got[i] \in rd[r].seen
    /\ rd[r].pc = "lookup" => rd[r].at \in rd[r].seen
    /\ rd[r].pc # "lookup" => rd[r].at = NULL

\* Without a detach the slice shows what it showed at the start, and the list,
\* if it is still in that array, has not become shorter.
ReaderCalm(r) ==
    Reading(r) /\ rd[r].calm = 1 =>
        /\ Len(rd[r].start) = rd[r].slice.len
        /\ \A i \in 1..rd[r].slice.len : cells[rd[r].slice.arr][i] = rd[r].start[i]
        /\ list # NULL /\ list.arr = rd[r].slice.arr => rd[r].slice.len <= list.len
        /\ Len(rd[r].got) <= rd[r].slice.len
        /\ \A i \in 1..Len(rd[r].got) : rd[r].got[i] = rd[r].start[i]
        /\ rd[r].pc = "lookup" => /\ Len(rd[r].got) < rd[r].slice.len
                                  /\ rd[r].at = rd[r].start[Len(rd[r].got) + 1]

ListCore ==
    /\ ListTypes
    /\ list # NULL => Shows(list, Providers)
    /\ DetachOK
    /\ \A r \in Readers : ReaderSafe(r) /\ ReaderCalm(r)

ListInv == ListCore /\ ListedOK

Inv == cast \in Casts /\ RecordInv /\ ListInv

-----------------------------------------------------------------------------
(* Slices and arrays.                                                      *)

\* What the assumptions say of single constants.
LEMMA Constants ==
    /\ NIL # NULL /\ NIL \notin Maps /\ NIL \notin Arrays /\ NULL \notin Maps
    /\ NULL \notin Providers /\ NULL \notin Settings
    /\ MaxCap \in Nat /\ Maps \subseteq Nat /\ Arrays \subseteq Nat
    /\ \A l \in Lists : l \in Seq(Providers) /\ Len(l) <= MaxCap
  BY RegistryAssumption, NilAssumption DEF Settings

\* The names a slice shows are those in its part of the array.
LEMMA SliceNames ==
    ASSUME NEW s \in Slice, NEW c \in [Arrays -> Seq(Providers \cup {NULL})], NEW S,
           s.arr = NIL => s.len = 0,
           s.arr # NIL => s.len <= Len(c[s.arr]),
           \A i \in 1..s.len : c[s.arr][i] \in S,
           NEW v, v = IF s.arr = NIL THEN <<>> ELSE SubSeq(c[s.arr], 1, s.len)
    PROVE  /\ v \in Seq(S) /\ Len(v) = s.len
           /\ \A i \in 1..s.len : v[i] = c[s.arr][i]
  <1> DEFINE n == s.len
  <1>1. n \in Nat /\ (s.arr # NIL => s.arr \in Arrays)
    BY Constants DEF Slice
  <1>2. CASE s.arr = NIL
    BY <1>1, <1>2
  <1>3. CASE s.arr # NIL
    <2> DEFINE a == c[s.arr]
    <2>1. a \in Seq(Providers \cup {NULL}) /\ n <= Len(a)
      BY <1>1, <1>3
    <2>2. \A i \in 1..n : a[i] \in S
      OBVIOUS
    <2>3. v = SubSeq(a, 1, n)
      BY <1>3
    <2> HIDE DEF a, n
    <2>4. /\ SubSeq(a, 1, n) \in Seq(S)
          /\ Len(SubSeq(a, 1, n)) = IF 1 <= n THEN n - 1 + 1 ELSE 0
          /\ \A i \in 1..(n - 1 + 1) : SubSeq(a, 1, n)[i] = a[1 + i - 1]
      BY <1>1, <2>2, SubSeqProperties
    <2>5. n - 1 + 1 = n /\ (1 <= n \/ n = 0) /\ \A i \in 1..n : 1 + i - 1 = i
      BY <1>1
    <2>6. Len(v) = n
      BY <2>3, <2>4, <2>5
    <2>7. \A i \in 1..n : v[i] = a[i]
      BY <2>3, <2>4, <2>5
    <2> QED BY <2>3, <2>4, <2>6, <2>7 DEF a, n
  <1> QED BY <1>2, <1>3

\* A new array begins with the names it is made for.
LEMMA PaddedCells ==
    ASSUME NEW names \in Seq(Providers), NEW cap \in 0..MaxCap, Len(names) <= cap
    PROVE  /\ Padded(names, cap) \in Seq(Providers \cup {NULL})
           /\ Len(Padded(names, cap)) = cap
           /\ \A i \in 1..Len(names) : Padded(names, cap)[i] = names[i]
  <1>1. cap \in Nat /\ cap <= MaxCap /\ Len(names) \in Nat
    BY Constants
  <1>2. \A i \in 1..Len(names) : names[i] \in Providers
    OBVIOUS
  <1>3. Padded(names, cap) \in [1..cap -> Providers \cup {NULL}]
    BY <1>1, <1>2 DEF Padded
  <1>4. Padded(names, cap) \in Seq(Providers \cup {NULL}) /\ Len(Padded(names, cap)) = cap
    BY <1>1, <1>3
  <1>5. \A i \in 1..Len(names) : Padded(names, cap)[i] = names[i]
    BY <1>1 DEF Padded
  <1> QED BY <1>4, <1>5

\* There is an array that neither the list nor a reader uses.
LEMMA FreeArray ==
    ASSUME ListTypes
    PROVE  FreshArray \in Arrays \ ArraysInUse
  <1> DEFINE g == [r \in Readers |-> rd[r].slice.arr]
             A == (IF list = NULL THEN {} ELSE {list.arr}) \cup {NIL}
             B == {g[r] : r \in Readers}
             U == A \cup B
  <1>1. IsFiniteSet(B) /\ Cardinality(B) <= Cardinality(Readers)
    <2>1. g \in [Readers -> {rd[r].slice.arr : r \in Readers}]
      OBVIOUS
    <2> HIDE DEF g
    <2> QED BY <2>1, ImageIsSmall, MemoryAssumption
  <1>2. IsFiniteSet(A) /\ Cardinality(A) <= 2
    <2> DEFINE X == IF list = NULL THEN {} ELSE {list.arr}
    <2>1. IsFiniteSet({NIL}) /\ Cardinality({NIL}) = 1
      BY FS_Singleton
    <2>2. IsFiniteSet(X) /\ Cardinality(X) \in {0, 1}
      <3>1. IsFiniteSet({}) /\ Cardinality({}) = 0
        BY FS_EmptySet
      <3>2. IsFiniteSet({list.arr}) /\ Cardinality({list.arr}) = 1
        BY FS_Singleton
      <3> QED BY <3>1, <3>2
    <2> HIDE DEF X
    <2>3. /\ IsFiniteSet(X \cup {NIL})
          /\ Cardinality(X \cup {NIL}) <= Cardinality(X) + Cardinality({NIL})
          /\ Cardinality(X \cup {NIL}) \in Nat
      BY <2>1, <2>2, UnionIsSmall
    <2> QED BY <2>1, <2>2, <2>3 DEF X
  <1>3. Arrays \ ArraysInUse = Arrays \ U /\ NIL \in U /\ NIL \notin Arrays
    BY Constants DEF ArraysInUse
  <1> HIDE DEF A, B
  <1>4. IsFiniteSet(U) /\ Cardinality(U) <= Cardinality(Arrays)
    <2>1. /\ IsFiniteSet(U) /\ Cardinality(U) <= Cardinality(A) + Cardinality(B)
          /\ Cardinality(A) \in Nat /\ Cardinality(B) \in Nat /\ Cardinality(U) \in Nat
      BY <1>1, <1>2, UnionIsSmall
    <2>2. Cardinality(Readers) \in Nat /\ Cardinality(Arrays) \in Nat
      BY MemoryAssumption, FS_CardinalityType
    <2> QED BY <1>1, <1>2, <2>1, <2>2, MemoryAssumption
  <1> HIDE DEF U
  <1>5. Min(Arrays \ U) \in Arrays \ U
    BY <1>3, <1>4, Constants, MemoryAssumption, FreshObject
  <1> QED BY <1>3, <1>5 DEF FreshArray

\* What a write of state.json writes of the list are names.
LEMMA FlushListed ==
    ASSUME ListedOK, ListCore', NEW ok, Flush(ok)
    PROVE  ListedOK'
  <1>1. CASE ok = 1 /\ list' # NULL
    <2>1. listed' = IF list'.arr = NIL THEN <<>> ELSE SubSeq(cells'[list'.arr], 1, list'.len)
      BY <1>1 DEF Flush, Attached, Names
    <2>2. /\ list' \in Slice /\ cells' \in [Arrays -> Seq(Providers \cup {NULL})]
          /\ list'.arr = NIL => list'.len = 0
          /\ list'.arr # NIL => list'.len <= Len(cells'[list'.arr])
          /\ \A i \in 1..list'.len : cells'[list'.arr][i] \in Providers
      BY <1>1 DEF ListCore, ListTypes, Shows
    <2> QED BY <2>1, <2>2, SliceNames DEF ListedOK
  <1>2. CASE ~(ok = 1 /\ list' # NULL)
    BY <1>2 DEF Flush, ListedOK
  <1> QED BY <1>1, <1>2

\* Steps that leave the list and its readers alone.
LEMMA ListUntouched ==
    ASSUME ListInv, UNCHANGED listVars, UNCHANGED listed \/ \E ok \in {0, 1} : Flush(ok)
    PROVE  ListInv'
  <1>1. ListCore'
    BY DEF ListInv, ListCore, listVars, ListTypes, Shows, DetachOK, ReaderSafe, ReaderCalm,
           Reading
  <1>2. ListedOK'
    BY <1>1, FlushListed DEF ListInv, ListedOK
  <1> QED BY <1>1, <1>2 DEF ListInv

-----------------------------------------------------------------------------
(* Steps on the attachment list.                                           *)

\* A step that replaces or extends the list: new names N are watched, the list
\* shows those and names it showed before, what the readers may read stays as it
\* is or becomes one of N, and the list comes to share an array with a reader
\* only by having shared it before.
Watching(N) ==
    rd' = [r \in Readers |-> IF Reading(r) THEN [rd[r] EXCEPT !.seen = @ \cup N] ELSE rd[r]]
NewListShows(N) ==
    list' # NULL =>
        /\ list'.arr = NIL => list'.len = 0
        /\ list'.arr # NIL => list'.len <= Len(cells'[list'.arr])
        /\ \A i \in 1..list'.len :
              \/ cells'[list'.arr][i] \in N
              \/ list # NULL /\ \E j \in 1..list.len :
                                   cells'[list'.arr][i] = cells[list.arr][j]
ReadersSee(N) ==
    \A r \in Readers : Reading(r) /\ rd[r].slice.arr # NIL =>
        /\ Len(cells'[rd[r].slice.arr]) = Len(cells[rd[r].slice.arr])
        /\ \A i \in 1..rd[r].slice.len :
              \/ cells'[rd[r].slice.arr][i] = cells[rd[r].slice.arr][i]
              \/ /\ cells'[rd[r].slice.arr][i] \in N
                 /\ list # NULL /\ list.arr = rd[r].slice.arr /\ i > list.len
NoNewSharing ==
    \A r \in Readers :
        Reading(r) /\ list' # NULL /\ list'.arr = rd[r].slice.arr /\ list'.arr # NIL
        => list # NULL /\ list.arr = list'.arr /\ list.len <= list'.len

\* Such a step keeps what is known of the list and its readers.
LEMMA ListReplaced ==
    ASSUME ListCore, ListTypes', det = NULL, det' = NULL, NEW N \in SUBSET Providers,
           Watching(N), NewListShows(N), ReadersSee(N), NoNewSharing
    PROVE  ListCore'
  <1>1. list' # NULL => Shows(list, Providers)'
    BY DEF ListCore, Shows, NewListShows
  <1>2. DetachOK'
    BY DEF DetachOK
  <1>3. ASSUME NEW r \in Readers PROVE ReaderSafe(r)' /\ ReaderCalm(r)'
    <2>1. rd \in [Readers -> ReaderFrame] /\ rd[r] \in ReaderFrame
      BY DEF ListCore, ListTypes
    <2>2. ReaderSafe(r) /\ ReaderCalm(r)
      BY DEF ListCore
    <2>3. CASE ~Reading(r)
      <3>1. rd'[r] = rd[r] /\ rd[r] = Away
        BY <2>2, <2>3 DEF ReaderSafe, Watching
      <3> QED BY <3>1, Constants DEF ReaderSafe, ReaderCalm, Reading, Shows, Away
    <2>4. CASE Reading(r)
      <3>1. /\ rd'[r].seen = rd[r].seen \cup N /\ rd'[r].pc = rd[r].pc
            /\ rd'[r].slice = rd[r].slice /\ rd'[r].at = rd[r].at
            /\ rd'[r].got = rd[r].got /\ rd'[r].start = rd[r].start
            /\ rd'[r].calm = rd[r].calm /\ Reading(r)'
        BY <2>1, <2>4 DEF ReaderFrame, Reading, Watching
      <3>2. /\ rd[r].slice.len \in Nat /\ rd[r].slice.arr \in Arrays \cup {NIL}
            /\ (list # NULL => list.len \in Nat) /\ (list' # NULL => list'.len \in Nat)
            /\ (list' # NULL /\ list'.arr = NIL => list'.len = 0)
            /\ (rd[r].slice.arr = NIL => rd[r].slice.len = 0)
        BY <2>1, <2>2, Constants DEF ReaderFrame, Slice, ListCore, ListTypes, ReaderSafe, Shows,
               NewListShows
      <3>3. Shows(rd[r].slice, rd[r].seen)'
        <4>1. /\ rd[r].slice.arr # NIL => rd[r].slice.len <= Len(cells[rd[r].slice.arr])
              /\ \A i \in 1..rd[r].slice.len : cells[rd[r].slice.arr][i] \in rd[r].seen
          BY <2>2 DEF ReaderSafe, Shows
        <4>2. \A i \in 1..rd[r].slice.len :
                  cells'[rd[r].slice.arr][i] \in rd[r].seen \cup N
          BY <2>4, <3>2, <4>1 DEF ReadersSee
        <4> QED BY <2>4, <3>1, <3>2, <4>1, <4>2 DEF Shows, ReadersSee
      <3>4. list' # NULL => Shows(list, rd[r].seen)'
        BY <2>2, <2>4, <3>1 DEF ReaderSafe, Shows, NewListShows
      <3>5. ReaderSafe(r)'
        BY <2>2, <3>1, <3>3, <3>4 DEF ReaderSafe
      <3>6. ASSUME rd[r].calm = 1
            PROVE  /\ \A i \in 1..rd[r].slice.len :
                         cells'[rd[r].slice.arr][i] = rd[r].start[i]
                   /\ list' # NULL /\ list'.arr = rd[r].slice.arr
                      => rd[r].slice.len <= list'.len
        <4>1. /\ \A i \in 1..rd[r].slice.len : cells[rd[r].slice.arr][i] = rd[r].start[i]
              /\ list # NULL /\ list.arr = rd[r].slice.arr => rd[r].slice.len <= list.len
          BY <2>2, <2>4, <3>6 DEF ReaderCalm
        <4> QED BY <2>4, <3>2, <4>1 DEF ReadersSee, NoNewSharing
      <3>7. ReaderCalm(r)'
        BY <2>2, <2>4, <3>1, <3>6 DEF ReaderCalm
      <3> QED BY <3>5, <3>7
    <2> QED BY <2>3, <2>4
  <1> QED BY <1>1, <1>2, <1>3 DEF ListCore

\* Arrays in use keep their contents; the others are swept.
LEMMA CellsKept ==
    ASSUME NEW c \in [Arrays -> Seq(Providers \cup {NULL})],
           \A a \in Arrays : Len(c[a]) <= MaxCap,
           cells' = KeptCells(c)
    PROVE  /\ cells' \in [Arrays -> Seq(Providers \cup {NULL})]
           /\ \A a \in Arrays : Len(cells'[a]) <= MaxCap
           /\ \A a \in Arrays : list' # NULL /\ a = list'.arr => cells'[a] = c[a]
           /\ \A r \in Readers : rd'[r].slice.arr \in Arrays =>
                 cells'[rd'[r].slice.arr] = c[rd'[r].slice.arr]
  <1>1. \A a \in Arrays : cells'[a] = c[a] \/ cells'[a] = <<>>
    BY DEF KeptCells
  <1>2. cells' \in [Arrays -> Seq(Providers \cup {NULL})]
    BY DEF KeptCells
  <1>3. \A a \in Arrays : Len(cells'[a]) <= MaxCap
    BY <1>1, Constants
  <1>4. \A a \in Arrays : list' # NULL /\ a = list'.arr => cells'[a] = c[a]
    BY DEF KeptCells, ArraysInUse
  <1>5. \A r \in Readers : rd'[r].slice.arr \in Arrays =>
            cells'[rd'[r].slice.arr] = c[rd'[r].slice.arr]
    BY DEF KeptCells, ArraysInUse
  <1> QED BY <1>2, <1>3, <1>4, <1>5

\* Watching changes the history of the readers only.
LEMMA WatchKeeps ==
    ASSUME ListTypes, NEW names \in Seq(Providers), Watch(names)
    PROVE  /\ ToSet(names) \in SUBSET Providers
           /\ Watching(ToSet(names))
           /\ rd' \in [Readers -> ReaderFrame]
           /\ \A r \in Readers : rd'[r].slice = rd[r].slice
  <1>1. ToSet(names) \in SUBSET Providers
    BY DEF ToSet
  <1>2. rd' = [r \in Readers |-> IF Reading(r)
                                 THEN [rd[r] EXCEPT !.seen = @ \cup ToSet(names)]
                                 ELSE rd[r]]
    BY DEF Watch
  <1>3. ASSUME NEW r \in Readers
        PROVE  rd'[r] \in ReaderFrame /\ rd'[r].slice = rd[r].slice
    <2>1. rd[r] \in ReaderFrame
      BY DEF ListTypes
    <2>2. [rd[r] EXCEPT !.seen = @ \cup ToSet(names)] \in ReaderFrame
      BY <1>1, <2>1 DEF ReaderFrame
    <2>3. [rd[r] EXCEPT !.seen = @ \cup ToSet(names)].slice = rd[r].slice
      BY <2>1 DEF ReaderFrame
    <2> QED BY <1>2, <2>1, <2>2, <2>3
  <1>4. rd' \in [Readers -> ReaderFrame]
    BY <1>2, <1>3
  <1> QED BY <1>1, <1>2, <1>3, <1>4 DEF Watching

\* PUT of the sandbox: a new array, the old list, or none.
LEMMA PutSandboxKeeps ==
    ASSUME ListInv, NEW names \in Lists, NEW cap \in 0..MaxCap, NEW ok \in {0, 1},
           PutSandbox(names, cap, ok)
    PROVE  ListInv'
  <1> DEFINE a0 == FreshArray
             N == ToSet(names)
             c == IF names # <<>> THEN NewCells(names, cap) ELSE cells
  <1>1. /\ names \in Seq(Providers) /\ Len(names) <= cap /\ Len(names) \in Nat
        /\ ListCore /\ ListTypes /\ cap <= MaxCap /\ MaxCap \in Nat /\ cap \in Nat
    BY Constants DEF PutSandbox, ListInv, ListCore
  <1>2. a0 \in Arrays \ ArraysInUse
    BY <1>1, FreeArray
  <1>3. /\ Watch(names) /\ det = NULL /\ det' = NULL /\ Flush(ok)
        /\ cells' = KeptCells(c)
        /\ list' = IF names # <<>> THEN [arr |-> a0, len |-> Len(names)]
                   ELSE IF Attached = <<>> THEN Away.slice ELSE list
    BY DEF PutSandbox, Unlocked
  <1> HIDE DEF a0
  <1>4. /\ c \in [Arrays -> Seq(Providers \cup {NULL})]
        /\ \A a \in Arrays : Len(c[a]) <= MaxCap
        /\ \A a \in Arrays : a # a0 => c[a] = cells[a]
        /\ names # <<>> => /\ Len(c[a0]) = cap
                           /\ \A i \in 1..Len(names) : c[a0][i] = names[i]
        /\ names = <<>> => c = cells
    <2>1. /\ Padded(names, cap) \in Seq(Providers \cup {NULL})
          /\ Len(Padded(names, cap)) = cap
          /\ \A i \in 1..Len(names) : Padded(names, cap)[i] = names[i]
      BY <1>1, PaddedCells
    <2> QED BY <1>1, <1>2, <2>1 DEF NewCells, ListTypes, a0
  <1> HIDE DEF c
  <1>5. /\ cells' \in [Arrays -> Seq(Providers \cup {NULL})]
        /\ \A a \in Arrays : Len(cells'[a]) <= MaxCap
        /\ \A a \in Arrays : list' # NULL /\ a = list'.arr => cells'[a] = c[a]
        /\ \A r \in Readers : rd'[r].slice.arr \in Arrays =>
              cells'[rd'[r].slice.arr] = c[rd'[r].slice.arr]
    BY <1>3, <1>4, CellsKept
  <1>6. /\ N \in SUBSET Providers
        /\ Watching(N)
        /\ rd' \in [Readers -> ReaderFrame]
        /\ \A r \in Readers : rd'[r].slice = rd[r].slice
    BY <1>1, <1>3, WatchKeeps
  <1>7. \A i \in 1..Len(names) : names[i] \in N
    BY <1>1 DEF ToSet
  <1> HIDE DEF N
  <1>8. \A r \in Readers : rd[r].slice.arr \in Arrays \cup {NIL} /\ rd[r].slice.arr # a0
    BY <1>1, <1>2, Constants DEF ArraysInUse, ListTypes, ReaderFrame, Slice
  <1>9. \A r \in Readers : rd[r].slice.arr # NIL =>
            cells'[rd[r].slice.arr] = cells[rd[r].slice.arr]
    BY <1>4, <1>5, <1>6, <1>8
  <1>10. ReadersSee(N)
    BY <1>9 DEF ReadersSee
  <1>11. ListCore'
    <2>1. CASE names # <<>>
      <3>1. list' \in Slice /\ list'.arr = a0 /\ list'.len = Len(names)
        BY <1>1, <1>2, <1>3, <2>1 DEF Slice
      <3>2. ListTypes'
        BY <1>5, <1>6, <3>1 DEF ListTypes
      <3>3. /\ a0 \in Arrays /\ a0 # NIL
            /\ list' # NULL => cells'[a0] = c[a0]
        BY <1>2, <1>5, <3>1, Constants
      <3>4. NewListShows(N)
        BY <1>1, <1>4, <1>7, <2>1, <3>1, <3>3 DEF NewListShows
      <3>5. NoNewSharing
        BY <1>8, <3>1 DEF NoNewSharing
      <3> QED BY <1>1, <1>3, <1>6, <1>10, <3>2, <3>4, <3>5, ListReplaced
    <2>2. CASE names = <<>> /\ Attached = <<>>
      <3>1. list' \in Slice /\ list'.arr = NIL /\ list'.len = 0
        BY <1>1, <1>3, <2>2 DEF Slice, Away
      <3>2. ListTypes'
        BY <1>5, <1>6, <3>1 DEF ListTypes
      <3>3. NewListShows(N) /\ NoNewSharing
        BY <3>1 DEF NewListShows, NoNewSharing
      <3> QED BY <1>1, <1>3, <1>6, <1>10, <3>2, <3>3, ListReplaced
    <2>3. CASE names = <<>> /\ Attached # <<>>
      <3>1. list' = list /\ list # NULL
        BY <1>3, <2>3 DEF Attached
      <3>2. ListTypes'
        BY <1>1, <1>5, <1>6, <3>1 DEF ListTypes
      <3>3. /\ list \in Slice /\ (list.arr = NIL => list.len = 0)
            /\ list.arr # NIL => list.arr \in Arrays /\ list.len <= Len(cells[list.arr])
            /\ list.len \in Nat
        BY <1>1, <3>1, Constants DEF ListCore, ListTypes, Shows, Slice
      <3>4. list.arr # NIL => cells'[list.arr] = cells[list.arr]
        BY <1>4, <1>5, <2>3, <3>1, <3>3
      <3>5. NewListShows(N) /\ NoNewSharing
        BY <3>1, <3>3, <3>4 DEF NewListShows, NoNewSharing
      <3> QED BY <1>1, <1>3, <1>6, <1>10, <3>2, <3>5, ListReplaced
    <2> QED BY <2>1, <2>2, <2>3
  <1> QED BY <1>3, <1>11, FlushListed DEF ListInv

\* DELETE of the sandbox.
LEMMA DeleteSandboxKeeps ==
    ASSUME ListInv, NEW ok \in {0, 1}, DeleteSandbox(ok)
    PROVE  ListInv'
  <1>1. /\ det = NULL /\ det' = NULL /\ list' = NULL /\ rd' = rd /\ Flush(ok)
        /\ cells' = KeptCells(cells) /\ ListCore /\ ListTypes
    BY DEF DeleteSandbox, Unlocked, ListInv, ListCore
  <1>2. /\ cells' \in [Arrays -> Seq(Providers \cup {NULL})]
        /\ \A a \in Arrays : Len(cells'[a]) <= MaxCap
        /\ \A r \in Readers : rd[r].slice.arr \in Arrays =>
              cells'[rd[r].slice.arr] = cells[rd[r].slice.arr]
    BY <1>1, CellsKept DEF ListTypes
  <1>3. \A r \in Readers : rd[r] \in ReaderFrame /\ rd[r].slice.arr \in Arrays \cup {NIL}
    BY <1>1 DEF ListTypes, ReaderFrame, Slice
  <1>4. Watching({})
    <2>1. \A r \in Readers : [rd[r] EXCEPT !.seen = @ \cup {}] = rd[r]
      BY <1>3 DEF ReaderFrame
    <2> QED BY <1>1, <2>1 DEF ListTypes, Watching
  <1>5. ListTypes'
    BY <1>1, <1>2 DEF ListTypes
  <1>6. ListCore'
    <2>1. NewListShows({}) /\ NoNewSharing /\ ReadersSee({})
      BY <1>1, <1>2, <1>3 DEF NewListShows, NoNewSharing, ReadersSee
    <2> QED BY <1>1, <1>4, <1>5, <2>1, ListReplaced
  <1> QED BY <1>1, <1>6, FlushListed DEF ListInv

\* AttachProvider: the name goes behind the list, in its array when there is room.
LEMMA AttachProviderKeeps ==
    ASSUME Inv, NEW t \in Requests, NEW cap \in 0..MaxCap, NEW ok \in {0, 1},
           AttachProvider(t, cap, ok)
    PROVE  ListInv'
  <1>1. CASE list = NULL \/ req[t].prov \in ToSet(Attached)
    <2>1. UNCHANGED listVars /\ UNCHANGED listed
      BY <1>1 DEF AttachProvider, listVars, fileVars
    <2> QED BY <2>1, ListUntouched DEF Inv
  <1>2. CASE ~(list = NULL \/ req[t].prov \in ToSet(Attached))
    <2> DEFINE p == req[t].prov
               a0 == IF Room THEN list.arr ELSE FreshArray
               n == list.len
               N == ToSet(<<p>>)
               c == IF Room THEN [cells EXCEPT ![list.arr][list.len + 1] = p]
                    ELSE NewCells(Append(Attached, p), cap)
    <2>1. /\ p \in Providers /\ list # NULL /\ cap > n /\ Flush(ok)
          /\ det = NULL /\ det' = NULL /\ Watch(<<p>>)
          /\ cells' = KeptCells(c)
          /\ list' = [arr |-> a0, len |-> n + 1]
      <3>1. FrameOK(t)
        BY DEF Inv, RecordInv
      <3> QED BY <1>2, <3>1 DEF AttachProvider, AppendName, Unlocked, FrameOK
    <2>2. /\ ListCore /\ ListTypes /\ list \in Slice
          /\ n \in Nat /\ n <= MaxCap /\ MaxCap \in Nat /\ cap \in Nat /\ cap <= MaxCap
          /\ list.arr \in Arrays \cup {NIL} /\ NIL \notin Arrays
          /\ list.arr = NIL => n = 0
          /\ list.arr # NIL => n <= Len(cells[list.arr])
          /\ \A i \in 1..n : cells[list.arr][i] \in Providers
          /\ cells \in [Arrays -> Seq(Providers \cup {NULL})]
          /\ \A a \in Arrays : Len(cells[a]) <= MaxCap
      BY <2>1, Constants DEF Inv, ListInv, ListCore, ListTypes, Shows, Slice
    <2>3. a0 \in Arrays /\ a0 # NIL /\ (~Room => a0 \notin ArraysInUse)
      BY <2>2, FreeArray DEF Room
    <2>4. /\ c \in [Arrays -> Seq(Providers \cup {NULL})]
          /\ \A a \in Arrays : Len(c[a]) <= MaxCap
          /\ \A a \in Arrays : a # a0 => c[a] = cells[a]
          /\ n + 1 <= Len(c[a0]) /\ c[a0][n + 1] = p
          /\ \A i \in 1..n : c[a0][i] = cells[list.arr][i]
          /\ Room => /\ Len(c[a0]) = Len(cells[a0])
                     /\ \A i \in 1..Len(cells[a0]) : i # n + 1 => c[a0][i] = cells[a0][i]
      <3>1. CASE Room
        <4>1. /\ a0 = list.arr /\ n + 1 \in 1..Len(cells[a0])
              /\ cells[a0] \in Seq(Providers \cup {NULL})
          BY <2>2, <2>3, <3>1 DEF Room
        <4> DEFINE s == [cells[a0] EXCEPT ![n + 1] = p]
        <4>2. /\ s \in Seq(Providers \cup {NULL}) /\ Len(s) = Len(cells[a0])
              /\ \A i \in 1..Len(cells[a0]) : s[i] = IF i = n + 1 THEN p ELSE cells[a0][i]
          BY <2>1, <4>1
        <4>3. c = [cells EXCEPT ![a0] = s]
          BY <2>2, <3>1, <4>1
        <4> HIDE DEF s, c, a0, n, p
        <4>4. c[a0] = s /\ \A a \in Arrays : a # a0 => c[a] = cells[a]
          BY <2>2, <2>3, <4>3
        <4>5. c \in [Arrays -> Seq(Providers \cup {NULL})]
          BY <2>2, <2>3, <4>2, <4>3
        <4>6. \A a \in Arrays : Len(c[a]) <= MaxCap
          BY <2>2, <4>2, <4>4
        <4>7. /\ n + 1 <= Len(c[a0]) /\ c[a0][n + 1] = p
              /\ \A i \in 1..n : c[a0][i] = cells[a0][i]
          BY <2>2, <4>1, <4>2, <4>4, SMTT(30)
        <4> QED BY <2>2, <4>1, <4>2, <4>4, <4>5, <4>6, <4>7
      <3>2. CASE ~Room
        <4> DEFINE names == Append(Attached, p)
        <4>1. Attached = IF list.arr = NIL THEN <<>> ELSE SubSeq(cells[list.arr], 1, list.len)
          BY <2>1 DEF Attached, Names
        <4>2. /\ Attached \in Seq(Providers) /\ Len(Attached) = n
              /\ \A i \in 1..n : Attached[i] = cells[list.arr][i]
          BY <2>2, <4>1, SliceNames
        <4>3. /\ names \in Seq(Providers) /\ Len(names) = n + 1
              /\ \A i \in 1..n : names[i] = cells[list.arr][i]
              /\ names[n + 1] = p
          BY <2>1, <4>2
        <4> HIDE DEF names
        <4>4. /\ Padded(names, cap) \in Seq(Providers \cup {NULL})
              /\ Len(Padded(names, cap)) = cap
              /\ \A i \in 1..Len(names) : Padded(names, cap)[i] = names[i]
          BY <2>1, <2>2, <4>3, PaddedCells
        <4>5. c = [cells EXCEPT ![a0] = Padded(names, cap)]
          BY <3>2 DEF NewCells, names
        <4> HIDE DEF c, a0, n, p
        <4>6. c[a0] = Padded(names, cap) /\ \A a \in Arrays : a # a0 => c[a] = cells[a]
          BY <2>2, <2>3, <4>5
        <4>7. c \in [Arrays -> Seq(Providers \cup {NULL})]
          BY <2>2, <2>3, <4>4, <4>5
        <4>8. \A a \in Arrays : Len(c[a]) <= MaxCap
          BY <2>2, <4>4, <4>6
        <4>9. /\ n + 1 <= Len(c[a0]) /\ c[a0][n + 1] = p
              /\ \A i \in 1..n : c[a0][i] = cells[list.arr][i]
          BY <2>1, <2>2, <4>3, <4>4, <4>6
        <4> QED BY <3>2, <4>6, <4>7, <4>8, <4>9
      <3> QED BY <3>1, <3>2
    <2>5. <<p>> \in Seq(Providers) /\ p \in N
      BY <2>1 DEF ToSet
    <2>6. /\ N \in SUBSET Providers /\ Watching(N)
          /\ rd' \in [Readers -> ReaderFrame]
          /\ \A r \in Readers : rd'[r].slice = rd[r].slice
      BY <2>1, <2>2, <2>5, WatchKeeps
    <2> HIDE DEF c, N
    <2>7. /\ cells' \in [Arrays -> Seq(Providers \cup {NULL})]
          /\ \A a \in Arrays : Len(cells'[a]) <= MaxCap
          /\ \A a \in Arrays : list' # NULL /\ a = list'.arr => cells'[a] = c[a]
          /\ \A r \in Readers : rd'[r].slice.arr \in Arrays =>
                cells'[rd'[r].slice.arr] = c[rd'[r].slice.arr]
      BY <2>1, <2>4, CellsKept
    <2>8. /\ list' \in Slice /\ list'.arr = a0 /\ list'.len = n + 1
      <3>1. n + 1 \in 0..MaxCap
        BY <2>1, <2>2
      <3> QED BY <2>1, <2>3, <3>1 DEF Slice
    <2>9. \A r \in Readers : /\ rd[r].slice.arr \in Arrays \cup {NIL} /\ rd[r].slice.len \in Nat
                             /\ rd[r].slice.arr \in ArraysInUse
                             /\ (rd[r].slice.arr # NIL =>
                                   rd[r].slice.len <= Len(cells[rd[r].slice.arr]))
      <3>1. \A r \in Readers : rd[r] \in ReaderFrame /\ ReaderSafe(r)
        BY <2>2 DEF ListCore, ListTypes
      <3> QED BY <3>1, Constants DEF ReaderFrame, Slice, ReaderSafe, Shows, ArraysInUse
    <2> HIDE DEF a0, p, n
    <2>10. ListTypes'
      BY <2>6, <2>7, <2>8 DEF ListTypes
    <2>11. NewListShows(N)
      <3>1. ASSUME list' # NULL
            PROVE  /\ list'.len <= Len(cells'[a0])
                   /\ \A i \in 1..list'.len :
                         cells'[a0][i] \in N \/ \E j \in 1..n : cells'[a0][i] = cells[list.arr][j]
        <4>1. cells'[a0] = c[a0]
          BY <2>3, <2>7, <2>8, <3>1
        <4>2. \A i \in 1..(n + 1) : i = n + 1 \/ i \in 1..n
          BY <2>2
        <4>3. /\ n + 1 <= Len(c[a0]) /\ c[a0][n + 1] \in N
              /\ \A i \in 1..n : c[a0][i] = cells[list.arr][i]
          BY <2>4, <2>5
        <4> QED BY <2>8, <4>1, <4>2, <4>3
      <3> QED BY <2>1, <2>3, <2>8, <3>1 DEF NewListShows, n
    <2>12. ReadersSee(N)
      <3> SUFFICES ASSUME NEW r \in Readers, rd[r].slice.arr # NIL
                   PROVE  /\ Len(cells'[rd[r].slice.arr]) = Len(cells[rd[r].slice.arr])
                          /\ \A i \in 1..rd[r].slice.len :
                                \/ cells'[rd[r].slice.arr][i] = cells[rd[r].slice.arr][i]
                                \/ /\ cells'[rd[r].slice.arr][i] \in N
                                   /\ list # NULL /\ list.arr = rd[r].slice.arr /\ i > list.len
        BY DEF ReadersSee
      <3> DEFINE a == rd[r].slice.arr
      <3>1. a \in Arrays /\ cells'[a] = c[a]
        BY <2>6, <2>7, <2>9
      <3>2. CASE a # a0
        BY <2>4, <3>1, <3>2
      <3>3. CASE a = a0
        <4>1. Room /\ list.arr = a
          BY <2>3, <2>9, <3>3 DEF a0
        <4>2. \A i \in 1..rd[r].slice.len : i \in 1..Len(cells[a0])
          BY <2>2, <2>3, <2>9, <3>3
        <4>3. \A i \in 1..rd[r].slice.len :
                 c[a0][i] = cells[a0][i] \/ (i = n + 1 /\ c[a0][i] = p)
          BY <2>4, <4>1, <4>2
        <4>4. n + 1 > list.len
          BY <2>2 DEF n
        <4> QED BY <2>1, <2>4, <2>5, <3>1, <3>3, <4>1, <4>3, <4>4
      <3> QED BY <3>2, <3>3
    <2>13. NoNewSharing
      BY <2>1, <2>2, <2>3, <2>8, <2>9 DEF NoNewSharing, a0, n
    <2>14. ListCore'
      BY <2>1, <2>2, <2>6, <2>10, <2>11, <2>12, <2>13, ListReplaced
    <2> QED BY <2>1, <2>14, FlushListed DEF Inv, ListInv
  <1> QED BY <1>1, <1>2

\* DetachProvider takes the lock; no reader under way is calm any more.
LEMMA DetachStartKeeps ==
    ASSUME ListInv, NEW p \in Providers, DetachStart(p)
    PROVE  ListInv'
  <1>1. /\ list # NULL /\ list' = list /\ cells' = cells /\ listed' = listed
        /\ rd \in [Readers -> ReaderFrame]
    BY DEF DetachStart, fileVars, ListInv, ListCore, ListTypes
  <1>2. ASSUME NEW r \in Readers
        PROVE  /\ rd'[r] \in ReaderFrame /\ rd'[r].pc = rd[r].pc
               /\ rd'[r].slice = rd[r].slice /\ rd'[r].at = rd[r].at
               /\ rd'[r].got = rd[r].got /\ rd'[r].seen = rd[r].seen
               /\ (Reading(r) => rd'[r].calm = 0) /\ (~Reading(r) => rd'[r] = rd[r])
    <2> DEFINE none == <<>>
    <2>1. rd[r] \in ReaderFrame
      BY <1>1
    <2>2. none \in Seq(Providers)
      OBVIOUS
    <2>3. rd'[r] = IF Reading(r) THEN [rd[r] EXCEPT !.calm = 0, !.start = none] ELSE rd[r]
      BY DEF DetachStart
    <2> HIDE DEF none
    <2> QED BY <2>1, <2>2, <2>3 DEF ReaderFrame
  <1>3. rd' \in [Readers -> ReaderFrame]
    <2>1. rd' = [r \in Readers |-> rd'[r]]
      BY DEF DetachStart
    <2> QED BY <1>2, <2>1
  <1>4. ListTypes'
    BY <1>1, <1>3 DEF ListInv, ListCore, ListTypes
  <1>5. Shows(list, Providers)'
    BY <1>1 DEF ListInv, ListCore, Shows
  <1>6. DetachOK'
    <2>1. list.len \in Nat
      BY <1>1, Constants DEF ListInv, ListCore, ListTypes, Slice
    <2>2. /\ det' \in [prov : Providers, i : Nat \ {0}, n : Nat]
          /\ det'.i = 1 /\ det'.n = 0
      <3>1. det' = [prov |-> p, i |-> 1, n |-> 0]
        BY DEF DetachStart
      <3> QED BY <3>1
    <2> QED BY <1>1, <1>2, <2>1, <2>2 DEF DetachOK, Reading
  <1>7. ASSUME NEW r \in Readers PROVE ReaderSafe(r)' /\ ReaderCalm(r)'
    <2>1. ReaderSafe(r) /\ ReaderCalm(r)
      BY DEF ListInv, ListCore
    <2>2. ReaderSafe(r)'
      BY <1>1, <1>2, <2>1 DEF ReaderSafe, Reading, Shows
    <2>3. ReaderCalm(r)'
      BY <1>1, <1>2, <2>1 DEF ReaderCalm, Reading
    <2> QED BY <2>2, <2>3
  <1> QED BY <1>1, <1>4, <1>5, <1>6, <1>7 DEF ListInv, ListCore, ListedOK

\* It moves a name of the list forward, over one it has read before.
LEMMA DetachMoveKeeps ==
    ASSUME ListInv, DetachMove
    PROVE  ListInv'
  <1> DEFINE a == list.arr
             name == cells[a][det.i]
  <1>1. /\ det # NULL /\ det.i <= list.len /\ list' = list /\ rd' = rd /\ listed' = listed
        /\ list # NULL /\ det \in [prov : Providers, i : Nat \ {0}, n : Nat]
        /\ det.n < det.i
        /\ \A r \in Readers : Reading(r) => rd[r].calm = 0
    BY DEF DetachMove, fileVars, ListInv, ListCore, DetachOK
  <1>2. /\ a \in Arrays /\ a # NIL /\ list.len \in Nat /\ list.len <= Len(cells[a])
        /\ name \in Providers
        /\ cells \in [Arrays -> Seq(Providers \cup {NULL})]
        /\ cells[a] \in Seq(Providers \cup {NULL})
        /\ rd \in [Readers -> ReaderFrame] /\ list \in Slice
        /\ \A b \in Arrays : Len(cells[b]) <= MaxCap
    <2>1. /\ list \in Slice /\ list.len \in Nat /\ list.arr \in Arrays \cup {NIL}
          /\ cells \in [Arrays -> Seq(Providers \cup {NULL})]
          /\ rd \in [Readers -> ReaderFrame]
          /\ \A b \in Arrays : Len(cells[b]) <= MaxCap
      BY <1>1, Constants DEF ListInv, ListCore, ListTypes, Slice
    <2>2. /\ list.arr = NIL => list.len = 0
          /\ list.arr # NIL => list.len <= Len(cells[list.arr])
          /\ \A i \in 1..list.len : cells[list.arr][i] \in Providers
      BY <1>1 DEF ListInv, ListCore, Shows
    <2>3. det.i \in 1..list.len /\ list.len # 0
      BY <1>1, <2>1
    <2> QED BY <2>1, <2>2, <2>3, Constants
  <1>3. /\ det' \in [prov : Providers, i : Nat \ {0}, n : Nat]
        /\ det'.i = det.i + 1
        /\ det'.n \in {det.n, det.n + 1}
        /\ \/ cells' = cells
           \/ cells' = [cells EXCEPT ![a] = [cells[a] EXCEPT ![det.n + 1] = name]]
    <2>1. \/ det' = [det EXCEPT !.i = @ + 1] /\ cells' = cells
          \/ /\ det' = [det EXCEPT !.i = @ + 1, !.n = @ + 1]
             /\ cells' = [cells EXCEPT ![list.arr][det.n + 1] = name]
      BY DEF DetachMove
    <2>2. /\ det' \in [prov : Providers, i : Nat \ {0}, n : Nat]
          /\ det'.i = det.i + 1
          /\ det'.n \in {det.n, det.n + 1}
      <3>1. /\ det \in [prov : Providers, i : Nat \ {0}, n : Nat]
            /\ \/ det' = [det EXCEPT !.i = @ + 1]
               \/ det' = [det EXCEPT !.i = @ + 1, !.n = @ + 1]
        BY <1>1, <2>1
      <3>2. CASE det' = [det EXCEPT !.i = @ + 1]
        BY <3>1, <3>2
      <3>3. CASE det' = [det EXCEPT !.i = @ + 1, !.n = @ + 1]
        <4> DEFINE mid == [det EXCEPT !.i = @ + 1]
        <4>1. mid \in [prov : Providers, i : Nat \ {0}, n : Nat] /\ mid.i = det.i + 1
              /\ mid.n = det.n
          BY <3>1
        <4>2. det' = [mid EXCEPT !.n = @ + 1]
          BY <3>3
        <4> HIDE DEF mid
        <4> QED BY <4>1, <4>2
      <3> QED BY <3>1, <3>2, <3>3
    <2> QED BY <2>1, <2>2
  <1> HIDE DEF name, a
  <1>4. /\ cells' \in [Arrays -> Seq(Providers \cup {NULL})]
        /\ \A b \in Arrays : Len(cells'[b]) = Len(cells[b])
        /\ \A b \in Arrays : \A i \in 1..Len(cells[b]) :
              cells'[b][i] = cells[b][i] \/ (b = a /\ cells'[b][i] = name)
    <2>1. CASE cells' = cells
      BY <1>2, <2>1
    <2>2. CASE cells' = [cells EXCEPT ![a] = [cells[a] EXCEPT ![det.n + 1] = name]]
      <3> DEFINE s == [cells[a] EXCEPT ![det.n + 1] = name]
      <3>1. det.n + 1 \in 1..Len(cells[a])
        BY <1>1, <1>2
      <3>2. /\ s \in Seq(Providers \cup {NULL}) /\ Len(s) = Len(cells[a])
            /\ \A i \in 1..Len(cells[a]) : s[i] = cells[a][i] \/ s[i] = name
        BY <1>2, <3>1
      <3>3. cells' = [cells EXCEPT ![a] = s]
        BY <2>2
      <3> HIDE DEF s
      <3>4. \A b \in Arrays : cells'[b] = IF b = a THEN s ELSE cells[b]
        BY <1>2, <3>3
      <3>5. cells' \in [Arrays -> Seq(Providers \cup {NULL})]
        BY <1>2, <3>2, <3>3
      <3> QED BY <3>2, <3>4, <3>5
    <2> QED BY <1>3, <2>1, <2>2
  <1>5. ListTypes'
    BY <1>1, <1>2, <1>4 DEF ListTypes
  <1>6. ASSUME NEW s \in Slice, NEW S, Shows(s, S), s.arr = a => name \in S
        PROVE  /\ s.arr = NIL => s.len = 0
               /\ s.arr # NIL => s.len <= Len(cells'[s.arr])
               /\ \A i \in 1..s.len : cells'[s.arr][i] \in S
    <2>1. s.len \in Nat /\ s.arr \in Arrays \cup {NIL} /\ (s.arr = NIL => s.len = 0)
      BY <1>6, Constants DEF Slice, Shows
    <2>2. s.arr # NIL => /\ s.len <= Len(cells[s.arr])
                         /\ \A i \in 1..s.len : i \in 1..Len(cells[s.arr])
      BY <1>2, <1>6, <2>1 DEF Shows
    <2> QED BY <1>4, <1>6, <2>1, <2>2 DEF Shows
  <1>7. Shows(list, Providers)'
    <2>1. Shows(list, Providers)
      BY <1>1 DEF ListInv, ListCore
    <2> QED BY <1>1, <1>2, <1>6, <2>1 DEF Shows
  <1>8. DetachOK'
    BY <1>1, <1>2, <1>3 DEF DetachOK, Reading
  <1>9. ASSUME NEW r \in Readers PROVE ReaderSafe(r)' /\ ReaderCalm(r)'
    <2>1. ReaderSafe(r) /\ rd'[r] = rd[r] /\ rd[r] \in ReaderFrame /\ rd[r].slice \in Slice
      BY <1>1, <1>2 DEF ListInv, ListCore, ReaderFrame
    <2>2. CASE ~Reading(r)
      BY <2>1, <2>2, Constants DEF ReaderSafe, ReaderCalm, Reading, Shows, Away
    <2>3. CASE Reading(r)
      <3>1. name \in rd[r].seen
        BY <1>1, <1>2, <2>1, <2>3 DEF ReaderSafe, Shows, name, a
      <3>2. Shows(rd[r].slice, rd[r].seen)' /\ Shows(list, rd[r].seen)'
        <4>1. Shows(rd[r].slice, rd[r].seen) /\ Shows(list, rd[r].seen)
          BY <1>1, <2>1, <2>3 DEF ReaderSafe
        <4>2. Shows(rd[r].slice, rd[r].seen)'
          <5>1. /\ rd[r].slice.arr = NIL => rd[r].slice.len = 0
                /\ rd[r].slice.arr # NIL => rd[r].slice.len <= Len(cells'[rd[r].slice.arr])
                /\ \A i \in 1..rd[r].slice.len : cells'[rd[r].slice.arr][i] \in rd[r].seen
            BY <1>6, <2>1, <3>1, <4>1
          <5> QED BY <2>1, <5>1 DEF Shows
        <4>3. Shows(list, rd[r].seen)'
          <5>1. /\ list.arr = NIL => list.len = 0
                /\ list.arr # NIL => list.len <= Len(cells'[list.arr])
                /\ \A i \in 1..list.len : cells'[list.arr][i] \in rd[r].seen
            BY <1>2, <1>6, <3>1, <4>1
          <5> QED BY <1>1, <2>1, <5>1 DEF Shows
        <4> QED BY <4>2, <4>3
      <3>3. ReaderSafe(r)'
        BY <2>1, <2>3, <3>2 DEF ReaderSafe, Reading
      <3>4. ReaderCalm(r)'
        BY <1>1, <2>1, <2>3 DEF ReaderCalm
      <3> QED BY <3>3, <3>4
    <2> QED BY <2>2, <2>3
  <1> QED BY <1>1, <1>5, <1>7, <1>8, <1>9 DEF ListInv, ListCore, ListedOK

\* It stores the shorter list.
LEMMA DetachEndKeeps ==
    ASSUME ListInv, NEW ok \in {0, 1}, DetachEnd(ok)
    PROVE  ListInv'
  <1>1. /\ det # NULL /\ det' = NULL /\ list' = [list EXCEPT !.len = det.n]
        /\ cells' = cells /\ rd' = rd /\ Flush(ok)
        /\ list # NULL /\ list \in Slice /\ det.n \in Nat /\ det.i \in Nat
        /\ det.n < det.i /\ det.i <= list.len + 1
        /\ \A r \in Readers : Reading(r) => rd[r].calm = 0
    BY DEF DetachEnd, ListInv, ListCore, ListTypes, DetachOK
  <1>2. /\ list' \in Slice /\ list'.arr = list.arr /\ list'.len = det.n
        /\ det.n <= list.len /\ list.len \in Nat
    BY <1>1, Constants DEF Slice
  <1>3. ListTypes'
    BY <1>1, <1>2 DEF ListInv, ListCore, ListTypes
  <1>4. ASSUME NEW S, Shows(list, S)
        PROVE  /\ list'.arr = NIL => list'.len = 0
               /\ list'.arr # NIL => list'.len <= Len(cells[list'.arr])
               /\ \A i \in 1..list'.len : cells[list'.arr][i] \in S
    <2>1. list.arr # NIL => Len(cells[list.arr]) \in Nat
      BY <1>1 DEF ListInv, ListCore, ListTypes, Slice
    <2> QED BY <1>1, <1>2, <1>4, <2>1 DEF Shows
  <1>5. Shows(list, Providers)' /\ DetachOK'
    <2>1. Shows(list, Providers)
      BY <1>1 DEF ListInv, ListCore
    <2> QED BY <1>1, <1>4, <2>1 DEF Shows, DetachOK
  <1>6. ASSUME NEW r \in Readers PROVE ReaderSafe(r)' /\ ReaderCalm(r)'
    <2>1. ReaderSafe(r) /\ rd'[r] = rd[r]
      BY <1>1 DEF ListInv, ListCore
    <2>2. Reading(r) => Shows(list, rd[r].seen)'
      BY <1>1, <1>4, <2>1 DEF ReaderSafe, Shows
    <2>3. Shows(rd[r].slice, rd[r].seen)'
      BY <1>1, <2>1 DEF ReaderSafe, Shows
    <2>4. ReaderSafe(r)'
      BY <2>1, <2>2, <2>3 DEF ReaderSafe, Reading
    <2>5. ReaderCalm(r)'
      BY <1>1, <2>1 DEF ReaderCalm, Reading
    <2> QED BY <2>4, <2>5
  <1>7. ListCore'
    BY <1>3, <1>5, <1>6 DEF ListCore
  <1> QED BY <1>1, <1>7, FlushListed DEF ListInv

\* A reader gets the slice of the list.
LEMMA ResolveStartKeeps ==
    ASSUME ListInv, NEW r \in Readers, ResolveStart(r)
    PROVE  ListInv'
  <1> DEFINE none == <<>>
             away == [pc |-> "idle", slice |-> [arr |-> NIL, len |-> 0], at |-> NULL,
                      got |-> none, start |-> none, seen |-> {}, calm |-> 1]
             new == [away EXCEPT !.pc = "cell", !.slice = list,
                                 !.start = Attached, !.seen = ToSet(Attached)]
  <1>1. /\ list # NULL /\ list' = list /\ cells' = cells /\ listed' = listed
        /\ det = NULL /\ det' = det /\ list \in Slice /\ list.len \in Nat
        /\ rd \in [Readers -> ReaderFrame]
        /\ rd' = [rd EXCEPT ![r] = new]
    <2>1. /\ list # NULL /\ list' = list /\ cells' = cells /\ listed' = listed
          /\ det = NULL /\ det' = det
          /\ rd' = [rd EXCEPT ![r] = [Away EXCEPT !.pc = "cell", !.slice = list,
                                   !.start = Attached, !.seen = ToSet(Attached)]]
      BY DEF ResolveStart, fileVars, Unlocked
    <2>2. list \in Slice /\ list.len \in Nat /\ rd \in [Readers -> ReaderFrame]
      BY <2>1, Constants DEF ListInv, ListCore, ListTypes, Slice
    <2>3. Away = away
      BY DEF Away
    <2> HIDE DEF none, away
    <2> QED BY <2>1, <2>2, <2>3
  <1>2. /\ list.arr = NIL => list.len = 0
        /\ list.arr # NIL => list.len <= Len(cells[list.arr])
        /\ \A i \in 1..list.len : cells[list.arr][i] \in Providers
        /\ cells \in [Arrays -> Seq(Providers \cup {NULL})]
    BY <1>1 DEF ListInv, ListCore, ListTypes, Shows
  <1>3. /\ Attached \in Seq(Providers) /\ Len(Attached) = list.len
        /\ \A i \in 1..list.len : Attached[i] = cells[list.arr][i]
    <2>1. Attached = IF list.arr = NIL THEN <<>> ELSE SubSeq(cells[list.arr], 1, list.len)
      BY <1>1 DEF Attached, Names
    <2> QED BY <1>1, <1>2, <2>1, SliceNames
  <1>4. /\ ToSet(Attached) \in SUBSET Providers
        /\ \A i \in 1..list.len : cells[list.arr][i] \in ToSet(Attached)
    BY <1>3 DEF ToSet
  <1>5. none \in Seq(Providers) /\ Len(none) = 0
    OBVIOUS
  <1> HIDE DEF none
  <1>6. /\ new \in ReaderFrame /\ new.pc = "cell" /\ new.slice = list /\ new.at = NULL
        /\ new.got = none /\ new.start = Attached /\ new.seen = ToSet(Attached)
    BY <1>1, <1>3, <1>4, <1>5 DEF ReaderFrame
  <1> HIDE DEF new
  <1>7. \A s \in Readers : rd'[s] = IF s = r THEN new ELSE rd[s]
    BY <1>1
  <1>8. ListTypes'
    BY <1>1, <1>6 DEF ListInv, ListCore, ListTypes
  <1>9. Shows(list, Providers)' /\ DetachOK'
    BY <1>1, <1>2 DEF Shows, DetachOK
  <1>10. ASSUME NEW s \in Readers PROVE ReaderSafe(s)' /\ ReaderCalm(s)'
    <2>1. CASE s # r
      <3>1. ReaderSafe(s) /\ ReaderCalm(s) /\ rd'[s] = rd[s]
        BY <1>7, <2>1 DEF ListInv, ListCore
      <3> QED BY <1>1, <3>1 DEF ReaderSafe, ReaderCalm, Reading, Shows
    <2>2. CASE s = r
      <3>1. rd'[s] = new
        BY <1>7, <2>2
      <3>2. ReaderSafe(s)'
        BY <1>1, <1>2, <1>4, <1>5, <1>6, <3>1 DEF ReaderSafe, Reading, Shows
      <3>3. ReaderCalm(s)'
        BY <1>1, <1>3, <1>5, <1>6, <3>1 DEF ReaderCalm, Reading
      <3> QED BY <3>2, <3>3
    <2> QED BY <2>1, <2>2
  <1> QED BY <1>1, <1>8, <1>9, <1>10 DEF ListInv, ListCore, ListedOK

\* Reader r returns, or goes on with the same slice after what it has read.
ReadsOn(r) ==
    \/ rd'[r] = Away
    \/ /\ Reading(r) /\ rd'[r].pc # "idle"
       /\ rd'[r].slice = rd[r].slice /\ rd'[r].start = rd[r].start
       /\ rd'[r].seen = rd[r].seen /\ rd'[r].calm = rd[r].calm
       /\ \A i \in 1..Len(rd'[r].got) : rd'[r].got[i] \in rd[r].seen
       /\ rd'[r].pc = "lookup" => rd'[r].at \in rd[r].seen
       /\ rd'[r].pc # "lookup" => rd'[r].at = NULL
       /\ rd[r].calm = 1 =>
             /\ Len(rd'[r].got) <= rd[r].slice.len
             /\ \A i \in 1..Len(rd'[r].got) : rd'[r].got[i] = rd[r].start[i]
             /\ rd'[r].pc = "lookup" =>
                   /\ Len(rd'[r].got) < rd[r].slice.len
                   /\ rd'[r].at = rd[r].start[Len(rd'[r].got) + 1]

\* A step of a reader changes nothing for the list and the other readers.
LEMMA ReaderKeeps ==
    ASSUME ListInv, NEW r \in Readers, ReadsOn(r), rd' \in [Readers -> ReaderFrame],
           \A s \in Readers : s # r => rd'[s] = rd[s],
           list' = list, listed' = listed, det' = det,
           cells' = cells \/ cells' = KeptCells(cells)
    PROVE  ListInv'
  <1>1. /\ cells \in [Arrays -> Seq(Providers \cup {NULL})]
        /\ \A a \in Arrays : Len(cells[a]) <= MaxCap
        /\ rd \in [Readers -> ReaderFrame]
    BY DEF ListInv, ListCore, ListTypes
  <1>2. /\ cells' \in [Arrays -> Seq(Providers \cup {NULL})]
        /\ \A a \in Arrays : Len(cells'[a]) <= MaxCap
        /\ \A a \in Arrays : list' # NULL /\ a = list'.arr => cells'[a] = cells[a]
        /\ \A s \in Readers : rd'[s].slice.arr \in Arrays =>
              cells'[rd'[s].slice.arr] = cells[rd'[s].slice.arr]
    BY <1>1, CellsKept
  <1>3. \A s \in Readers : /\ rd'[s].slice.arr \in Arrays \cup {NIL}
                           /\ rd'[s].slice.arr # NIL =>
                                 cells'[rd'[s].slice.arr] = cells[rd'[s].slice.arr]
    <2>1. \A s \in Readers : rd'[s].slice.arr \in Arrays \cup {NIL}
      BY DEF ReaderFrame, Slice
    <2> QED BY <1>2, <2>1
  <1>4. list # NULL => /\ (list.arr = NIL => list.len = 0)
                       /\ list.arr # NIL => cells'[list.arr] = cells[list.arr]
    BY <1>2 DEF ListInv, ListCore, ListTypes, Slice, Shows
  <1>5. ListTypes'
    BY <1>2 DEF ListInv, ListCore, ListTypes
  <1>6. list' # NULL => Shows(list, Providers)'
    BY <1>4 DEF ListInv, ListCore, Shows
  <1>7. DetachOK'
    BY DEF ListInv, ListCore, DetachOK, Reading, ReadsOn, Away
  <1>8. ASSUME NEW s \in Readers PROVE ReaderSafe(s)' /\ ReaderCalm(s)'
    <2>1. CASE rd'[s] = Away
      BY <2>1, Constants DEF ReaderSafe, ReaderCalm, Reading, Shows, Away
    <2>2. CASE rd'[s] # Away
      <3>1. ReaderSafe(s) /\ ReaderCalm(s)
        BY DEF ListInv, ListCore
      <3>2. /\ rd'[s].slice = rd[s].slice /\ rd'[s].start = rd[s].start
            /\ rd'[s].seen = rd[s].seen /\ rd'[s].calm = rd[s].calm
            /\ Reading(s) /\ Reading(s)'
        BY <2>2, <3>1 DEF ReadsOn, Reading, ReaderSafe
      <3>3. Shows(rd[s].slice, rd[s].seen)'
        BY <1>3, <3>1, <3>2 DEF ReaderSafe, Shows
      <3>4. list # NULL => Shows(list, rd[s].seen)'
        BY <1>4, <3>1, <3>2 DEF ReaderSafe, Shows
      <3>5. ReaderSafe(s)'
        BY <2>2, <3>1, <3>2, <3>3, <3>4 DEF ReaderSafe, ReadsOn
      <3>6. ASSUME rd[s].calm = 1
            PROVE  \A j \in 1..rd[s].slice.len : cells'[rd[s].slice.arr][j] = rd[s].start[j]
        <4>1. rd[s].slice.arr = NIL => rd[s].slice.len = 0
          BY <3>1 DEF ReaderSafe, Shows
        <4> QED BY <1>3, <3>1, <3>2, <3>6, <4>1 DEF ReaderCalm
      <3>7. ReaderCalm(s)'
        BY <2>2, <3>1, <3>2, <3>6 DEF ReaderCalm, ReadsOn
      <3> QED BY <3>5, <3>7
    <2> QED BY <2>1, <2>2
  <1> QED BY <1>5, <1>6, <1>7, <1>8 DEF ListInv, ListCore, ListedOK

\* A reader reads the next name of its slice, or returns.
LEMMA ResolveCellKeeps ==
    ASSUME ListInv, NEW r \in Readers, ResolveCell(r)
    PROVE  ListInv'
  <1> DEFINE f == rd[r]
             i == Len(f.got) + 1
             name == cells[f.slice.arr][i]
             new == IF i <= f.slice.len THEN [f EXCEPT !.pc = "lookup", !.at = name] ELSE Away
  <1>1. /\ f.pc = "cell" /\ list' = list /\ listed' = listed /\ det' = det
        /\ rd \in [Readers -> ReaderFrame] /\ f \in ReaderFrame
        /\ cells' = KeptCells(cells)
    BY DEF ResolveCell, fileVars, ListInv, ListCore, ListTypes
  <1>2. rd' = [rd EXCEPT ![r] = new]
    BY <1>1 DEF ResolveCell
  <1>3. /\ f.slice \in Slice /\ f.slice.len \in Nat /\ f.slice.arr \in Arrays \cup {NIL}
        /\ f.got \in Seq(Providers) /\ Len(f.got) \in Nat /\ f.seen \in SUBSET Providers
    BY <1>1, Constants DEF ReaderFrame, Slice
  <1>4. ReaderSafe(r) /\ ReaderCalm(r) /\ Reading(r)
    BY <1>1 DEF ListInv, ListCore, Reading
  <1>5. CASE i <= f.slice.len
    <2>1. i \in 1..f.slice.len /\ Len(f.got) < f.slice.len
      BY <1>3, <1>5
    <2>2. /\ name \in f.seen /\ name \in Providers
          /\ (f.calm = 1 => name = f.start[i])
      BY <1>3, <1>4, <2>1 DEF ReaderSafe, ReaderCalm, Shows
    <2>3. new = [f EXCEPT !.pc = "lookup", !.at = name]
      BY <1>5
    <2> HIDE DEF name, new
    <2>4. /\ new \in ReaderFrame /\ new.pc = "lookup" /\ new.at = name
          /\ new.slice = f.slice /\ new.got = f.got /\ new.start = f.start
          /\ new.seen = f.seen /\ new.calm = f.calm
      BY <1>1, <2>2, <2>3 DEF ReaderFrame
    <2>5. rd' \in [Readers -> ReaderFrame] /\ rd'[r] = new
          /\ \A s \in Readers : s # r => rd'[s] = rd[s]
      BY <1>1, <1>2, <2>4
    <2>6. ReadsOn(r)
      BY <1>4, <2>1, <2>2, <2>4, <2>5 DEF ReadsOn, ReaderSafe, ReaderCalm
    <2> QED BY <1>1, <2>5, <2>6, ReaderKeeps
  <1>6. CASE ~(i <= f.slice.len)
    <2>1. new = Away
      BY <1>6
    <2> HIDE DEF new
    <2>2. Away \in ReaderFrame
      <3> DEFINE none == <<>>
      <3>1. none \in Seq(Providers)
        OBVIOUS
      <3>2. Away = [pc |-> "idle", slice |-> [arr |-> NIL, len |-> 0], at |-> NULL,
                    got |-> none, start |-> none, seen |-> {}, calm |-> 1]
        BY DEF Away
      <3> HIDE DEF none
      <3> QED BY <3>1, <3>2, Constants DEF ReaderFrame, Slice
    <2>3. rd' \in [Readers -> ReaderFrame] /\ rd'[r] = Away
          /\ \A s \in Readers : s # r => rd'[s] = rd[s]
      BY <1>1, <1>2, <2>1, <2>2
    <2>4. ReadsOn(r)
      BY <2>3 DEF ReadsOn
    <2> QED BY <1>1, <2>3, <2>4, ReaderKeeps
  <1> QED BY <1>5, <1>6

\* A reader has looked the provider up.
LEMMA ResolveLookupKeeps ==
    ASSUME ListInv, NEW r \in Readers, ResolveLookup(r)
    PROVE  ListInv'
  <1> DEFINE f == rd[r]
             got == Append(f.got, f.at)
             new == [f EXCEPT !.pc = "cell", !.got = got, !.at = NULL]
  <1>1. /\ f.pc = "lookup" /\ list' = list /\ listed' = listed /\ det' = det /\ cells' = cells
        /\ rd \in [Readers -> ReaderFrame] /\ f \in ReaderFrame
        /\ rd' = [rd EXCEPT ![r] = new]
    BY DEF ResolveLookup, fileVars, ListInv, ListCore, ListTypes
  <1>2. /\ f.slice.len \in Nat /\ f.got \in Seq(Providers) /\ Len(f.got) \in Nat
        /\ f.seen \in SUBSET Providers
    BY <1>1, Constants DEF ReaderFrame, Slice
  <1>3. ReaderSafe(r) /\ ReaderCalm(r) /\ Reading(r)
    BY <1>1 DEF ListInv, ListCore, Reading
  <1>4. f.at \in f.seen /\ f.at \in Providers
    BY <1>1, <1>2, <1>3 DEF ReaderSafe
  <1>5. /\ got \in Seq(Providers) /\ Len(got) = Len(f.got) + 1
        /\ \A i \in 1..Len(f.got) : got[i] = f.got[i]
        /\ got[Len(f.got) + 1] = f.at
    BY <1>2, <1>4
  <1> HIDE DEF got
  <1>6. /\ new \in ReaderFrame /\ new.pc = "cell" /\ new.at = NULL /\ new.got = got
        /\ new.slice = f.slice /\ new.start = f.start /\ new.seen = f.seen
        /\ new.calm = f.calm
    BY <1>1, <1>5 DEF ReaderFrame
  <1> HIDE DEF new
  <1>7. rd' \in [Readers -> ReaderFrame] /\ rd'[r] = new
        /\ \A s \in Readers : s # r => rd'[s] = rd[s]
    BY <1>1, <1>6
  <1>8. \A i \in 1..Len(got) : i \in 1..Len(f.got) \/ i = Len(f.got) + 1
    BY <1>2, <1>5
  <1>9. \A i \in 1..Len(got) : got[i] \in f.seen
    BY <1>3, <1>4, <1>5, <1>8 DEF ReaderSafe
  <1>10. ASSUME f.calm = 1
         PROVE  Len(got) <= f.slice.len /\ \A i \in 1..Len(got) : got[i] = f.start[i]
    BY <1>1, <1>2, <1>3, <1>5, <1>8, <1>10 DEF ReaderCalm
  <1>11. ReadsOn(r)
    BY <1>3, <1>6, <1>7, <1>9, <1>10 DEF ReadsOn
  <1> QED BY <1>1, <1>7, <1>11, ReaderKeeps

-----------------------------------------------------------------------------
(* Records and maps.                                                       *)

\* Somebody can still reach the map m.
Held(m) == (\E p \in Providers : rec[p] = m) \/ (\E t \in Requests : req[t].ptr = m)

\* A request that read a map works on that map.
LEMMA ReadIsPtr ==
    ASSUME RecordTypes, NEW t \in Requests, FrameOK(t), req[t].read \in Maps
    PROVE  req[t].ptr = req[t].read
  <1>1. req[t] \in ReqFrame /\ req[t].pc \in ReqPC
    BY DEF RecordTypes, ReqFrame
  <1>2. req[t].pc # "idle"
    BY Constants DEF FrameOK, Idle
  <1> QED BY <1>1, <1>2, Constants DEF FrameOK, Refreshing, WritingBack, ReqPC

\* What a map says of a provider, and what is written of it, are settings.
LEMMA ConfigTypes ==
    ASSUME NEW r \in [Providers -> Maps \cup {NIL, NULL}], NEW m \in [Maps -> Settings],
           NEW p \in Providers
    PROVE  (IF r[p] \in Maps THEN m[r[p]] ELSE Nothing) \in Settings
  BY DEF Settings, Nothing

\* A write of state.json that succeeds writes every record as it is; one that
\* fails writes nothing.
LEMMA FlushSaves ==
    ASSUME RecordTypes, rec' \in [Providers -> Maps \cup {NIL, NULL}],
           maps' \in [Maps -> Settings], NEW ok \in {0, 1}, Flush(ok)
    PROVE  /\ disk' \in [Providers -> Settings \cup {NULL}]
           /\ saved' \in {0, 1}
           /\ SettingsSaved'
           /\ \A p \in Providers : rec'[p] = NULL /\ disk[p] = NULL => disk'[p] = NULL
  <1> DEFINE image == [p \in Providers |-> IF rec'[p] = NULL THEN NULL ELSE Config(p)']
  <1>1. saved' = ok /\ disk' = IF ok = 1 THEN image ELSE disk
    BY DEF Flush
  <1>2. \A p \in Providers : Config(p)' \in Settings
    BY ConfigTypes DEF Config
  <1>3. image \in [Providers -> Settings \cup {NULL}]
    BY <1>2
  <1>4. disk' \in [Providers -> Settings \cup {NULL}]
    BY <1>1, <1>3 DEF RecordTypes
  <1>5. SettingsSaved'
    BY <1>1 DEF SettingsSaved, Image
  <1>6. \A p \in Providers : rec'[p] = NULL /\ disk[p] = NULL => disk'[p] = NULL
    BY <1>1
  <1> QED BY <1>1, <1>4, <1>5, <1>6

\* Maps in use keep their contents; the others are swept.
LEMMA MapsKept ==
    ASSUME NEW c \in [Maps -> Settings], maps' = Kept(c)
    PROVE  /\ maps' \in [Maps -> Settings]
           /\ MapsSwept'
           /\ \A m \in Maps : Held(m)' => maps'[m] = c[m]
  <1>1. Nothing \in Settings
    BY DEF Nothing, Settings
  <1>2. \A m \in Maps : maps'[m] = IF m \in MapsInUse' THEN c[m] ELSE Nothing
    BY DEF Kept
  <1>3. maps' \in [Maps -> Settings]
    BY <1>1 DEF Kept
  <1>4. \A m \in Maps : Held(m)' => m \in MapsInUse'
    BY DEF Held, MapsInUse
  <1> QED BY <1>2, <1>3, <1>4 DEF MapsSwept

\* A request that has no map finds one that nothing leads to.
LEMMA FreeMap ==
    ASSUME RecordInv, NEW t \in Requests, req[t].ptr = NIL
    PROVE  FreshMap \in Maps \ MapsInUse
  <1> DEFINE g == [u \in Requests |-> req[u].ptr]
             A == {rec[p] : p \in Providers}
             B == {g[u] : u \in Requests}
             U == A \cup B
  <1>1. IsFiniteSet(A) /\ Cardinality(A) <= Cardinality(Providers)
    <2>1. rec \in [Providers -> Maps \cup {NIL, NULL}]
      BY DEF RecordInv, RecordTypes
    <2> QED BY <2>1, ImageIsSmall, MemoryAssumption
  <1>2. IsFiniteSet(B) /\ Cardinality(B) <= Cardinality(Requests)
    <2>1. g \in [Requests -> {req[u].ptr : u \in Requests}]
      OBVIOUS
    <2> HIDE DEF g
    <2> QED BY <2>1, ImageIsSmall, MemoryAssumption
  <1>3. Maps \ MapsInUse = Maps \ U /\ NIL \in U /\ NIL \notin Maps
    <2>1. \A u \in Requests : req[u].read \in Maps => req[u].read = req[u].ptr
      BY ReadIsPtr DEF RecordInv
    <2>2. \A m \in Maps : m \in MapsInUse <=> m \in U
      BY <2>1 DEF MapsInUse
    <2> QED BY <2>2, Constants
  <1> HIDE DEF A, B
  <1>4. IsFiniteSet(U) /\ Cardinality(U) <= Cardinality(Maps)
    <2>1. /\ IsFiniteSet(U) /\ Cardinality(U) <= Cardinality(A) + Cardinality(B)
          /\ Cardinality(A) \in Nat /\ Cardinality(B) \in Nat /\ Cardinality(U) \in Nat
      BY <1>1, <1>2, UnionIsSmall
    <2>2. /\ Cardinality(Requests) \in Nat /\ Cardinality(Maps) \in Nat
          /\ Cardinality(Providers) \in Nat
      BY MemoryAssumption, FS_CardinalityType
    <2> QED BY <1>1, <1>2, <2>1, <2>2, MemoryAssumption
  <1> HIDE DEF U
  <1>5. Min(Maps \ U) \in Maps \ U
    <2>1. IsFiniteSet(Maps) /\ Maps \subseteq Nat
      BY MemoryAssumption, Constants
    <2>2. \E x \in U : x \notin Maps
      BY <1>3
    <2> QED BY <1>4, <2>1, <2>2, FreshObject
  <1> QED BY <1>3, <1>5 DEF FreshMap

\* A request that is not about to write a record goes on, in the frame new: it
\* gives up its map, keeps it, or takes the one of its record.
Goes(t, new) ==
    /\ req' = [req EXCEPT ![t] = new]
    /\ new \in ReqFrame
    /\ req[t].pc # "upsert"
    /\ new.pc = "upsert" => new.kind = "put"
    /\ \/ new.ptr \notin Maps
       \/ new.ptr = req[t].ptr /\ new.prov = req[t].prov
       \/ new.prov \in Providers /\ new.ptr = rec[new.prov]
    /\ \/ new.read \notin Maps
       \/ new.read = req[t].read /\ new.prov = req[t].prov /\ new.late = req[t].late
       \/ new.prov \in Providers /\ new.read = rec[new.prov]
    /\ \A p \in gone' : new.prov = p => \/ new.pc = "upsert" /\ new.kind = "put"
                                        \/ new.pc = "purge"

\* Such a step keeps the maps apart and in step with the settings.
LEMMA RequestGoes ==
    ASSUME RecordInv, NEW t \in Requests, NEW new, Goes(t, new), FrameOK(t)',
           rec' = rec, want' = want, raced' = raced,
           maps' \in [Maps -> Settings], MapsSwept',
           \A m \in Maps : Held(m)' => maps'[m] = maps[m],
           secret' \subseteq Providers, gone' \subseteq Providers,
           \A p \in gone' : /\ p \notin secret' /\ rec[p] = NULL /\ disk[p] = NULL
                            /\ \A u \in Requests \ {t} : req[u].prov = p =>
                                  \/ req[u].pc = "upsert" /\ req[u].kind = "put"
                                  \/ req[u].pc = "purge",
           UNCHANGED <<disk, saved>> \/ \E ok \in {0, 1} : Flush(ok)
    PROVE  RecordInv'
  <1>1. /\ rec \in [Providers -> Maps \cup {NIL, NULL}] /\ req \in [Requests -> ReqFrame]
        /\ RecordTypes /\ \A u \in Requests : FrameOK(u)
    BY DEF RecordInv, RecordTypes
  <1>2. /\ \A u \in Requests : req'[u] = IF u = t THEN new ELSE req[u]
        /\ req' \in [Requests -> ReqFrame]
    BY <1>1 DEF Goes
  <1>3. \A u \in Requests : FrameOK(u)'
    BY <1>1, <1>2 DEF FrameOK, Refreshing, WritingBack
  <1>4. /\ disk' \in [Providers -> Settings \cup {NULL}] /\ saved' \in {0, 1}
        /\ SettingsSaved'
        /\ \A p \in Providers : rec'[p] = NULL /\ disk[p] = NULL => disk'[p] = NULL
    <2>1. CASE \E ok \in {0, 1} : Flush(ok)
      BY <1>1, <2>1, FlushSaves
    <2>2. CASE UNCHANGED <<disk, saved>>
      <3>1. ASSUME NEW p \in Providers, saved = 1, ~Unsaved(p)' PROVE disk[p] = Image(p)'
        <4>1. ~Unsaved(p)
          BY <1>2, <3>1 DEF Unsaved, Goes
        <4>2. disk[p] = Image(p)
          BY <3>1, <4>1 DEF RecordInv, SettingsSaved
        <4>3. rec[p] \in Maps => maps'[rec[p]] = maps[rec[p]]
          BY DEF Held
        <4> QED BY <4>2, <4>3 DEF Image, Config
      <3> QED BY <1>1, <2>2, <3>1 DEF SettingsSaved, RecordTypes
    <2> QED BY <2>1, <2>2
  <1>5. RecordTypes'
    BY <1>1, <1>2, <1>4 DEF RecordTypes
  <1>6. MapsApart'
    <2>1. MapsApart
      BY DEF RecordInv
    <2>2. ASSUME NEW u \in Requests, NEW p \in Providers,
                 req'[u].ptr \in Maps, req'[u].ptr = rec[p]
          PROVE  req'[u].prov = p
      BY <1>2, <2>1, <2>2 DEF MapsApart, Goes
    <2>3. ASSUME NEW u \in Requests, NEW v \in Requests,
                 req'[u].ptr \in Maps, req'[u].ptr = req'[v].ptr
          PROVE  req'[u].prov = req'[v].prov
      BY <1>2, <2>1, <2>3 DEF MapsApart, Goes
    <2> QED BY <2>1, <2>2, <2>3 DEF MapsApart
  <1>7. MapsPrivate'
    <2> SUFFICES ASSUME NEW u \in Requests, OwnsMap(u)'
                 PROVE  /\ \A p \in Providers : rec[p] # req'[u].ptr
                        /\ \A v \in Requests \ {u} : req'[v].ptr # req'[u].ptr
                        /\ maps'[req'[u].ptr] = [Nothing EXCEPT ![req'[u].key] = req'[u].cfg]
      BY DEF MapsPrivate
    <2>1. u # t /\ req'[u] = req[u] /\ OwnsMap(u)
      BY <1>2 DEF OwnsMap, Goes
    <2>2. /\ \A p \in Providers : rec[p] # req[u].ptr
          /\ \A v \in Requests \ {u} : req[v].ptr # req[u].ptr
          /\ maps[req[u].ptr] = [Nothing EXCEPT ![req[u].key] = req[u].cfg]
      BY <2>1 DEF RecordInv, MapsPrivate
    <2>3. req[u].ptr \in Maps
      BY <1>1, <2>1 DEF FrameOK, OwnsMap, WritingBack
    <2>4. new.ptr # req[u].ptr
      BY <2>1, <2>2, <2>3 DEF Goes
    <2>5. maps'[req[u].ptr] = maps[req[u].ptr]
      BY <2>1, <2>3 DEF Held
    <2> QED BY <1>2, <2>1, <2>2, <2>4, <2>5
  <1>8. MapsShared'
    <2>1. MapsShared
      BY DEF RecordInv
    <2> SUFFICES ASSUME NEW u \in Requests, req'[u].read \in Maps, req'[u].late = 0,
                        raced[req'[u].prov] # Keys
                 PROVE  rec[req'[u].prov] = req'[u].read
      BY DEF MapsShared
    <2> QED BY <1>2, <2>1 DEF MapsShared, Goes
  <1>9. SettingsInStep'
    <2> SUFFICES ASSUME NEW p \in Providers, NEW k \in Keys, k \notin raced[p],
                        ~Outdated(p, k)'
                 PROVE  Config(p)'[k] = want[p][k]
      BY DEF SettingsInStep
    <2>1. ~Outdated(p, k)
      BY <1>2 DEF Outdated, WritingBack, Goes
    <2>2. Config(p)[k] = want[p][k]
      BY <2>1 DEF RecordInv, SettingsInStep
    <2>3. rec[p] \in Maps => maps'[rec[p]] = maps[rec[p]]
      BY DEF Held
    <2> QED BY <2>2, <2>3 DEF Config
  <1>10. ASSUME NEW p \in gone' PROVE GoneOK(p)'
    BY <1>2, <1>4 DEF GoneOK, Goes
  <1> QED BY <1>3, <1>4, <1>5, <1>6, <1>7, <1>8, <1>9, <1>10 DEF RecordInv

\* The same for a request that had no map, when the maps are left alone.
LEMMA RequestGoesOn ==
    ASSUME RecordInv, NEW t \in Requests, NEW new, Goes(t, new), FrameOK(t)',
           req[t].ptr \notin Maps, req[t].read \notin Maps,
           rec' = rec, maps' = maps, want' = want, raced' = raced,
           secret' \subseteq Providers, gone' \subseteq Providers,
           \A p \in gone' : /\ p \notin secret' /\ rec[p] = NULL /\ disk[p] = NULL
                            /\ \A u \in Requests \ {t} : req[u].prov = p =>
                                  \/ req[u].pc = "upsert" /\ req[u].kind = "put"
                                  \/ req[u].pc = "purge",
           UNCHANGED <<disk, saved>> \/ \E ok \in {0, 1} : Flush(ok)
    PROVE  RecordInv'
  <1>1. \A u \in Requests : req'[u] = IF u = t THEN new ELSE req[u]
    BY DEF Goes, RecordInv, RecordTypes
  <1>2. \A m \in Maps : m \in MapsInUse => m \in MapsInUse'
    BY <1>1 DEF MapsInUse
  <1>3. MapsSwept'
    BY <1>2 DEF MapsSwept, RecordInv
  <1>4. maps' \in [Maps -> Settings]
    BY DEF RecordInv, RecordTypes
  <1> QED BY <1>3, <1>4, RequestGoes

\* What is known of the deleted providers, when a step on none of them leaves
\* the credentials alone.
LEMMA GoneStays ==
    ASSUME RecordInv, NEW t \in Requests, gone' = gone, secret' = secret
    PROVE  /\ secret' \subseteq Providers /\ gone' \subseteq Providers
           /\ \A p \in gone' : /\ p \notin secret' /\ rec[p] = NULL /\ disk[p] = NULL
                               /\ \A u \in Requests \ {t} : req[u].prov = p =>
                                     \/ req[u].pc = "upsert" /\ req[u].kind = "put"
                                     \/ req[u].pc = "purge"
  BY DEF RecordInv, RecordTypes, GoneOK

\* A request that has ended has an empty frame.
LEMMA IdleFrame ==
    /\ Idle \in ReqFrame /\ Idle.pc = "idle" /\ Idle.kind = NULL /\ Idle.prov = NULL
    /\ Idle.prov \notin Providers
    /\ Idle.read \notin Maps /\ Idle.ptr \notin Maps /\ Idle.late = 0 /\ Idle.key = NULL
    /\ Idle.read = NULL /\ Idle.ptr = NULL
  BY Constants DEF Idle, ReqFrame, ReqPC

\* An empty frame is a good one.
LEMMA IdleFrameOK ==
    ASSUME NEW t \in Requests, req'[t] = Idle
    PROVE  FrameOK(t)'
  <1>1. Idle.pc = "idle" /\ Idle.kind = NULL /\ Idle.read = NULL
    BY DEF Idle
  <1> QED BY <1>1, Constants DEF FrameOK, Refreshing, WritingBack

\* A request without a map ends.
LEMMA RequestEnds ==
    ASSUME RecordInv, NEW t \in Requests, Return(t),
           req[t].pc \in {"creds", "purge", "append"},
           rec' = rec, maps' = maps, want' = want, raced' = raced,
           secret' \subseteq Providers, gone' \subseteq Providers,
           \A p \in gone' : /\ p \notin secret' /\ rec[p] = NULL /\ disk[p] = NULL
                            /\ \A u \in Requests \ {t} : req[u].prov = p =>
                                  \/ req[u].pc = "upsert" /\ req[u].kind = "put"
                                  \/ req[u].pc = "purge",
           UNCHANGED <<disk, saved>> \/ \E ok \in {0, 1} : Flush(ok)
    PROVE  RecordInv'
  <1>1. req' = [req EXCEPT ![t] = Idle] /\ req \in [Requests -> ReqFrame] /\ FrameOK(t)
    BY DEF Return, RecordInv, RecordTypes
  <1>2. req[t].ptr \notin Maps /\ req[t].read \notin Maps
    BY <1>1 DEF FrameOK
  <1>3. Goes(t, Idle)
    BY <1>1, IdleFrame DEF Goes
  <1>4. FrameOK(t)'
    BY <1>1, IdleFrameOK
  <1> QED BY <1>2, <1>3, <1>4, RequestGoesOn

\* A request that starts had an empty frame.
LEMMA StartsIdle ==
    ASSUME RecordInv, NEW t \in Requests, NEW kind, Start(t, kind)
    PROVE  /\ req[t] = Idle /\ req[t].pc = "idle" /\ req[t].prov \notin Providers
           /\ req[t].ptr \notin Maps /\ req[t].read \notin Maps
  <1>1. req[t] = Idle
    BY DEF Start, RecordInv, FrameOK
  <1> QED BY <1>1, IdleFrame

-----------------------------------------------------------------------------
(* Steps on the records.                                                   *)

\* A PUT of a provider starts.
LEMMA PutStartKeeps ==
    ASSUME RecordInv, NEW t \in Requests, NEW p \in Providers, NEW creds \in {0, 1},
           PutStart(t, p, creds)
    PROVE  RecordInv'
  <1> DEFINE new == [Idle EXCEPT !.pc = "upsert", !.kind = "put", !.prov = p,
                                 !.read = NIL, !.ptr = NIL, !.creds = creds]
  <1>1. /\ req' = [req EXCEPT ![t] = new] /\ rec' = rec /\ maps' = maps /\ want' = want
        /\ raced' = raced /\ secret' = secret /\ gone' = gone /\ UNCHANGED <<disk, saved>>
        /\ Start(t, "put") /\ req \in [Requests -> ReqFrame]
    BY DEF PutStart, recVars, fileVars, RecordInv, RecordTypes
  <1>2. /\ new \in ReqFrame /\ new.pc = "upsert" /\ new.kind = "put" /\ new.prov = p
        /\ new.read = NIL /\ new.ptr = NIL
    BY DEF Idle, ReqFrame, ReqPC, RequestKinds
  <1> HIDE DEF new
  <1>3. req[t].pc = "idle" /\ req[t].ptr \notin Maps /\ req[t].read \notin Maps
    BY <1>1, StartsIdle
  <1>4. Goes(t, new)
    BY <1>1, <1>2, <1>3, Constants DEF Goes
  <1>5. req'[t] = new
    BY <1>1
  <1>6. FrameOK(t)'
    BY <1>2, <1>5 DEF FrameOK, Refreshing, WritingBack
  <1> QED BY <1>1, <1>3, <1>4, <1>6, GoneStays, RequestGoesOn

\* A PUT stores its credentials.
LEMMA PutCredentialsKeeps ==
    ASSUME RecordInv, NEW t \in Requests, NEW ok, PutCredentials(t, ok)
    PROVE  RecordInv'
  <1>1. /\ req[t].pc = "creds" /\ Return(t) /\ rec' = rec /\ maps' = maps /\ want' = want
        /\ raced' = raced /\ gone' = gone /\ UNCHANGED <<disk, saved>>
        /\ secret' \subseteq secret \cup {req[t].prov}
    BY DEF PutCredentials, fileVars
  <1>2. req[t].prov \in Providers /\ secret \subseteq Providers /\ gone \subseteq Providers
    BY <1>1 DEF RecordInv, RecordTypes, FrameOK
  <1>3. req[t].prov \notin gone
    BY <1>1 DEF RecordInv, GoneOK
  <1>4. \A p \in gone' : /\ p \notin secret' /\ rec[p] = NULL /\ disk[p] = NULL
                         /\ \A u \in Requests \ {t} : req[u].prov = p =>
                               \/ req[u].pc = "upsert" /\ req[u].kind = "put"
                               \/ req[u].pc = "purge"
    BY <1>1, <1>3 DEF RecordInv, GoneOK
  <1> QED BY <1>1, <1>2, <1>4, RequestEnds

\* A deletion removes the credentials.
LEMMA DeletePrefixKeeps ==
    ASSUME RecordInv, NEW t \in Requests, NEW ok, DeletePrefix(t, ok)
    PROVE  RecordInv'
  <1>1. /\ req[t].pc = "purge" /\ Return(t) /\ rec' = rec /\ maps' = maps /\ want' = want
        /\ raced' = raced /\ UNCHANGED <<disk, saved>>
        /\ secret' = IF ok = 1 THEN secret \ {req[t].prov} ELSE secret
        /\ gone' = IF ok = 1 /\ Deleted(t) THEN gone \cup {req[t].prov} ELSE gone
    BY DEF DeletePrefix, fileVars
  <1>2. req[t].prov \in Providers /\ secret \subseteq Providers /\ gone \subseteq Providers
    BY <1>1 DEF RecordInv, RecordTypes, FrameOK
  <1>3. \A p \in gone' : /\ p \notin secret' /\ rec[p] = NULL /\ disk[p] = NULL
                         /\ \A u \in Requests \ {t} : req[u].prov = p =>
                               \/ req[u].pc = "upsert" /\ req[u].kind = "put"
                               \/ req[u].pc = "purge"
    BY <1>1 DEF RecordInv, GoneOK, Deleted
  <1> QED BY <1>1, <1>2, <1>3, RequestEnds

\* A request on the refresh settings reads the record and its map.
LEMMA ReadKeeps ==
    ASSUME RecordInv, NEW t \in Requests, NEW p \in Providers, NEW k \in Keys,
           NEW kind \in {"set", "unset", "rotate"}, NEW cfg,
           kind = "set" => cfg \in Strategies,
           kind = "unset" => cfg = NULL,
           kind = "rotate" => /\ cfg \in Strategies \cup {"env"}
                              /\ rec[p] = NIL => cfg = "env",
           Read(t, p, k, kind, cfg)
    PROVE  RecordInv'
  <1> DEFINE pc == IF kind = "rotate" THEN "rotate" ELSE "mutate"
             new == [pc |-> pc, kind |-> kind,
                     prov |-> p, key |-> k, cfg |-> cfg, read |-> rec[p], ptr |-> rec[p],
                     creds |-> 0, late |-> 0]
  <1>1. /\ req' = [req EXCEPT ![t] = new] /\ rec' = rec /\ maps' = maps /\ want' = want
        /\ raced' = raced /\ secret' = secret /\ gone' = gone /\ UNCHANGED <<disk, saved>>
        /\ Start(t, kind) /\ req \in [Requests -> ReqFrame] /\ rec[p] # NULL
        /\ rec[p] \in Maps \cup {NIL}
    BY DEF Read, recVars, fileVars, RecordInv, RecordTypes
  <1>2. pc \in ReqPC /\ pc \in {"rotate", "mutate"} /\ (pc = "rotate" <=> kind = "rotate")
        /\ kind \in RequestKinds /\ cfg \in Strategies \cup {"env", NULL}
    BY DEF ReqPC, RequestKinds
  <1> HIDE DEF pc
  <1>3. /\ new \in ReqFrame /\ new.pc = pc /\ new.kind = kind /\ new.prov = p
        /\ new.read = rec[p] /\ new.ptr = rec[p] /\ new.key = k /\ new.cfg = cfg
        /\ new.late = 0
    BY <1>1, <1>2 DEF ReqFrame
  <1> HIDE DEF new
  <1>4. req[t].pc = "idle" /\ req[t].ptr \notin Maps /\ req[t].read \notin Maps
    BY <1>1, StartsIdle
  <1>5. p \notin gone
    BY <1>1 DEF RecordInv, GoneOK
  <1>6. Goes(t, new)
    BY <1>1, <1>2, <1>3, <1>4, <1>5 DEF Goes
  <1>7. req'[t] = new
    BY <1>1
  <1>8. FrameOK(t)'
    BY <1>1, <1>2, <1>3, <1>7 DEF FrameOK, Refreshing, WritingBack
  <1> QED BY <1>1, <1>4, <1>6, <1>8, GoneStays, RequestGoesOn

\* A provider that a request works on is not one of the deleted.
LEMMA WorkedOnIsNotGone ==
    ASSUME RecordInv, NEW t \in Requests, Refreshing(t)
    PROVE  /\ req[t].prov \in Providers /\ req[t].prov \notin gone
           /\ req[t].ptr = req[t].read
  BY DEF RecordInv, GoneOK, FrameOK, Refreshing

\* The new value of a credential has come, or an error.
LEMMA RotatedKeeps ==
    ASSUME RecordInv, NEW t \in Requests, NEW res \in {"error", "plain", "expiring"},
           Rotated(t, res)
    PROVE  RecordInv'
  <1> DEFINE f == req[t]
             new == CASE res = "error" -> Idle
                      [] res = "plain" -> [f EXCEPT !.pc = "store", !.cfg = NULL]
                      [] OTHER -> [f EXCEPT !.pc = "store"]
  <1>1. /\ req' = [req EXCEPT ![t] = new] /\ rec' = rec /\ maps' = Kept(maps)
        /\ want' = want /\ raced' = raced /\ secret' = secret /\ gone' = gone
        /\ UNCHANGED <<disk, saved>> /\ f.pc = "rotate" /\ res \in Outcomes(f.cfg)
    BY DEF Rotated, fileVars
  <1>2. /\ req \in [Requests -> ReqFrame] /\ f \in ReqFrame /\ FrameOK(t)
        /\ maps \in [Maps -> Settings]
    BY DEF RecordInv, RecordTypes
  <1>3. f.prov \in Providers /\ f.prov \notin gone /\ f.ptr = f.read
    BY <1>1, WorkedOnIsNotGone DEF Refreshing
  <1>4. CASE res = "error"
    <2>1. new = Idle
      BY <1>4
    <2>2. Goes(t, Idle)
      BY <1>1, <2>1, IdleFrame, Constants DEF Goes, RecordInv, RecordTypes
    <2>3. FrameOK(t)'
      BY <1>1, <1>2, <2>1, IdleFrameOK
    <2>4. maps' \in [Maps -> Settings] /\ MapsSwept'
          /\ \A m \in Maps : Held(m)' => maps'[m] = maps[m]
      BY <1>1, <1>2, MapsKept
    <2> QED BY <1>1, <2>2, <2>3, <2>4, GoneStays, RequestGoes
  <1>5. CASE res # "error"
    <2>1. /\ new \in ReqFrame /\ new.pc = "store" /\ new.kind = f.kind /\ new.prov = f.prov
          /\ new.read = f.read /\ new.ptr = f.ptr /\ new.key = f.key /\ new.late = f.late
          /\ new.cfg = IF res = "plain" THEN NULL ELSE f.cfg
      <3>1. CASE res = "plain"
        <4>1. new = [f EXCEPT !.pc = "store", !.cfg = NULL]
          BY <3>1
        <4> HIDE DEF new, f
        <4> QED BY <1>2, <3>1, <4>1 DEF ReqFrame, ReqPC
      <3>2. CASE res # "plain"
        <4>1. new = [f EXCEPT !.pc = "store"]
          BY <1>5, <3>2
        <4> HIDE DEF new, f
        <4> QED BY <1>2, <3>2, <4>1 DEF ReqFrame, ReqPC
      <3> QED BY <3>1, <3>2
    <2> HIDE DEF new
    <2>2. res # "plain" => f.cfg # "env" /\ f.cfg \in Strategies
      BY <1>1, <1>2, <1>5 DEF Outcomes, FrameOK
    <2>3. Goes(t, new)
      BY <1>1, <1>2, <1>3, <2>1 DEF Goes
    <2>4. req'[t] = new
      BY <1>1, <1>2
    <2>5. FrameOK(t)'
      BY <1>1, <1>2, <2>1, <2>2, <2>4 DEF FrameOK, Refreshing, WritingBack
    <2>6. maps' \in [Maps -> Settings] /\ MapsSwept'
          /\ \A m \in Maps : Held(m)' => maps'[m] = maps[m]
      BY <1>1, <1>2, MapsKept
    <2> QED BY <1>1, <2>3, <2>5, <2>6, GoneStays, RequestGoes
  <1> QED BY <1>4, <1>5

\* A rotation stores the new value.
LEMMA StoreRotatedKeeps ==
    ASSUME RecordInv, NEW t \in Requests, NEW ok, StoreRotated(t, ok)
    PROVE  RecordInv'
  <1> DEFINE f == req[t]
             new == IF ok = 1 /\ f.cfg # NULL THEN [f EXCEPT !.pc = "mutate"] ELSE Idle
  <1>1. /\ req' = [req EXCEPT ![t] = new] /\ rec' = rec /\ maps' = Kept(maps)
        /\ want' = want /\ raced' = raced /\ gone' = gone
        /\ UNCHANGED <<disk, saved>> /\ f.pc = "store"
        /\ secret' \subseteq secret \cup {f.prov}
    BY DEF StoreRotated, fileVars
  <1>2. /\ req \in [Requests -> ReqFrame] /\ f \in ReqFrame /\ FrameOK(t)
        /\ maps \in [Maps -> Settings] /\ secret \subseteq Providers
        /\ gone \subseteq Providers
    BY DEF RecordInv, RecordTypes
  <1>3. f.prov \in Providers /\ f.prov \notin gone /\ f.ptr = f.read
    BY <1>1, WorkedOnIsNotGone DEF Refreshing
  <1>4. /\ secret' \subseteq Providers /\ gone' \subseteq Providers
        /\ \A p \in gone' : /\ p \notin secret' /\ rec[p] = NULL /\ disk[p] = NULL
                            /\ \A u \in Requests \ {t} : req[u].prov = p =>
                                  \/ req[u].pc = "upsert" /\ req[u].kind = "put"
                                  \/ req[u].pc = "purge"
    BY <1>1, <1>2, <1>3 DEF RecordInv, GoneOK
  <1>5. maps' \in [Maps -> Settings] /\ MapsSwept'
        /\ \A m \in Maps : Held(m)' => maps'[m] = maps[m]
    BY <1>1, <1>2, MapsKept
  <1>6. CASE ok = 1 /\ f.cfg # NULL
    <2>1. /\ new \in ReqFrame /\ new.pc = "mutate" /\ new.kind = f.kind /\ new.prov = f.prov
          /\ new.read = f.read /\ new.ptr = f.ptr /\ new.key = f.key /\ new.late = f.late
          /\ new.cfg = f.cfg
      <3>1. new = [f EXCEPT !.pc = "mutate"]
        BY <1>6
      <3> HIDE DEF new, f
      <3> QED BY <1>2, <3>1 DEF ReqFrame, ReqPC
    <2> HIDE DEF new
    <2>2. Goes(t, new)
      BY <1>1, <1>2, <1>3, <2>1 DEF Goes
    <2>3. req'[t] = new
      BY <1>1, <1>2
    <2>4. FrameOK(t)'
      BY <1>1, <1>2, <1>6, <2>1, <2>3 DEF FrameOK, Refreshing, WritingBack
    <2> QED BY <1>1, <1>4, <1>5, <2>2, <2>4, RequestGoes
  <1>7. CASE ~(ok = 1 /\ f.cfg # NULL)
    <2>1. new = Idle
      BY <1>7
    <2>2. Goes(t, Idle)
      BY <1>1, <2>1, IdleFrame, Constants DEF Goes, RecordInv, RecordTypes
    <2>3. FrameOK(t)'
      BY <1>1, <1>2, <2>1, IdleFrameOK
    <2> QED BY <1>1, <1>4, <1>5, <2>2, <2>3, RequestGoes
  <1> QED BY <1>6, <1>7

\* The attach handler has found the provider.
LEMMA AttachStartKeeps ==
    ASSUME RecordInv, NEW t \in Requests, NEW p \in Providers, AttachStart(t, p)
    PROVE  RecordInv'
  <1> DEFINE new == [Idle EXCEPT !.pc = "append", !.kind = "attach", !.prov = p]
  <1>1. /\ req' = [req EXCEPT ![t] = new] /\ rec' = rec /\ maps' = maps /\ want' = want
        /\ raced' = raced /\ secret' = secret /\ gone' = gone /\ UNCHANGED <<disk, saved>>
        /\ Start(t, "attach") /\ req \in [Requests -> ReqFrame] /\ rec[p] # NULL
    BY DEF AttachStart, recVars, fileVars, RecordInv, RecordTypes
  <1>2. /\ new \in ReqFrame /\ new.pc = "append" /\ new.kind = "attach" /\ new.prov = p
        /\ new.read = NULL /\ new.ptr = NULL
    BY DEF Idle, ReqFrame, ReqPC, RequestKinds
  <1> HIDE DEF new
  <1>3. req[t].pc = "idle" /\ req[t].ptr \notin Maps /\ req[t].read \notin Maps
    BY <1>1, StartsIdle
  <1>4. p \notin gone
    BY <1>1 DEF RecordInv, GoneOK
  <1>5. Goes(t, new)
    BY <1>1, <1>2, <1>3, <1>4, Constants DEF Goes
  <1>6. req'[t] = new
    BY <1>1
  <1>7. FrameOK(t)'
    BY <1>2, <1>6, Constants DEF FrameOK, Refreshing, WritingBack
  <1> QED BY <1>1, <1>3, <1>5, <1>7, GoneStays, RequestGoesOn

\* Attaching the provider leaves the records alone.
LEMMA AttachProviderLeaves ==
    ASSUME RecordInv, NEW t \in Requests, NEW cap, NEW ok \in {0, 1},
           AttachProvider(t, cap, ok)
    PROVE  RecordInv'
  <1>1. /\ req[t].pc = "append" /\ Return(t) /\ rec' = rec /\ maps' = maps /\ want' = want
        /\ raced' = raced /\ secret' = secret /\ gone' = gone
        /\ UNCHANGED <<disk, saved>> \/ Flush(ok)
    BY DEF AttachProvider, recVars, fileVars
  <1> QED BY <1>1, GoneStays, RequestEnds

\* Steps on the attachment list leave the records alone.
LEMMA RecordUntouched ==
    ASSUME RecordInv, UNCHANGED <<recVars, req>>,
           UNCHANGED <<disk, saved>> \/ \E ok \in {0, 1} : Flush(ok)
    PROVE  RecordInv'
  <1>1. /\ rec' = rec /\ maps' = maps /\ want' = want /\ raced' = raced
        /\ secret' = secret /\ gone' = gone /\ req' = req
    BY DEF recVars
  <1>2. /\ rec' \in [Providers -> Maps \cup {NIL, NULL}] /\ maps' \in [Maps -> Settings]
        /\ RecordTypes
    BY <1>1 DEF RecordInv, RecordTypes
  <1>3. /\ disk' \in [Providers -> Settings \cup {NULL}] /\ saved' \in {0, 1}
        /\ SettingsSaved'
        /\ \A p \in Providers : rec'[p] = NULL /\ disk[p] = NULL => disk'[p] = NULL
    <2>1. CASE \E ok \in {0, 1} : Flush(ok)
      BY <1>2, <2>1, FlushSaves
    <2>2. CASE UNCHANGED <<disk, saved>>
      BY <1>1, <1>2, <2>2 DEF RecordInv, RecordTypes, SettingsSaved, Unsaved, Image, Config
    <2> QED BY <2>1, <2>2
  <1>4. RecordTypes'
    BY <1>1, <1>2, <1>3 DEF RecordTypes
  <1>5. \A t \in Requests : FrameOK(t)'
    BY <1>1 DEF RecordInv, FrameOK, Refreshing, WritingBack
  <1>6. MapsApart' /\ MapsPrivate' /\ MapsSwept' /\ MapsShared'
    BY <1>1 DEF RecordInv, MapsApart, MapsPrivate, OwnsMap, MapsSwept, MapsInUse, MapsShared
  <1>7. SettingsInStep'
    BY <1>1 DEF RecordInv, SettingsInStep, Outdated, WritingBack, Config
  <1>8. \A p \in gone' : GoneOK(p)'
    BY <1>1, <1>2, <1>3 DEF RecordInv, RecordTypes, GoneOK
  <1> QED BY <1>3, <1>4, <1>5, <1>6, <1>7, <1>8 DEF RecordInv

\* A record is written back, or made.
LEMMA UpsertKeeps ==
    ASSUME RecordInv, NEW t \in Requests, NEW ok \in {0, 1}, Upsert(t, ok)
    PROVE  RecordInv'
  <1> DEFINE f == req[t]
             p == f.prov
             ptr == UpsertProvider(p, f.ptr)
             lost == /\ f.kind # "put"
                     /\ f.late = 1 \/ (f.read = NIL /\ rec[p] \notin {NIL, ptr})
             new == IF f.kind = "put" /\ ok = 1 /\ f.creds = 1
                    THEN [f EXCEPT !.pc = "creds"] ELSE Idle
  <1>1. /\ f.pc = "upsert" /\ rec' = [rec EXCEPT ![p] = ptr]
        /\ raced' = [raced EXCEPT ![p] = IF lost THEN Keys ELSE @]
        /\ want' = IF f.kind = "set" /\ f.read = NIL
                   THEN [want EXCEPT ![p][f.key] = f.cfg] ELSE want
        /\ gone' = IF f.kind = "put" THEN gone \ {p} ELSE gone
        /\ req' = [req EXCEPT ![t] = new]
        /\ maps' = Kept(maps) /\ secret' = secret /\ Flush(ok)
    BY DEF Upsert
  <1>2. /\ rec \in [Providers -> Maps \cup {NIL, NULL}] /\ maps \in [Maps -> Settings]
        /\ req \in [Requests -> ReqFrame] /\ f \in ReqFrame /\ secret \subseteq Providers
        /\ want \in [Providers -> Settings] /\ raced \in [Providers -> SUBSET Keys]
        /\ gone \subseteq Providers /\ RecordTypes
        /\ \A u \in Requests : FrameOK(u)
        /\ MapsApart /\ MapsPrivate /\ MapsShared /\ SettingsInStep
        /\ \A q \in gone : GoneOK(q)
    BY DEF RecordInv, RecordTypes
  <1>3. /\ p \in Providers /\ f.late \in {0, 1}
        /\ \/ f.kind = "put" /\ f.read = NIL /\ f.ptr = NIL
           \/ f.kind # "put" /\ f.read \in Maps /\ f.ptr = f.read
           \/ f.kind = "unset" /\ f.read = NIL /\ f.ptr = NIL
           \/ f.kind = "set" /\ f.read = NIL /\ f.ptr \in Maps /\ OwnsMap(t)
    <2>1. FrameOK(t)
      BY <1>2
    <2> QED BY <1>1, <1>2, <2>1 DEF FrameOK, WritingBack, OwnsMap, ReqFrame
  <1>4. /\ ptr \in Maps \cup {NIL}
        /\ ptr \in Maps => ptr = f.ptr \/ ptr = rec[p]
        /\ f.ptr \in Maps => ptr = f.ptr
        /\ f.ptr = NIL => ptr = IF rec[p] \in Maps THEN rec[p] ELSE NIL
    BY <1>3, Constants DEF UpsertProvider
  <1>5. /\ \A q \in Providers : rec'[q] = IF q = p THEN ptr ELSE rec[q]
        /\ rec' \in [Providers -> Maps \cup {NIL, NULL}]
    BY <1>1, <1>2, <1>3, <1>4
  <1>6. /\ new \in ReqFrame /\ new.ptr \notin Maps /\ new.read \notin Maps
        /\ new.pc \in {"creds", "idle"} /\ new.prov \in {p, NULL}
        /\ new.pc = "creds" => f.kind = "put" /\ new.prov = p /\ new.kind = "put"
        /\ new.pc = "idle" => new = Idle
    <2>1. CASE f.kind = "put" /\ ok = 1 /\ f.creds = 1
      <3>1. new = [f EXCEPT !.pc = "creds"]
        BY <2>1
      <3> HIDE DEF new
      <3>2. /\ new \in ReqFrame /\ new.pc = "creds" /\ new.ptr = f.ptr /\ new.read = f.read
            /\ new.prov = f.prov /\ new.kind = f.kind
        BY <1>2, <3>1 DEF ReqFrame, ReqPC
      <3> QED BY <1>3, <2>1, <3>2, Constants
    <2>2. CASE ~(f.kind = "put" /\ ok = 1 /\ f.creds = 1)
      <3>1. new = Idle
        BY <2>2
      <3> QED BY <3>1, IdleFrame
    <2> QED BY <2>1, <2>2
  <1>7. /\ \A u \in Requests : req'[u] = IF u = t THEN new ELSE req[u]
        /\ req' \in [Requests -> ReqFrame]
    BY <1>1, <1>2, <1>6
  <1> HIDE DEF new
  <1>8. \A m \in Maps : Held(m)' => Held(m)
    BY <1>4, <1>5, <1>6, <1>7 DEF Held
  <1>9. /\ maps' \in [Maps -> Settings] /\ MapsSwept'
        /\ \A m \in Maps : Held(m)' => maps'[m] = maps[m]
    BY <1>1, <1>2, MapsKept
  <1>10. /\ \A q \in Providers : rec'[q] \in Maps => maps'[rec'[q]] = maps[rec'[q]]
         /\ \A u \in Requests : req'[u].ptr \in Maps => maps'[req'[u].ptr] = maps[req'[u].ptr]
    BY <1>9 DEF Held
  <1>11. /\ disk' \in [Providers -> Settings \cup {NULL}] /\ saved' \in {0, 1}
         /\ SettingsSaved'
         /\ \A q \in Providers : rec'[q] = NULL /\ disk[q] = NULL => disk'[q] = NULL
    BY <1>1, <1>2, <1>5, <1>9, FlushSaves
  <1> HIDE DEF ptr
  <1>12. /\ \A q \in Providers : raced'[q] = IF q = p /\ lost THEN Keys ELSE raced[q]
         /\ raced' \in [Providers -> SUBSET Keys]
    BY <1>1, <1>2, <1>3
  <1>13. /\ want' \in [Providers -> Settings]
         /\ \A q \in Providers : q # p => want'[q] = want[q]
         /\ \A k \in Keys :
               want'[p][k] = IF f.kind = "set" /\ f.read = NIL /\ k = f.key
                             THEN f.cfg ELSE want[p][k]
         /\ f.kind = "set" /\ f.read = NIL =>
               \A k \in Keys : maps[f.ptr][k] = IF k = f.key THEN f.cfg ELSE NULL
    <2>1. CASE f.kind = "set" /\ f.read = NIL
      <3>1. maps[f.ptr] = [Nothing EXCEPT ![f.key] = f.cfg] /\ f.ptr \in Maps
        BY <1>2, <1>3, <2>1, Constants DEF MapsPrivate
      <3>2. f.key \in Keys
        BY <1>1, <1>2, <2>1 DEF FrameOK, WritingBack
      <3>3. \A k \in Keys : maps[f.ptr][k] = IF k = f.key THEN f.cfg ELSE NULL
        BY <3>1 DEF Nothing
      <3>4. f.cfg \in Strategies \cup {NULL}
        BY <1>2, <3>1, <3>2, <3>3 DEF Settings
      <3>5. want' = [want EXCEPT ![p][f.key] = f.cfg]
        BY <1>1, <2>1
      <3> QED BY <1>2, <1>3, <2>1, <3>2, <3>3, <3>4, <3>5 DEF Settings
    <2>2. CASE ~(f.kind = "set" /\ f.read = NIL)
      BY <1>1, <1>2, <2>2
    <2> QED BY <2>1, <2>2
  <1>14. RecordTypes'
    BY <1>1, <1>2, <1>5, <1>7, <1>9, <1>11, <1>12, <1>13 DEF RecordTypes
  <1>15. \A u \in Requests : FrameOK(u)'
    <2>1. FrameOK(t)'
      <3>1. CASE new = Idle
        BY <1>7, <3>1, IdleFrameOK
      <3>2. CASE new.pc = "creds"
        BY <1>3, <1>6, <1>7, <3>2 DEF FrameOK, Refreshing, WritingBack
      <3> QED BY <1>6, <3>1, <3>2
    <2> QED BY <1>2, <1>7, <2>1 DEF FrameOK, Refreshing, WritingBack
  <1>16. MapsApart'
    <2>1. \A q, r \in Providers : rec'[q] \in Maps /\ rec'[q] = rec'[r] => q = r
      BY <1>2, <1>3, <1>4, <1>5 DEF MapsApart
    <2>2. \A u \in Requests, q \in Providers :
              req'[u].ptr \in Maps /\ req'[u].ptr = rec'[q] => req'[u].prov = q
      BY <1>2, <1>3, <1>4, <1>5, <1>6, <1>7 DEF MapsApart
    <2>3. \A u, v \in Requests :
              req'[u].ptr \in Maps /\ req'[u].ptr = req'[v].ptr => req'[u].prov = req'[v].prov
      BY <1>2, <1>6, <1>7 DEF MapsApart
    <2> QED BY <2>1, <2>2, <2>3 DEF MapsApart
  <1>17. MapsPrivate'
    <2> SUFFICES ASSUME NEW u \in Requests, OwnsMap(u)'
                 PROVE  /\ \A q \in Providers : rec'[q] # req'[u].ptr
                        /\ \A v \in Requests \ {u} : req'[v].ptr # req'[u].ptr
                        /\ maps'[req'[u].ptr] = [Nothing EXCEPT ![req'[u].key] = req'[u].cfg]
      BY DEF MapsPrivate
    <2>1. u # t /\ req'[u] = req[u] /\ OwnsMap(u)
      BY <1>6, <1>7 DEF OwnsMap
    <2>2. /\ \A q \in Providers : rec[q] # req[u].ptr
          /\ \A v \in Requests \ {u} : req[v].ptr # req[u].ptr
          /\ maps[req[u].ptr] = [Nothing EXCEPT ![req[u].key] = req[u].cfg]
      BY <1>2, <2>1 DEF MapsPrivate
    <2>3. req[u].ptr \in Maps
      BY <1>2, <2>1 DEF FrameOK, OwnsMap, WritingBack
    <2>4. ptr # req[u].ptr
      BY <1>3, <1>4, <2>1, <2>2, <2>3
    <2> QED BY <1>5, <1>6, <1>7, <1>10, <2>1, <2>2, <2>3, <2>4
  <1>18. ASSUME raced'[p] # Keys
         PROVE  /\ raced'[p] = raced[p] /\ ~lost
                /\ f.kind # "put" => f.late = 0
                /\ f.read \in Maps => rec[p] = ptr
                /\ f.kind = "set" /\ f.read = NIL => rec[p] = NIL
    <2>1. raced'[p] = raced[p] /\ ~lost
      BY <1>3, <1>12, <1>18
    <2>2. f.kind # "put" => f.late = 0
      BY <1>3, <2>1
    <2>3. f.read \in Maps => rec[p] = ptr
      BY <1>2, <1>3, <1>4, <1>18, <2>1, <2>2, Constants DEF MapsShared
    <2>4. f.kind = "set" /\ f.read = NIL => rec[p] = NIL
      BY <1>2, <1>3, <1>4, <2>1, Constants DEF MapsPrivate
    <2> QED BY <2>1, <2>2, <2>3, <2>4
  <1>19. MapsShared'
    <2> SUFFICES ASSUME NEW u \in Requests, req'[u].read \in Maps, req'[u].late = 0,
                        raced'[req'[u].prov] # Keys
                 PROVE  rec'[req'[u].prov] = req'[u].read
      BY DEF MapsShared
    <2>1. u # t /\ req'[u] = req[u]
      BY <1>6, <1>7
    <2>2. req[u].prov \in Providers
      BY <1>2, <2>1, IdleFrame DEF FrameOK
    <2>3. raced[req[u].prov] # Keys
      BY <1>12, <2>1, <2>2
    <2>4. rec[req[u].prov] = req[u].read
      BY <1>2, <2>1, <2>3 DEF MapsShared
    <2>5. CASE req[u].prov # p
      BY <1>5, <2>1, <2>2, <2>4, <2>5
    <2>6. CASE req[u].prov = p
      <3>1. rec[p] \in Maps
        BY <2>1, <2>4, <2>6
      <3>2. ptr = rec[p]
        BY <1>3, <1>4, <1>18, <2>1, <2>6, <3>1, Constants
      <3> QED BY <1>3, <1>5, <2>1, <2>4, <2>6, <3>2
    <2> QED BY <2>5, <2>6
  <1>20. SettingsInStep'
    <2> SUFFICES ASSUME NEW q \in Providers, NEW k \in Keys, k \notin raced'[q],
                        ~Outdated(q, k)'
                 PROVE  Config(q)'[k] = want'[q][k]
      BY DEF SettingsInStep
    <2>1. CASE q # p
      <3>1. ~Outdated(q, k)
        BY <1>7, <2>1 DEF Outdated, WritingBack
      <3>2. Config(q)[k] = want[q][k]
        BY <1>2, <1>12, <2>1, <3>1 DEF SettingsInStep
      <3> QED BY <1>5, <1>10, <1>13, <2>1, <3>2 DEF Config
    <2>2. CASE q = p
      <3>1. raced'[p] # Keys
        BY <2>2
      <3>2. ~Outdated(p, k)
        BY <1>7, <1>18, <2>2, <3>1 DEF Outdated, WritingBack
      <3>3. Config(p)[k] = want[p][k]
        BY <1>2, <1>3, <1>18, <2>2, <3>1, <3>2 DEF SettingsInStep
      <3>4. CASE f.kind = "set" /\ f.read = NIL
        <4>1. rec[p] = NIL /\ ptr = f.ptr /\ ptr \in Maps
          BY <1>3, <1>4, <1>18, <3>1, <3>4, Constants
        <4>2. want[p][k] = NULL
          BY <3>3, <4>1, Constants DEF Config, Nothing
        <4>3. Config(q)' = maps[f.ptr]
          BY <1>3, <1>5, <1>10, <2>2, <4>1 DEF Config
        <4> QED BY <1>13, <2>2, <3>4, <4>2, <4>3
      <3>5. CASE ~(f.kind = "set" /\ f.read = NIL)
        <4>1. want'[p][k] = want[p][k]
          BY <1>13, <3>5
        <4>2. IF rec[p] \in Maps THEN ptr = rec[p] ELSE ptr \notin Maps
          BY <1>3, <1>4, <1>18, <3>1, <3>5, Constants
        <4>3. Config(q)' = Config(q)
          BY <1>3, <1>5, <1>10, <2>2, <4>2 DEF Config
        <4> QED BY <2>2, <3>3, <4>1, <4>3
      <3> QED BY <3>4, <3>5
    <2> QED BY <2>1, <2>2
  <1>21. ASSUME NEW q \in gone' PROVE GoneOK(q)'
    <2>1. q \in gone /\ GoneOK(q) /\ q \in Providers
      BY <1>1, <1>2
    <2>2. q # p
      BY <1>1, <2>1 DEF GoneOK
    <2>3. new.prov # q
      BY <1>6, <2>1, <2>2, Constants
    <2> QED BY <1>1, <1>5, <1>7, <1>11, <2>1, <2>2, <2>3 DEF GoneOK
  <1> QED BY <1>9, <1>11, <1>14, <1>15, <1>16, <1>17, <1>19, <1>20, <1>21 DEF RecordInv

\* A record is deleted.
LEMMA DeleteProviderKeeps ==
    ASSUME RecordInv, NEW t \in Requests, NEW p \in Providers, NEW ok \in {0, 1},
           DeleteProvider(t, p, ok)
    PROVE  RecordInv'
  <1> DEFINE purge == [Idle EXCEPT !.pc = "purge", !.prov = p, !.kind = "delete"]
             new(u) == CASE u = t /\ ok = 1 -> purge
                         [] u # t /\ req[u].prov = p -> [req[u] EXCEPT !.late = 1]
                         [] OTHER -> req[u]
  <1>1. /\ rec' = [rec EXCEPT ![p] = NULL] /\ want' = [want EXCEPT ![p] = Nothing]
        /\ raced' = [raced EXCEPT ![p] = {}] /\ req' = [u \in Requests |-> new(u)]
        /\ maps' = Kept(maps) /\ secret' = secret /\ gone' = gone /\ Flush(ok)
        /\ Start(t, "delete")
    BY DEF DeleteProvider
  <1>2. /\ rec \in [Providers -> Maps \cup {NIL, NULL}] /\ maps \in [Maps -> Settings]
        /\ req \in [Requests -> ReqFrame] /\ secret \subseteq Providers
        /\ want \in [Providers -> Settings] /\ raced \in [Providers -> SUBSET Keys]
        /\ gone \subseteq Providers /\ RecordTypes
        /\ \A u \in Requests : FrameOK(u)
        /\ MapsApart /\ MapsPrivate /\ MapsShared /\ SettingsInStep
        /\ \A q \in gone : GoneOK(q)
    BY DEF RecordInv, RecordTypes
  <1>3. req[t] = Idle
    BY <1>1, StartsIdle
  <1>4. /\ purge \in ReqFrame /\ purge.pc = "purge" /\ purge.kind = "delete"
        /\ purge.prov = p /\ purge.read = NULL /\ purge.ptr = NULL
    BY DEF Idle, ReqFrame, ReqPC, RequestKinds
  <1> HIDE DEF purge
  <1>5. req'[t] = IF ok = 1 THEN purge ELSE Idle
    BY <1>1, <1>3
  <1>6. ASSUME NEW u \in Requests, u # t
        PROVE  /\ req'[u] \in ReqFrame /\ req'[u].pc = req[u].pc /\ req'[u].kind = req[u].kind
               /\ req'[u].prov = req[u].prov /\ req'[u].key = req[u].key
               /\ req'[u].cfg = req[u].cfg /\ req'[u].read = req[u].read
               /\ req'[u].ptr = req[u].ptr
               /\ req'[u].late = IF req[u].prov = p THEN 1 ELSE req[u].late
               /\ req[u].pc = "idle" => req'[u] = req[u]
    <2>1. req[u] \in ReqFrame
      BY <1>2
    <2>2. CASE req[u].prov = p
      <3>1. req'[u] = [req[u] EXCEPT !.late = 1]
        BY <1>1, <1>6, <2>2
      <3>2. req[u].pc # "idle"
        BY <1>2, <2>2, IdleFrame DEF FrameOK
      <3> QED BY <2>1, <2>2, <3>1, <3>2 DEF ReqFrame
    <2>3. CASE req[u].prov # p
      <3>1. req'[u] = req[u]
        BY <1>1, <1>6, <2>3
      <3> QED BY <2>1, <2>3, <3>1
    <2> QED BY <2>2, <2>3
  <1>7. req' \in [Requests -> ReqFrame]
    <2>1. \A u \in Requests : req'[u] \in ReqFrame
      BY <1>4, <1>5, <1>6, IdleFrame
    <2> QED BY <1>1, <2>1
  <1> HIDE DEF new
  <1>8. /\ req'[t].ptr \notin Maps /\ req'[t].read \notin Maps
        /\ req'[t].pc \in {"purge", "idle"} /\ req'[t].prov \in {p, NULL}
        /\ req'[t].pc = "idle" => req'[t].prov = NULL
    BY <1>4, <1>5, IdleFrame, Constants
  <1>9. /\ \A q \in Providers : rec'[q] = IF q = p THEN NULL ELSE rec[q]
        /\ rec' \in [Providers -> Maps \cup {NIL, NULL}]
        /\ \A q \in Providers : want'[q] = IF q = p THEN Nothing ELSE want[q]
        /\ want' \in [Providers -> Settings]
        /\ \A q \in Providers : raced'[q] = IF q = p THEN {} ELSE raced[q]
        /\ raced' \in [Providers -> SUBSET Keys]
    <2>1. Nothing \in Settings
      BY DEF Nothing, Settings
    <2> QED BY <1>1, <1>2, <2>1
  <1>10. /\ maps' \in [Maps -> Settings] /\ MapsSwept'
         /\ \A q \in Providers : rec'[q] \in Maps => maps'[rec'[q]] = maps[rec'[q]]
         /\ \A u \in Requests : req'[u].ptr \in Maps => maps'[req'[u].ptr] = maps[req'[u].ptr]
    BY <1>1, <1>2, MapsKept DEF Held
  <1>11. /\ disk' \in [Providers -> Settings \cup {NULL}] /\ saved' \in {0, 1}
         /\ SettingsSaved'
         /\ \A q \in Providers : rec'[q] = NULL /\ disk[q] = NULL => disk'[q] = NULL
    BY <1>1, <1>2, <1>9, <1>10, FlushSaves
  <1>12. RecordTypes'
    BY <1>1, <1>2, <1>7, <1>9, <1>10, <1>11 DEF RecordTypes
  <1>13. ASSUME NEW u \in Requests PROVE FrameOK(u)'
    <2>1. CASE u = t
      <3>1. CASE ok = 1
        BY <1>4, <1>5, <2>1, <3>1, Constants DEF FrameOK, Refreshing, WritingBack
      <3>2. CASE ok # 1
        BY <1>5, <2>1, <3>2, IdleFrameOK
      <3> QED BY <3>1, <3>2
    <2>2. CASE u # t
      BY <1>2, <1>6, <2>2 DEF FrameOK, Refreshing, WritingBack
    <2> QED BY <2>1, <2>2
  <1>14. MapsApart'
    <2>1. \A q, r \in Providers : rec'[q] \in Maps /\ rec'[q] = rec'[r] => q = r
      BY <1>2, <1>9, Constants DEF MapsApart
    <2>2. \A u \in Requests, q \in Providers :
              req'[u].ptr \in Maps /\ req'[u].ptr = rec'[q] => req'[u].prov = q
      <3> SUFFICES ASSUME NEW u \in Requests, NEW q \in Providers,
                          req'[u].ptr \in Maps, req'[u].ptr = rec'[q]
                   PROVE  req'[u].prov = q
        OBVIOUS
      <3>1. u # t /\ rec[q] = rec'[q]
        BY <1>8, <1>9, Constants
      <3>2. req'[u].ptr = req[u].ptr /\ req'[u].prov = req[u].prov
        BY <1>6, <3>1
      <3> QED BY <1>2, <3>1, <3>2 DEF MapsApart
    <2>3. \A u, v \in Requests :
              req'[u].ptr \in Maps /\ req'[u].ptr = req'[v].ptr => req'[u].prov = req'[v].prov
      BY <1>2, <1>6, <1>8 DEF MapsApart
    <2> QED BY <2>1, <2>2, <2>3 DEF MapsApart
  <1>15. MapsPrivate'
    <2> SUFFICES ASSUME NEW u \in Requests, OwnsMap(u)'
                 PROVE  /\ \A q \in Providers : rec'[q] # req'[u].ptr
                        /\ \A v \in Requests \ {u} : req'[v].ptr # req'[u].ptr
                        /\ maps'[req'[u].ptr] = [Nothing EXCEPT ![req'[u].key] = req'[u].cfg]
      BY DEF MapsPrivate
    <2>1. u # t /\ OwnsMap(u)
      BY <1>6, <1>8 DEF OwnsMap
    <2>2. /\ \A q \in Providers : rec[q] # req[u].ptr
          /\ \A v \in Requests \ {u} : req[v].ptr # req[u].ptr
          /\ maps[req[u].ptr] = [Nothing EXCEPT ![req[u].key] = req[u].cfg]
      BY <1>2, <2>1 DEF MapsPrivate
    <2>3. req[u].ptr \in Maps
      BY <1>2, <2>1 DEF FrameOK, OwnsMap, WritingBack
    <2>4. /\ req'[u].ptr = req[u].ptr /\ req'[u].key = req[u].key /\ req'[u].cfg = req[u].cfg
          /\ maps'[req'[u].ptr] = maps[req[u].ptr]
      BY <1>6, <1>10, <2>1, <2>3
    <2>5. \A v \in Requests \ {u} : req'[v].ptr # req'[u].ptr
      BY <1>6, <1>8, <2>2, <2>3, <2>4
    <2>6. \A q \in Providers : rec'[q] # req'[u].ptr
      BY <1>9, <2>2, <2>3, <2>4, Constants
    <2> QED BY <2>2, <2>4, <2>5, <2>6
  <1>16. MapsShared'
    <2> SUFFICES ASSUME NEW u \in Requests, req'[u].read \in Maps, req'[u].late = 0,
                        raced'[req'[u].prov] # Keys
                 PROVE  rec'[req'[u].prov] = req'[u].read
      BY DEF MapsShared
    <2>1. u # t /\ req[u].prov # p /\ req'[u].prov = req[u].prov /\ req[u].late = 0
          /\ req'[u].read = req[u].read
      BY <1>6, <1>8
    <2>2. req[u].prov \in Providers
      <3>1. req[u].pc # "idle"
        BY <1>2, <2>1, IdleFrame DEF FrameOK
      <3> QED BY <1>2, <3>1 DEF FrameOK
    <2> QED BY <1>2, <1>9, <2>1, <2>2 DEF MapsShared
  <1>17. SettingsInStep'
    <2> SUFFICES ASSUME NEW q \in Providers, NEW k \in Keys, k \notin raced'[q],
                        ~Outdated(q, k)'
                 PROVE  Config(q)'[k] = want'[q][k]
      BY DEF SettingsInStep
    <2>1. CASE q # p
      <3>1. ~Outdated(q, k)
        <4> SUFFICES ASSUME NEW u \in Requests, WritingBack(u), req[u].late = 1,
                            req[u].prov = q, req[u].key = k
                     PROVE  FALSE
          BY DEF Outdated
        <4>1. u # t
          BY <1>3, IdleFrame DEF WritingBack
        <4> QED BY <1>6, <2>1, <4>1 DEF Outdated, WritingBack
      <3>2. Config(q)[k] = want[q][k]
        BY <1>2, <1>9, <2>1, <3>1 DEF SettingsInStep
      <3> QED BY <1>9, <1>10, <2>1, <3>2 DEF Config
    <2>2. CASE q = p
      BY <1>9, <2>2, Constants DEF Config
    <2> QED BY <2>1, <2>2
  <1>18. ASSUME NEW q \in gone' PROVE GoneOK(q)'
    <2>1. q \in gone /\ GoneOK(q) /\ q \in Providers
      BY <1>1, <1>2
    <2>2. rec'[q] = NULL /\ disk'[q] = NULL /\ q \notin secret'
      BY <1>1, <1>9, <1>11, <2>1 DEF GoneOK
    <2>3. ASSUME NEW u \in Requests, req'[u].prov = q
          PROVE  \/ req'[u].pc = "upsert" /\ req'[u].kind = "put"
                 \/ req'[u].pc = "purge"
      BY <1>6, <1>8, <2>1, <2>3, Constants DEF GoneOK
    <2> QED BY <2>2, <2>3 DEF GoneOK
  <1> QED BY <1>10, <1>11, <1>12, <1>13, <1>14, <1>15, <1>16, <1>17, <1>18 DEF RecordInv

\* A setting is changed in a shared map, or in a new one.
LEMMA MutateKeeps ==
    ASSUME RecordInv, NEW t \in Requests, Mutate(t)
    PROVE  RecordInv'
  <1> DEFINE f == req[t]
             p == f.prov
             key == f.key
             ptr == IF f.ptr = NIL /\ f.kind # "unset" THEN FreshMap ELSE f.ptr
             s == IF f.kind = "unset" THEN NULL ELSE f.cfg
             mid == [f EXCEPT !.pc = "upsert"]
             new == [mid EXCEPT !.ptr = ptr]
  <1>1. /\ f.pc = "mutate"
        /\ maps' = IF ptr \in Maps THEN [maps EXCEPT ![ptr][key] = s] ELSE maps
        /\ req' = [req EXCEPT ![t].pc = "upsert", ![t].ptr = ptr]
        /\ want' = IF f.kind = "rotate" \/ f.read = NIL THEN want
                   ELSE [want EXCEPT ![p][key] = s]
        /\ raced' = IF f.kind = "rotate" /\ maps[ptr][key] # s
                    THEN [raced EXCEPT ![p] = @ \cup {key}] ELSE raced
        /\ rec' = rec /\ secret' = secret /\ gone' = gone /\ disk' = disk /\ saved' = saved
    BY DEF Mutate, Change, fileVars
  <1>2. /\ rec \in [Providers -> Maps \cup {NIL, NULL}] /\ maps \in [Maps -> Settings]
        /\ req \in [Requests -> ReqFrame] /\ f \in ReqFrame /\ secret \subseteq Providers
        /\ want \in [Providers -> Settings] /\ raced \in [Providers -> SUBSET Keys]
        /\ gone \subseteq Providers /\ RecordTypes
        /\ disk \in [Providers -> Settings \cup {NULL}] /\ saved \in {0, 1}
        /\ \A u \in Requests : FrameOK(u)
        /\ MapsApart /\ MapsPrivate /\ MapsSwept /\ MapsShared
        /\ SettingsInStep /\ SettingsSaved
        /\ \A q \in gone : GoneOK(q)
    BY DEF RecordInv, RecordTypes
  <1>3. /\ p \in Providers /\ p \notin gone /\ key \in Keys /\ s \in Strategies \cup {NULL}
        /\ f.late \in {0, 1} /\ f.ptr = f.read /\ f.kind \in {"set", "unset", "rotate"}
        /\ \/ f.ptr \in Maps /\ ptr = f.ptr
           \/ f.ptr = NIL /\ f.kind = "unset" /\ ptr = NIL
           \/ f.ptr = NIL /\ f.kind = "set" /\ ptr = FreshMap /\ s = f.cfg
    <2>1. FrameOK(t)
      BY <1>2
    <2>2. p \in Providers /\ p \notin gone /\ f.ptr = f.read
      BY <1>1, WorkedOnIsNotGone DEF Refreshing
    <2> QED BY <1>1, <1>2, <2>1, <2>2, Constants DEF FrameOK, Refreshing, ReqFrame
  <1>4. f.ptr = NIL => FreshMap \in Maps /\ FreshMap \notin MapsInUse
    BY FreeMap
  <1>5. /\ ptr \in Maps \cup {NIL}
        /\ f.ptr = NIL /\ ptr \in Maps => ptr \notin MapsInUse /\ maps[ptr] = Nothing
                                          /\ f.kind = "set" /\ s = f.cfg
        /\ f.ptr = NIL /\ ptr \notin Maps => f.kind = "unset"
        /\ f.ptr \in Maps => ptr = f.ptr
    BY <1>2, <1>3, <1>4, Constants DEF MapsSwept
  <1> HIDE DEF ptr, s
  <1>6. /\ mid \in ReqFrame /\ mid.pc = "upsert" /\ mid.kind = f.kind /\ mid.prov = p
        /\ mid.key = key /\ mid.cfg = f.cfg /\ mid.read = f.read /\ mid.late = f.late
    BY <1>2 DEF ReqFrame, ReqPC
  <1>7. req' = [req EXCEPT ![t] = new]
    BY <1>1, <1>2
  <1> HIDE DEF mid
  <1>8. /\ new \in ReqFrame /\ new.pc = "upsert" /\ new.kind = f.kind /\ new.prov = p
        /\ new.key = key /\ new.cfg = f.cfg /\ new.read = f.read /\ new.late = f.late
        /\ new.ptr = ptr
    BY <1>5, <1>6 DEF ReqFrame
  <1> HIDE DEF new
  <1>9. /\ \A u \in Requests : req'[u] = IF u = t THEN new ELSE req[u]
        /\ req' \in [Requests -> ReqFrame]
    BY <1>2, <1>7, <1>8
  <1>10. /\ \A m \in Maps : m # ptr => maps'[m] = maps[m]
         /\ ptr \in Maps => maps'[ptr] = [maps[ptr] EXCEPT ![key] = s]
         /\ maps' \in [Maps -> Settings]
    BY <1>1, <1>2, <1>3 DEF Settings
  <1>11. /\ \A q \in Providers, k \in Keys : raced[q] \subseteq raced'[q]
         /\ raced' \in [Providers -> SUBSET Keys]
         /\ f.kind = "rotate" /\ maps[ptr][key] # s => key \in raced'[p]
    BY <1>1, <1>2, <1>3
  <1>12. /\ want' \in [Providers -> Settings]
         /\ \A q \in Providers : q # p => want'[q] = want[q]
         /\ \A k \in Keys :
               want'[p][k] = IF f.kind # "rotate" /\ f.read # NIL /\ k = key
                             THEN s ELSE want[p][k]
    BY <1>1, <1>2, <1>3 DEF Settings
  <1>13. RecordTypes'
    BY <1>1, <1>2, <1>9, <1>10, <1>11, <1>12 DEF RecordTypes
  <1>14. ASSUME NEW u \in Requests PROVE FrameOK(u)'
    <2>1. CASE u = t
      BY <1>3, <1>5, <1>8, <1>9, <2>1, Constants DEF FrameOK, Refreshing, WritingBack
    <2>2. CASE u # t
      BY <1>2, <1>9, <2>2 DEF FrameOK, Refreshing, WritingBack
    <2> QED BY <2>1, <2>2
  <1>15. /\ \A q \in Providers : ptr \in Maps /\ rec[q] = ptr => q = p /\ f.ptr = ptr
         /\ \A u \in Requests : ptr \in Maps /\ u # t /\ req[u].ptr = ptr
               => req[u].prov = p /\ f.ptr = ptr
    BY <1>2, <1>3, <1>5 DEF MapsApart, MapsInUse
  <1>16. MapsApart'
    <2>1. \A u \in Requests, q \in Providers :
              req'[u].ptr \in Maps /\ req'[u].ptr = rec'[q] => req'[u].prov = q
      BY <1>1, <1>2, <1>8, <1>9, <1>15 DEF MapsApart
    <2>2. \A u, v \in Requests :
              req'[u].ptr \in Maps /\ req'[u].ptr = req'[v].ptr => req'[u].prov = req'[v].prov
      BY <1>2, <1>8, <1>9, <1>15 DEF MapsApart
    <2> QED BY <1>1, <1>2, <2>1, <2>2 DEF MapsApart
  <1>17. MapsPrivate'
    <2> SUFFICES ASSUME NEW u \in Requests, OwnsMap(u)'
                 PROVE  /\ \A q \in Providers : rec[q] # req'[u].ptr
                        /\ \A v \in Requests \ {u} : req'[v].ptr # req'[u].ptr
                        /\ maps'[req'[u].ptr] = [Nothing EXCEPT ![req'[u].key] = req'[u].cfg]
      BY <1>1 DEF MapsPrivate
    <2>1. CASE u = t
      <3>1. f.kind = "set" /\ f.ptr = NIL /\ ptr \in Maps /\ req'[u] = new
        BY <1>3, <1>5, <1>8, <1>9, <2>1 DEF OwnsMap
      <3>2. maps[ptr] = Nothing /\ s = f.cfg /\ NIL \notin Maps
        BY <1>5, <3>1, Constants
      <3>3. /\ \A q \in Providers : rec[q] # ptr
            /\ \A v \in Requests \ {t} : req[v].ptr # ptr
        BY <1>15, <3>1, <3>2
      <3>4. maps'[ptr] = [Nothing EXCEPT ![key] = f.cfg]
        BY <1>10, <3>1, <3>2
      <3>5. maps'[req'[u].ptr] = [Nothing EXCEPT ![req'[u].key] = req'[u].cfg]
        BY <1>8, <3>1, <3>4
      <3>6. /\ \A q \in Providers : rec[q] # req'[u].ptr
            /\ \A v \in Requests \ {u} : req'[v].ptr # req'[u].ptr
        BY <1>8, <1>9, <2>1, <3>1, <3>3
      <3> QED BY <3>5, <3>6
    <2>2. CASE u # t
      <3>1. req'[u] = req[u] /\ OwnsMap(u)
        BY <1>9, <2>2 DEF OwnsMap
      <3>2. /\ \A q \in Providers : rec[q] # req[u].ptr
            /\ \A v \in Requests \ {u} : req[v].ptr # req[u].ptr
            /\ maps[req[u].ptr] = [Nothing EXCEPT ![req[u].key] = req[u].cfg]
        BY <1>2, <3>1 DEF MapsPrivate
      <3>3. req[u].ptr \in Maps
        BY <1>2, <3>1 DEF FrameOK, OwnsMap, WritingBack
      <3>4. ptr # req[u].ptr
        BY <1>5, <1>15, <2>2, <3>2, <3>3
      <3> QED BY <1>8, <1>9, <1>10, <2>2, <3>1, <3>2, <3>3, <3>4
    <2> QED BY <2>1, <2>2
  <1>18. MapsSwept'
    <2> SUFFICES ASSUME NEW m \in Maps, m \notin MapsInUse' PROVE maps'[m] = Nothing
      BY DEF MapsSwept
    <2>1. m # ptr
      BY <1>8, <1>9 DEF MapsInUse
    <2>2. \A u \in Requests : req[u].ptr # m /\ req[u].read # m
      BY <1>3, <1>5, <1>8, <1>9, <2>1, Constants DEF MapsInUse
    <2>3. \A q \in Providers : rec[q] # m
      BY <1>1 DEF MapsInUse
    <2>4. m \notin MapsInUse
      BY <2>2, <2>3 DEF MapsInUse
    <2> QED BY <1>2, <1>10, <2>1, <2>4 DEF MapsSwept
  <1>19. MapsShared'
    <2> SUFFICES ASSUME NEW u \in Requests, req'[u].read \in Maps, req'[u].late = 0,
                        raced'[req'[u].prov] # Keys
                 PROVE  rec[req'[u].prov] = req'[u].read
      BY <1>1 DEF MapsShared
    <2>1. req'[u].read = req[u].read /\ req'[u].late = req[u].late /\ req'[u].prov = req[u].prov
      BY <1>8, <1>9
    <2>2. req[u].prov \in Providers
      <3>1. req[u].pc # "idle"
        BY <1>2, <2>1, IdleFrame DEF FrameOK
      <3> QED BY <1>2, <3>1 DEF FrameOK
    <2>3. raced[req[u].prov] # Keys
      BY <1>1, <1>2, <1>3, <2>1, <2>2
    <2> QED BY <1>2, <2>1, <2>3 DEF MapsShared
  <1>20. ASSUME NEW q \in Providers, q # p PROVE Config(q)' = Config(q)
    BY <1>1, <1>10, <1>15, <1>20 DEF Config
  <1>21. SettingsInStep'
    <2> SUFFICES ASSUME NEW q \in Providers, NEW k \in Keys, k \notin raced'[q],
                        ~Outdated(q, k)'
                 PROVE  Config(q)'[k] = want'[q][k]
      BY DEF SettingsInStep
    <2>1. ~Outdated(q, k)
      BY <1>1, <1>9 DEF Outdated, WritingBack
    <2>2. k \notin raced[q]
      BY <1>11
    <2>3. Config(q)[k] = want[q][k]
      BY <1>2, <2>1, <2>2 DEF SettingsInStep
    <2>4. CASE q # p
      BY <1>12, <1>20, <2>3, <2>4
    <2>5. CASE q = p /\ (rec[q] \notin Maps \/ rec[q] # ptr)
      <3>1. Config(q)' = Config(q)
        BY <1>1, <1>10, <2>5 DEF Config
      <3>2. want'[q][k] = want[q][k]
        <4> SUFFICES ASSUME f.kind # "rotate", f.read # NIL, k = key PROVE FALSE
          BY <1>12, <2>5
        <4>1. f.read \in Maps /\ ptr = f.read
          BY <1>3, <1>5
        <4>2. f.late = 0
          BY <1>3, <1>8, <1>9, <2>5 DEF Outdated, WritingBack
        <4>3. rec[p] = f.read
          BY <1>2, <2>2, <2>5, <4>1, <4>2 DEF MapsShared
        <4> QED BY <2>5, <4>1, <4>3
      <3> QED BY <2>3, <3>1, <3>2
    <2>6. CASE q = p /\ rec[q] \in Maps /\ rec[q] = ptr
      <3>1. f.ptr = ptr /\ f.read \in Maps /\ f.read # NIL
        BY <1>3, <1>15, <2>6, Constants
      <3>2. Config(q)' = maps'[ptr] /\ Config(q) = maps[ptr]
        BY <1>1, <2>6 DEF Config
      <3>3. maps'[ptr][k] = IF k = key THEN s ELSE maps[ptr][k]
        BY <1>2, <1>3, <1>10, <2>6 DEF Settings
      <3>4. CASE k # key
        BY <1>12, <2>3, <2>6, <3>2, <3>3, <3>4
      <3>5. CASE k = key /\ f.kind = "rotate"
        <4>1. maps[ptr][key] = s
          BY <1>11, <2>6, <3>5
        <4> QED BY <1>12, <2>3, <2>6, <3>2, <3>3, <3>5, <4>1
      <3>6. CASE k = key /\ f.kind # "rotate"
        BY <1>12, <2>6, <3>1, <3>2, <3>3, <3>6
      <3> QED BY <3>4, <3>5, <3>6
    <2> QED BY <2>4, <2>5, <2>6
  <1>22. SettingsSaved'
    <2> SUFFICES ASSUME NEW q \in Providers, saved = 1, ~Unsaved(q)'
                 PROVE  disk[q] = Image(q)'
      BY <1>1 DEF SettingsSaved
    <2>1. q # p
      BY <1>8, <1>9 DEF Unsaved
    <2>2. ~Unsaved(q)
      BY <1>1, <1>9 DEF Unsaved
    <2>3. disk[q] = Image(q)
      BY <1>2, <2>2 DEF SettingsSaved
    <2> QED BY <1>1, <1>20, <2>1, <2>3 DEF Image
  <1>23. ASSUME NEW q \in gone' PROVE GoneOK(q)'
    <2>1. q \in gone /\ GoneOK(q) /\ q # p
      BY <1>1, <1>2, <1>3
    <2> QED BY <1>1, <1>8, <1>9, <2>1 DEF GoneOK
  <1> QED BY <1>13, <1>14, <1>16, <1>17, <1>18, <1>19, <1>21, <1>22, <1>23 DEF RecordInv

-----------------------------------------------------------------------------
(* The start, and the start again.                                         *)

\* state.json can be loaded: there is a map for each record that has settings.
LEMMA RestartFindsMaps ==
    ASSUME RecordInv
    PROVE  \E new \in [Providers -> Maps \cup {NIL, NULL}] :
              \A p, q \in Providers :
                 /\ new[p] = NULL <=> disk[p] = NULL
                 /\ new[p] = NIL <=> disk[p] = Nothing
                 /\ new[p] \in Maps /\ new[p] = new[q] => p = q
  <1>1. PICK g \in [Providers -> Maps] : \A x, y \in Providers : g[x] = g[y] => x = y
    <2>1. /\ Cardinality(Providers) \in Nat /\ Cardinality(Requests) \in Nat
          /\ Cardinality(Maps) \in Nat
      BY MemoryAssumption, FS_CardinalityType
    <2>2. Cardinality(Providers) <= Cardinality(Maps)
      BY <2>1, MemoryAssumption
    <2>3. IsFiniteSet(Providers) /\ IsFiniteSet(Maps)
      BY MemoryAssumption
    <2> QED BY <2>2, <2>3, SmallerMapsInto
  <1> DEFINE new == [p \in Providers |-> IF disk[p] = NULL THEN NULL
                                         ELSE IF disk[p] = Nothing THEN NIL ELSE g[p]]
  <1>2. Nothing # NULL
    BY Constants DEF Settings, Nothing
  <1>3. new \in [Providers -> Maps \cup {NIL, NULL}]
    OBVIOUS
  <1>4. \A p \in Providers : g[p] \in Maps /\ g[p] # NIL /\ g[p] # NULL
    BY Constants
  <1>5. \A p, q \in Providers : /\ new[p] = NULL <=> disk[p] = NULL
                                /\ new[p] = NIL <=> disk[p] = Nothing
                                /\ new[p] \in Maps /\ new[p] = new[q] => p = q
    BY <1>1, <1>2, <1>4, Constants
  <1> QED BY <1>3, <1>5

\* The records are what state.json says.
LEMMA RestartLoads ==
    ASSUME RecordInv, NEW cap, Restart(cap)
    PROVE  RecordInv'
  <1> DEFINE Good(new) == \A p, q \in Providers :
                             /\ new[p] = NULL <=> disk[p] = NULL
                             /\ new[p] = NIL <=> disk[p] = Nothing
                             /\ new[p] \in Maps /\ new[p] = new[q] => p = q
  <1>1. /\ rec' = CHOOSE new \in [Providers -> Maps \cup {NIL, NULL}] : Good(new)
        /\ maps' = [m \in Maps |-> IF \E p \in Providers : rec'[p] = m
                                   THEN disk[CHOOSE p \in Providers : rec'[p] = m]
                                   ELSE Nothing]
        /\ req' = [t \in Requests |-> Idle]
        /\ want' = [p \in Providers |-> IF disk[p] = NULL THEN Nothing ELSE disk[p]]
        /\ raced' = [p \in Providers |-> {}]
        /\ saved' = 1 /\ disk' = disk /\ secret' = secret /\ gone' = gone
    BY DEF Restart
  <1>2. \E new \in [Providers -> Maps \cup {NIL, NULL}] : Good(new)
    BY RestartFindsMaps
  <1>3. rec' \in [Providers -> Maps \cup {NIL, NULL}] /\ Good(rec')
    <2> HIDE DEF Good
    <2> QED BY <1>1, <1>2
  <1>4. /\ disk \in [Providers -> Settings \cup {NULL}] /\ secret \subseteq Providers
        /\ gone \subseteq Providers /\ \A p \in gone : GoneOK(p)
    BY DEF RecordInv, RecordTypes
  <1>5. Nothing \in Settings /\ Nothing # NULL
    BY Constants DEF Settings, Nothing
  <1>6. ASSUME NEW p \in Providers, rec'[p] \in Maps
        PROVE  maps'[rec'[p]] = disk[p] /\ disk[p] \in Settings /\ disk[p] # NULL
    <2> DEFINE q == CHOOSE r \in Providers : rec'[r] = rec'[p]
    <2>1. q \in Providers /\ rec'[q] = rec'[p]
      OBVIOUS
    <2>2. maps'[rec'[p]] = disk[q]
      BY <1>1, <1>6
    <2> HIDE DEF q
    <2>3. q = p
      BY <1>3, <1>6, <2>1
    <2>4. rec'[p] # NULL
      BY <1>6, Constants
    <2> QED BY <1>3, <1>4, <2>2, <2>3, <2>4
  <1>7. maps' \in [Maps -> Settings]
    <2>1. ASSUME NEW m \in Maps PROVE maps'[m] \in Settings
      <3>1. CASE \E p \in Providers : rec'[p] = m
        BY <1>6, <2>1, <3>1
      <3>2. CASE ~\E p \in Providers : rec'[p] = m
        BY <1>1, <1>5, <3>2
      <3> QED BY <3>1, <3>2
    <2> QED BY <1>1, <2>1
  <1>8. /\ req' \in [Requests -> ReqFrame] /\ \A t \in Requests : req'[t] = Idle
        /\ want' \in [Providers -> Settings]
        /\ \A p \in Providers : want'[p] = IF disk[p] = NULL THEN Nothing ELSE disk[p]
        /\ raced' \in [Providers -> SUBSET Keys]
    <2>1. req' \in [Requests -> ReqFrame] /\ \A t \in Requests : req'[t] = Idle
      BY <1>1, IdleFrame
    <2>2. /\ want' \in [Providers -> Settings]
          /\ \A p \in Providers : want'[p] = IF disk[p] = NULL THEN Nothing ELSE disk[p]
      BY <1>1, <1>4, <1>5
    <2> QED BY <1>1, <2>1, <2>2
  <1>9. ASSUME NEW p \in Providers
        PROVE  Config(p)' = want'[p] /\ Image(p)' = disk[p]
    <2>1. CASE rec'[p] \in Maps
      BY <1>6, <1>8, <2>1, Constants DEF Config, Image
    <2>2. CASE rec'[p] = NIL
      BY <1>3, <1>5, <1>8, <2>2, Constants DEF Config, Image
    <2>3. CASE rec'[p] = NULL
      BY <1>3, <1>8, <2>3, Constants DEF Config, Image
    <2> QED BY <1>3, <2>1, <2>2, <2>3
  <1>10. RecordTypes'
    BY <1>1, <1>3, <1>4, <1>7, <1>8 DEF RecordTypes
  <1>11. \A t \in Requests : FrameOK(t)'
    BY <1>8, IdleFrameOK
  <1>12. MapsApart' /\ MapsPrivate' /\ MapsShared'
    BY <1>3, <1>8, IdleFrame DEF MapsApart, MapsPrivate, OwnsMap, MapsShared
  <1>13. MapsSwept'
    BY <1>1 DEF MapsSwept, MapsInUse
  <1>14. SettingsInStep' /\ SettingsSaved'
    BY <1>1, <1>9 DEF SettingsInStep, SettingsSaved
  <1>15. ASSUME NEW p \in gone' PROVE GoneOK(p)'
    <2>1. p \in gone /\ p \in Providers /\ GoneOK(p)
      BY <1>1, <1>4
    <2> QED BY <1>1, <1>3, <1>8, <2>1, IdleFrame DEF GoneOK
  <1> QED BY <1>10, <1>11, <1>12, <1>13, <1>14, <1>15 DEF RecordInv

\* The list is what state.json says, in an array of its own, and nobody reads it.
LEMMA RestartLists ==
    ASSUME ListInv, NEW cap \in 0..MaxCap, Restart(cap)
    PROVE  ListInv'
  <1> DEFINE none == <<>>
             a == Min(Arrays)
             away == [pc |-> "idle", slice |-> [arr |-> NIL, len |-> 0], at |-> NULL,
                      got |-> none, start |-> none, seen |-> {}, calm |-> 1]
             nilSlice == [arr |-> NIL, len |-> 0]
  <1>1. /\ det' = NULL /\ listed' = listed
        /\ rd' = [r \in Readers |-> away]
        /\ \/ /\ listed \in {NULL, none}
              /\ list' = IF listed = NULL THEN NULL ELSE nilSlice
              /\ cells' = [b \in Arrays |-> none]
           \/ /\ listed \notin {NULL, none}
              /\ cap >= Len(listed)
              /\ list' = [arr |-> a, len |-> Len(listed)]
              /\ cells' = [b \in Arrays |-> IF b = a THEN Padded(listed, cap) ELSE none]
    BY DEF Restart, Away
  <1>2. none \in Seq(Providers) /\ none \in Seq(Providers \cup {NULL}) /\ Len(none) = 0
    OBVIOUS
  <1> HIDE DEF none
  <1>3. a \in Arrays /\ MaxCap \in Nat
    <2>1. Cardinality(Readers) \in Nat /\ Cardinality(Arrays) \in Nat
      BY MemoryAssumption, FS_CardinalityType
    <2>2. Cardinality(Arrays) # 0
      BY <2>1, MemoryAssumption
    <2>3. Arrays # {}
      BY <2>2, FS_EmptySet
    <2> QED BY <2>3, Constants, MinOfNaturals
  <1> HIDE DEF a
  <1>4. /\ away \in ReaderFrame /\ away.pc = "idle" /\ away.slice = nilSlice
        /\ away.at = NULL /\ away.got = none /\ away.start = none /\ away.seen = {}
        /\ away.calm = 1 /\ nilSlice \in Slice /\ nilSlice.arr = NIL /\ nilSlice.len = 0
    BY <1>2, <1>3 DEF ReaderFrame, Slice
  <1>5. away = Away
    BY DEF Away, none
  <1> HIDE DEF away, nilSlice
  <1>6. rd' \in [Readers -> ReaderFrame] /\ \A r \in Readers : rd'[r] = away
    BY <1>1, <1>4
  <1>7. /\ ListTypes'
        /\ list' # NULL => Shows(list, Providers)'
    <2>1. CASE listed \in {NULL, none}
      <3>1. /\ cells' \in [Arrays -> Seq(Providers \cup {NULL})]
            /\ \A b \in Arrays : Len(cells'[b]) <= MaxCap
        <4>1. cells' = [b \in Arrays |-> none]
          BY <1>1, <2>1
        <4> QED BY <1>2, <1>3, <4>1
      <3>2. list' = NULL \/ list' = nilSlice
        BY <1>1, <2>1
      <3> QED BY <1>4, <1>6, <3>1, <3>2 DEF ListTypes, Shows
    <2>2. CASE listed \notin {NULL, none}
      <3> DEFINE pad == Padded(listed, cap)
                 new == [arr |-> a, len |-> Len(listed)]
      <3>1. listed \in Seq(Providers) /\ cap >= Len(listed) /\ Len(listed) \in Nat
            /\ list' = new
            /\ cells' = [b \in Arrays |-> IF b = a THEN pad ELSE none]
        BY <1>1, <2>2 DEF ListInv, ListedOK
      <3>2. cap \in Nat /\ cap <= MaxCap /\ Len(listed) <= cap
        BY <1>3, <3>1
      <3>3. /\ pad \in Seq(Providers \cup {NULL}) /\ Len(pad) = cap
            /\ \A i \in 1..Len(listed) : pad[i] = listed[i]
        BY <3>1, <3>2, PaddedCells
      <3> HIDE DEF pad
      <3>4. /\ cells' \in [Arrays -> Seq(Providers \cup {NULL})] /\ cells'[a] = pad
            /\ \A b \in Arrays : Len(cells'[b]) <= MaxCap
        BY <1>2, <1>3, <3>1, <3>2, <3>3
      <3>5. new \in Slice /\ new.arr = a /\ new.len = Len(listed)
        BY <1>3, <3>1, <3>2 DEF Slice
      <3> HIDE DEF new
      <3>6. \A i \in 1..Len(listed) : listed[i] \in Providers
        BY <3>1
      <3>7. Shows(list, Providers)'
        BY <1>3, <3>1, <3>2, <3>3, <3>4, <3>5, <3>6, Constants DEF Shows
      <3> QED BY <1>6, <3>1, <3>4, <3>5, <3>7 DEF ListTypes
    <2> QED BY <2>1, <2>2
  <1>8. ASSUME NEW r \in Readers PROVE ReaderSafe(r)' /\ ReaderCalm(r)'
    <2>1. rd'[r] = away /\ ~Reading(r)' /\ rd'[r] = Away
      BY <1>4, <1>5, <1>6 DEF Reading
    <2>2. Shows(rd[r].slice, rd[r].seen)'
      BY <1>4, <2>1 DEF Shows
    <2> QED BY <1>2, <1>4, <2>1, <2>2 DEF ReaderSafe, ReaderCalm
  <1>9. DetachOK'
    BY <1>1 DEF DetachOK
  <1>10. ListedOK'
    BY <1>1 DEF ListInv, ListedOK
  <1> QED BY <1>7, <1>8, <1>9, <1>10 DEF ListInv, ListCore

\* The first state has no map, no list and no request.
LEMMA StartHolds ==
    ASSUME Init
    PROVE  Inv
  <1>1. PICK v \in {NIL, NULL} :
            rec = [p \in Providers |-> IF p \in cast.provs THEN v ELSE NULL]
    BY DEF Init
  <1>2. /\ cast \in Casts /\ maps = [m \in Maps |-> Nothing]
        /\ disk = [p \in Providers |-> IF rec[p] = NULL THEN NULL ELSE Nothing]
        /\ secret = {} /\ req = [t \in Requests |-> Idle]
        /\ want = [p \in Providers |-> Nothing] /\ raced = [p \in Providers |-> {}]
        /\ gone = {} /\ saved = 1
    BY DEF Init
  <1>3. Nothing \in Settings
    BY DEF Nothing, Settings
  <1>4. /\ rec \in [Providers -> Maps \cup {NIL, NULL}]
        /\ \A p \in Providers : rec[p] \notin Maps
    BY <1>1, Constants
  <1>5. RecordTypes /\ \A t \in Requests : req[t] = Idle
    <2>1. /\ maps \in [Maps -> Settings] /\ want \in [Providers -> Settings]
          /\ disk \in [Providers -> Settings \cup {NULL}]
          /\ raced \in [Providers -> SUBSET Keys]
      BY <1>2, <1>3
    <2>2. req \in [Requests -> ReqFrame] /\ \A t \in Requests : req[t] = Idle
      BY <1>2, IdleFrame
    <2>3. secret \subseteq Providers /\ gone \subseteq Providers /\ saved \in {0, 1}
      BY <1>2
    <2> QED BY <1>4, <2>1, <2>2, <2>3 DEF RecordTypes
  <1>6. \A t \in Requests : FrameOK(t)
    <2>1. Idle.pc = "idle" /\ Idle.kind = NULL /\ Idle.read = NULL
      BY DEF Idle
    <2> QED BY <1>5, <2>1, Constants DEF FrameOK, Refreshing, WritingBack
  <1>7. MapsApart /\ MapsPrivate /\ MapsShared
    BY <1>4, <1>5, IdleFrame DEF MapsApart, MapsPrivate, OwnsMap, MapsShared
  <1>8. MapsSwept
    BY <1>2 DEF MapsSwept
  <1>9. \A p \in Providers : Config(p) = Nothing /\ want[p] = Nothing
    BY <1>2, <1>4 DEF Config
  <1>10. SettingsInStep
    BY <1>9 DEF SettingsInStep
  <1>11. SettingsSaved
    BY <1>2, <1>9 DEF SettingsSaved, Image
  <1>12. RecordInv
    BY <1>2, <1>5, <1>6, <1>7, <1>8, <1>10, <1>11 DEF RecordInv
  <1>13. ListInv
    <2> DEFINE none == <<>>
               away == [pc |-> "idle", slice |-> [arr |-> NIL, len |-> 0], at |-> NULL,
                        got |-> none, start |-> none, seen |-> {}, calm |-> 1]
    <2>1. list = NULL /\ listed = NULL /\ det = NULL
      BY DEF Init
    <2>2. cells = [a \in Arrays |-> none] /\ rd = [r \in Readers |-> away] /\ away = Away
      BY DEF Init, Away
    <2>3. none \in Seq(Providers) /\ none \in Seq(Providers \cup {NULL}) /\ Len(none) = 0
      OBVIOUS
    <2> HIDE DEF none
    <2>4. /\ away \in ReaderFrame /\ away.pc = "idle" /\ away.slice.arr = NIL
          /\ away.slice.len = 0 /\ away.at = NULL /\ away.got = none
      BY <2>3, Constants DEF ReaderFrame, Slice
    <2> HIDE DEF away
    <2>5. cells \in [Arrays -> Seq(Providers \cup {NULL})]
          /\ \A a \in Arrays : Len(cells[a]) <= MaxCap
      BY <2>2, <2>3, Constants
    <2>6. rd \in [Readers -> ReaderFrame] /\ \A r \in Readers : rd[r] = away
      BY <2>2, <2>4
    <2>7. ListTypes
      BY <2>1, <2>5, <2>6 DEF ListTypes
    <2>8. ASSUME NEW r \in Readers PROVE ReaderSafe(r) /\ ReaderCalm(r)
      <3>1. rd[r] = away /\ ~Reading(r) /\ rd[r] = Away
        BY <2>2, <2>4, <2>6 DEF Reading
      <3>2. Shows(rd[r].slice, rd[r].seen)
        BY <2>4, <3>1 DEF Shows
      <3> QED BY <2>3, <2>4, <3>1, <3>2 DEF ReaderSafe, ReaderCalm
    <2> QED BY <2>1, <2>7, <2>8 DEF ListInv, ListCore, ListedOK, DetachOK
  <1> QED BY <1>2, <1>12, <1>13 DEF Inv

\* What a behaviour is cast for are providers and outcomes of a write.
LEMMA CastTypes ==
    ASSUME Inv
    PROVE  cast.provs \subseteq Providers /\ cast.outcomes \subseteq {0, 1}
  <1>1. \A c \in Casts : c.provs \subseteq Providers /\ c.outcomes \subseteq {0, 1}
    BY RegistryAssumption
  <1> QED BY <1>1 DEF Inv

\* A step on the records keeps the invariant.
LEMMA RecordStepKeeps ==
    ASSUME Inv, NEW t \in Requests, NEW ok \in {0, 1}, RecordStep(t, ok)
    PROVE  Inv'
  <1>1. RecordInv /\ ListInv /\ cast.provs \subseteq Providers
    BY CastTypes DEF Inv
  <1> SUFFICES RecordInv' /\ cast' = cast /\ UNCHANGED listVars
               /\ (UNCHANGED listed \/ Flush(ok))
    <2>1. ListInv'
      BY <1>1, ListUntouched
    <2> QED BY <2>1 DEF Inv
  <1>2. CASE \E p \in cast.provs, creds \in {0, 1} : PutStart(t, p, creds)
    BY <1>1, <1>2, PutStartKeeps DEF PutStart, fileVars
  <1>3. CASE \E p \in cast.provs : DeleteProvider(t, p, ok)
    <2>1. PICK p \in cast.provs : DeleteProvider(t, p, ok)
      BY <1>3
    <2>2. RecordInv'
      BY <1>1, <2>1, DeleteProviderKeeps
    <2>3. cast' = cast /\ UNCHANGED listVars /\ Flush(ok)
      BY <2>1 DEF DeleteProvider
    <2> QED BY <2>2, <2>3
  <1>4. CASE \E p \in cast.provs, k \in Keys, s \in Strategies : SetStart(t, p, k, s)
    <2>1. PICK p \in cast.provs, k \in Keys, s \in Strategies : Read(t, p, k, "set", s)
      BY <1>4 DEF SetStart
    <2>2. RecordInv'
      BY <1>1, <2>1, ReadKeeps
    <2> QED BY <2>1, <2>2 DEF Read, fileVars
  <1>5. CASE \E p \in cast.provs, k \in Keys : UnsetStart(t, p, k)
    <2>1. PICK p \in cast.provs, k \in Keys : Read(t, p, k, "unset", NULL)
      BY <1>5 DEF UnsetStart
    <2>2. RecordInv'
      BY <1>1, <2>1, ReadKeeps
    <2> QED BY <2>1, <2>2 DEF Read, fileVars
  <1>6. CASE \E p \in cast.provs, k \in Keys : RotateStart(t, p, k)
    <2>1. PICK p \in cast.provs, k \in Keys : RotateStart(t, p, k)
      BY <1>6
    <2> DEFINE set == Config(p)[k]
               cfg == IF set = NULL THEN "env" ELSE set
    <2>2. Read(t, p, k, "rotate", cfg)
      BY <2>1 DEF RotateStart
    <2>3. p \in Providers /\ set \in Strategies \cup {NULL}
      <3>1. Config(p) \in Settings /\ p \in Providers
        BY <1>1, ConfigTypes DEF Config, RecordInv, RecordTypes
      <3> QED BY <3>1 DEF Settings
    <2>4. rec[p] = NIL => set = NULL
      BY Constants DEF Config, Nothing
    <2>5. cfg \in Strategies \cup {"env"} /\ (rec[p] = NIL => cfg = "env")
      BY <2>3, <2>4
    <2> HIDE DEF cfg
    <2>6. RecordInv'
      BY <1>1, <2>2, <2>3, <2>5, ReadKeeps
    <2> QED BY <2>2, <2>6 DEF Read, fileVars
  <1>7. CASE Upsert(t, ok)
    BY <1>1, <1>7, UpsertKeeps DEF Upsert
  <1>8. CASE PutCredentials(t, ok)
    BY <1>1, <1>8, PutCredentialsKeeps DEF PutCredentials, fileVars
  <1>9. CASE DeletePrefix(t, ok)
    BY <1>1, <1>9, DeletePrefixKeeps DEF DeletePrefix, fileVars
  <1>10. CASE Mutate(t)
    BY <1>1, <1>10, MutateKeeps DEF Mutate, Change, fileVars
  <1>11. CASE StoreRotated(t, ok)
    BY <1>1, <1>11, StoreRotatedKeeps DEF StoreRotated, fileVars
  <1>12. CASE \E res \in {"error", "plain", "expiring"} : Rotated(t, res)
    BY <1>1, <1>12, RotatedKeeps DEF Rotated, fileVars
  <1> QED BY <1>2, <1>3, <1>4, <1>5, <1>6, <1>7, <1>8, <1>9, <1>10, <1>11, <1>12 DEF RecordStep

\* A step on the attachment list keeps the invariant.
LEMMA ListStepKeeps ==
    ASSUME Inv, NEW ok \in {0, 1}, ListStep(ok)
    PROVE  Inv'
  <1>1. RecordInv /\ ListInv /\ cast.provs \subseteq Providers /\ cast \in Casts
    BY CastTypes DEF Inv
  <1>2. CASE \E p \in cast.provs, t \in Requests : AttachStart(t, p)
    <2>1. PICK p \in cast.provs, t \in Requests : AttachStart(t, p)
      BY <1>2
    <2>2. RecordInv'
      BY <1>1, <2>1, AttachStartKeeps
    <2>3. cast' = cast /\ UNCHANGED listVars /\ UNCHANGED listed
      BY <2>1 DEF AttachStart, fileVars
    <2> QED BY <1>1, <2>2, <2>3, ListUntouched DEF Inv
  <1>3. CASE \E t \in Requests, cap \in 0..MaxCap : AttachProvider(t, cap, ok)
    <2>1. PICK t \in Requests, cap \in 0..MaxCap : AttachProvider(t, cap, ok)
      BY <1>3
    <2>2. RecordInv' /\ ListInv'
      BY <1>1, <2>1, AttachProviderLeaves, AttachProviderKeeps
    <2>3. cast' = cast
      BY <2>1 DEF AttachProvider
    <2> QED BY <1>1, <2>2, <2>3 DEF Inv
  <1>4. ASSUME ListInv', cast' = cast, UNCHANGED <<recVars, req>>,
               UNCHANGED <<disk, saved>> \/ Flush(ok)
        PROVE  Inv'
    BY <1>1, <1>4, RecordUntouched DEF Inv
  <1>5. CASE \E names \in Lists, cap \in 0..MaxCap : PutSandbox(names, cap, ok)
    BY <1>1, <1>4, <1>5, PutSandboxKeeps DEF PutSandbox
  <1>6. CASE DeleteSandbox(ok)
    BY <1>1, <1>4, <1>6, DeleteSandboxKeeps DEF DeleteSandbox
  <1>7. CASE \E p \in cast.provs : DetachStart(p)
    BY <1>1, <1>4, <1>7, DetachStartKeeps DEF DetachStart, fileVars
  <1>8. CASE DetachMove
    BY <1>1, <1>4, <1>8, DetachMoveKeeps DEF DetachMove, fileVars
  <1>9. CASE DetachEnd(ok)
    BY <1>1, <1>4, <1>9, DetachEndKeeps DEF DetachEnd
  <1>10. CASE \E r \in Readers : ResolveStart(r)
    BY <1>1, <1>4, <1>10, ResolveStartKeeps DEF ResolveStart, fileVars
  <1>11. CASE \E r \in Readers : ResolveCell(r)
    BY <1>1, <1>4, <1>11, ResolveCellKeeps DEF ResolveCell, fileVars
  <1>12. CASE \E r \in Readers : ResolveLookup(r)
    BY <1>1, <1>4, <1>12, ResolveLookupKeeps DEF ResolveLookup, fileVars
  <1> QED BY <1>2, <1>3, <1>5, <1>6, <1>7, <1>8, <1>9, <1>10, <1>11, <1>12 DEF ListStep

\* Every step keeps the invariant.
LEMMA StepKeeps ==
    ASSUME Inv, [Next]_vars
    PROVE  Inv'
  <1>1. CASE \E ok \in cast.outcomes, t \in Requests : RecordStep(t, ok)
    BY <1>1, CastTypes, RecordStepKeeps
  <1>2. CASE \E ok \in cast.outcomes : ListStep(ok)
    BY <1>2, CastTypes, ListStepKeeps
  <1>3. CASE \E cap \in 0..MaxCap : Restart(cap)
    <2>1. PICK cap \in 0..MaxCap : Restart(cap)
      BY <1>3
    <2>2. RecordInv' /\ ListInv'
      BY <2>1, RestartLoads, RestartLists DEF Inv
    <2>3. cast' = cast
      BY <2>1 DEF Restart
    <2> QED BY <2>2, <2>3 DEF Inv
  <1>4. CASE UNCHANGED vars
    <2>1. /\ cast' = cast /\ UNCHANGED <<recVars, req>> /\ UNCHANGED <<disk, saved>>
          /\ UNCHANGED listVars /\ UNCHANGED listed
      BY <1>4 DEF vars, fileVars
    <2>2. RecordInv' /\ ListInv'
      BY <2>1, RecordUntouched, ListUntouched DEF Inv
    <2> QED BY <2>1, <2>2 DEF Inv
  <1> QED BY <1>1, <1>2, <1>3, <1>4 DEF Next

-----------------------------------------------------------------------------
(* Theorems.                                                               *)

\* The inductive invariant holds: what the requests under way, the records, the
\* maps and arrays they share, the file and the readers of the list know of one
\* another.
THEOREM RegistryInvariant == Spec => []Inv
  <1>1. Init => Inv
    BY StartHolds
  <1>2. Inv /\ [Next]_vars => Inv'
    BY StepKeeps
  <1> QED BY <1>1, <1>2, PTL DEF Spec

\* The list shows names only, as many as its length says.
LEMMA AttachedNames ==
    ASSUME ListInv
    PROVE  /\ Len(Attached) = (IF list = NULL THEN 0 ELSE list.len)
           /\ ToSet(Attached) \subseteq Providers
  <1>1. CASE list = NULL
    <2>1. Attached = <<>>
      BY <1>1 DEF Attached
    <2> QED BY <1>1, <2>1 DEF ToSet
  <1>2. CASE list # NULL
    <2>1. Attached = IF list.arr = NIL THEN <<>> ELSE SubSeq(cells[list.arr], 1, list.len)
      BY <1>2 DEF Attached, Names
    <2>2. /\ list \in Slice /\ cells \in [Arrays -> Seq(Providers \cup {NULL})]
          /\ list.arr = NIL => list.len = 0
          /\ list.arr # NIL => list.len <= Len(cells[list.arr])
          /\ \A i \in 1..list.len : cells[list.arr][i] \in Providers
      BY <1>2 DEF ListInv, ListCore, ListTypes, Shows
    <2>3. Attached \in Seq(Providers) /\ Len(Attached) = list.len
      BY <2>1, <2>2, SliceNames
    <2> QED BY <1>2, <2>3 DEF ToSet
  <1> QED BY <1>1, <1>2

\* The frames, pointers and histories keep to their shapes, and a list lies
\* within its array and holds names only, whatever attach, detach and the PUT of
\* the sandbox do to it.
THEOREM RegistryTypeCorrect == Spec => []TypeOK
  <1>1. Inv => TypeOK
    <2> SUFFICES ASSUME Inv PROVE TypeOK
      OBVIOUS
    <2>1. /\ RecordTypes /\ ListTypes /\ ListedOK /\ DetachOK /\ cast \in Casts /\ ListInv
      BY DEF Inv, RecordInv, ListInv, ListCore
    <2>2. \A p \in Providers : disk[p] = NULL \/ disk[p] \in Settings
      BY <2>1 DEF RecordTypes
    <2>3. det = NULL \/ (det.prov \in Providers /\ det.n < det.i)
      BY <2>1 DEF DetachOK
    <2>4. \A r \in Readers : ReaderOK(rd[r])
      BY <2>1 DEF ListTypes, ReaderOK, ReaderFrame
    <2> QED BY <2>1, <2>2, <2>3, <2>4, AttachedNames DEF TypeOK, RecordTypes, ListTypes, ListedOK
  <1> QED BY <1>1, RegistryInvariant, PTL

\* No setting is lost to a request on another key or to a PUT of the provider,
\* though each writes back a whole record it read earlier without the lock: the
\* requests that read a map share it with the record (MapsShared), and those that
\* made one are alone with it (MapsPrivate).
THEOREM SettingsKept == Spec => []SettingsAreKept
  <1>1. Inv => SettingsAreKept
    <2> SUFFICES ASSUME Inv, NEW p \in Providers, NEW k \in Keys, k \notin raced[p],
                        \A t \in Requests : req[t].prov # p \/ req[t].key # k
                 PROVE  Config(p)[k] = want[p][k]
      BY DEF SettingsAreKept
    <2>1. ~Outdated(p, k)
      BY DEF Outdated
    <2> QED BY <2>1 DEF Inv, RecordInv, SettingsInStep
  <1> QED BY <1>1, RegistryInvariant, PTL

\* What the handlers change through a shared map is saved by a later write, at
\* the latest by the request that changed it: with nothing under way on a
\* provider after a write of state.json that succeeded, a restart brings it back
\* as it is.
THEOREM SettingsDurable == Spec => []SettingsAreDurable
  <1>1. Inv => SettingsAreDurable
    <2> SUFFICES ASSUME Inv, NEW p \in Providers, saved = 1, ~Busy(p)
                 PROVE  disk[p] = IF rec[p] = NULL THEN NULL ELSE Config(p)
      BY DEF SettingsAreDurable
    <2>1. ~Unsaved(p)
      BY DEF Unsaved, Busy
    <2> QED BY <2>1 DEF Inv, RecordInv, SettingsSaved, Image
  <1> QED BY <1>1, RegistryInvariant, PTL

\* A provider whose deletion returned with nothing else under way on it stays
\* deleted, in memory, on disk and in the secret store, until it is PUT again.
THEOREM DeletionsLast == Spec => []DeletedStaysDeleted
  <1>1. Inv => DeletedStaysDeleted
    BY DEF Inv, RecordInv, GoneOK, DeletedStaysDeleted
  <1> QED BY <1>1, RegistryInvariant, PTL

\* Whoever goes through the list without the lock reads only providers that were
\* attached while it did, for any number of readers, though attach and detach
\* write in the array it reads.
THEOREM ReadersSeeAttached == Spec => []ResolvedWasAttached
  <1>1. Inv => ResolvedWasAttached
    <2> SUFFICES ASSUME Inv, NEW r \in Readers
                 PROVE  ToSet(rd[r].got) \cup ({rd[r].at} \ {NULL}) \subseteq rd[r].seen
      BY DEF ResolvedWasAttached
    <2>1. ReaderSafe(r)
      BY DEF Inv, ListInv, ListCore
    <2>2. ToSet(rd[r].got) \subseteq rd[r].seen
      <3> DEFINE s == rd[r].got
      <3>1. s \in Seq(Providers) /\ \A i \in 1..Len(s) : s[i] \in rd[r].seen
        BY <2>1 DEF ReaderSafe, Inv, ListInv, ListCore, ListTypes, ReaderFrame
      <3> HIDE DEF s
      <3>2. ToSet(s) \subseteq rd[r].seen
        BY <3>1 DEF ToSet
      <3> QED BY <3>2 DEF s
    <2> QED BY <2>1, <2>2 DEF ReaderSafe
  <1> QED BY <1>1, RegistryInvariant, PTL

\* Without a detach a reader gets, name by name, the list as it was when it
\* began: an append writes beyond the end of what it reads, and a new list is in
\* an array nobody reads.
THEOREM ReadersSeeStableList == Spec => []ListIsStable
  <1>1. Inv => ListIsStable
    <2> SUFFICES ASSUME Inv, NEW r \in Readers, rd[r].calm = 1
                 PROVE  IsPrefix(rd[r].got, rd[r].start)
      BY DEF ListIsStable
    <2> DEFINE s == rd[r].got
               w == rd[r].start
               n == Len(s)
    <2>1. ReaderSafe(r) /\ ReaderCalm(r) /\ rd[r] \in ReaderFrame
      BY DEF Inv, ListInv, ListCore, ListTypes
    <2>2. s \in Seq(Providers) /\ w \in Seq(Providers) /\ n \in Nat
      BY <2>1 DEF ReaderFrame
    <2>3. n <= Len(w) /\ \A i \in 1..n : s[i] = w[i]
      <3>1. CASE Reading(r)
        BY <2>1, <3>1 DEF ReaderCalm
      <3>2. CASE ~Reading(r)
        <4>1. s = <<>>
          BY <2>1, <3>2 DEF ReaderSafe, Away
        <4>2. n = 0
          BY <4>1
        <4> HIDE DEF s, n
        <4> QED BY <2>2, <4>2
      <3> QED BY <3>1, <3>2
    <2> HIDE DEF s, w
    <2>4. /\ SubSeq(s, 1, n) \in Seq(Providers) /\ SubSeq(w, 1, n) \in Seq(Providers)
          /\ Len(SubSeq(s, 1, n)) = n /\ Len(SubSeq(w, 1, n)) = n
          /\ \A i \in 1..n : SubSeq(s, 1, n)[i] = s[i] /\ SubSeq(w, 1, n)[i] = w[i]
      <3>1. n - 1 + 1 = n /\ (1 <= n \/ n = 0) /\ \A i \in 1..n : 1 + i - 1 = i
        BY <2>2
      <3>2. /\ \A i \in 1..n : s[i] \in Providers
            /\ \A i \in 1..n : w[i] \in Providers
        BY <2>2, <2>3
      <3> HIDE DEF n
      <3>3. n <= Len(s)
        BY <2>2 DEF n
      <3>4. /\ SubSeq(s, 1, n) \in Seq(Providers)
            /\ Len(SubSeq(s, 1, n)) = IF 1 <= n THEN n - 1 + 1 ELSE 0
            /\ \A i \in 1..(n - 1 + 1) : SubSeq(s, 1, n)[i] = s[1 + i - 1]
        BY <2>2, <3>2, <3>3, SubSeqProperties
      <3>5. /\ SubSeq(w, 1, n) \in Seq(Providers)
            /\ Len(SubSeq(w, 1, n)) = IF 1 <= n THEN n - 1 + 1 ELSE 0
            /\ \A i \in 1..(n - 1 + 1) : SubSeq(w, 1, n)[i] = w[1 + i - 1]
        BY <2>2, <2>3, <3>2, SubSeqProperties
      <3> QED BY <3>1, <3>4, <3>5
    <2>5. SubSeq(s, 1, n) = SubSeq(w, 1, n)
      <3> DEFINE a == SubSeq(s, 1, n)
                 b == SubSeq(w, 1, n)
      <3>1. a \in Seq(Providers) /\ b \in Seq(Providers) /\ Len(a) = Len(b)
            /\ \A i \in 1..Len(a) : a[i] = b[i]
        BY <2>3, <2>4
      <3> HIDE DEF a, b
      <3>2. a = b
        BY <3>1, SeqEqual
      <3> QED BY <3>2 DEF a, b
    <2> QED BY <2>3, <2>5 DEF IsPrefix, s, w
  <1> QED BY <1>1, RegistryInvariant, PTL
=============================================================================
