-------------------------- MODULE Discovery_proofs --------------------------
(***************************************************************************)
(* What is proved of a discovery: how it asks, and what it makes of the    *)
(* answers.                                                                *)
(***************************************************************************)
EXTENDS Discovery, FiniteSetTheorems, SequenceTheorems, TLAPS

-----------------------------------------------------------------------------
(* Lists. *)

Numbers(I) == I \in SUBSET Nat /\ IsFiniteSet(I)

\* The index below which there are n of a finite set of numbers is there: ranks
\* are different, so that each is taken.
LEMMA RankTaken ==
    ASSUME NEW I, Numbers(I), NEW n \in 1 .. Cardinality(I)
    PROVE  Nth(I, n) \in I /\ Cardinality({j \in I : j <= Nth(I, n)}) = n
<1> DEFINE Below(i) == {j \in I : j <= i}
           T == 1 .. Cardinality(I)
           f == [i \in I |-> Cardinality(Below(i))]
<1>1. Cardinality(I) \in Nat
  BY FS_CardinalityType DEF Numbers
<1>2. ASSUME NEW i \in I
      PROVE  /\ IsFiniteSet(Below(i)) /\ Cardinality(Below(i)) \in T
  <2>1. Below(i) \in SUBSET I
    OBVIOUS
  <2>2. IsFiniteSet(Below(i)) /\ Cardinality(Below(i)) <= Cardinality(I)
    BY <2>1, FS_Subset DEF Numbers
  <2>3. i \in Below(i)
    BY DEF Numbers
  <2>4. Cardinality(Below(i)) \in Nat /\ Cardinality(Below(i)) # 0
    BY <2>2, <2>3, FS_EmptySet, FS_CardinalityType
  <2> QED BY <1>1, <2>2, <2>4
<1>3. ASSUME NEW i \in I, NEW k \in I, i < k
      PROVE  Cardinality(Below(i)) # Cardinality(Below(k))
  <2>1. \A j \in I : j \in Nat
    BY DEF Numbers
  <2>2. \A j \in I : j <= i => j <= k
    BY <1>3, <2>1
  <2>3. Below(i) \in SUBSET Below(k)
    BY <2>2
  <2>4. k \in Below(k) /\ k \notin Below(i)
    BY <1>3, <2>1
  <2> HIDE DEF Below
  <2> QED BY <2>3, <2>4, <1>2, FS_Subset
<1>4. f \in Injection(I, T)
  <2>1. f \in [I -> T]
    BY <1>2
  <2>2. ASSUME NEW i \in I, NEW k \in I, f[i] = f[k]
        PROVE  i = k
    <3>1. i \in Nat /\ k \in Nat
      BY DEF Numbers
    <3>2. Cardinality(Below(i)) = Cardinality(Below(k))
      BY <2>2
    <3> HIDE DEF Below
    <3> QED BY <1>3, <3>1, <3>2
  <2> HIDE DEF f, T
  <2>3. IsInjective(f)
    BY <2>1, <2>2 DEF IsInjective
  <2> QED BY <2>1, <2>3 DEF Injection
<1>5. IsFiniteSet(T) /\ Cardinality(T) = Cardinality(I)
  BY <1>1, FS_Interval
<1>6. f \in Surjection(I, T)
  <2> HIDE DEF f, T
  <2> QED BY <1>4, <1>5, FS_Injection
<1>7. PICK i \in I : f[i] = n
  <2> HIDE DEF f
  <2> QED BY <1>6 DEF Surjection
<1>8. Cardinality({j \in I : j <= i}) = n
  BY <1>7
<1> QED BY <1>8 DEF Nth

\* The indices are taken one after the other, and all of them.
LEMMA RankOrder ==
    ASSUME NEW I, Numbers(I)
    PROVE  /\ Cardinality(I) \in Nat
           /\ \A n \in 1 .. Cardinality(I) : Nth(I, n) \in I
           /\ \A n, m \in 1 .. Cardinality(I) : n < m => Nth(I, n) < Nth(I, m)
           /\ \A i \in I : Cardinality({j \in I : j <= i}) \in 1 .. Cardinality(I)
           /\ \A i \in I : Nth(I, Cardinality({j \in I : j <= i})) = i
<1> DEFINE Below(i) == {j \in I : j <= i}
<1>1. Cardinality(I) \in Nat
  BY FS_CardinalityType DEF Numbers
<1>2. ASSUME NEW i \in I
      PROVE  IsFiniteSet(Below(i)) /\ Cardinality(Below(i)) \in 1 .. Cardinality(I)
  <2>1. Below(i) \in SUBSET I /\ i \in Below(i)
    BY DEF Numbers
  <2> HIDE DEF Below
  <2>2. IsFiniteSet(Below(i)) /\ Cardinality(Below(i)) <= Cardinality(I)
    BY <2>1, FS_Subset DEF Numbers
  <2>3. Cardinality(Below(i)) \in Nat /\ Cardinality(Below(i)) # 0
    BY <2>1, <2>2, FS_EmptySet, FS_CardinalityType
  <2> QED BY <1>1, <2>2, <2>3
<1>3. ASSUME NEW i \in I, NEW k \in I, i < k
      PROVE  Cardinality(Below(i)) < Cardinality(Below(k))
  <2>0. (\A j \in I : j \in Nat) /\ \A j \in I : j <= i => j <= k
    BY <1>3 DEF Numbers
  <2>1. Below(i) \in SUBSET Below(k) /\ k \in Below(k) /\ k \notin Below(i)
    BY <1>3, <2>0
  <2> HIDE DEF Below
  <2>2. IsFiniteSet(Below(i)) /\ IsFiniteSet(Below(k))
    BY <1>2
  <2>3. Cardinality(Below(i)) <= Cardinality(Below(k)) /\ Cardinality(Below(i)) # Cardinality(Below(k))
    BY <2>1, <2>2, FS_Subset
  <2> QED BY <2>2, <2>3, FS_CardinalityType
<1>4. ASSUME NEW n \in 1 .. Cardinality(I)
      PROVE  Nth(I, n) \in I /\ Cardinality(Below(Nth(I, n))) = n
  BY RankTaken
<1> HIDE DEF Below
<1>5. ASSUME NEW n \in 1 .. Cardinality(I), NEW m \in 1 .. Cardinality(I), n < m
      PROVE  Nth(I, n) < Nth(I, m)
  <2>1. Nth(I, n) \in I /\ Nth(I, m) \in I /\ Nth(I, n) \in Nat /\ Nth(I, m) \in Nat
    BY <1>4 DEF Numbers
  <2>2. ~(Nth(I, m) < Nth(I, n)) /\ Nth(I, m) # Nth(I, n)
    BY <1>3, <1>4, <1>5, <2>1
  <2> QED BY <2>1, <2>2
<1>6. ASSUME NEW i \in I
      PROVE  Nth(I, Cardinality(Below(i))) = i
  <2> DEFINE k == Nth(I, Cardinality(Below(i)))
  <2>1. k \in I /\ Cardinality(Below(k)) = Cardinality(Below(i))
    BY <1>2, <1>4
  <2>2. k \in Nat /\ i \in Nat
    BY <2>1 DEF Numbers
  <2>3. Cardinality(Below(i)) \in Nat
    BY <1>2, <1>1
  <2> HIDE DEF k
  <2>4. ~(k < i) /\ ~(i < k)
    BY <1>3, <2>1, <2>3
  <2>5. k = i
    BY <2>2, <2>4
  <2> QED BY <2>5 DEF k
<1> QED BY <1>1, <1>2, <1>4, <1>5, <1>6 DEF Below

\* What is taken from a list is a list of what was at those indices.
LEMMA AmongIsList ==
    ASSUME NEW list, NEW I, Numbers(I), NEW S, \A i \in I : list[i] \in S
    PROVE  /\ Among(list, I) \in Seq(S)
           /\ Len(Among(list, I)) = Cardinality(I)
           /\ DOMAIN Among(list, I) = 1 .. Cardinality(I)
           /\ \A n \in 1 .. Cardinality(I) : Among(list, I)[n] = list[Nth(I, n)]
<1>1. Cardinality(I) \in Nat /\ \A n \in 1 .. Cardinality(I) : Nth(I, n) \in I
  BY RankOrder
<1>2. Among(list, I) \in [1 .. Cardinality(I) -> S]
  BY <1>1 DEF Among
<1>3. /\ DOMAIN Among(list, I) = 1 .. Cardinality(I)
      /\ \A n \in 1 .. Cardinality(I) : Among(list, I)[n] = list[Nth(I, n)]
  BY DEF Among
<1> HIDE DEF Among
<1>4. Among(list, I) \in Seq(S)
  BY <1>1, <1>2, SeqDef
<1>5. Len(Among(list, I)) = Cardinality(I)
  BY <1>1, <1>3, <1>4, LenProperties
<1> QED BY <1>3, <1>4, <1>5

LEMMA AmongEmpty ==
    ASSUME NEW list, NEW I, Numbers(I)
    PROVE  (Among(list, I) = <<>>) <=> (I = {})
<1>1. \A i \in I : list[i] \in {list[j] : j \in I}
  OBVIOUS
<1>2. /\ Among(list, I) \in Seq({list[j] : j \in I})
      /\ Len(Among(list, I)) = Cardinality(I)
  BY <1>1, AmongIsList
<1>3. (Among(list, I) = <<>>) <=> (Cardinality(I) = 0)
  BY <1>2
<1> QED BY <1>3, FS_EmptySet DEF Numbers

\* Different elements are taken from different elements.
LEMMA AmongInjective ==
    ASSUME NEW list, NEW I, Numbers(I), \A i, j \in I : list[i] = list[j] => i = j
    PROVE  IsInjective(Among(list, I))
<1>1. /\ Cardinality(I) \in Nat
      /\ \A n \in 1 .. Cardinality(I) : Nth(I, n) \in I
      /\ \A n, m \in 1 .. Cardinality(I) : n < m => Nth(I, n) < Nth(I, m)
  BY RankOrder
<1>2. /\ DOMAIN Among(list, I) = 1 .. Cardinality(I)
      /\ \A n \in 1 .. Cardinality(I) : Among(list, I)[n] = list[Nth(I, n)]
  BY DEF Among
<1>3. ASSUME NEW n \in 1 .. Cardinality(I), NEW m \in 1 .. Cardinality(I),
             list[Nth(I, n)] = list[Nth(I, m)]
      PROVE  n = m
  <2>1. Nth(I, n) = Nth(I, m)
    BY <1>1, <1>3
  <2>2. Nth(I, n) \in Nat
    BY <1>1 DEF Numbers
  <2> QED BY <1>1, <2>1, <2>2
<1> QED BY <1>2, <1>3 DEF IsInjective

\* The indices of a list are such numbers.
LEMMA IndicesAreNumbers ==
    ASSUME NEW n \in Nat, NEW I, I \subseteq 1 .. n
    PROVE  Numbers(I)
<1>1. IsFiniteSet(1 .. n)
  BY FS_Interval
<1>2. IsFiniteSet(I)
  BY <1>1, FS_Subset
<1> QED BY <1>2 DEF Numbers
-----------------------------------------------------------------------------
(* What holds throughout a discovery. *)

Listed(s) == s \in Seq(ToSet(s))

Apart(s, t) == ToSet(s) \cap ToSet(t) = {}

IsChunk(k) == k[1] = "str"

\* No key is asked for twice.
Different(batches) ==
    \A i, j \in DOMAIN batches :
        IsInjective(batches[i]) /\ (i # j => Apart(batches[i], batches[j]))

Rest(batches) == UNION {ToSet(batches[i]) : i \in DOMAIN batches}

Question == [stage : Stages, batches : Seq(Seq(Keys)), tries : Nat, patient : BOOLEAN,
             attempt : Nat, open : Seq(Keys), missed : Seq(Keys), late : Seq(Keys)]

\* The keys of a question are in one place each; a question for chunks, which
\* a turn of the scheduler may unregister, keeps nothing while it sends.
QuestionOK(a) ==
    /\ a \in Question
    /\ IsInjective(a.open) /\ IsInjective(a.missed) /\ IsInjective(a.late)
    /\ Apart(a.open, a.missed) /\ Apart(a.open, a.late) /\ Apart(a.missed, a.late)
    /\ Different(a.batches)
    /\ Rest(a.batches) \cap (ToSet(a.open) \cup ToSet(a.missed) \cup ToSet(a.late)) = {}
    /\ a.patient \/ a.late = <<>>
    /\ a.stage = "send" => a.missed = <<>>
    /\ a.stage = "late" => a.open = <<>> /\ a.missed = <<>>
    /\ a.stage = "over" => a.open = <<>> /\ a.missed = <<>> /\ a.late = <<>>
    /\ a.stage \in {"send", "wait"} =>
          /\ 1 <= a.attempt /\ a.attempt <= a.tries
          /\ \/ a.late = <<>> /\ a.batches = <<>>
             \/ \A k \in ToSet(a.open) \cup ToSet(a.missed) \cup ToSet(a.late)
                         \cup Rest(a.batches) : ~IsChunk(k)

AskOK == QuestionOK(ask)

\* The keys a question keeps registered.
HeldBy(a) ==
    ToSet(a.late) \cup (IF a.stage = "wait" THEN ToSet(a.open) ELSE {})
    \cup (IF a.stage = "wait" /\ a.patient /\ a.attempt = a.tries THEN ToSet(a.missed) ELSE {})

\* A slot holds, and a question was told, what the device may answer.
AnswersOK ==
    /\ DOMAIN slots = Keys /\ DOMAIN got = Keys
    /\ \A k \in Keys : slots[k] \in {Absent, None} \cup Replies(k)
    /\ \A k \in Keys : got[k] \in {None} \cup Replies(k)
    /\ flying \in Seq(Keys)

\* Where the program is, or will be once it has its strings.
Fetching == pc \in {"fetch", "chunks"}
Where == IF Fetching THEN back ELSE pc

Beginnings == {"idle", "firmware", "properties", "identified", "total", "probe", "outputs"}
CatalogPlaces == {"spot", "spotted"}
GroupPlaces == {"group", "name", "count", "recount", "ids", "shape"}
FieldPlaces == {"field", "meta", "remeta", "told", "options", "names"}
OutputPlaces == {"output", "listed"}

PlaceOK ==
    /\ pc \in Beginnings \cup CatalogPlaces \cup GroupPlaces \cup FieldPlaces \cup OutputPlaces
              \cup {"fetch", "chunks", "done"}
    /\ back \in {"idle", "identified", "spotted", "shape", "names"}
    /\ Fetching => back # "idle"
    /\ pc = "shape" => back = "shape"
    /\ want \in Seq(Seq(Strings)) /\ (want = <<>> <=> ~Fetching)
    /\ pc # "chunks" => fetches = <<>>
    /\ Listed(texts)
    /\ texts # <<>> => Where \in {"identified", "spotted", "shape", "names"}
    /\ sids # <<>> => Where \in {"identified", "names"}

\* How far the program is.
LeftOK ==
    /\ Where \in Beginnings => groups = <<>> /\ todo = <<>> /\ found = <<>>
    /\ Where \in Beginnings \cup {"done"} => left = 0
    /\ Where \in CatalogPlaces => left \in DOMAIN Tables /\ groups = <<>> /\ found = <<>>
    /\ Where \in GroupPlaces \cup FieldPlaces =>
          left \in Nat /\ left <= Len(Groups) /\ left <= MaxGroups
    /\ Where \in GroupPlaces \ {"group"} => left > 0
    /\ Where \in FieldPlaces => /\ todo \in Seq(ToSet(Fields))
                                /\ groups = <<>> => left = 0
    /\ Where \in FieldPlaces \ {"field"} => todo # <<>>
    /\ Where \in OutputPlaces => /\ left \in Nat /\ todo \in Seq(ToSet(Fields))
                                 /\ left + Len(todo) <= MaxOutputs
                                 /\ groups = <<>> /\ found = <<>>
    /\ Where = "listed" => left > 0

\* A prefix, index by index.
IsStartOf(s, t) ==
    /\ s \in Seq(ToSet(t)) /\ Len(s) <= Len(t)
    /\ \A n \in 1 .. Len(s) : s[n] = t[n]

FetchOK(fetch, silent) ==
    /\ fetch = [id |-> fetch.id, s |-> fetch.s, done |-> fetch.done]
    /\ fetch.id \in Strings /\ fetch.done \in BOOLEAN
    /\ IsStartOf(fetch.s, Text[fetch.id])
    /\ ~fetch.done => Len(fetch.s) < Len(Text[fetch.id]) /\ silent[fetch.id] < StrLimit

MemoOK ==
    /\ known \in [Strings -> {None} \cup {Text[s] : s \in Strings}] /\ KnownIsWhole
    /\ unanswered \in [Strings -> 0 .. StrLimit]
    /\ Listed(fetches)
    /\ \A i \in DOMAIN fetches : FetchOK(fetches[i], unanswered)
    /\ \A i, j \in DOMAIN fetches : fetches[i].id = fetches[j].id => i = j

\* The strings the texts are wanted for.
Spelt == {i \in DOMAIN sids : sids[i] \in Strings}
Sought == IF Where = "spotted" THEN <<Head(todo)>> ELSE Among(sids, Spelt)

TextsOK ==
    Where \in {"spotted", "names"} =>
        /\ Len(texts) + Len(want) = Len(Sought)
        /\ \A j \in DOMAIN want : want[j] = <<Sought[Len(texts) + j]>>
        /\ \A k \in DOMAIN texts : IsTextOf(texts[k], Sought[k])

\* The spots before those still to be checked agree.
CatalogOK ==
    /\ TableIsChecked
    /\ Where \in CatalogPlaces =>
          LET all == Tables[left].spots
          IN  /\ catalog = None
              /\ todo \in Seq(Strings) /\ Len(todo) <= Len(all)
              /\ \A j \in DOMAIN todo : todo[j] = all[Len(all) - Len(todo) + j]
              /\ \A j \in 1 .. Len(all) - Len(todo) :
                    IsPrefix(Tables[left].strings[all[j]], Text[all[j]])
    /\ Where = "spotted" => todo # <<>>

InOrder(ids, list) ==
    \A i, j \in DOMAIN ids : i < j => Before(list, ids[i], ids[j])

ShapeOK ==
    /\ shape = [name |-> shape.name, text |-> shape.text, ids |-> shape.ids,
                counted |-> shape.counted, count |-> shape.count]
    /\ shape.name \in {None} \cup Strings
    /\ shape.ids \in Seq(ToSet(Fields))
    /\ shape.counted \in BOOLEAN /\ complete \in BOOLEAN
    /\ Where = "recount" => shape.count \in Nat /\ shape.count > MaxFields
    /\ Where = "ids" => shape.count \in 0 .. Len(Ids(Group))
    /\ Where = "shape" => InOrder(shape.ids, Ids(Group))

GroupsOK ==
    /\ Listed(groups)
    /\ \A g \in DOMAIN groups :
          /\ groups[g] = [id |-> groups[g].id, text |-> groups[g].text, ids |-> groups[g].ids,
                          counted |-> groups[g].counted, fields |-> groups[g].fields]
          /\ InOrder(groups[g].ids, Ids(groups[g].id))

NamesOK ==
    Where = "names" =>
        /\ Listed(sids) /\ Len(sids) >= 2
        /\ \A o \in 1 .. Len(sids) - 2 :
              /\ o \in DOMAIN Labels[Field]
              /\ sids[o] \in Strings => sids[o] = Labels[Field][o]

FoundOK ==
    /\ Listed(found)
    /\ \A i \in DOMAIN found :
          \A o \in 1 .. Len(found[i].texts) - 2 :
              IsTextOf(found[i].texts[o], Labels[found[i].index][o])

MissesOK ==
    /\ misses \in [ops : [AllOps -> 0 .. MissLimit], silent : 0 .. MissLimit]
    /\ pc = "remeta" => (meta = <<>> => misses.silent < MissLimit)

ProgramOK ==
    /\ PlaceOK /\ LeftOK /\ MemoOK /\ TextsOK /\ CatalogOK
    /\ ShapeOK /\ GroupsOK /\ NamesOK /\ FoundOK /\ MissesOK

RequestInv == AnswersOK /\ AskOK /\ SlotsAreAwaited

DiscoveryInv == RequestInv /\ ProgramOK

-----------------------------------------------------------------------------
(* What is in a list. *)

LEMMA SetOfEmpty == ToSet(<<>>) = {} /\ IsInjective(<<>>) /\ Listed(<<>>)
<1>1. DOMAIN <<>> = {}
  OBVIOUS
<1>2. ToSet(<<>>) = {} /\ IsInjective(<<>>)
  BY <1>1 DEF ToSet, IsInjective
<1>3. <<>> \in Seq(ToSet(<<>>))
  OBVIOUS
<1> QED BY <1>2, <1>3 DEF Listed

LEMMA SeqIsListed ==
    ASSUME NEW S, NEW s \in Seq(S)
    PROVE  /\ Listed(s) /\ ToSet(s) \subseteq S
           /\ DOMAIN s = 1 .. Len(s) /\ Len(s) \in Nat
           /\ \A i \in 1 .. Len(s) : s[i] \in ToSet(s)
<1>1. DOMAIN s = 1 .. Len(s) /\ Len(s) \in Nat /\ \A i \in 1 .. Len(s) : s[i] \in S
  BY LenProperties, ElementOfSeq
<1>2. \A i \in 1 .. Len(s) : s[i] \in ToSet(s)
  BY <1>1 DEF ToSet
<1>3. s \in Seq(ToSet(s))
  BY <1>1, <1>2, LenProperties, SeqDef
<1>4. ToSet(s) \subseteq S
  BY <1>1 DEF ToSet
<1> QED BY <1>1, <1>2, <1>3, <1>4 DEF Listed

LEMMA SetOfTail ==
    ASSUME NEW S, NEW s \in Seq(S), s # <<>>
    PROVE  /\ Head(s) \in S /\ Tail(s) \in Seq(S)
           /\ Head(s) = s[1] /\ Len(Tail(s)) = Len(s) - 1 /\ Len(s) > 0
           /\ \A i \in 1 .. Len(s) - 1 : Tail(s)[i] = s[i + 1]
           /\ ToSet(s) = {Head(s)} \cup ToSet(Tail(s))
           /\ IsInjective(s) => IsInjective(Tail(s)) /\ Head(s) \notin ToSet(Tail(s))
<1>1. /\ Head(s) \in S /\ Tail(s) \in Seq(S) /\ Head(s) = s[1]
      /\ Len(Tail(s)) = Len(s) - 1 /\ Len(s) \in Nat /\ Len(s) > 0
      /\ \A i \in 1 .. Len(s) - 1 : Tail(s)[i] = s[i + 1]
      /\ DOMAIN s = 1 .. Len(s) /\ DOMAIN Tail(s) = 1 .. Len(s) - 1
  <2>1. Tail(s) \in Seq(S) /\ Len(Tail(s)) = Len(s) - 1 /\ Len(s) \in Nat /\ Len(s) > 0
    OBVIOUS
  <2>2. DOMAIN s = 1 .. Len(s) /\ DOMAIN Tail(s) = 1 .. Len(Tail(s))
    BY <2>1, LenProperties
  <2> QED BY <2>1, <2>2
<1> DEFINE t == Tail(s)
<1>2. /\ t \in Seq(S) /\ Len(s) \in Nat /\ Len(s) > 0
      /\ \A i \in 1 .. Len(s) - 1 : t[i] = s[i + 1]
      /\ DOMAIN s = 1 .. Len(s) /\ DOMAIN t = 1 .. Len(s) - 1
  BY <1>1
<1> HIDE DEF t
<1>3. ToSet(s) = {s[1]} \cup ToSet(t)
  <2>1. ASSUME NEW x \in ToSet(s)
        PROVE  x \in {s[1]} \cup ToSet(t)
    <3>1. PICK i \in 1 .. Len(s) : x = s[i]
      BY <1>2 DEF ToSet
    <3>2. CASE i = 1
      BY <3>1, <3>2
    <3>3. CASE i # 1
      <4>1. i - 1 \in 1 .. Len(s) - 1 /\ t[i - 1] = s[i]
        BY <1>2, <3>3
      <4> QED BY <1>2, <3>1, <4>1 DEF ToSet
    <3> QED BY <3>2, <3>3
  <2>2. ASSUME NEW x \in {s[1]} \cup ToSet(t)
        PROVE  x \in ToSet(s)
    <3>1. CASE x = s[1]
      BY <1>2, <3>1 DEF ToSet
    <3>2. CASE x \in ToSet(t)
      <4>1. PICK i \in 1 .. Len(s) - 1 : x = t[i]
        BY <1>2, <3>2 DEF ToSet
      <4>2. i + 1 \in 1 .. Len(s) /\ x = s[i + 1]
        BY <1>2, <4>1
      <4> QED BY <1>2, <4>2 DEF ToSet
    <3> QED BY <2>2, <3>1, <3>2
  <2> QED BY <2>1, <2>2
<1>4. ASSUME IsInjective(s)
      PROVE  IsInjective(t) /\ s[1] \notin ToSet(t)
  <2>1. \A i, j \in 1 .. Len(s) - 1 : t[i] = t[j] => i = j
    BY <1>2, <1>4 DEF IsInjective
  <2>2. \A i \in 1 .. Len(s) - 1 : t[i] # s[1]
    BY <1>2, <1>4 DEF IsInjective
  <2> QED BY <1>2, <2>1, <2>2 DEF IsInjective, ToSet
<1> QED BY <1>1, <1>3, <1>4 DEF t

LEMMA SetOfAppend ==
    ASSUME NEW S, NEW s \in Seq(S), NEW x \in S
    PROVE  /\ Append(s, x) \in Seq(S)
           /\ ToSet(Append(s, x)) = ToSet(s) \cup {x}
           /\ IsInjective(s) /\ x \notin ToSet(s) => IsInjective(Append(s, x))
<1> DEFINE t == Append(s, x)
<1>1. /\ t \in Seq(S) /\ Len(s) \in Nat /\ Len(t) = Len(s) + 1
      /\ \A i \in 1 .. Len(s) : t[i] = s[i]
      /\ t[Len(s) + 1] = x
  BY AppendProperties
<1>2. DOMAIN s = 1 .. Len(s) /\ DOMAIN t = 1 .. Len(s) + 1
  BY <1>1, LenProperties
<1> HIDE DEF t
<1>3. ToSet(t) = ToSet(s) \cup {x}
  <2>1. ASSUME NEW y \in ToSet(t)
        PROVE  y \in ToSet(s) \cup {x}
    <3>1. PICK i \in 1 .. Len(s) + 1 : y = t[i]
      BY <1>2 DEF ToSet
    <3>2. i = Len(s) + 1 \/ i \in 1 .. Len(s)
      BY <1>1
    <3> QED BY <1>1, <1>2, <3>1, <3>2 DEF ToSet
  <2>2. ASSUME NEW y \in ToSet(s)
        PROVE  y \in ToSet(t)
    <3>1. PICK i \in 1 .. Len(s) : y = s[i]
      BY <1>2 DEF ToSet
    <3>2. i \in 1 .. Len(s) + 1 /\ y = t[i]
      BY <1>1, <3>1
    <3> QED BY <1>2, <3>2 DEF ToSet
  <2>3. x \in ToSet(t)
    <3>1. Len(s) + 1 \in 1 .. Len(s) + 1
      BY <1>1
    <3> QED BY <1>1, <1>2, <3>1 DEF ToSet
  <2> QED BY <2>1, <2>2, <2>3
<1>4. ASSUME IsInjective(s), x \notin ToSet(s)
      PROVE  IsInjective(t)
  <2>1. \A i \in 1 .. Len(s) : s[i] # x
    BY <1>2, <1>4 DEF ToSet
  <2>2. \A i, j \in 1 .. Len(s) : s[i] = s[j] => i = j
    BY <1>2, <1>4 DEF IsInjective
  <2>3. \A i, j \in 1 .. Len(s) + 1 : t[i] = t[j] => i = j
    <3>1. \A i \in 1 .. Len(s) + 1 : i = Len(s) + 1 \/ (i \in 1 .. Len(s) /\ t[i] = s[i])
      BY <1>1
    <3> QED BY <1>1, <2>1, <2>2, <3>1
  <2> QED BY <1>2, <2>3 DEF IsInjective
<1> QED BY <1>1, <1>3, <1>4 DEF t

LEMMA SetOfConcat ==
    ASSUME NEW S, NEW s \in Seq(S), NEW u \in Seq(S)
    PROVE  /\ s \o u \in Seq(S)
           /\ ToSet(s \o u) = ToSet(s) \cup ToSet(u)
           /\ IsInjective(s) /\ IsInjective(u) /\ Apart(s, u) => IsInjective(s \o u)
<1> DEFINE t == s \o u
<1>1. /\ t \in Seq(S) /\ Len(s) \in Nat /\ Len(u) \in Nat /\ Len(t) = Len(s) + Len(u)
      /\ \A i \in 1 .. Len(s) + Len(u) : t[i] = IF i <= Len(s) THEN s[i] ELSE u[i - Len(s)]
  BY ConcatProperties, LenProperties
<1>2. DOMAIN s = 1 .. Len(s) /\ DOMAIN u = 1 .. Len(u) /\ DOMAIN t = 1 .. Len(s) + Len(u)
  BY <1>1, LenProperties
<1> HIDE DEF t
<1>3. /\ \A i \in 1 .. Len(s) : i \in 1 .. Len(s) + Len(u) /\ t[i] = s[i]
      /\ \A i \in 1 .. Len(u) : i + Len(s) \in 1 .. Len(s) + Len(u) /\ t[i + Len(s)] = u[i]
      /\ \A i \in 1 .. Len(s) + Len(u) :
            \/ i \in 1 .. Len(s) /\ t[i] = s[i]
            \/ i - Len(s) \in 1 .. Len(u) /\ t[i] = u[i - Len(s)]
  <2>1. \A i \in 1 .. Len(s) : i \in 1 .. Len(s) + Len(u) /\ t[i] = s[i]
    BY <1>1
  <2>2. ASSUME NEW i \in 1 .. Len(u)
        PROVE  i + Len(s) \in 1 .. Len(s) + Len(u) /\ t[i + Len(s)] = u[i]
    <3>1. i + Len(s) \in 1 .. Len(s) + Len(u) /\ ~(i + Len(s) <= Len(s)) /\ i + Len(s) - Len(s) = i
      BY <1>1
    <3> QED BY <1>1, <3>1
  <2>3. ASSUME NEW i \in 1 .. Len(s) + Len(u)
        PROVE  \/ i \in 1 .. Len(s) /\ t[i] = s[i]
               \/ i - Len(s) \in 1 .. Len(u) /\ t[i] = u[i - Len(s)]
    BY <1>1
  <2> QED BY <2>1, <2>2, <2>3
<1>4. ToSet(t) = ToSet(s) \cup ToSet(u)
  <2>1. ASSUME NEW y \in ToSet(t)
        PROVE  y \in ToSet(s) \cup ToSet(u)
    <3>1. PICK i \in 1 .. Len(s) + Len(u) : y = t[i]
      BY <1>2 DEF ToSet
    <3> QED BY <1>2, <1>3, <3>1 DEF ToSet
  <2>2. ASSUME NEW y \in ToSet(s)
        PROVE  y \in ToSet(t)
    BY <1>2, <1>3 DEF ToSet
  <2>3. ASSUME NEW y \in ToSet(u)
        PROVE  y \in ToSet(t)
    BY <1>2, <1>3 DEF ToSet
  <2> QED BY <2>1, <2>2, <2>3
<1>5. ASSUME IsInjective(s), IsInjective(u), Apart(s, u)
      PROVE  IsInjective(t)
  <2>1. \A i, j \in 1 .. Len(s) : s[i] = s[j] => i = j
    BY <1>2, <1>5 DEF IsInjective
  <2>2. \A i, j \in 1 .. Len(u) : u[i] = u[j] => i = j
    BY <1>2, <1>5 DEF IsInjective
  <2>3. \A i \in 1 .. Len(s), j \in 1 .. Len(u) : s[i] # u[j]
    BY <1>2, <1>5 DEF Apart, ToSet
  <2>4. ASSUME NEW i \in 1 .. Len(s) + Len(u), NEW j \in 1 .. Len(s) + Len(u), t[i] = t[j]
        PROVE  i = j
    <3>1. CASE i \in 1 .. Len(s) /\ t[i] = s[i] /\ j \in 1 .. Len(s) /\ t[j] = s[j]
      BY <2>1, <2>4, <3>1
    <3>2. CASE i - Len(s) \in 1 .. Len(u) /\ t[i] = u[i - Len(s)]
               /\ j - Len(s) \in 1 .. Len(u) /\ t[j] = u[j - Len(s)]
      <4>1. i - Len(s) = j - Len(s)
        BY <2>2, <2>4, <3>2
      <4> QED BY <1>1, <4>1
    <3> QED BY <1>3, <2>3, <2>4, <3>1, <3>2
  <2> QED BY <1>2, <2>4 DEF IsInjective
<1> QED BY <1>1, <1>4, <1>5 DEF t

LEMMA RestOfTail ==
    ASSUME NEW batches \in Seq(Seq(Keys)), batches # <<>>, Different(batches)
    PROVE  /\ Head(batches) \in Seq(Keys) /\ Tail(batches) \in Seq(Seq(Keys))
           /\ Rest(batches) = ToSet(Head(batches)) \cup Rest(Tail(batches))
           /\ IsInjective(Head(batches)) /\ Different(Tail(batches))
           /\ ToSet(Head(batches)) \cap Rest(Tail(batches)) = {}
<1> DEFINE h == Head(batches)
           t == Tail(batches)
<1>1. /\ h \in Seq(Keys) /\ t \in Seq(Seq(Keys)) /\ h = batches[1]
      /\ Len(batches) \in Nat /\ Len(batches) > 0 /\ Len(t) = Len(batches) - 1
      /\ \A i \in 1 .. Len(batches) - 1 : t[i] = batches[i + 1]
  BY SetOfTail, LenProperties
<1>2. DOMAIN batches = 1 .. Len(batches) /\ DOMAIN t = 1 .. Len(batches) - 1
  BY <1>1, LenProperties
<1> HIDE DEF h, t
<1>3. \A i \in 1 .. Len(batches) : i = 1 \/ (i - 1 \in 1 .. Len(batches) - 1 /\ batches[i] = t[i - 1])
  BY <1>1
<1>4. Rest(batches) = ToSet(h) \cup Rest(t)
  <2>1. ASSUME NEW k \in Rest(batches)
        PROVE  k \in ToSet(h) \cup Rest(t)
    <3>1. PICK i \in 1 .. Len(batches) : k \in ToSet(batches[i])
      BY <1>2 DEF Rest
    <3>2. CASE i = 1
      BY <1>1, <3>1, <3>2
    <3>3. CASE i - 1 \in 1 .. Len(batches) - 1 /\ batches[i] = t[i - 1]
      BY <1>2, <3>1, <3>3 DEF Rest
    <3> QED BY <1>3, <3>2, <3>3
  <2>2. ASSUME NEW k \in ToSet(h)
        PROVE  k \in Rest(batches)
    BY <1>1, <1>2, <2>2 DEF Rest
  <2>3. ASSUME NEW k \in Rest(t)
        PROVE  k \in Rest(batches)
    <3>1. PICK i \in 1 .. Len(batches) - 1 : k \in ToSet(t[i])
      BY <1>2 DEF Rest
    <3>2. i + 1 \in 1 .. Len(batches) /\ k \in ToSet(batches[i + 1])
      BY <1>1, <3>1
    <3> QED BY <1>2, <3>2 DEF Rest
  <2> QED BY <2>1, <2>2, <2>3
<1>5. IsInjective(h)
  <2>1. 1 \in DOMAIN batches
    BY <1>1, <1>2
  <2> QED BY <1>1, <2>1 DEF Different
<1>6. ASSUME NEW i \in 1 .. Len(batches) - 1, NEW j \in 1 .. Len(batches) - 1
      PROVE  IsInjective(t[i]) /\ (i # j => Apart(t[i], t[j]))
  <2>1. i + 1 \in 1 .. Len(batches) /\ j + 1 \in 1 .. Len(batches) /\ (i # j => i + 1 # j + 1)
    BY <1>1
  <2>2. IsInjective(batches[i + 1]) /\ (i # j => Apart(batches[i + 1], batches[j + 1]))
    BY <1>2, <2>1 DEF Different
  <2> QED BY <1>1, <2>2
<1>7. ASSUME NEW k \in ToSet(h), k \in Rest(t)
      PROVE  FALSE
  <2>1. PICK i \in 1 .. Len(batches) - 1 : k \in ToSet(t[i])
    BY <1>2, <1>7 DEF Rest
  <2>2. i + 1 \in 1 .. Len(batches) /\ i + 1 # 1 /\ 1 \in 1 .. Len(batches)
    BY <1>1
  <2>3. Apart(batches[1], batches[i + 1])
    BY <1>2, <2>2 DEF Different
  <2> QED BY <1>1, <1>7, <2>1, <2>3 DEF Apart
<1> QED BY <1>1, <1>2, <1>4, <1>5, <1>6, <1>7 DEF h, t, Different

-----------------------------------------------------------------------------
(* Requests. *)

LEMMA KeysOfList ==
    ASSUME NEW s
    PROVE  KeysOf(s) = ToSet(s)
BY DEF KeysOf, Key, ToSet

\* The parts of a question that is in order.
LEMMA PartsOfQuestion ==
    ASSUME NEW a, QuestionOK(a)
    PROVE  /\ a.stage \in Stages /\ a.batches \in Seq(Seq(Keys)) /\ a.tries \in Nat
           /\ a.patient \in BOOLEAN /\ a.attempt \in Nat
           /\ a.open \in Seq(Keys) /\ a.missed \in Seq(Keys) /\ a.late \in Seq(Keys)
           /\ ToSet(a.open) \subseteq Keys /\ ToSet(a.missed) \subseteq Keys
           /\ ToSet(a.late) \subseteq Keys /\ HeldBy(a) \subseteq Keys
<1>1. /\ a.stage \in Stages /\ a.batches \in Seq(Seq(Keys)) /\ a.tries \in Nat
      /\ a.patient \in BOOLEAN /\ a.attempt \in Nat
      /\ a.open \in Seq(Keys) /\ a.missed \in Seq(Keys) /\ a.late \in Seq(Keys)
  BY DEF QuestionOK, Question
<1>2. /\ ToSet(a.open) \subseteq Keys /\ ToSet(a.missed) \subseteq Keys
      /\ ToSet(a.late) \subseteq Keys
  BY <1>1, SeqIsListed
<1> QED BY <1>1, <1>2 DEF HeldBy

LEMMA KeptOf ==
    ASSUME NEW a, QuestionOK(a)
    PROVE  (IF a.stage = "wait" THEN KeysOf(a.open) ELSE {})
           \cup KeysOf(IF a.stage = "wait" /\ a.patient /\ a.attempt = a.tries
                       THEN a.late \o a.missed ELSE a.late)
           = HeldBy(a)
<1>1. a.missed \in Seq(Keys) /\ a.late \in Seq(Keys)
  BY PartsOfQuestion
<1>2. ToSet(a.late \o a.missed) = ToSet(a.late) \cup ToSet(a.missed)
  BY <1>1, SetOfConcat
<1>3. CASE a.stage = "wait" /\ a.patient /\ a.attempt = a.tries
  BY <1>2, <1>3, KeysOfList DEF HeldBy
<1>4. CASE ~(a.stage = "wait" /\ a.patient /\ a.attempt = a.tries)
  BY <1>4, KeysOfList DEF HeldBy
<1> QED BY <1>3, <1>4

Awaited(table1, a) == \A k \in Keys : (table1[k] # Absent) <=> (k \in HeldBy(a))

LEMMA AwaitedIs ==
    ASSUME AskOK
    PROVE  SlotsAreAwaited <=> Awaited(slots, ask)
<1>1. Sent \cup Kept = HeldBy(ask)
  BY KeptOf DEF AskOK, Sent, Kept, Keeps
<1>2. HeldBy(ask) \subseteq Keys
  BY PartsOfQuestion DEF AskOK
<1> QED BY <1>1, <1>2 DEF SlotsAreAwaited, Awaited, Table!Registered

LEMMA AwaitedWillBe ==
    ASSUME AskOK'
    PROVE  SlotsAreAwaited' <=> Awaited(slots', ask')
<1>1. (Sent \cup Kept)' = HeldBy(ask')
  BY KeptOf DEF AskOK, Sent, Kept, Keeps
<1>2. HeldBy(ask') \subseteq Keys
  BY PartsOfQuestion DEF AskOK
<1> QED BY <1>1, <1>2 DEF SlotsAreAwaited, Awaited, Table!Registered

\* What a step does with the answers that are there.
Uses ==
    \A k \in Keys :
        slots[k] \notin {Absent, None} =>
            slots'[k] \notin {Absent, None} \/ got'[k] = slots[k]

LEMMA SendKeeps ==
    ASSUME RequestInv, Send
    PROVE  RequestInv' /\ Uses
<1>1. /\ ask.stage = "send" /\ flying' = flying \o ask.open
      /\ ask' = [ask EXCEPT !.stage = "wait"] /\ got' = got
  BY DEF Send
<1>2. QuestionOK(ask) /\ Awaited(slots, ask)
  BY AwaitedIs DEF RequestInv, AskOK
<1>3. /\ ask \in Question
      /\ ask.open \in Seq(Keys) /\ ask.missed = <<>> /\ ToSet(ask.missed) = {}
      /\ Apart(ask.open, ask.late)
  BY <1>1, <1>2, PartsOfQuestion, SetOfEmpty DEF QuestionOK
<1>4. slots' = [k \in Keys |-> IF k \in ToSet(ask.open) THEN None ELSE slots[k]]
  BY KeysOfList DEF Send, RegisterAll
<1>5. /\ ask' \in Question
      /\ ask'.stage = "wait" /\ ask'.batches = ask.batches /\ ask'.tries = ask.tries
      /\ ask'.patient = ask.patient /\ ask'.attempt = ask.attempt /\ ask'.open = ask.open
      /\ ask'.missed = ask.missed /\ ask'.late = ask.late
  BY <1>1, <1>3 DEF Question, Stages
<1>6. AskOK'
  BY <1>1, <1>2, <1>5 DEF QuestionOK, AskOK
<1>7. HeldBy(ask) = ToSet(ask.late) /\ HeldBy(ask') = ToSet(ask.late) \cup ToSet(ask.open)
  BY <1>1, <1>3, <1>5 DEF HeldBy
<1>8. Awaited(slots', ask')
  BY <1>2, <1>4, <1>7, DiscoveryAssumption DEF Awaited
<1>9. Uses
  BY <1>1, <1>2, <1>3, <1>4, <1>7 DEF Uses, Awaited, Apart
<1>10. AnswersOK'
  <2>1. flying' \in Seq(Keys)
    BY <1>1, <1>3, SetOfConcat DEF RequestInv, AnswersOK
  <2> QED BY <1>1, <1>4, <2>1 DEF RequestInv, AnswersOK
<1> QED BY <1>6, <1>8, <1>9, <1>10, AwaitedWillBe DEF RequestInv

LEMMA TakeReplyKeeps ==
    ASSUME RequestInv, TakeReply
    PROVE  RequestInv' /\ Uses
<1> DEFINE k == Head(ask.open)
<1>1. /\ ask.stage = "wait" /\ ask.open # <<>> /\ flying' = flying
      /\ ask' = [ask EXCEPT !.open = Tail(ask.open)]
      /\ slots[k] \notin {Absent, None}
      /\ got' = [got EXCEPT ![k] = slots[k]] /\ slots' = [slots EXCEPT ![k] = Absent]
  BY DEF TakeReply, Waiting, Take, Key, Table!Answered, Table!Remove
<1>2. QuestionOK(ask) /\ Awaited(slots, ask) /\ AnswersOK
  BY AwaitedIs DEF RequestInv, AskOK
<1>3. /\ ask \in Question /\ ask.open \in Seq(Keys)
      /\ Apart(ask.open, ask.late) /\ Apart(ask.open, ask.missed) /\ IsInjective(ask.open)
  BY <1>2, PartsOfQuestion DEF QuestionOK
<1>4. /\ k \in Keys /\ Tail(ask.open) \in Seq(Keys)
      /\ ToSet(ask.open) = {k} \cup ToSet(Tail(ask.open))
      /\ IsInjective(Tail(ask.open)) /\ k \notin ToSet(Tail(ask.open))
  BY <1>1, <1>3, SetOfTail
<1> HIDE DEF k
<1>5. /\ ask' \in Question
      /\ ask'.stage = "wait" /\ ask'.batches = ask.batches /\ ask'.tries = ask.tries
      /\ ask'.patient = ask.patient /\ ask'.attempt = ask.attempt /\ ask'.open = Tail(ask.open)
      /\ ask'.missed = ask.missed /\ ask'.late = ask.late
  BY <1>1, <1>3, <1>4 DEF Question
<1>6. AskOK'
  BY <1>1, <1>2, <1>4, <1>5 DEF QuestionOK, AskOK, Apart
<1>7. HeldBy(ask) = HeldBy(ask') \cup {k} /\ k \notin HeldBy(ask')
  BY <1>1, <1>3, <1>4, <1>5 DEF HeldBy, Apart
<1>8. Awaited(slots', ask')
  BY <1>1, <1>2, <1>4, <1>7 DEF Awaited, AnswersOK
<1>9. Uses
  BY <1>1, <1>2, <1>4 DEF Uses, AnswersOK
<1>10. AnswersOK'
  BY <1>1, <1>2, <1>4 DEF AnswersOK
<1> QED BY <1>6, <1>8, <1>9, <1>10, AwaitedWillBe DEF RequestInv

LEMMA MissReplyKeeps ==
    ASSUME RequestInv, MissReply
    PROVE  RequestInv' /\ Uses
<1> DEFINE k == Head(ask.open)
           keeps == ask.patient /\ ask.attempt = ask.tries
<1>1. /\ ask.stage = "wait" /\ ask.open # <<>> /\ flying' = flying
      /\ ask' = [ask EXCEPT !.open = Tail(ask.open), !.missed = Append(ask.missed, k)]
      /\ slots[k] \in {Absent, None} /\ got' = got
      /\ slots' = IF keeps THEN slots ELSE [slots EXCEPT ![k] = Absent]
  BY DEF MissReply, Waiting, GiveUp, Keeps, Key, Table!Answered, Table!Remove
<1>2. QuestionOK(ask) /\ Awaited(slots, ask) /\ AnswersOK
  BY AwaitedIs DEF RequestInv, AskOK
<1>3. /\ ask \in Question /\ ask.open \in Seq(Keys) /\ ask.missed \in Seq(Keys)
      /\ Apart(ask.open, ask.late) /\ Apart(ask.open, ask.missed)
      /\ IsInjective(ask.open) /\ IsInjective(ask.missed)
  BY <1>2, PartsOfQuestion DEF QuestionOK
<1>4. /\ k \in Keys /\ Tail(ask.open) \in Seq(Keys)
      /\ ToSet(ask.open) = {k} \cup ToSet(Tail(ask.open))
      /\ IsInjective(Tail(ask.open)) /\ k \notin ToSet(Tail(ask.open))
  BY <1>1, <1>3, SetOfTail
<1> HIDE DEF k
<1>5. /\ Append(ask.missed, k) \in Seq(Keys)
      /\ ToSet(Append(ask.missed, k)) = ToSet(ask.missed) \cup {k}
      /\ IsInjective(Append(ask.missed, k))
  BY <1>3, <1>4, SetOfAppend DEF Apart
<1>6. /\ ask' \in Question
      /\ ask'.stage = "wait" /\ ask'.batches = ask.batches /\ ask'.tries = ask.tries
      /\ ask'.patient = ask.patient /\ ask'.attempt = ask.attempt /\ ask'.open = Tail(ask.open)
      /\ ask'.missed = Append(ask.missed, k) /\ ask'.late = ask.late
  BY <1>1, <1>3, <1>4, <1>5 DEF Question
<1>7. AskOK'
  BY <1>1, <1>2, <1>3, <1>4, <1>5, <1>6 DEF QuestionOK, AskOK, Apart
<1>8. /\ keeps => HeldBy(ask) = HeldBy(ask')
      /\ ~keeps => HeldBy(ask) = HeldBy(ask') \cup {k} /\ k \notin HeldBy(ask')
  BY <1>1, <1>3, <1>4, <1>5, <1>6 DEF HeldBy, Apart
<1>9. Awaited(slots', ask')
  BY <1>1, <1>2, <1>4, <1>8 DEF Awaited, AnswersOK
<1>10. Uses
  BY <1>1, <1>2, <1>4 DEF Uses, AnswersOK
<1>11. AnswersOK'
  BY <1>1, <1>2, <1>4 DEF AnswersOK
<1> QED BY <1>7, <1>9, <1>10, <1>11, AwaitedWillBe DEF RequestInv

LEMMA NextSendingKeeps ==
    ASSUME RequestInv, NextSending
    PROVE  RequestInv' /\ Uses
<1> DEFINE late == IF ask.patient THEN ask.late \o ask.missed ELSE <<>>
           again == ask.missed # <<>> /\ ask.attempt < ask.tries
<1>1. /\ ask.stage = "wait" /\ ask.open = <<>>
      /\ slots' = slots /\ flying' = flying /\ got' = got
  BY DEF NextSending
<1>2. QuestionOK(ask) /\ Awaited(slots, ask) /\ AnswersOK
  BY AwaitedIs DEF RequestInv, AskOK
<1>3. /\ ask \in Question /\ ask.missed \in Seq(Keys) /\ ask.late \in Seq(Keys)
      /\ ask.batches \in Seq(Seq(Keys)) /\ ask.attempt \in Nat /\ ask.tries \in Nat
      /\ Apart(ask.missed, ask.late) /\ IsInjective(ask.missed) /\ IsInjective(ask.late)
      /\ ask.patient \in BOOLEAN /\ (ask.patient \/ ask.late = <<>>)
      /\ ask.attempt <= ask.tries /\ ask.attempt >= 1
      /\ ToSet(ask.open) = {} /\ ToSet(<<>>) = {} /\ IsInjective(<<>>)
      /\ <<>> \in Seq(Keys)
  BY <1>1, <1>2, PartsOfQuestion, SetOfEmpty DEF QuestionOK, Apart
<1>4. /\ late \in Seq(Keys) /\ IsInjective(late)
      /\ ToSet(late) = IF ask.patient THEN ToSet(ask.late) \cup ToSet(ask.missed) ELSE {}
  <2>1. CASE ask.patient
    <3>1. late = ask.late \o ask.missed
      BY <2>1
    <3>2. Apart(ask.late, ask.missed)
      BY <1>3 DEF Apart
    <3> HIDE DEF late
    <3> QED BY <1>3, <2>1, <3>1, <3>2, SetOfConcat
  <2>2. CASE ~ask.patient
    <3>1. late = <<>>
      BY <2>2
    <3> HIDE DEF late
    <3> QED BY <1>3, <2>2, <3>1
  <2> QED BY <2>1, <2>2
<1>5. ASSUME ~again
      PROVE  HeldBy(ask) = ToSet(late)
  <2>1. ask.missed = <<>> \/ ask.attempt = ask.tries
    BY <1>3, <1>5
  <2> QED BY <1>1, <1>3, <1>4, <2>1 DEF HeldBy
<1>6. CASE again
  <2>1. ask' = [ask EXCEPT !.stage = "send", !.attempt = ask.attempt + 1,
                           !.open = ask.missed, !.missed = <<>>]
    BY <1>6 DEF NextSending
  <2> HIDE DEF late
  <2>0. ask.attempt + 1 \in Nat
    BY <1>3
  <2>2. /\ ask' \in Question
        /\ ask'.stage = "send" /\ ask'.batches = ask.batches /\ ask'.tries = ask.tries
        /\ ask'.patient = ask.patient /\ ask'.attempt = ask.attempt + 1
        /\ ask'.open = ask.missed /\ ask'.missed = <<>> /\ ask'.late = ask.late
    BY <1>3, <2>0, <2>1 DEF Question, Stages
  <2>3. AskOK'
    BY <1>1, <1>2, <1>3, <1>6, <2>2 DEF QuestionOK, AskOK, Apart
  <2>4. HeldBy(ask) = HeldBy(ask')
    BY <1>1, <1>3, <1>6, <2>2 DEF HeldBy
  <2>5. Awaited(slots', ask')
    BY <1>1, <1>2, <2>4 DEF Awaited
  <2> QED BY <1>1, <1>2, <2>3, <2>5, AwaitedWillBe DEF RequestInv, Uses, AnswersOK
<1>7. CASE ~again /\ ask.batches # <<>>
  <2>1. ask' = [ask EXCEPT !.stage = "send", !.attempt = 1, !.batches = Tail(ask.batches),
                           !.open = Head(ask.batches), !.missed = <<>>, !.late = late]
    BY <1>7 DEF NextSending
  <2>2. /\ Head(ask.batches) \in Seq(Keys) /\ Tail(ask.batches) \in Seq(Seq(Keys))
        /\ Rest(ask.batches) = ToSet(Head(ask.batches)) \cup Rest(Tail(ask.batches))
        /\ IsInjective(Head(ask.batches)) /\ Different(Tail(ask.batches))
        /\ ToSet(Head(ask.batches)) \cap Rest(Tail(ask.batches)) = {}
    BY <1>2, <1>3, <1>7, RestOfTail DEF QuestionOK
  <2> HIDE DEF late
  <2>3. /\ ask' \in Question
        /\ ask'.stage = "send" /\ ask'.batches = Tail(ask.batches) /\ ask'.tries = ask.tries
        /\ ask'.patient = ask.patient /\ ask'.attempt = 1 /\ ask'.open = Head(ask.batches)
        /\ ask'.missed = <<>> /\ ask'.late = late
    BY <1>3, <1>4, <2>1, <2>2 DEF Question, Stages
  <2>4. \A k \in ToSet(ask.open) \cup ToSet(ask.missed) \cup ToSet(ask.late)
                 \cup Rest(ask.batches) : ~IsChunk(k)
    BY <1>1, <1>2, <1>7 DEF QuestionOK
  <2>5. ask'.patient \/ ask'.late = <<>>
    BY <1>3, <2>3 DEF late
  <2>6. Rest(ask.batches) \cap (ToSet(ask.missed) \cup ToSet(ask.late)) = {}
    BY <1>2 DEF QuestionOK
  <2>7. AskOK'
    BY <1>3, <1>4, <2>2, <2>3, <2>4, <2>5, <2>6 DEF QuestionOK, AskOK, Apart
  <2>8. HeldBy(ask) = HeldBy(ask')
    BY <1>5, <1>7, <2>3 DEF HeldBy
  <2>9. Awaited(slots', ask')
    BY <1>1, <1>2, <2>8 DEF Awaited
  <2> QED BY <1>1, <1>2, <2>7, <2>9, AwaitedWillBe DEF RequestInv, Uses, AnswersOK
<1>8. CASE ~again /\ ask.batches = <<>>
  <2>1. ask' = [ask EXCEPT !.stage = "late", !.open = <<>>, !.missed = <<>>, !.late = late]
    BY <1>8, Zenon DEF NextSending
  <2> HIDE DEF late
  <2>2. /\ ask' \in Question
        /\ ask'.stage = "late" /\ ask'.batches = ask.batches /\ ask'.tries = ask.tries
        /\ ask'.patient = ask.patient /\ ask'.attempt = ask.attempt /\ ask'.open = <<>>
        /\ ask'.missed = <<>> /\ ask'.late = late
    BY <1>3, <1>4, <2>1 DEF Question, Stages
  <2>3. ask'.patient \/ ask'.late = <<>>
    BY <1>3, <2>2 DEF late
  <2>4. Rest(ask'.batches) \cap ToSet(late) = {}
    BY <1>2, <1>4, <2>2 DEF QuestionOK
  <2>5. AskOK'
    BY <1>2, <1>3, <1>4, <2>2, <2>3, <2>4 DEF QuestionOK, AskOK, Apart
  <2>6. HeldBy(ask) = HeldBy(ask')
    BY <1>5, <1>8, <2>2 DEF HeldBy
  <2>7. Awaited(slots', ask')
    BY <1>1, <1>2, <2>6 DEF Awaited
  <2> QED BY <1>1, <1>2, <2>5, <2>7, AwaitedWillBe DEF RequestInv, Uses, AnswersOK
<1> QED BY <1>6, <1>7, <1>8

LEMMA CollectLateKeeps ==
    ASSUME RequestInv, CollectLate
    PROVE  RequestInv' /\ Uses
<1> DEFINE k == Head(ask.late)
<1>1. /\ ask.stage = "late" /\ ask.late # <<>> /\ flying' = flying
      /\ ask' = [ask EXCEPT !.late = Tail(ask.late)]
      /\ slots' = [slots EXCEPT ![k] = Absent]
      /\ \/ slots[k] \notin {Absent, None} /\ got' = [got EXCEPT ![k] = slots[k]]
         \/ slots[k] \in {Absent, None} /\ got' = got
  BY DEF CollectLate, Waiting, Take, GiveUp, Key, Table!Answered, Table!Remove
<1>2. QuestionOK(ask) /\ Awaited(slots, ask) /\ AnswersOK
  BY AwaitedIs DEF RequestInv, AskOK
<1>3. ask \in Question /\ ask.late \in Seq(Keys) /\ IsInjective(ask.late)
  BY <1>2, PartsOfQuestion DEF QuestionOK
<1>4. /\ k \in Keys /\ Tail(ask.late) \in Seq(Keys)
      /\ ToSet(ask.late) = {k} \cup ToSet(Tail(ask.late))
      /\ IsInjective(Tail(ask.late)) /\ k \notin ToSet(Tail(ask.late))
  BY <1>1, <1>3, SetOfTail
<1> HIDE DEF k
<1>5. /\ ask' \in Question
      /\ ask'.stage = "late" /\ ask'.batches = ask.batches /\ ask'.tries = ask.tries
      /\ ask'.patient = ask.patient /\ ask'.attempt = ask.attempt /\ ask'.open = ask.open
      /\ ask'.missed = ask.missed /\ ask'.late = Tail(ask.late)
  BY <1>1, <1>3, <1>4 DEF Question
<1>6. AskOK'
  BY <1>1, <1>2, <1>4, <1>5 DEF QuestionOK, AskOK, Apart
<1>7. HeldBy(ask) = HeldBy(ask') \cup {k} /\ k \notin HeldBy(ask')
  BY <1>1, <1>4, <1>5 DEF HeldBy
<1>8. Awaited(slots', ask')
  BY <1>1, <1>2, <1>4, <1>7 DEF Awaited, AnswersOK
<1>9. Uses
  BY <1>1, <1>2, <1>4 DEF Uses, AnswersOK
<1>10. AnswersOK'
  BY <1>1, <1>2, <1>4 DEF AnswersOK
<1> QED BY <1>6, <1>8, <1>9, <1>10, AwaitedWillBe DEF RequestInv

\* Of no question nothing is asked.
LEMMA NothingAsked ==
    QuestionOK(NoQuestion) /\ HeldBy(NoQuestion) = {} /\ NoQuestion.stage = "over"
<1>1. <<>> \in Seq(Keys) /\ <<>> \in Seq(Seq(Keys)) /\ DOMAIN <<>> = {}
  OBVIOUS
<1>2. /\ NoQuestion \in Question
      /\ NoQuestion.stage = "over" /\ NoQuestion.batches = <<>> /\ NoQuestion.patient = FALSE
      /\ NoQuestion.open = <<>> /\ NoQuestion.missed = <<>> /\ NoQuestion.late = <<>>
  BY <1>1 DEF NoQuestion, Question, Stages
<1>3. Different(<<>>) /\ Rest(<<>>) = {} /\ ToSet(<<>>) = {} /\ IsInjective(<<>>)
  BY <1>1, SetOfEmpty DEF Different, Rest
<1> QED BY <1>2, <1>3 DEF QuestionOK, HeldBy, Apart

LEMMA EndQuestionKeeps ==
    ASSUME RequestInv, EndQuestion
    PROVE  RequestInv' /\ Uses
<1>1. /\ ask.stage = "late" /\ ask.late = <<>> /\ ask' = NoQuestion
      /\ slots' = slots /\ flying' = flying /\ got' = got
  BY DEF EndQuestion
<1>2. QuestionOK(ask) /\ Awaited(slots, ask) /\ AnswersOK
  BY AwaitedIs DEF RequestInv, AskOK
<1>3. HeldBy(ask) = {} /\ HeldBy(ask') = {} /\ AskOK'
  BY <1>1, SetOfEmpty, NothingAsked DEF HeldBy, AskOK
<1>4. Awaited(slots', ask')
  BY <1>1, <1>2, <1>3 DEF Awaited
<1> QED BY <1>1, <1>2, <1>3, <1>4, AwaitedWillBe DEF RequestInv, Uses, AnswersOK

\* A string's chunks are not kept while others are asked for.
LEMMA BetweenKeeps ==
    ASSUME RequestInv, NEW k \in Keys, IsChunk(k), Between(k)
    PROVE  RequestInv' /\ Uses
<1>1. /\ ask.stage = "send" /\ ask' = ask /\ got' = got
      /\ slots' = [slots EXCEPT ![k] = Absent] /\ flying' = Append(flying, k)
  BY DEF Between, Table!Remove
<1>2. QuestionOK(ask) /\ Awaited(slots, ask) /\ AnswersOK
  BY AwaitedIs DEF RequestInv, AskOK
<1>3. k \notin HeldBy(ask)
  <2>1. HeldBy(ask) = ToSet(ask.late) /\ (ask.late = <<>> => ToSet(ask.late) = {})
    BY <1>1, SetOfEmpty DEF HeldBy
  <2> QED BY <1>1, <1>2, <2>1 DEF QuestionOK
<1>4. slots[k] = Absent /\ DOMAIN slots' = Keys /\ \A j \in Keys : slots'[j] = slots[j]
  BY <1>1, <1>2, <1>3 DEF Awaited, AnswersOK
<1>5. Awaited(slots', ask') /\ AskOK'
  BY <1>1, <1>2, <1>4 DEF AskOK, Awaited
<1>6. AnswersOK'
  <2>1. flying' \in Seq(Keys)
    BY <1>1, <1>2, SetOfAppend DEF AnswersOK
  <2> QED BY <1>1, <1>2, <1>4, <2>1 DEF AnswersOK
<1>7. Uses
  BY <1>4 DEF Uses
<1> QED BY <1>5, <1>6, <1>7, AwaitedWillBe DEF RequestInv

LEMMA DeviceKeeps ==
    ASSUME RequestInv, Device
    PROVE  RequestInv' /\ Uses
<1>1. QuestionOK(ask) /\ Awaited(slots, ask) /\ AnswersOK
  BY AwaitedIs DEF RequestInv, AskOK
<1>2. ASSUME flying # <<>>
      PROVE  Head(flying) \in Keys /\ Tail(flying) \in Seq(Keys)
  BY <1>1, <1>2, SetOfTail DEF AnswersOK
<1>3. ASSUME flying # <<>>, NEW reply \in Replies(Head(flying)), AnswerWith(reply)
      PROVE  RequestInv' /\ Uses
  <2> DEFINE k == Head(flying)
  <2>1. /\ ask' = ask /\ got' = got /\ flying' = Tail(flying)
        /\ slots' = IF slots[k] # Absent THEN [slots EXCEPT ![k] = reply] ELSE slots
    BY <1>3 DEF AnswerWith, Key, Table!Deliver, Table!Registered
  <2>2. k \in Keys /\ Tail(flying) \in Seq(Keys) /\ reply \in Replies(k)
        /\ reply \notin {None, Absent}
    BY <1>2, <1>3, DiscoveryAssumption
  <2> HIDE DEF k
  <2>3. Awaited(slots', ask') /\ AskOK'
    BY <1>1, <2>1, <2>2 DEF AskOK, Awaited, AnswersOK
  <2>4. AnswersOK'
    BY <1>1, <2>1, <2>2 DEF AnswersOK
  <2>5. Uses
    BY <1>1, <2>1, <2>2 DEF Uses, AnswersOK
  <2> QED BY <2>3, <2>4, <2>5, AwaitedWillBe DEF RequestInv
<1>4. ASSUME NoAnswer(Silent)
      PROVE  RequestInv' /\ Uses
  <2>1. /\ flying # <<>> /\ flying' = Tail(flying)
        /\ slots' = slots /\ ask' = ask /\ got' = got
    BY <1>4 DEF NoAnswer
  <2>2. AskOK' /\ Awaited(slots', ask')
    BY <1>1, <2>1 DEF AskOK
  <2>3. AnswersOK' /\ Uses
    BY <1>1, <1>2, <2>1 DEF AnswersOK, Uses
  <2> QED BY <2>2, <2>3, AwaitedWillBe DEF RequestInv
<1> QED BY <1>3, <1>4 DEF Device

\* Chunks of strings are keys.
LEMMA ChunksAreKeys ==
    ASSUME NEW s \in Strings, NEW n \in DOMAIN Text[s]
    PROVE  /\ ChunkKey(s, n) \in Keys /\ IsChunk(ChunkKey(s, n))
           /\ Replies(ChunkKey(s, n)) = {Text[s][n]}
<1>1. ChunkKey(s, n) \in Keys
  BY DEF Keys, ChunkKeys
<1>2. /\ ChunkKey(s, n)[1] = "str" /\ ChunkKey(s, n)[2] = s /\ ChunkKey(s, n)[3] = n
      /\ ChunkKey(s, n) # Total /\ ChunkKey(s, n) # OutputCount
  BY DEF ChunkKey, Total, OutputCount
<1> HIDE DEF ChunkKey
<1> QED BY <1>1, <1>2 DEF Replies, IsChunk

LEMMA TurnKeeps ==
    ASSUME RequestInv, Turn
    PROVE  RequestInv' /\ Uses
<1>1. PICK s \in Strings : Between(ChunkKey(s, 1))
  BY DEF Turn
<1>2. 1 \in DOMAIN Text[s]
  BY DiscoveryAssumption
<1> QED BY <1>1, <1>2, ChunksAreKeys, BetweenKeeps

-----------------------------------------------------------------------------
(* Questions. *)

\* A list of batches a question may be about.
Askable(batches) ==
    /\ batches \in Seq(Seq(Keys)) /\ Different(batches)
    /\ Len(batches) <= 1 \/ \A k \in Rest(batches) : ~IsChunk(k)

LEMMA AskKeeps ==
    ASSUME RequestInv, Over, UNCHANGED <<slots, flying>>,
           NEW batches, Askable(batches), NEW tries \in Nat \ {0}, NEW patient \in BOOLEAN,
           Ask(batches, tries, patient)
    PROVE  RequestInv' /\ Uses
<1>1. QuestionOK(ask) /\ Awaited(slots, ask) /\ AnswersOK /\ ask.stage = "over"
  BY AwaitedIs DEF RequestInv, AskOK, Over
<1>2. HeldBy(ask) = {}
  BY <1>1, SetOfEmpty DEF QuestionOK, HeldBy
<1>3. AskOK' /\ HeldBy(ask') = {}
  <2>1. CASE batches = <<>>
    BY <2>1, NothingAsked DEF Ask, AskOK
  <2>2. CASE batches # <<>>
    <3>1. ask' = [stage |-> "send", batches |-> Tail(batches), tries |-> tries,
                  patient |-> patient, attempt |-> 1, open |-> Head(batches),
                  missed |-> <<>>, late |-> <<>>]
      BY <2>2 DEF Ask
    <3>2. /\ batches \in Seq(Seq(Keys)) /\ Different(batches)
          /\ Head(batches) \in Seq(Keys) /\ Tail(batches) \in Seq(Seq(Keys))
          /\ Rest(batches) = ToSet(Head(batches)) \cup Rest(Tail(batches))
          /\ IsInjective(Head(batches)) /\ Different(Tail(batches))
          /\ ToSet(Head(batches)) \cap Rest(Tail(batches)) = {}
      BY <2>2, RestOfTail DEF Askable
    <3>3. Len(batches) <= 1 => Tail(batches) = <<>>
      BY <2>2, <3>2
    <3>4. <<>> \in Seq(Keys)
      OBVIOUS
    <3>5. /\ ask' \in Question
          /\ ask'.stage = "send" /\ ask'.batches = Tail(batches) /\ ask'.tries = tries
          /\ ask'.patient = patient /\ ask'.attempt = 1 /\ ask'.open = Head(batches)
          /\ ask'.missed = <<>> /\ ask'.late = <<>>
      BY <3>1, <3>2, <3>4 DEF Question, Stages
    <3>6. ToSet(<<>>) = {} /\ IsInjective(<<>>)
      BY SetOfEmpty
    <3>7. \/ Tail(batches) = <<>>
          \/ \A k \in ToSet(Head(batches)) \cup Rest(Tail(batches)) : ~IsChunk(k)
      BY <3>2, <3>3 DEF Askable
    <3>8. AskOK'
      BY <3>2, <3>5, <3>6, <3>7 DEF AskOK, QuestionOK, Apart
    <3> QED BY <3>5, <3>6, <3>8 DEF HeldBy
  <2> QED BY <2>1, <2>2
<1>4. Awaited(slots', ask')
  BY <1>1, <1>2, <1>3 DEF Awaited
<1>5. AnswersOK'
  BY <1>1 DEF AnswersOK, Ask
<1>6. Uses
  BY DEF Uses
<1> QED BY <1>3, <1>4, <1>5, <1>6, AwaitedWillBe DEF RequestInv

LEMMA NotAskedKeeps ==
    ASSUME RequestInv, UNCHANGED <<slots, flying, ask, got>>
    PROVE  RequestInv' /\ Uses
<1>1. AskOK' /\ AnswersOK' /\ Uses
  BY DEF RequestInv, AskOK, AnswersOK, Uses
<1>2. Awaited(slots', ask')
  BY AwaitedIs DEF RequestInv
<1> QED BY <1>1, <1>2, AwaitedWillBe DEF RequestInv

\* All in one batch.
LEMMA OneBatch ==
    ASSUME NEW keys \in Seq(Keys), IsInjective(keys)
    PROVE  Askable(<<keys>>) /\ Askable(IF keys = <<>> THEN <<>> ELSE <<keys>>)
<1>1. <<keys>> \in Seq(Seq(Keys)) /\ Len(<<keys>>) = 1 /\ DOMAIN <<keys>> = {1}
      /\ <<keys>>[1] = keys
  OBVIOUS
<1>2. Askable(<<keys>>)
  BY <1>1 DEF Askable, Different
<1>3. <<>> \in Seq(Seq(Keys)) /\ Len(<<>>) = 0 /\ DOMAIN <<>> = {}
  OBVIOUS
<1>4. Askable(<<>>)
  BY <1>3 DEF Askable, Different
<1> QED BY <1>2, <1>4

LEMMA OneKey ==
    ASSUME NEW k \in Keys
    PROVE  Askable(<<<<k>>>>)
<1>1. <<k>> \in Seq(Keys) /\ DOMAIN <<k>> = {1}
  OBVIOUS
<1>2. IsInjective(<<k>>)
  BY <1>1 DEF IsInjective
<1> QED BY <1>1, <1>2, OneBatch

\* Each in a batch of its own.
LEMMA SingleKeys ==
    ASSUME NEW keys \in Seq(Keys), IsInjective(keys),
           \A i \in DOMAIN keys : ~IsChunk(keys[i])
    PROVE  Askable(OneByOne(keys))
<1> DEFINE b == OneByOne(keys)
<1>1. Len(keys) \in Nat /\ DOMAIN keys = 1 .. Len(keys) /\ \A i \in 1 .. Len(keys) : keys[i] \in Keys
  BY LenProperties, ElementOfSeq
<1>2. /\ DOMAIN b = 1 .. Len(keys)
      /\ \A i \in 1 .. Len(keys) : b[i] = <<keys[i]>>
  BY <1>1 DEF OneByOne
<1>3. ASSUME NEW i \in 1 .. Len(keys)
      PROVE  b[i] \in Seq(Keys) /\ ToSet(b[i]) = {keys[i]} /\ IsInjective(b[i])
  <2>1. keys[i] \in Keys /\ b[i] = <<keys[i]>>
    BY <1>1, <1>2
  <2>2. <<keys[i]>> \in Seq(Keys) /\ DOMAIN <<keys[i]>> = {1} /\ <<keys[i]>>[1] = keys[i]
    BY <2>1
  <2> QED BY <2>1, <2>2 DEF ToSet, IsInjective
<1>4. b \in [1 .. Len(keys) -> Seq(Keys)]
  <2>1. b = [i \in DOMAIN keys |-> <<keys[i]>>]
    BY DEF OneByOne
  <2> HIDE DEF b
  <2> QED BY <1>1, <1>2, <1>3, <2>1
<1> HIDE DEF b
<1>5. b \in Seq(Seq(Keys))
  BY <1>1, <1>4, SeqDef
<1>6. Different(b)
  <2>1. \A i, j \in 1 .. Len(keys) : keys[i] = keys[j] => i = j
    BY <1>1 DEF IsInjective
  <2> QED BY <1>2, <1>3, <2>1 DEF Different, Apart
<1>7. \A k \in Rest(b) : ~IsChunk(k)
  BY <1>1, <1>2, <1>3 DEF Rest
<1> QED BY <1>5, <1>6, <1>7 DEF Askable, b

-----------------------------------------------------------------------------
(* The keys, and what may be answered to each. *)

LEMMA GroupKeysAre ==
    ASSUME NEW g \in DOMAIN Groups
    PROVE  /\ NameKey(g) \in Keys /\ Replies(NameKey(g)) = {Groups[g].name}
           /\ CountKey(g) \in Keys
           /\ Replies(CountKey(g)) \subseteq {Len(Ids(g)), Bogus}
           /\ \A i \in DOMAIN Ids(g) :
                 /\ IdKey(g, i) \in Keys /\ ~IsChunk(IdKey(g, i))
                 /\ Replies(IdKey(g, i)) = {Ids(g)[i]}
<1>1. /\ NameKey(g) \in Keys /\ CountKey(g) \in Keys
      /\ \A i \in DOMAIN Ids(g) : IdKey(g, i) \in Keys
  BY DEF Keys, GroupKeys
<1>2. /\ NameKey(g)[1] = "group28" /\ NameKey(g)[2] = g
      /\ NameKey(g) # Total /\ NameKey(g) # OutputCount
  BY DEF NameKey, Total, OutputCount
<1>3. /\ CountKey(g)[1] = "group07" /\ CountKey(g)[2] = g
      /\ CountKey(g) # Total /\ CountKey(g) # OutputCount
  BY DEF CountKey, Total, OutputCount
<1>4. \A i : /\ IdKey(g, i)[1] = "group03" /\ IdKey(g, i)[2] = g /\ IdKey(g, i)[3] = i
             /\ IdKey(g, i) # Total /\ IdKey(g, i) # OutputCount
  BY DEF IdKey, Total, OutputCount
<1> HIDE DEF NameKey, CountKey, IdKey
<1>5. Replies(NameKey(g)) = {Groups[g].name}
  BY <1>2 DEF Replies
<1>6. Replies(CountKey(g)) \subseteq {Len(Ids(g)), Bogus}
  BY <1>3 DEF Replies
<1>7. \A i \in DOMAIN Ids(g) : Replies(IdKey(g, i)) = {Ids(g)[i]} /\ ~IsChunk(IdKey(g, i))
  BY <1>4 DEF Replies, IsChunk
<1> QED BY <1>1, <1>5, <1>6, <1>7

LEMMA FieldKeysAre ==
    ASSUME NEW f \in ToSet(Fields)
    PROVE  /\ \A op \in AllOps : MetaKey(f, op) \in Keys /\ ~IsChunk(MetaKey(f, op))
           /\ \A i \in DOMAIN Labels[f] :
                 /\ OptionKey(f, i) \in Keys /\ ~IsChunk(OptionKey(f, i))
                 /\ Replies(OptionKey(f, i)) = {Labels[f][i]}
<1>1. /\ \A op \in AllOps : MetaKey(f, op) \in Keys
      /\ \A i \in DOMAIN Labels[f] : OptionKey(f, i) \in Keys
  BY DEF Keys, FieldKeys
<1>2. \A op : ~IsChunk(MetaKey(f, op))
  BY DEF MetaKey, IsChunk
<1>3. \A i : /\ OptionKey(f, i)[1] = "prop26" /\ OptionKey(f, i)[2] = f /\ OptionKey(f, i)[3] = i
             /\ OptionKey(f, i) # Total /\ OptionKey(f, i) # OutputCount
  BY DEF OptionKey, Total, OutputCount
<1>4. \A i : Replies(OptionKey(f, i)) = {Labels[f][i]} /\ ~IsChunk(OptionKey(f, i))
  BY <1>3 DEF Replies, IsChunk
<1> QED BY <1>1, <1>2, <1>4

LEMMA OutputKeysAre ==
    /\ Total \in Keys /\ Replies(Total) = {Len(Groups)}
    /\ OutputCount \in Keys /\ Replies(OutputCount) = {IF Outputs = NA THEN NA ELSE Len(Outputs)}
    /\ \A n \in 1 .. MaxOutputs : OutputKey(n) \in Keys
<1>1. Total[1] = "p08" /\ OutputCount[1] = "p08" /\ OutputCount # Total
  BY DEF Total, OutputCount
<1>2. Replies(Total) = {Len(Groups)}
  BY <1>1 DEF Replies
<1>3. Replies(OutputCount) = {IF Outputs = NA THEN NA ELSE Len(Outputs)}
  BY <1>1 DEF Replies
<1>4. /\ Total \in Keys /\ OutputCount \in Keys
      /\ \A n \in 1 .. MaxOutputs : OutputKey(n) \in Keys
  BY DEF Keys, OutputKeys
<1> QED BY <1>2, <1>3, <1>4

\* A finite set in some order.
LEMMA SetInOrder ==
    ASSUME NEW S, IsFiniteSet(S)
    PROVE  SetToSeq(S) \in Seq(S) /\ IsInjective(SetToSeq(S))
<1>1. Cardinality(S) \in Nat /\ ExistsBijection(1 .. Cardinality(S), S)
  BY FS_CardinalityType
<1>2. \E f \in [1 .. Cardinality(S) -> S] : IsInjective(f)
  BY <1>1 DEF ExistsBijection, Bijection, Injection
<1>3. SetToSeq(S) \in [1 .. Cardinality(S) -> S] /\ IsInjective(SetToSeq(S))
  BY <1>2 DEF SetToSeq
<1> QED BY <1>1, <1>3, SeqDef

LEMMA ListIsFinite ==
    ASSUME NEW S, NEW s \in Seq(S)
    PROVE  IsFiniteSet(ToSet(s))
<1>1. Len(s) \in Nat /\ DOMAIN s = 1 .. Len(s) /\ s \in [1 .. Len(s) -> S]
  BY LenProperties
<1>2. IsFiniteSet(1 .. Len(s))
  BY <1>1, FS_Interval
<1>3. s \in Surjection(1 .. Len(s), ToSet(s))
  BY <1>1 DEF Surjection, ToSet
<1> QED BY <1>2, <1>3, FS_Surjection

LEMMA ImageIsFinite ==
    ASSUME NEW S, IsFiniteSet(S), NEW f, DOMAIN f = S
    PROVE  IsFiniteSet({f[x] : x \in S})
<1> DEFINE g == [x \in S |-> f[x]]
           T == {f[x] : x \in S}
<1>1. g \in Surjection(S, T)
  BY DEF Surjection
<1> HIDE DEF g, T
<1>2. IsFiniteSet(T)
  BY <1>1, FS_Surjection
<1> QED BY <1>2 DEF T

\* What all devices are asked together are keys, no two the same.
LEMMA AllDevices ==
    ASSUME NEW f, DOMAIN f = ToSet(Devices),
           \A d \in ToSet(Devices) : IsFiniteSet(f[d]) /\ f[d] \subseteq Keys
    PROVE  /\ SetToSeq(UNION {f[d] : d \in ToSet(Devices)}) \in Seq(Keys)
           /\ SetToSeq(UNION {f[d] : d \in ToSet(Devices)})
                  \in Seq(UNION {f[d] : d \in ToSet(Devices)})
           /\ IsInjective(SetToSeq(UNION {f[d] : d \in ToSet(Devices)}))
<1> DEFINE T == {f[d] : d \in ToSet(Devices)}
<1>1. IsFiniteSet(ToSet(Devices))
  BY DiscoveryAssumption, ListIsFinite
<1>2. IsFiniteSet(T)
  BY <1>1, ImageIsFinite
<1>3. IsFiniteSet(UNION T) /\ UNION T \subseteq Keys
  BY <1>2, FS_UNION
<1> HIDE DEF T
<1>4. SetToSeq(UNION T) \in Seq(UNION T) /\ IsInjective(SetToSeq(UNION T))
  BY <1>3, SetInOrder
<1>5. SetToSeq(UNION T) \in Seq(Keys)
  BY <1>3, <1>4, SeqMonotonic
<1> QED BY <1>4, <1>5 DEF T

LEMMA WordKeysAre ==
    WordKeys \in Seq(Keys) /\ IsInjective(WordKeys)
<1> DEFINE f == [d \in ToSet(Devices) |-> {FirmwareKey(d, n) : n \in 1 .. 2}]
<1>1. ASSUME NEW d \in ToSet(Devices)
      PROVE  IsFiniteSet(f[d]) /\ f[d] \subseteq Keys
  <2> DEFINE w == [n \in 1 .. 2 |-> FirmwareKey(d, n)]
  <2>1. {w[n] : n \in 1 .. 2} = f[d]
    OBVIOUS
  <2>2. IsFiniteSet(1 .. 2)
    <3>1. 1 \in Int /\ 2 \in Int
      OBVIOUS
    <3> QED BY <3>1, FS_Interval
  <2>3. DOMAIN w = 1 .. 2
    OBVIOUS
  <2>4. \A n \in 1 .. 2 : n \in DOMAIN Words[d]
    <3>1. \A n \in 1 .. 2 : n = 1 \/ n = 2
      OBVIOUS
    <3> QED BY <3>1, DiscoveryAssumption
  <2>5. f[d] \subseteq Keys
    BY <2>4 DEF Keys, IdentityKeys
  <2> HIDE DEF w, f
  <2> QED BY <2>1, <2>2, <2>3, <2>5, ImageIsFinite
<1>2. DOMAIN f = ToSet(Devices)
  OBVIOUS
<1>3. UNION {f[d] : d \in ToSet(Devices)}
          = UNION {{FirmwareKey(d, n) : n \in 1 .. 2} : d \in ToSet(Devices)}
  OBVIOUS
<1> HIDE DEF f
<1> QED BY <1>1, <1>2, <1>3, AllDevices DEF WordKeys

LEMMA PropertyKeysAre ==
    /\ PropertyKeys \in Seq(Keys) /\ IsInjective(PropertyKeys)
    /\ \A i \in DOMAIN PropertyKeys : Replies(PropertyKeys[i]) \subseteq Strings
<1> DEFINE f == [d \in ToSet(Devices) |-> {PropertyKey(d, p) : p \in DOMAIN Properties[d]}]
<1>1. ASSUME NEW d \in ToSet(Devices)
      PROVE  IsFiniteSet(f[d]) /\ f[d] \subseteq Keys
  <2> DEFINE w == [p \in DOMAIN Properties[d] |-> PropertyKey(d, p)]
  <2>1. {w[p] : p \in DOMAIN Properties[d]} = f[d]
    OBVIOUS
  <2>2. IsFiniteSet(DOMAIN Properties[d])
    <3>1. Properties[d] \in Seq(Strings)
      BY DiscoveryAssumption
    <3>2. DOMAIN Properties[d] = 1 .. Len(Properties[d]) /\ Len(Properties[d]) \in Nat
      BY <3>1, SeqIsListed
    <3> QED BY <3>2, FS_Interval
  <2>3. DOMAIN w = DOMAIN Properties[d]
    OBVIOUS
  <2>4. f[d] \subseteq Keys
    BY DEF Keys, IdentityKeys
  <2> HIDE DEF w, f
  <2> QED BY <2>1, <2>2, <2>3, <2>4, ImageIsFinite
<1>2. DOMAIN f = ToSet(Devices)
  OBVIOUS
<1> DEFINE U == UNION {f[d] : d \in ToSet(Devices)}
<1>3. U = UNION {{PropertyKey(d, p) : p \in DOMAIN Properties[d]} : d \in ToSet(Devices)}
  OBVIOUS
<1>4. \A k \in U : \E d \in ToSet(Devices) : \E p \in DOMAIN Properties[d] : k = PropertyKey(d, p)
  BY <1>3
<1> HIDE DEF f
<1>5. /\ PropertyKeys \in Seq(Keys) /\ IsInjective(PropertyKeys)
      /\ PropertyKeys \in Seq(U)
  BY <1>1, <1>2, <1>3, AllDevices DEF PropertyKeys
<1> HIDE DEF U
<1>6. \A k \in U : Replies(k) \subseteq Strings
  <2>1. ASSUME NEW d \in ToSet(Devices), NEW p \in DOMAIN Properties[d]
        PROVE  Replies(PropertyKey(d, p)) \subseteq Strings
    <3>1. /\ PropertyKey(d, p)[1] = "p09" /\ PropertyKey(d, p)[2] = d
          /\ PropertyKey(d, p)[3] = p
      BY DEF PropertyKey
    <3> HIDE DEF PropertyKey
    <3>2. Replies(PropertyKey(d, p)) = {Properties[d][p]}
      BY <3>1 DEF Replies
    <3>3. Properties[d] \in Seq(Strings)
      BY DiscoveryAssumption
    <3>4. Properties[d][p] \in Strings
      BY <3>3
    <3> QED BY <3>2, <3>4
  <2> QED BY <1>4, <2>1
<1>7. \A i \in DOMAIN PropertyKeys : PropertyKeys[i] \in U
  BY <1>5
<1> QED BY <1>5, <1>6, <1>7

\* The kinds of metadata, one after the other.
LEMMA OpsAre == Ops \in Seq(AllOps) /\ IsInjective(Ops) /\ Ops # <<>> /\ DOMAIN Ops = 1 .. 5
<1>1. /\ DOMAIN Ops = 1 .. 5 /\ Len(Ops) = 5
      /\ Ops[1] = "NAME" /\ Ops[2] = "VIZ" /\ Ops[3] = "MAX" /\ Ops[4] = "UNIT"
      /\ Ops[5] = "WRITEABLE"
  BY DEF Ops
<1>2. Ops \in Seq({"NAME", "VIZ", "MAX", "UNIT", "WRITEABLE"})
  BY DEF Ops
<1>3. ToSet(Ops) \subseteq AllOps /\ Ops \in Seq(ToSet(Ops))
  BY <1>2, SeqIsListed DEF AllOps, Listed
<1>4. Ops \in Seq(AllOps)
  BY <1>3, SeqMonotonic
<1>5. IsInjective(Ops)
  <2>1. \A i \in 1 .. 5 : i = 1 \/ i = 2 \/ i = 3 \/ i = 4 \/ i = 5
    OBVIOUS
  <2> QED BY <1>1, <2>1 DEF IsInjective
<1> QED BY <1>1, <1>4, <1>5

LEMMA MetaAskable ==
    ASSUME NEW f \in ToSet(Fields), NEW ops \in Seq(AllOps), IsInjective(ops)
    PROVE  Askable(<<[i \in DOMAIN ops |-> MetaKey(f, ops[i])]>>)
<1> DEFINE keys == [i \in DOMAIN ops |-> MetaKey(f, ops[i])]
<1>1. Len(ops) \in Nat /\ DOMAIN ops = 1 .. Len(ops) /\ \A i \in 1 .. Len(ops) : ops[i] \in AllOps
  BY LenProperties, ElementOfSeq
<1>2. \A i \in 1 .. Len(ops) : MetaKey(f, ops[i]) \in Keys
  BY <1>1, FieldKeysAre
<1>3. keys \in [1 .. Len(ops) -> Keys]
  BY <1>1, <1>2
<1>4. IsInjective(keys)
  BY <1>1 DEF IsInjective, MetaKey
<1> HIDE DEF keys
<1>5. keys \in Seq(Keys)
  BY <1>1, <1>3, SeqDef
<1>6. Askable(<<keys>>)
  BY <1>4, <1>5, OneBatch
<1> QED BY <1>6 DEF keys

LEMMA OptionsAskable ==
    ASSUME NEW f \in ToSet(Fields)
    PROVE  Askable(OneByOne([i \in DOMAIN Labels[f] |-> OptionKey(f, i)]))
<1> DEFINE keys == [i \in DOMAIN Labels[f] |-> OptionKey(f, i)]
<1>1. Len(Labels[f]) \in Nat /\ DOMAIN Labels[f] = 1 .. Len(Labels[f])
  BY DiscoveryAssumption, LenProperties
<1>2. keys \in [1 .. Len(Labels[f]) -> Keys]
  BY <1>1, FieldKeysAre
<1>3. IsInjective(keys)
  BY <1>1 DEF IsInjective, OptionKey
<1>4. \A i \in DOMAIN keys : ~IsChunk(keys[i])
  BY FieldKeysAre
<1> HIDE DEF keys
<1>5. keys \in Seq(Keys)
  BY <1>1, <1>2, SeqDef
<1>6. Askable(OneByOne(keys))
  BY <1>3, <1>4, <1>5, SingleKeys
<1> QED BY <1>6 DEF keys

LEMMA IdsAskable ==
    ASSUME NEW g \in DOMAIN Groups, NEW n \in Nat, n <= Len(Ids(g))
    PROVE  Askable(OneByOne([i \in 1 .. n |-> IdKey(g, i)]))
<1> DEFINE keys == [i \in 1 .. n |-> IdKey(g, i)]
<1>1. Len(Ids(g)) \in Nat /\ DOMAIN Ids(g) = 1 .. Len(Ids(g))
  BY DiscoveryAssumption, LenProperties
<1>2. \A i \in 1 .. n : i \in DOMAIN Ids(g)
  BY <1>1
<1>3. keys \in [1 .. n -> Keys] /\ \A i \in DOMAIN keys : ~IsChunk(keys[i])
  BY <1>2, GroupKeysAre
<1>4. IsInjective(keys)
  BY DEF IsInjective, IdKey
<1> HIDE DEF keys
<1>5. keys \in Seq(Keys)
  BY <1>3, SeqDef
<1>6. Askable(OneByOne(keys))
  BY <1>3, <1>4, <1>5, SingleKeys
<1> QED BY <1>6 DEF keys

\* The next chunk of each string that is not done.
LEMMA ChunksAskable ==
    ASSUME NEW fs, Listed(fs),
           \A i \in DOMAIN fs :
               /\ fs[i].id \in Strings
               /\ ~fs[i].done => Len(fs[i].s) \in Nat /\ Len(fs[i].s) < Len(Text[fs[i].id]),
           \A i, j \in DOMAIN fs : fs[i].id = fs[j].id => i = j
    PROVE  LET keys == [i \in DOMAIN Open(fs) |-> NextChunk(Open(fs)[i])]
           IN  Askable(IF keys = <<>> THEN <<>> ELSE <<keys>>)
<1> DEFINE I == {i \in DOMAIN fs : ~fs[i].done}
           keys == [i \in DOMAIN Open(fs) |-> NextChunk(Open(fs)[i])]
<1>1. DOMAIN fs = 1 .. Len(fs) /\ Len(fs) \in Nat
  BY SeqIsListed DEF Listed
<1>2. Numbers(I)
  BY <1>1, IndicesAreNumbers
<1>4. /\ DOMAIN Open(fs) = 1 .. Cardinality(I) /\ Cardinality(I) \in Nat
      /\ \A n \in 1 .. Cardinality(I) : Open(fs)[n] = fs[Nth(I, n)] /\ Nth(I, n) \in I
      /\ \A n, m \in 1 .. Cardinality(I) : n < m => Nth(I, n) < Nth(I, m)
  <2>1. Open(fs) = Among(fs, I)
    BY DEF Open
  <2> HIDE DEF I
  <2>2. /\ Cardinality(I) \in Nat /\ \A n \in 1 .. Cardinality(I) : Nth(I, n) \in I
        /\ \A n, m \in 1 .. Cardinality(I) : n < m => Nth(I, n) < Nth(I, m)
    BY <1>2, RankOrder
  <2>3. /\ DOMAIN Among(fs, I) = 1 .. Cardinality(I)
        /\ \A n \in 1 .. Cardinality(I) : Among(fs, I)[n] = fs[Nth(I, n)]
    BY DEF Among
  <2> QED BY <2>1, <2>2, <2>3
<1>5. ASSUME NEW n \in 1 .. Cardinality(I)
      PROVE  keys[n] = NextChunk(fs[Nth(I, n)]) /\ keys[n] \in Keys
  <2> DEFINE fetch == fs[Nth(I, n)]
  <2>1. keys[n] = NextChunk(fetch) /\ Nth(I, n) \in I
    BY <1>4
  <2>2. /\ fetch.id \in Strings /\ Len(fetch.s) \in Nat
        /\ Len(fetch.s) < Len(Text[fetch.id])
    BY <2>1
  <2>3. DOMAIN Text[fetch.id] = 1 .. Len(Text[fetch.id]) /\ Len(Text[fetch.id]) \in Nat
    BY <2>2, DiscoveryAssumption, LenProperties
  <2> HIDE DEF fetch, keys
  <2>4. Len(fetch.s) + 1 \in DOMAIN Text[fetch.id]
    BY <2>2, <2>3
  <2> QED BY <2>1, <2>2, <2>4, ChunksAreKeys DEF NextChunk, fetch
<1>6. keys \in [1 .. Cardinality(I) -> Keys]
  BY <1>4, <1>5
<1>7. IsInjective(keys)
  <2>1. ASSUME NEW n \in 1 .. Cardinality(I), NEW m \in 1 .. Cardinality(I), keys[n] = keys[m]
        PROVE  n = m
    <3>1. NextChunk(fs[Nth(I, n)]) = NextChunk(fs[Nth(I, m)])
      BY <1>5, <2>1
    <3>2. fs[Nth(I, n)].id = fs[Nth(I, m)].id
      BY <3>1 DEF NextChunk, ChunkKey
    <3>3. Nth(I, n) \in I /\ Nth(I, m) \in I
      BY <1>4
    <3>4. Nth(I, n) = Nth(I, m) /\ Nth(I, n) \in Nat
      BY <1>1, <3>2, <3>3
    <3> QED BY <1>4, <3>4
  <2>2. DOMAIN keys = 1 .. Cardinality(I)
    BY <1>4
  <2> HIDE DEF keys
  <2> QED BY <2>1, <2>2 DEF IsInjective
<1> HIDE DEF keys
<1>8. keys \in Seq(Keys)
  BY <1>4, <1>6, SeqDef
<1>9. Askable(IF keys = <<>> THEN <<>> ELSE <<keys>>)
  BY <1>7, <1>8, OneBatch
<1> QED BY <1>9 DEF keys

LEMMA Interval ==
    ASSUME NEW n \in Int
    PROVE  \E m \in Nat : 1 .. n = 1 .. m
<1>1. CASE n \in Nat
  BY <1>1
<1>2. CASE n \notin Nat
  <2>1. 1 .. n = 1 .. 0
    BY <1>2
  <2> QED BY <2>1
<1> QED BY <1>1, <1>2

\* The chunks of a probe do not overlap.
LEMMA ProbeAskable == Askable(Chunks)
<1> DEFINE P == ProbeChunk
           L == Len(Fields)
           C == (L + P - 1) \div P
           size(c) == Least(P, L - (c - 1) * P)
           at(c, i) == (c - 1) * P + i
<1>1. P \in Nat /\ P >= 1 /\ L \in Nat /\ DOMAIN Fields = 1 .. L
      /\ \A i \in 1 .. L : Fields[i] \in ToSet(Fields)
  BY DiscoveryAssumption, SeqIsListed
<1>2. \A i, j \in 1 .. L : Fields[i] = Fields[j] => i = j
  BY <1>1, DiscoveryAssumption DEF IsInjective
<1>3. /\ DOMAIN Chunks = 1 .. C
      /\ \A c \in 1 .. C :
            Chunks[c] = [i \in 1 .. size(c) |-> MetaKey(Fields[at(c, i)], "VIZ")]
  BY DEF Chunks
<1> HIDE DEF P, L
<1>4. C \in Int
  BY <1>1
<1> HIDE DEF C
<1>5. ASSUME NEW c \in 1 .. C
      PROVE  c \in Nat /\ c >= 1 /\ (c - 1) * P \in Nat
  BY <1>1, <1>4
<1>6. ASSUME NEW c \in 1 .. C
      PROVE  /\ size(c) \in Int /\ size(c) <= P
             /\ \A i \in 1 .. size(c) : at(c, i) \in 1 .. L /\ i <= P
  <2> DEFINE x == (c - 1) * P
  <2>1. x \in Nat
    BY <1>5
  <2> HIDE DEF x
  <2>2. size(c) = Least(P, L - x) /\ \A i : at(c, i) = x + i
    BY DEF x
  <2> HIDE DEF size, at
  <2> QED BY <1>1, <2>1, <2>2 DEF Least
<1>7. ASSUME NEW c \in 1 .. C, NEW e \in 1 .. C, NEW i \in 1 .. size(c), NEW j \in 1 .. size(e),
             at(c, i) = at(e, j)
      PROVE  c = e /\ i = j
  <2>1. ASSUME NEW a \in Nat, NEW b \in Nat, a < b
        PROVE  a * P + P <= b * P
    <3>1. PICK d \in Nat : b = a + 1 + d
      <4>1. b - a - 1 \in Nat /\ b = a + 1 + (b - a - 1)
        BY <2>1
      <4> QED BY <4>1
    <3>2. b * P = a * P + P + d * P /\ d * P \in Nat /\ a * P \in Nat
      BY <1>1, <3>1
    <3> QED BY <1>1, <3>2
  <2>2. c - 1 \in Nat /\ e - 1 \in Nat /\ (c - 1) * P \in Nat /\ (e - 1) * P \in Nat
    BY <1>5
  <2>3. i \in Nat /\ j \in Nat /\ 1 <= i /\ i <= P /\ 1 <= j /\ j <= P
    BY <1>1, <1>6
  <2>4. ~(c - 1 < e - 1)
    BY <1>1, <1>7, <2>1, <2>2, <2>3
  <2>5. ~(e - 1 < c - 1)
    BY <1>1, <1>7, <2>1, <2>2, <2>3
  <2>6. c = e
    BY <1>5, <2>4, <2>5
  <2> QED BY <1>7, <2>2, <2>3, <2>6
<1> HIDE DEF size, at
<1>8. "VIZ" \in AllOps
  BY OpsAre, SeqIsListed DEF AllOps, Ops, ToSet
<1>9. ASSUME NEW c \in 1 .. C
      PROVE  /\ Chunks[c] \in Seq(Keys) /\ IsInjective(Chunks[c])
             /\ \A k \in ToSet(Chunks[c]) : \E i \in 1 .. size(c) : k = MetaKey(Fields[at(c, i)], "VIZ")
             /\ \A k \in ToSet(Chunks[c]) : ~IsChunk(k)
  <2>1. PICK m \in Nat : 1 .. size(c) = 1 .. m
    BY <1>6, Interval
  <2>2. \A i \in 1 .. size(c) : MetaKey(Fields[at(c, i)], "VIZ") \in Keys
                                /\ ~IsChunk(MetaKey(Fields[at(c, i)], "VIZ"))
    BY <1>1, <1>6, <1>8, FieldKeysAre
  <2>3. Chunks[c] \in [1 .. m -> Keys] /\ DOMAIN Chunks[c] = 1 .. size(c)
    BY <1>3, <2>1, <2>2
  <2>4. Chunks[c] \in Seq(Keys)
    BY <2>3, SeqDef
  <2> DEFINE key(i) == MetaKey(Fields[at(c, i)], "VIZ")
  <2>7. Chunks[c] = [i \in 1 .. size(c) |-> key(i)]
    BY <1>3
  <2>8. \A i \in 1 .. size(c) : Chunks[c][i] = key(i)
    <3> HIDE DEF key
    <3> QED BY <2>7
  <2>5. ASSUME NEW i \in 1 .. size(c), NEW j \in 1 .. size(c), Chunks[c][i] = Chunks[c][j]
        PROVE  i = j
    <3>1. MetaKey(Fields[at(c, i)], "VIZ") = MetaKey(Fields[at(c, j)], "VIZ")
      BY <2>5, <2>8
    <3>2. Fields[at(c, i)] = Fields[at(c, j)]
      BY <3>1 DEF MetaKey
    <3> QED BY <1>2, <1>6, <1>7, <3>2
  <2>6. \A k \in ToSet(Chunks[c]) : \E i \in 1 .. size(c) : k = MetaKey(Fields[at(c, i)], "VIZ")
    BY <1>3, <2>3 DEF ToSet
  <2> QED BY <2>2, <2>3, <2>4, <2>5, <2>6 DEF IsInjective
<1>10. Chunks \in Seq(Seq(Keys))
  <2>1. PICK m \in Nat : 1 .. C = 1 .. m
    BY <1>4, Interval
  <2>2. Chunks \in [1 .. m -> Seq(Keys)]
    <3>1. Chunks = [c \in 1 .. C |-> Chunks[c]]
      BY <1>3 DEF Chunks
    <3> QED BY <1>9, <2>1, <3>1
  <2> QED BY <2>2, SeqDef
<1>11. Different(Chunks)
  <2>1. ASSUME NEW c \in 1 .. C, NEW e \in 1 .. C, c # e
        PROVE  Apart(Chunks[c], Chunks[e])
    <3>1. ASSUME NEW k \in ToSet(Chunks[c]), k \in ToSet(Chunks[e])
          PROVE  FALSE
      <4>1. PICK i \in 1 .. size(c) : k = MetaKey(Fields[at(c, i)], "VIZ")
        BY <1>9, <3>1
      <4>2. PICK j \in 1 .. size(e) : k = MetaKey(Fields[at(e, j)], "VIZ")
        BY <1>9, <3>1
      <4>3. Fields[at(c, i)] = Fields[at(e, j)]
        BY <4>1, <4>2 DEF MetaKey
      <4> QED BY <1>2, <1>6, <1>7, <2>1, <4>3
    <3> QED BY <3>1 DEF Apart
  <2> QED BY <1>3, <1>9, <2>1 DEF Different
<1>12. \A k \in Rest(Chunks) : ~IsChunk(k)
  BY <1>3, <1>9 DEF Rest
<1> QED BY <1>10, <1>11, <1>12 DEF Askable

-----------------------------------------------------------------------------
(* Steps of the program. *)

LEMMA Untouched ==
    ASSUME ProgramOK
    PROVE  /\ UNCHANGED <<known, unanswered, fetches>> => MemoOK'
           /\ UNCHANGED groups => GroupsOK'
           /\ UNCHANGED <<found, catalog>> => FoundOK'
           /\ UNCHANGED misses /\ pc' # "remeta" => MissesOK'
           /\ UNCHANGED catalog => TableIsChecked'
<1>1. ASSUME UNCHANGED <<known, unanswered, fetches>>
      PROVE  MemoOK'
  BY <1>1 DEF ProgramOK, MemoOK, KnownIsWhole, FetchOK
<1>2. ASSUME UNCHANGED groups
      PROVE  GroupsOK'
  BY <1>2 DEF ProgramOK, GroupsOK
<1>3. ASSUME UNCHANGED <<found, catalog>>
      PROVE  FoundOK'
  BY <1>3 DEF ProgramOK, FoundOK, IsTextOf
<1>4. ASSUME UNCHANGED misses, pc' # "remeta"
      PROVE  MissesOK'
  BY <1>4 DEF ProgramOK, MissesOK
<1>5. ASSUME UNCHANGED catalog
      PROVE  TableIsChecked'
  BY <1>5 DEF ProgramOK, CatalogOK, TableIsChecked
<1> QED BY <1>1, <1>2, <1>3, <1>4, <1>5

\* What is only said of where strings are compared, or given to a field.
LEMMA Elsewhere ==
    ASSUME ProgramOK, UNCHANGED catalog, Where' \notin {"spot", "spotted", "names"}
    PROVE  TextsOK' /\ CatalogOK' /\ NamesOK'
BY Untouched DEF TextsOK, CatalogOK, NamesOK, CatalogPlaces

\* The strings that were wanted are there, or some of them.
LEMMA SamePlace ==
    ASSUME ProgramOK, Where' = Where,
           UNCHANGED <<catalog, left, shape, groups, complete, todo, found, sids>>
    PROVE  LeftOK' /\ ShapeOK' /\ NamesOK' /\ CatalogOK' /\ GroupsOK' /\ FoundOK'
<1>1. LeftOK'
  BY DEF ProgramOK, LeftOK
<1>2. ShapeOK'
  BY DEF ProgramOK, ShapeOK, Group
<1>3. NamesOK'
  BY DEF ProgramOK, NamesOK, Field
<1>4. CatalogOK'
  BY Untouched DEF ProgramOK, CatalogOK
<1> QED BY <1>1, <1>2, <1>3, <1>4, Untouched

\* Places where no strings are at hand.
Plain == {"idle", "firmware", "properties", "total", "group", "name", "count", "recount", "ids",
          "field", "meta", "remeta", "told", "options", "probe", "outputs", "output", "listed",
          "spot", "done"}

LEMMA AtPlain ==
    ASSUME ProgramOK, pc \in Plain
    PROVE  Where = pc /\ ~Fetching /\ texts = <<>> /\ sids = <<>> /\ want = <<>> /\ fetches = <<>>
<1>1. pc \notin {"fetch", "chunks"}
  BY DEF Plain
<1>2. pc \notin {"identified", "spotted", "shape", "names"}
  BY DEF Plain
<1>3. Where = pc /\ ~Fetching
  BY <1>1 DEF Where, Fetching
<1> QED BY <1>1, <1>2, <1>3 DEF ProgramOK, PlaceOK

\* From one such place to another.
LEMMA PlainStep ==
    ASSUME ProgramOK, pc \in Plain, pc' \in Plain,
           UNCHANGED <<back, want, fetches, texts, sids>>
    PROVE  Where' = pc' /\ PlaceOK'
<1>1. Where = pc /\ ~Fetching /\ texts = <<>> /\ sids = <<>> /\ want = <<>> /\ fetches = <<>>
  BY AtPlain
<1>2. pc' \notin {"fetch", "chunks"}
  BY DEF Plain
<1>3. Where' = pc' /\ ~Fetching'
  BY <1>2 DEF Where, Fetching
<1>4. pc' # "shape"
  BY DEF Plain
<1>5. pc' \in Beginnings \cup CatalogPlaces \cup GroupPlaces \cup FieldPlaces \cup OutputPlaces
              \cup {"fetch", "chunks", "done"}
  BY DEF Plain, Beginnings, CatalogPlaces, GroupPlaces, FieldPlaces, OutputPlaces
<1>6. Listed(<<>>)
  BY SetOfEmpty
<1> QED BY <1>1, <1>3, <1>4, <1>5, <1>6 DEF ProgramOK, PlaceOK

\* Where nothing is found out but that there is something to be asked.
LEMMA QuietStep ==
    ASSUME ProgramOK, pc \in Plain, pc' \in Plain, pc' \notin {"spot", "remeta", "recount", "ids"},
           UNCHANGED <<strings, catalog, sids, menu, fields>>, LeftOK'
    PROVE  ProgramOK'
<1>1. UNCHANGED <<back, want, fetches, texts, sids, known, unanswered, catalog, left, shape,
                  groups, complete, todo, found, misses>>
  BY DEF strings, memo, menu, fields
<1>2. Where' = pc' /\ PlaceOK'
  BY <1>1, PlainStep
<1>3. MemoOK' /\ GroupsOK' /\ FoundOK' /\ MissesOK'
  BY <1>1, Untouched
<1>4. pc' \notin {"shape", "names", "spotted"}
  BY DEF Plain
<1>5. ShapeOK'
  BY <1>1, <1>2, <1>4 DEF ProgramOK, ShapeOK
<1>6. TextsOK' /\ CatalogOK' /\ NamesOK'
  BY <1>1, <1>2, <1>4, Elsewhere
<1> QED BY <1>2, <1>3, <1>5, <1>6 DEF ProgramOK

\* The limits are numbers.
LEMMA Limits ==
    /\ Retries \in Nat \ {0} /\ OptionalRetries \in Nat \ {0} /\ 1 \in Nat \ {0}
    /\ StrLimit \in Nat \ {0} /\ MissLimit \in Nat
    /\ MaxGroups \in Nat /\ MaxFields \in Nat /\ MaxOutputs \in Nat
    /\ Len(Groups) \in Nat /\ DOMAIN Groups = 1 .. Len(Groups)
    /\ Len(Tables) \in Nat /\ DOMAIN Tables = 1 .. Len(Tables)
<1>1. Groups \in Seq(ToSet(Groups)) /\ Tables \in Seq(ToSet(Tables))
  BY DiscoveryAssumption
<1>2. /\ Len(Groups) \in Nat /\ DOMAIN Groups = 1 .. Len(Groups)
      /\ Len(Tables) \in Nat /\ DOMAIN Tables = 1 .. Len(Tables)
  BY <1>1, LenProperties
<1>3. /\ {Retries, OptionalRetries, ProbeChunk, StrLimit} \subseteq Nat \ {0}
      /\ {MaxGroups, MaxFields, MaxOutputs, MissLimit, MaxTroubles} \subseteq Nat
  BY DiscoveryAssumption
<1> QED BY <1>2, <1>3

\* The step of a program that keeps what holds throughout.
StepOK == RequestInv' /\ Uses /\ ProgramOK'

LEMMA IdentifyKeeps ==
    ASSUME DiscoveryInv, Identify
    PROVE  StepOK
<1>1. /\ Over /\ pc = "idle" /\ pc' = "firmware" /\ ReqAll(WordKeys)
      /\ UNCHANGED <<slots, flying>> /\ UNCHANGED <<strings, catalog, sids, menu, fields>>
  BY DEF Identify, Begins, At, table
<1>2. RequestInv' /\ Uses
  BY <1>1, WordKeysAre, OneBatch, AskKeeps, Limits DEF DiscoveryInv, ReqAll
<1>3. pc \in Plain /\ pc' \in Plain
  BY <1>1 DEF Plain
<1>4. LeftOK'
  BY <1>1 DEF DiscoveryInv, ProgramOK, LeftOK, Where, Fetching, Beginnings, CatalogPlaces,
              GroupPlaces, FieldPlaces, OutputPlaces, strings, menu, fields
<1> QED BY <1>1, <1>2, <1>3, <1>4, QuietStep DEF StepOK, DiscoveryInv

LEMMA AskPropertiesKeeps ==
    ASSUME DiscoveryInv, AskProperties
    PROVE  StepOK
<1>1. /\ Over /\ pc = "firmware" /\ pc' = "properties" /\ ReqAll(PropertyKeys)
      /\ UNCHANGED <<slots, flying>> /\ UNCHANGED <<strings, catalog, sids, menu, fields>>
  BY DEF AskProperties, At, table
<1>2. RequestInv' /\ Uses
  BY <1>1, PropertyKeysAre, OneBatch, AskKeeps, Limits DEF DiscoveryInv, ReqAll
<1>3. pc \in Plain /\ pc' \in Plain
  BY <1>1 DEF Plain
<1>4. LeftOK'
  BY <1>1 DEF DiscoveryInv, ProgramOK, LeftOK, Where, Fetching, Beginnings, CatalogPlaces,
              GroupPlaces, FieldPlaces, OutputPlaces, strings, menu, fields
<1> QED BY <1>1, <1>2, <1>3, <1>4, QuietStep DEF StepOK, DiscoveryInv

LEMMA StartMenuKeeps ==
    ASSUME DiscoveryInv, StartMenu
    PROVE  StepOK
<1>1. /\ Over /\ pc = "idle" /\ pc' = "total" /\ ReqStd(Total)
      /\ UNCHANGED <<slots, flying>> /\ UNCHANGED <<strings, catalog, sids, menu, fields>>
  BY DEF StartMenu, Begins, At, table
<1>2. RequestInv' /\ Uses
  BY <1>1, OutputKeysAre, OneKey, AskKeeps, Limits DEF DiscoveryInv, ReqStd
<1>3. pc \in Plain /\ pc' \in Plain
  BY <1>1 DEF Plain
<1>4. LeftOK'
  BY <1>1 DEF DiscoveryInv, ProgramOK, LeftOK, Where, Fetching, Beginnings, CatalogPlaces,
              GroupPlaces, FieldPlaces, OutputPlaces, strings, menu, fields
<1> QED BY <1>1, <1>2, <1>3, <1>4, QuietStep DEF StepOK, DiscoveryInv

LEMMA EndMenuKeeps ==
    ASSUME DiscoveryInv, EndMenu
    PROVE  StepOK
<1>1. /\ pc = "group" /\ left = 0 /\ pc' = "done"
      /\ UNCHANGED <<slots, flying, ask, got>> /\ UNCHANGED <<strings, catalog, sids, menu, fields>>
  BY DEF EndMenu, At, requests
<1>2. RequestInv' /\ Uses
  BY <1>1, NotAskedKeeps DEF DiscoveryInv
<1>3. pc \in Plain /\ pc' \in Plain
  BY <1>1 DEF Plain
<1>4. LeftOK'
  BY <1>1 DEF DiscoveryInv, ProgramOK, LeftOK, Where, Fetching, Beginnings, CatalogPlaces,
              GroupPlaces, FieldPlaces, OutputPlaces, strings, menu, fields
<1> QED BY <1>1, <1>2, <1>3, <1>4, QuietStep DEF StepOK, DiscoveryInv

LEMMA StartProbeKeeps ==
    ASSUME DiscoveryInv, StartProbe
    PROVE  StepOK
<1>1. /\ Over /\ pc = "idle" /\ pc' = "probe" /\ ProbeExistence
      /\ UNCHANGED <<slots, flying>> /\ UNCHANGED <<strings, catalog, sids, menu, fields>>
  BY DEF StartProbe, Begins, At, table
<1>2. RequestInv' /\ Uses
  BY <1>1, ProbeAskable, AskKeeps, Limits DEF DiscoveryInv, ProbeExistence
<1>3. pc \in Plain /\ pc' \in Plain
  BY <1>1 DEF Plain
<1>4. LeftOK'
  BY <1>1 DEF DiscoveryInv, ProgramOK, LeftOK, Where, Fetching, Beginnings, CatalogPlaces,
              GroupPlaces, FieldPlaces, OutputPlaces, strings, menu, fields
<1> QED BY <1>1, <1>2, <1>3, <1>4, QuietStep DEF StepOK, DiscoveryInv

LEMMA EndProbeKeeps ==
    ASSUME DiscoveryInv, EndProbe
    PROVE  StepOK
<1>1. /\ pc = "field" /\ groups = <<>> /\ pc' = "done"
      /\ UNCHANGED <<slots, flying, ask, got>> /\ UNCHANGED <<strings, catalog, sids, menu, fields>>
  BY DEF EndProbe, At, requests
<1>2. RequestInv' /\ Uses
  BY <1>1, NotAskedKeeps DEF DiscoveryInv
<1>3. pc \in Plain /\ pc' \in Plain
  BY <1>1 DEF Plain
<1>4. LeftOK'
  BY <1>1 DEF DiscoveryInv, ProgramOK, LeftOK, Where, Fetching, Beginnings, CatalogPlaces,
              GroupPlaces, FieldPlaces, OutputPlaces, strings, menu, fields
<1> QED BY <1>1, <1>2, <1>3, <1>4, QuietStep DEF StepOK, DiscoveryInv

LEMMA StartOutputsKeeps ==
    ASSUME DiscoveryInv, StartOutputs
    PROVE  StepOK
<1>1. /\ Over /\ pc = "idle" /\ pc' = "outputs" /\ ReqStd(OutputCount)
      /\ UNCHANGED <<slots, flying>> /\ UNCHANGED <<strings, catalog, sids, menu, fields>>
  BY DEF StartOutputs, Begins, At, table
<1>2. RequestInv' /\ Uses
  BY <1>1, OutputKeysAre, OneKey, AskKeeps, Limits DEF DiscoveryInv, ReqStd
<1>3. pc \in Plain /\ pc' \in Plain
  BY <1>1 DEF Plain
<1>4. LeftOK'
  BY <1>1 DEF DiscoveryInv, ProgramOK, LeftOK, Where, Fetching, Beginnings, CatalogPlaces,
              GroupPlaces, FieldPlaces, OutputPlaces, strings, menu, fields
<1> QED BY <1>1, <1>2, <1>3, <1>4, QuietStep DEF StepOK, DiscoveryInv

LEMMA EndOutputsKeeps ==
    ASSUME DiscoveryInv, EndOutputs
    PROVE  StepOK
<1>1. /\ pc = "output" /\ left = 0 /\ pc' = "done"
      /\ UNCHANGED <<slots, flying, ask, got>> /\ UNCHANGED <<strings, catalog, sids, menu, fields>>
  BY DEF EndOutputs, At, requests
<1>2. RequestInv' /\ Uses
  BY <1>1, NotAskedKeeps DEF DiscoveryInv
<1>3. pc \in Plain /\ pc' \in Plain
  BY <1>1 DEF Plain
<1>4. LeftOK'
  BY <1>1 DEF DiscoveryInv, ProgramOK, LeftOK, Where, Fetching, Beginnings, CatalogPlaces,
              GroupPlaces, FieldPlaces, OutputPlaces, strings, menu, fields
<1> QED BY <1>1, <1>2, <1>3, <1>4, QuietStep DEF StepOK, DiscoveryInv

\* While there are groups left, there is one being read.
LEMMA GroupIs ==
    ASSUME ProgramOK, Where \in GroupPlaces, left > 0
    PROVE  Group \in DOMAIN Groups
<1>1. left \in Nat /\ left <= Len(Groups) /\ left <= MaxGroups
  BY DEF ProgramOK, LeftOK
<1> QED BY <1>1, Limits DEF Group, Least

LEMMA AskNameKeeps ==
    ASSUME DiscoveryInv, AskName
    PROVE  StepOK
<1>1. /\ Over /\ pc = "group" /\ left > 0 /\ pc' = "name" /\ ReqStd(NameKey(Group))
      /\ UNCHANGED <<slots, flying>> /\ UNCHANGED <<strings, catalog, sids, menu, fields>>
  BY DEF AskName, At, table
<1>2. pc \in Plain /\ pc' \in Plain
  BY <1>1 DEF Plain
<1>3. Group \in DOMAIN Groups
  BY <1>1, <1>2, AtPlain, GroupIs DEF DiscoveryInv, GroupPlaces
<1>4. RequestInv' /\ Uses
  BY <1>1, <1>3, GroupKeysAre, OneKey, AskKeeps, Limits DEF DiscoveryInv, ReqStd
<1>5. LeftOK'
  BY <1>1 DEF DiscoveryInv, ProgramOK, LeftOK, Where, Fetching, Beginnings, CatalogPlaces,
              GroupPlaces, FieldPlaces, OutputPlaces, strings, menu, fields
<1> QED BY <1>1, <1>2, <1>4, <1>5, QuietStep DEF StepOK, DiscoveryInv

LEMMA AskOutputKeeps ==
    ASSUME DiscoveryInv, AskOutput
    PROVE  StepOK
<1>1. /\ Over /\ pc = "output" /\ left > 0 /\ pc' = "listed"
      /\ ReqStd(OutputKey(Len(todo) + 1))
      /\ UNCHANGED <<slots, flying>> /\ UNCHANGED <<strings, catalog, sids, menu, fields>>
  BY DEF AskOutput, At, table
<1>2. pc \in Plain /\ pc' \in Plain
  BY <1>1 DEF Plain
<1>3. left \in Nat /\ todo \in Seq(ToSet(Fields)) /\ left + Len(todo) <= MaxOutputs
  BY <1>1, <1>2, AtPlain DEF DiscoveryInv, ProgramOK, LeftOK, OutputPlaces
<1>4. Len(todo) + 1 \in 1 .. MaxOutputs
  BY <1>1, <1>3, LenProperties, Limits
<1>5. RequestInv' /\ Uses
  BY <1>1, <1>4, OutputKeysAre, OneKey, AskKeeps, Limits DEF DiscoveryInv, ReqStd
<1>6. LeftOK'
  BY <1>1 DEF DiscoveryInv, ProgramOK, LeftOK, Where, Fetching, Beginnings, CatalogPlaces,
              GroupPlaces, FieldPlaces, OutputPlaces, strings, menu, fields
<1> QED BY <1>1, <1>2, <1>5, <1>6, QuietStep DEF StepOK, DiscoveryInv

-----------------------------------------------------------------------------
(* Strings. *)

\* What begins as a text does, index by index, is a prefix of it.
LEMMA StartIsPrefix ==
    ASSUME NEW s \in Strings, NEW t, IsStartOf(t, Text[s])
    PROVE  /\ IsPrefix(t, Text[s])
           /\ Len(t) = Len(Text[s]) => t = Text[s]
           /\ Len(t) \in Nat
<1> DEFINE T == Text[s]
<1>1. T \in Seq(ToSet(T)) /\ t \in Seq(ToSet(T)) /\ Len(t) <= Len(T)
      /\ \A n \in 1 .. Len(t) : t[n] = T[n]
  BY DiscoveryAssumption DEF IsStartOf
<1> HIDE DEF T
<1>2. Len(t) \in Nat /\ Len(T) \in Nat
  BY <1>1, LenProperties
<1>3. /\ SubSeq(t, 1, Len(t)) \in Seq(ToSet(T)) /\ SubSeq(T, 1, Len(t)) \in Seq(ToSet(T))
      /\ Len(SubSeq(t, 1, Len(t))) = Len(t) /\ Len(SubSeq(T, 1, Len(t))) = Len(t)
      /\ \A n \in 1 .. Len(t) : SubSeq(t, 1, Len(t))[n] = t[n] /\ SubSeq(T, 1, Len(t))[n] = T[n]
  BY <1>1, <1>2
<1>4. SubSeq(t, 1, Len(t)) = SubSeq(T, 1, Len(t))
  BY <1>1, <1>3, SeqEqual
<1>5. Len(t) = Len(T) => t = T
  BY <1>1, SeqEqual
<1> QED BY <1>1, <1>2, <1>4, <1>5 DEF IsPrefix, T

LEMMA TextIs ==
    ASSUME NEW s \in Strings
    PROVE  IsPrefix(<<>>, Text[s]) /\ IsPrefix(Text[s], Text[s]) /\ IsStartOf(<<>>, Text[s])
           /\ Len(Text[s]) \in Nat /\ Len(Text[s]) > 0 /\ DOMAIN Text[s] = 1 .. Len(Text[s])
<1>1. Text[s] \in Seq(ToSet(Text[s])) /\ Text[s] # <<>>
  BY DiscoveryAssumption
<1>2. Len(Text[s]) \in Nat /\ Len(Text[s]) > 0 /\ DOMAIN Text[s] = 1 .. Len(Text[s])
  BY <1>1, LenProperties
<1>3. IsPrefix(Text[s], Text[s])
  BY <1>1, <1>2 DEF IsPrefix
<1>4. IsStartOf(<<>>, Text[s])
  <2>1. <<>> \in Seq(ToSet(Text[s])) /\ Len(<<>>) = 0
    OBVIOUS
  <2> QED BY <1>2, <2>1 DEF IsStartOf
<1> QED BY <1>2, <1>3, <1>4, StartIsPrefix

LEMMA BeginFetchKeeps ==
    ASSUME DiscoveryInv, BeginFetch
    PROVE  StepOK
<1> DEFINE ids == Head(want)
           I == {i \in DOMAIN ids : ToFetch(ids[i]) /\ \A j \in 1 .. i - 1 : ids[j] # ids[i]}
           new == Among(ids, I)
<1>1. /\ Over /\ pc = "fetch" /\ pc' = "chunks"
      /\ fetches' = [i \in DOMAIN new |-> [id |-> new[i], s |-> <<>>, done |-> FALSE]]
      /\ AskChunks(fetches')
      /\ UNCHANGED <<slots, flying, back, want, texts, known, unanswered, catalog, sids,
                     left, shape, groups, complete, todo, meta, found, misses>>
  BY DEF BeginFetch, At, table, memo, menu, fields
<1>2. want # <<>> /\ want \in Seq(Seq(Strings))
  BY <1>1 DEF DiscoveryInv, ProgramOK, PlaceOK, Fetching
<1>3. ids \in Seq(Strings)
  BY <1>2, SetOfTail
<1> HIDE DEF ids
<1>4. /\ DOMAIN ids = 1 .. Len(ids) /\ Len(ids) \in Nat
      /\ \A i \in I : ids[i] \in Strings /\ unanswered[ids[i]] < StrLimit
      /\ Numbers(I)
  <2>1. DOMAIN ids = 1 .. Len(ids) /\ Len(ids) \in Nat /\ \A i \in 1 .. Len(ids) : ids[i] \in Strings
    BY <1>3, LenProperties, ElementOfSeq
  <2>2. I \subseteq 1 .. Len(ids)
    BY <2>1
  <2>3. \A i \in I : unanswered[ids[i]] < StrLimit
    BY DEF ToFetch
  <2>4. Numbers(I)
    BY <2>1, <2>2, IndicesAreNumbers
  <2> QED BY <2>1, <2>2, <2>3, <2>4
<1>5. \A i, j \in I : ids[i] = ids[j] => i = j
  <2>1. ASSUME NEW i \in I, NEW j \in I, i < j
        PROVE  ids[i] # ids[j]
    <3>1. i \in 1 .. j - 1
      BY <1>4, <2>1
    <3> QED BY <3>1
  <2>2. \A i, j \in I : i \in Nat /\ j \in Nat
    BY <1>4
  <2>3. ASSUME NEW i \in I, NEW j \in I, ids[i] = ids[j]
        PROVE  i = j
    <3>1. ~(i < j) /\ ~(j < i)
      BY <2>1, <2>3
    <3> QED BY <2>2, <3>1
  <2> QED BY <2>3
<1> HIDE DEF I
<1>6. /\ new \in Seq({x \in Strings : unanswered[x] < StrLimit}) /\ IsInjective(new)
  BY <1>4, <1>5, AmongIsList, AmongInjective
<1> HIDE DEF new
<1>7. /\ DOMAIN new = 1 .. Len(new) /\ Len(new) \in Nat
      /\ \A i \in 1 .. Len(new) : new[i] \in Strings /\ unanswered[new[i]] < StrLimit
  BY <1>6, LenProperties, ElementOfSeq
<1>8. /\ DOMAIN fetches' = 1 .. Len(new)
      /\ \A i \in 1 .. Len(new) : fetches'[i] = [id |-> new[i], s |-> <<>>, done |-> FALSE]
  BY <1>1, <1>7
<1>9. Listed(fetches')
  <2>1. fetches' \in [1 .. Len(new) -> ToSet(fetches')]
    BY <1>1, <1>7, <1>8 DEF ToSet
  <2> QED BY <1>7, <2>1, SeqDef DEF Listed
<1>10. \A i, j \in DOMAIN fetches' : fetches'[i].id = fetches'[j].id => i = j
  BY <1>6, <1>7, <1>8 DEF IsInjective
<1>11. ASSUME NEW i \in DOMAIN fetches'
       PROVE  /\ FetchOK(fetches'[i], unanswered') /\ fetches'[i].id \in Strings
              /\ Len(fetches'[i].s) \in Nat /\ Len(fetches'[i].s) < Len(Text[fetches'[i].id])
  <2> DEFINE fetch == fetches'[i]
  <2>1. fetch = [id |-> new[i], s |-> <<>>, done |-> FALSE] /\ new[i] \in Strings
        /\ unanswered'[new[i]] < StrLimit
    BY <1>1, <1>7, <1>8
  <2> HIDE DEF fetch
  <2>2. /\ fetch.id = new[i] /\ fetch.s = <<>> /\ fetch.done = FALSE
        /\ fetch = [id |-> fetch.id, s |-> fetch.s, done |-> fetch.done]
    BY <2>1
  <2>3. /\ IsStartOf(<<>>, Text[fetch.id]) /\ Len(<<>>) = 0 /\ Len(Text[fetch.id]) > 0
        /\ Len(Text[fetch.id]) \in Nat
    BY <2>1, <2>2, TextIs
  <2> QED BY <2>1, <2>2, <2>3 DEF fetch, FetchOK
<1>12. RequestInv' /\ Uses
  <2> DEFINE keys == [i \in DOMAIN Open(fetches') |-> NextChunk(Open(fetches')[i])]
  <2>1. Askable(IF keys = <<>> THEN <<>> ELSE <<keys>>)
    BY <1>9, <1>10, <1>11, ChunksAskable
  <2>2. Ask(IF keys = <<>> THEN <<>> ELSE <<keys>>, Retries, TRUE)
    BY <1>1 DEF AskChunks, ReqAll
  <2> HIDE DEF keys
  <2> QED BY <1>1, <2>1, <2>2, AskKeeps, Limits DEF DiscoveryInv
<1>13. Where' = Where /\ Fetching /\ Fetching'
  BY <1>1 DEF Where, Fetching
<1>14. PlaceOK'
  BY <1>1, <1>13 DEF DiscoveryInv, ProgramOK, PlaceOK
<1>15. MemoOK'
  BY <1>1, <1>9, <1>10, <1>11 DEF DiscoveryInv, ProgramOK, MemoOK, KnownIsWhole
<1>16. TextsOK'
  <2>1. Sought' = Sought
    BY <1>1, <1>13 DEF Sought, Spelt
  <2> QED BY <1>1, <1>13, <2>1 DEF DiscoveryInv, ProgramOK, TextsOK, IsTextOf
<1>17. LeftOK' /\ ShapeOK' /\ NamesOK' /\ CatalogOK' /\ GroupsOK' /\ FoundOK' /\ MissesOK'
  BY <1>1, <1>13, SamePlace, Untouched DEF DiscoveryInv
<1> QED BY <1>12, <1>14, <1>15, <1>16, <1>17 DEF StepOK, ProgramOK

\* What an answer, or none, makes of a fetch that is not done.
LEMMA LongerIs ==
    ASSUME DiscoveryInv, NEW fetch, FetchOK(fetch, unanswered), ~fetch.done
    PROVE  /\ NextChunk(fetch) \in Keys
           /\ Longer(fetch) = [id |-> fetch.id, s |-> Longer(fetch).s, done |-> Longer(fetch).done]
           /\ Longer(fetch).id = fetch.id /\ Longer(fetch).done \in BOOLEAN
           /\ IsStartOf(Longer(fetch).s, Text[fetch.id])
           /\ Ends(fetch) => Longer(fetch).s = Text[fetch.id]
           /\ ~Longer(fetch).done =>
                 /\ Len(Longer(fetch).s) \in Nat /\ Len(Longer(fetch).s) < Len(Text[fetch.id])
                 /\ got[NextChunk(fetch)] # None
<1> DEFINE k == NextChunk(fetch)
           T == Text[fetch.id]
           n == Len(fetch.s) + 1
<1>1. /\ fetch = [id |-> fetch.id, s |-> fetch.s, done |-> fetch.done]
      /\ fetch.id \in Strings /\ IsStartOf(fetch.s, T) /\ Len(fetch.s) < Len(T)
  BY DEF FetchOK
<1>2. Len(fetch.s) \in Nat /\ Len(T) \in Nat /\ DOMAIN T = 1 .. Len(T)
  BY <1>1, StartIsPrefix, TextIs
<1>3. n \in DOMAIN T /\ n \in Nat
  BY <1>1, <1>2
<1>4. k \in Keys /\ Replies(k) = {T[n]}
  BY <1>1, <1>3, ChunksAreKeys DEF NextChunk
<1>5. got[k] = None \/ got[k] = T[n]
  BY <1>4 DEF DiscoveryInv, RequestInv, AnswersOK
<1>6. CASE got[k] = None
  <2>1. Longer(fetch) = [fetch EXCEPT !.done = TRUE]
    BY <1>6 DEF Longer
  <2> DEFINE new == Longer(fetch)
  <2>2. new = [id |-> fetch.id, s |-> fetch.s, done |-> TRUE]
    BY <1>1, <2>1
  <2>3. ~Ends(fetch)
    BY <1>6 DEF Ends
  <2> HIDE DEF new, T, k
  <2>4. new.id = fetch.id /\ new.s = fetch.s /\ new.done = TRUE
    BY <2>2
  <2> QED BY <1>1, <1>4, <2>2, <2>3, <2>4 DEF new, T, k
<1>7. CASE got[k] # None
  <2>1. Longer(fetch) = [fetch EXCEPT !.s = Append(fetch.s, T[n]), !.done = Ends(fetch)]
    BY <1>5, <1>7 DEF Longer
  <2> DEFINE new == Longer(fetch)
             e == Ends(fetch)
             u == Append(fetch.s, T[n])
  <2>2. e <=> (n = Len(T))
    BY <1>7 DEF Ends
  <2>3. e \in BOOLEAN
    BY DEF Ends
  <2> HIDE DEF e, u
  <2>4. new = [id |-> fetch.id, s |-> u, done |-> e]
    BY <1>1, <2>1 DEF e, u
  <2> HIDE DEF new
  <2>5. new.id = fetch.id /\ new.s = u /\ new.done = e
    BY <2>4
  <2> HIDE DEF n, k, T
  <2>6. T[n] \in ToSet(T) /\ fetch.s \in Seq(ToSet(T)) /\ \A i \in 1 .. Len(fetch.s) : fetch.s[i] = T[i]
    BY <1>1, <1>3 DEF IsStartOf, ToSet
  <2>7. /\ u \in Seq(ToSet(T)) /\ Len(u) = n
        /\ \A i \in 1 .. Len(fetch.s) : u[i] = fetch.s[i]
        /\ u[n] = T[n]
    BY <2>6, AppendProperties DEF u, n
  <2>8. IsStartOf(u, T)
    <3>1. \A i \in 1 .. n : i \in 1 .. Len(fetch.s) \/ i = n
      BY <1>2 DEF n
    <3> QED BY <1>2, <1>3, <2>6, <2>7, <3>1 DEF IsStartOf
  <2>9. e => u = T
    BY <1>1, <2>2, <2>7, <2>8, StartIsPrefix DEF T
  <2>10. ~e => Len(u) \in Nat /\ Len(u) < Len(T)
    BY <1>2, <1>3, <2>2, <2>7
  <2> QED BY <1>4, <1>7, <2>3, <2>4, <2>5, <2>8, <2>9, <2>10 DEF new, k, T, e
<1> QED BY <1>6, <1>7

\* What the strings of the present fetch are, and what is remembered of them.
TextFor(s, now, memory) ==
    LET cut == {fetch.s : fetch \in {f \in ToSet(now) : f.id = s}}
    IN  CASE Served(s) -> catalog[s]
          [] ~Served(s) /\ memory[s] # None -> memory[s]
          [] OTHER -> IF cut = {} THEN <<>> ELSE CHOOSE t \in cut : TRUE

LEMMA TextForIs ==
    ASSUME NEW s \in Strings, NEW now, NEW memory, memory[s] \in {None, Text[s]},
           \A fetch \in ToSet(now) : fetch.id \in Strings /\ IsStartOf(fetch.s, Text[fetch.id])
    PROVE  IsTextOf(TextFor(s, now, memory), s)
<1> DEFINE cut == {fetch.s : fetch \in {f \in ToSet(now) : f.id = s}}
           t == TextFor(s, now, memory)
<1>1. CASE Served(s)
  <2>1. t = catalog[s]
    BY <1>1, Zenon DEF TextFor
  <2> HIDE DEF t
  <2>2. catalog # None /\ s \in DOMAIN catalog
    BY <1>1 DEF Served
  <2>3. IsTextOf(t, s)
    BY <2>1, <2>2 DEF IsTextOf
  <2> QED BY <2>3 DEF t
<1>2. CASE ~Served(s) /\ memory[s] # None
  <2>1. t = memory[s]
    BY <1>2, Zenon DEF TextFor
  <2> HIDE DEF t
  <2>2. IsTextOf(t, s)
    BY <1>2, <2>1, TextIs DEF IsTextOf
  <2> QED BY <2>2 DEF t
<1>3. CASE ~Served(s) /\ memory[s] = None
  <2>1. t = IF cut = {} THEN <<>> ELSE CHOOSE x \in cut : TRUE
    BY <1>3, Zenon DEF TextFor
  <2> HIDE DEF t
  <2>2. t = <<>> \/ t \in cut
    <3> HIDE DEF cut
    <3>1. CASE cut = {}
      BY <2>1, <3>1
    <3>2. CASE cut # {}
      BY <2>1, <3>2
    <3> QED BY <3>1, <3>2
  <2>3. \A x \in cut : IsStartOf(x, Text[s])
    OBVIOUS
  <2>4. IsPrefix(t, Text[s])
    BY <2>2, <2>3, TextIs, StartIsPrefix
  <2>5. IsTextOf(t, s)
    BY <2>4 DEF IsTextOf
  <2> QED BY <2>5 DEF t
<1> QED BY <1>1, <1>2, <1>3

LEMMA TakeChunksKeeps ==
    ASSUME DiscoveryInv, TakeChunks
    PROVE  StepOK
<1> DEFINE I == {i \in DOMAIN fetches : ~fetches[i].done}
           open == Open(fetches)
           now == [i \in DOMAIN fetches |-> After(fetches[i])]
           whole == {fetch \in ToSet(open) : Ends(fetch)}
           silent == {fetch \in ToSet(open) : fetch.s = <<>> /\ ~Answered(NextChunk(fetch))}
           results == [i \in DOMAIN Head(want) |-> TextFor(Head(want)[i], now, known')]
<1>1. /\ Over /\ pc = "chunks" /\ AskChunks(now)
      /\ UNCHANGED <<slots, flying, back, catalog, sids, left, shape, groups, complete, todo,
                     meta, found, misses>>
  BY DEF TakeChunks, At, table, menu, fields
<1>2. /\ known' = [s \in Strings |->
                      IF \E fetch \in whole : fetch.id = s
                      THEN (CHOOSE fetch \in {Longer(f) : f \in whole} : fetch.id = s).s
                      ELSE known[s]]
      /\ unanswered' = [s \in Strings |->
                           unanswered[s] + Cardinality({fetch \in silent : fetch.id = s})]
  BY DEF TakeChunks
<1>3. \/ fetches' = now /\ pc' = pc /\ want' = want /\ texts' = texts
      \/ /\ texts' = texts \o results
         /\ want' = Tail(want) /\ fetches' = <<>>
         /\ pc' = IF Tail(want) = <<>> THEN back ELSE "fetch"
  BY DEF TakeChunks, TextFor
<1>4. /\ want # <<>> /\ want \in Seq(Seq(Strings)) /\ Where = back
      /\ back \in {"identified", "spotted", "shape", "names"}
  BY <1>1 DEF DiscoveryInv, ProgramOK, PlaceOK, Fetching, Where
<1>5. /\ Listed(fetches)
      /\ \A i \in DOMAIN fetches : FetchOK(fetches[i], unanswered)
      /\ \A i, j \in DOMAIN fetches : fetches[i].id = fetches[j].id => i = j
      /\ known \in [Strings -> {None} \cup {Text[s] : s \in Strings}]
      /\ \A s \in Strings : known[s] \in {None, Text[s]}
      /\ unanswered \in [Strings -> 0 .. StrLimit]
  BY DEF DiscoveryInv, ProgramOK, MemoOK, KnownIsWhole
<1>6. DOMAIN fetches = 1 .. Len(fetches) /\ Len(fetches) \in Nat
  BY <1>5, SeqIsListed DEF Listed
\* What is still open is in the list, and not done.
<1>7. \A fetch \in ToSet(open) : \E i \in I : fetch = fetches[i]
  <2>1. Numbers(I)
    BY <1>6, IndicesAreNumbers
  <2>2. open = Among(fetches, I)
    BY DEF Open
  <2> HIDE DEF I, open
  <2>3. /\ DOMAIN open = 1 .. Cardinality(I)
        /\ \A n \in 1 .. Cardinality(I) : open[n] = fetches[Nth(I, n)] /\ Nth(I, n) \in I
    BY <2>1, <2>2, RankOrder DEF Among
  <2> QED BY <2>3 DEF ToSet
<1>8. ASSUME NEW i \in DOMAIN fetches
      PROVE  /\ now[i] = [id |-> now[i].id, s |-> now[i].s, done |-> now[i].done]
             /\ now[i].id = fetches[i].id /\ now[i].id \in Strings /\ now[i].done \in BOOLEAN
             /\ IsStartOf(now[i].s, Text[now[i].id])
             /\ ~now[i].done => /\ Len(now[i].s) \in Nat
                                /\ Len(now[i].s) < Len(Text[now[i].id])
                                /\ ~fetches[i].done /\ got[NextChunk(fetches[i])] # None
  <2> DEFINE fetch == fetches[i]
             new == now[i]
  <2>1. FetchOK(fetch, unanswered) /\ new = After(fetch)
    BY <1>5
  <2> HIDE DEF fetch, new
  <2>2. fetch.id \in Strings /\ fetch.done \in BOOLEAN
    BY <2>1 DEF FetchOK
  <2>3. CASE fetch.done
    BY <2>1, <2>2, <2>3 DEF FetchOK, After, fetch, new
  <2>4. CASE ~fetch.done
    <3>1. new = Longer(fetch)
      BY <2>1, <2>4 DEF After
    <3> QED BY <2>1, <2>2, <2>4, <3>1, LongerIs DEF fetch, new
  <2> QED BY <2>3, <2>4
<1>9. DOMAIN now = DOMAIN fetches
  OBVIOUS
<1>10. Listed(now)
  <2>1. now \in [1 .. Len(fetches) -> ToSet(now)]
    BY <1>6 DEF ToSet
  <2> QED BY <1>6, <2>1, SeqDef DEF Listed
<1>11. \A fetch \in ToSet(now) : fetch.id \in Strings /\ IsStartOf(fetch.s, Text[fetch.id])
  BY <1>8, <1>9 DEF ToSet
<1> HIDE DEF now
\* What is remembered is whole.
<1>12. ASSUME NEW s \in Strings
       PROVE  known'[s] \in {None, Text[s]}
  <2> DEFINE longer == {Longer(f) : f \in whole}
             last == CHOOSE fetch \in longer : fetch.id = s
  <2>1. \A f \in whole : Longer(f).id = f.id /\ Longer(f).s = Text[f.id]
    <3>1. ASSUME NEW f \in whole
          PROVE  Longer(f).id = f.id /\ Longer(f).s = Text[f.id]
      <4>1. PICK i \in I : f = fetches[i]
        BY <1>7
      <4>2. FetchOK(f, unanswered) /\ ~f.done /\ Ends(f)
        BY <1>5, <4>1
      <4> QED BY <4>2, LongerIs
    <3> QED BY <3>1
  <2>2. CASE \E fetch \in whole : fetch.id = s
    <3>1. known'[s] = last.s
      BY <1>2, <2>2
    <3>2. \E fetch \in longer : fetch.id = s
      BY <2>1, <2>2
    <3>3. last \in longer /\ last.id = s
      <4> HIDE DEF longer
      <4> QED BY <3>2
    <3>4. last.s = Text[s]
      <4> HIDE DEF last
      <4>1. PICK f \in whole : last = Longer(f)
        BY <3>3
      <4> QED BY <2>1, <3>3, <4>1
    <3> QED BY <3>1, <3>4
  <2>3. CASE ~\E fetch \in whole : fetch.id = s
    BY <1>2, <1>5, <2>3
  <2> QED BY <2>2, <2>3
\* At most one of the open fetches is of a string, and it was below the limit.
<1>13. ASSUME NEW s \in Strings
       PROVE  /\ unanswered'[s] \in 0 .. StrLimit
              /\ \A i \in I : /\ fetches[i].id = s
                              /\ got[NextChunk(fetches[i])] # None
                              => unanswered'[s] = unanswered[s]
  <2> DEFINE S == {fetch \in silent : fetch.id = s}
  <2>1. unanswered'[s] = unanswered[s] + Cardinality(S)
    BY <1>2
  <2>2. unanswered[s] \in 0 .. StrLimit
    BY <1>5
  <2>3. \A fetch \in S : \E i \in I : fetch = fetches[i] /\ fetch.id = s
                                      /\ got[NextChunk(fetch)] = None
    BY <1>7 DEF Answered
  <2>4. \A i, j \in I : fetches[i].id = s /\ fetches[j].id = s => i = j
    BY <1>5
  <2> HIDE DEF S
  <2>5. CASE S = {}
    BY <2>1, <2>2, <2>5, FS_EmptySet
  <2>6. CASE S # {}
    <3>1. PICK i \in I : fetches[i] \in S /\ fetches[i].id = s /\ got[NextChunk(fetches[i])] = None
      BY <2>3, <2>6
    <3>2. S = {fetches[i]}
      BY <2>3, <2>4, <3>1
    <3>3. Cardinality(S) = 1
      BY <3>2, FS_Singleton
    <3>4. FetchOK(fetches[i], unanswered) /\ ~fetches[i].done
      BY <1>5
    <3>5. unanswered[s] < StrLimit
      BY <3>1, <3>4 DEF FetchOK
    <3>6. unanswered'[s] \in 0 .. StrLimit
      BY <2>1, <2>2, <3>3, <3>5, Limits
    <3>7. \A j \in I : fetches[j].id = s => got[NextChunk(fetches[j])] = None
      BY <2>4, <3>1
    <3> QED BY <3>6, <3>7
  <2> QED BY <2>5, <2>6
<1>14. known' \in [Strings -> {None} \cup {Text[s] : s \in Strings}]
  <2>1. DOMAIN known' = Strings /\ known' = [s \in Strings |-> known'[s]]
    BY <1>2
  <2> QED BY <1>12, <2>1
<1>15. unanswered' \in [Strings -> 0 .. StrLimit]
  <2>1. unanswered' = [s \in Strings |-> unanswered'[s]]
    BY <1>2
  <2> QED BY <1>13, <2>1
<1>16. MemoOK'
  <2>1. CASE fetches' = now
    <3>1. ASSUME NEW i \in DOMAIN fetches
          PROVE  FetchOK(now[i], unanswered')
      <4>1. ASSUME ~now[i].done
            PROVE  unanswered'[now[i].id] < StrLimit
        <5>1. i \in I /\ FetchOK(fetches[i], unanswered) /\ got[NextChunk(fetches[i])] # None
          BY <1>5, <1>8, <4>1
        <5>2. now[i].id = fetches[i].id /\ fetches[i].id \in Strings
          BY <1>8
        <5>3. unanswered'[fetches[i].id] = unanswered[fetches[i].id]
          BY <1>13, <5>1, <5>2
        <5> QED BY <5>1, <5>2, <5>3 DEF FetchOK
      <4> QED BY <1>8, <4>1 DEF FetchOK
    <3>2. \A i, j \in DOMAIN now : now[i].id = now[j].id => i = j
      BY <1>5, <1>8, <1>9
    <3> QED BY <1>9, <1>10, <1>12, <1>14, <1>15, <2>1, <3>1, <3>2 DEF MemoOK, KnownIsWhole
  <2>2. CASE fetches' = <<>>
    <3>1. Listed(<<>>) /\ DOMAIN <<>> = {}
      BY SetOfEmpty
    <3> QED BY <1>12, <1>14, <1>15, <2>2, <3>1 DEF MemoOK, KnownIsWhole
  <2> QED BY <1>3, <2>1, <2>2
<1>17. RequestInv' /\ Uses
  <2> DEFINE keys == [i \in DOMAIN Open(now) |-> NextChunk(Open(now)[i])]
  <2>1. \A i, j \in DOMAIN now : now[i].id = now[j].id => i = j
    BY <1>5, <1>8, <1>9
  <2>2. \A i \in DOMAIN now :
            /\ now[i].id \in Strings
            /\ ~now[i].done => Len(now[i].s) \in Nat /\ Len(now[i].s) < Len(Text[now[i].id])
    BY <1>8, <1>9
  <2>3. Askable(IF keys = <<>> THEN <<>> ELSE <<keys>>)
    BY <1>10, <2>1, <2>2, ChunksAskable
  <2>4. Ask(IF keys = <<>> THEN <<>> ELSE <<keys>>, Retries, TRUE)
    BY <1>1 DEF AskChunks, ReqAll
  <2> HIDE DEF keys
  <2> QED BY <1>1, <2>3, <2>4, AskKeeps, Limits DEF DiscoveryInv
<1>18. /\ Head(want) \in Seq(Strings) /\ Tail(want) \in Seq(Seq(Strings))
       /\ Head(want) = want[1] /\ Len(Tail(want)) = Len(want) - 1 /\ Len(want) > 0
       /\ \A i \in 1 .. Len(want) - 1 : Tail(want)[i] = want[i + 1]
       /\ DOMAIN want = 1 .. Len(want) /\ Len(want) \in Nat
       /\ DOMAIN Tail(want) = 1 .. Len(want) - 1
  <2>1. Tail(want) \in Seq(Seq(Strings)) /\ Len(Tail(want)) = Len(want) - 1
    BY <1>4, SetOfTail
  <2>2. DOMAIN Tail(want) = 1 .. Len(Tail(want))
    BY <2>1, LenProperties
  <2> QED BY <1>4, <2>1, <2>2, SetOfTail, LenProperties
<1>19. Where' = Where
  BY <1>1, <1>3, <1>4 DEF Where, Fetching
<1>20. /\ DOMAIN results = DOMAIN Head(want) /\ DOMAIN results = 1 .. Len(Head(want))
       /\ \A i \in DOMAIN results : IsTextOf(results[i], Head(want)[i])
       /\ Listed(results) /\ Len(results) = Len(Head(want))
  <2>1. DOMAIN Head(want) = 1 .. Len(Head(want)) /\ Len(Head(want)) \in Nat
        /\ \A i \in 1 .. Len(Head(want)) : Head(want)[i] \in Strings
    BY <1>18, LenProperties, ElementOfSeq
  <2>2. \A i \in 1 .. Len(Head(want)) : IsTextOf(TextFor(Head(want)[i], now, known'), Head(want)[i])
    BY <1>11, <1>12, <2>1, TextForIs
  <2>3. results \in [1 .. Len(Head(want)) -> ToSet(results)]
    BY <2>1 DEF ToSet
  <2>4. \A i \in DOMAIN results : IsTextOf(results[i], Head(want)[i])
    BY <2>1, <2>2
  <2>5. DOMAIN results = DOMAIN Head(want)
    OBVIOUS
  <2> HIDE DEF results
  <2>6. Listed(results)
    BY <2>1, <2>3, SeqDef DEF Listed
  <2> QED BY <2>1, <2>4, <2>5, <2>6, LenProperties DEF Listed
<1> HIDE DEF results
<1>21. Listed(texts) /\ DOMAIN texts = 1 .. Len(texts) /\ Len(texts) \in Nat
  BY SeqIsListed DEF DiscoveryInv, ProgramOK, PlaceOK, Listed
<1>22. /\ Listed(texts \o results) /\ Len(texts \o results) = Len(texts) + Len(results)
       /\ \A i \in 1 .. Len(texts) : (texts \o results)[i] = texts[i]
       /\ \A i \in 1 .. Len(results) : (texts \o results)[Len(texts) + i] = results[i]
       /\ DOMAIN (texts \o results) = 1 .. Len(texts) + Len(results)
  <2> DEFINE S == ToSet(texts) \cup ToSet(results)
  <2>1. texts \in Seq(S) /\ results \in Seq(S)
    BY <1>20, <1>21, SeqMonotonic DEF Listed
  <2>2. /\ texts \o results \in Seq(S) /\ Len(texts \o results) = Len(texts) + Len(results)
        /\ \A i \in 1 .. Len(texts) + Len(results) :
              (texts \o results)[i] = IF i <= Len(texts) THEN texts[i] ELSE results[i - Len(texts)]
        /\ Len(texts) \in Nat /\ Len(results) \in Nat
    BY <2>1, ConcatProperties, LenProperties
  <2>3. Listed(texts \o results) /\ DOMAIN (texts \o results) = 1 .. Len(texts) + Len(results)
    BY <2>2, SeqIsListed
  <2>4. ASSUME NEW i \in 1 .. Len(results)
        PROVE  (texts \o results)[Len(texts) + i] = results[i]
    <3>1. /\ Len(texts) + i \in 1 .. Len(texts) + Len(results)
          /\ ~(Len(texts) + i <= Len(texts)) /\ Len(texts) + i - Len(texts) = i
      BY <2>2
    <3> QED BY <2>2, <3>1
  <2>5. ASSUME NEW i \in 1 .. Len(texts)
        PROVE  (texts \o results)[i] = texts[i]
    BY <2>2
  <2> QED BY <2>2, <2>3, <2>4, <2>5
<1>23. PlaceOK'
  <2>1. CASE fetches' = now /\ pc' = pc /\ want' = want /\ texts' = texts
    BY <1>1, <1>4, <1>19, <2>1 DEF DiscoveryInv, ProgramOK, PlaceOK, Fetching
  <2>2. CASE /\ texts' = texts \o results
             /\ want' = Tail(want) /\ fetches' = <<>>
             /\ pc' = IF Tail(want) = <<>> THEN back ELSE "fetch"
    <3>1. pc' \in {"identified", "spotted", "shape", "names", "fetch"} /\ back' = back
          /\ (pc' = "fetch" <=> Tail(want) # <<>>) /\ (pc' # "fetch" => pc' = back)
      BY <1>1, <1>4, <2>2
    <3>2. Fetching' <=> (Tail(want) # <<>>)
      BY <3>1 DEF Fetching
    <3>3. pc' \in Beginnings \cup CatalogPlaces \cup GroupPlaces \cup FieldPlaces
                  \cup OutputPlaces \cup {"fetch", "chunks", "done"}
      BY <3>1 DEF Beginnings, CatalogPlaces, GroupPlaces, FieldPlaces, OutputPlaces
    <3>4. sids' # <<>> => Where' \in {"identified", "names"}
      BY <1>1, <1>19 DEF DiscoveryInv, ProgramOK, PlaceOK
    <3>5. pc' = "shape" => back' = "shape"
      BY <3>1
    <3>6. Where' \in {"identified", "spotted", "shape", "names"} /\ back' # "idle"
          /\ back' \in {"idle", "identified", "spotted", "shape", "names"}
      BY <1>1, <1>4, <1>19
    <3> QED BY <1>18, <1>22, <2>2, <3>2, <3>3, <3>4, <3>5, <3>6 DEF PlaceOK
  <2> QED BY <1>3, <2>1, <2>2
<1>24. TextsOK'
  <2>1. Sought' = Sought
    BY <1>1, <1>19 DEF Sought, Spelt
  <2>2. CASE texts' = texts /\ want' = want
    BY <1>1, <1>19, <2>1, <2>2 DEF DiscoveryInv, ProgramOK, TextsOK, IsTextOf
  <2>3. CASE texts' = texts \o results /\ want' = Tail(want)
    <3> SUFFICES ASSUME Where' \in {"spotted", "names"}
                 PROVE  /\ Len(texts') + Len(want') = Len(Sought')
                        /\ \A j \in DOMAIN want' : want'[j] = <<Sought'[Len(texts') + j]>>
                        /\ \A k \in DOMAIN texts' :
                              \/ IsPrefix(texts'[k], Text[Sought'[k]])
                              \/ /\ catalog' # None /\ Sought'[k] \in DOMAIN catalog'
                                 /\ texts'[k] = catalog'[Sought'[k]]
      BY DEF TextsOK, IsTextOf
    <3> DEFINE n == Len(texts)
    <3>1. /\ n + Len(want) = Len(Sought)
          /\ \A j \in 1 .. Len(want) : want[j] = <<Sought[n + j]>>
          /\ \A k \in 1 .. n : IsTextOf(texts[k], Sought[k])
      BY <1>18, <1>19, <1>21 DEF DiscoveryInv, ProgramOK, TextsOK
    <3>2. Head(want) = <<Sought[n + 1]>>
      BY <1>18, <3>1
    <3>3. Len(results) = 1 /\ IsTextOf(results[1], Sought[n + 1])
      <4>1. \A x : Len(<<x>>) = 1 /\ <<x>>[1] = x /\ DOMAIN <<x>> = {1}
        OBVIOUS
      <4>2. Len(<<Sought[n + 1]>>) = 1 /\ <<Sought[n + 1]>>[1] = Sought[n + 1]
        BY <4>1
      <4>3. Len(Head(want)) = 1 /\ Head(want)[1] = Sought[n + 1]
        BY <3>2, <4>2
      <4> QED BY <1>20, <4>3
    <3>4. Len(texts') = n + 1 /\ DOMAIN texts' = 1 .. n + 1 /\ n \in Nat
      BY <1>21, <1>22, <2>3, <3>3
    <3> HIDE DEF n
    <3>5. Len(texts') + Len(want') = Len(Sought')
      BY <1>18, <2>1, <2>3, <3>1, <3>4
    <3>6. ASSUME NEW j \in DOMAIN want'
          PROVE  want'[j] = <<Sought'[Len(texts') + j]>>
      <4>1. j \in 1 .. Len(want) - 1 /\ j \in Nat
        BY <1>18, <2>3
      <4>2. j + 1 \in 1 .. Len(want) /\ want'[j] = want[j + 1]
        BY <1>18, <2>3, <4>1
      <4>3. n + (j + 1) = Len(texts') + j
        BY <3>4, <4>1
      <4> QED BY <2>1, <3>1, <4>2, <4>3
    <3>7. ASSUME NEW k \in DOMAIN texts'
          PROVE  \/ IsPrefix(texts'[k], Text[Sought'[k]])
                 \/ /\ catalog' # None /\ Sought'[k] \in DOMAIN catalog'
                    /\ texts'[k] = catalog'[Sought'[k]]
      <4>1. CASE k \in 1 .. n
        <5>1. texts'[k] = texts[k]
          BY <1>22, <2>3, <4>1 DEF n
        <5> QED BY <1>1, <2>1, <3>1, <4>1, <5>1 DEF IsTextOf
      <4>2. CASE k = n + 1
        <5>1. texts'[k] = results[1]
          BY <1>22, <2>3, <3>3, <4>2 DEF n
        <5> QED BY <1>1, <2>1, <3>3, <4>2, <5>1 DEF IsTextOf
      <4> QED BY <3>4, <4>1, <4>2
    <3> QED BY <3>5, <3>6, <3>7
  <2> QED BY <1>3, <2>2, <2>3
<1>25. pc' # "remeta"
  BY <1>1, <1>3, <1>4
<1>26. LeftOK' /\ ShapeOK' /\ NamesOK' /\ CatalogOK' /\ GroupsOK' /\ FoundOK' /\ MissesOK'
  BY <1>1, <1>19, <1>25, SamePlace, Untouched DEF DiscoveryInv
<1> QED BY <1>16, <1>17, <1>23, <1>24, <1>26 DEF StepOK, ProgramOK

-----------------------------------------------------------------------------
(* Identities, and the offline table. *)

\* Strings are wanted: they are fetched, or there were none.
LEMMA FetchAllKeeps ==
    ASSUME ProgramOK, pc \in Plain, NEW calls \in Seq(Seq(Strings)),
           NEW next \in {"identified", "spotted", "shape", "names"},
           FetchAll(calls, next), UNCHANGED memo,
           sids' # <<>> => next \in {"identified", "names"}
    PROVE  /\ Where' = next /\ PlaceOK' /\ MemoOK'
           /\ texts' = <<>> /\ want' = calls /\ pc' \in {next, "fetch"}
<1>1. /\ want' = calls /\ texts' = <<>> /\ fetches' = <<>> /\ back' = next
      /\ pc' = IF calls = <<>> THEN next ELSE "fetch"
  BY DEF FetchAll
<1>2. fetches = <<>>
  BY AtPlain
<1>3. MemoOK'
  BY <1>1, <1>2, Untouched DEF memo
<1>4. /\ pc' \in {"identified", "spotted", "shape", "names", "fetch"}
      /\ Fetching' <=> (calls # <<>>)
      /\ Where' = next
  BY <1>1 DEF Fetching, Where
<1>5. pc' \in Beginnings \cup CatalogPlaces \cup GroupPlaces \cup FieldPlaces \cup OutputPlaces
              \cup {"fetch", "chunks", "done"}
  BY <1>4 DEF Beginnings, CatalogPlaces, GroupPlaces, FieldPlaces, OutputPlaces
<1>6. Listed(<<>>)
  BY SetOfEmpty
<1>7. pc' = "shape" => back' = "shape"
  BY <1>1
<1>8. back' \in {"idle", "identified", "spotted", "shape", "names"} /\ back' # "idle"
  BY <1>1
<1>9. PlaceOK'
  BY <1>1, <1>4, <1>5, <1>6, <1>7, <1>8 DEF PlaceOK
<1>10. pc' \in {next, "fetch"}
  BY <1>1
<1> QED BY <1>1, <1>3, <1>4, <1>9, <1>10

\* The strings have been used.
LEMMA LeaveStep ==
    ASSUME ProgramOK, ~Fetching, pc' \in Plain, UNCHANGED <<want, fetches>>,
           texts' = <<>>, sids' = <<>>, back' \in {back, "idle"}
    PROVE  PlaceOK' /\ Where' = pc'
<1>1. want = <<>> /\ fetches = <<>>
  BY DEF ProgramOK, PlaceOK, Fetching
<1>2. pc' \notin {"fetch", "chunks"}
  BY DEF Plain
<1>3. Where' = pc' /\ ~Fetching'
  BY <1>2 DEF Where, Fetching
<1>4. pc' # "shape"
  BY DEF Plain
<1>5. pc' \in Beginnings \cup CatalogPlaces \cup GroupPlaces \cup FieldPlaces \cup OutputPlaces
              \cup {"fetch", "chunks", "done"}
  BY DEF Plain, Beginnings, CatalogPlaces, GroupPlaces, FieldPlaces, OutputPlaces
<1>6. Listed(<<>>)
  BY SetOfEmpty
<1> QED BY <1>1, <1>3, <1>4, <1>5, <1>6 DEF ProgramOK, PlaceOK

LEMMA FetchPropertiesKeeps ==
    ASSUME DiscoveryInv, FetchProperties
    PROVE  StepOK
<1> DEFINE all == [i \in DOMAIN PropertyKeys |-> got[PropertyKeys[i]]]
           I == {i \in DOMAIN all : all[i] # None}
           live == Among(all, I)
           calls == IF live = <<>> THEN <<>> ELSE <<live>>
<1>1. /\ pc = "properties" /\ FetchAll(calls, "identified")
      /\ UNCHANGED <<slots, flying, ask, got>>
      /\ UNCHANGED <<memo, catalog, left, shape, groups, complete, todo, found, misses>>
  BY DEF FetchProperties, At, requests, menu, fields
<1>2. calls \in Seq(Seq(Strings))
  <2>1. DOMAIN all = 1 .. Len(PropertyKeys) /\ Len(PropertyKeys) \in Nat
    BY PropertyKeysAre, LenProperties
  <2>2. \A i \in I : all[i] \in Strings
    BY PropertyKeysAre, ElementOfSeq, <2>1 DEF DiscoveryInv, RequestInv, AnswersOK
  <2>3. Numbers(I)
    BY <2>1, IndicesAreNumbers
  <2>4. live \in Seq(Strings)
    <3> HIDE DEF I, all
    <3> QED BY <2>2, <2>3, AmongIsList
  <2> HIDE DEF live
  <2>5. <<>> \in Seq(Seq(Strings)) /\ <<live>> \in Seq(Seq(Strings))
    BY <2>4
  <2> QED BY <2>5
<1> HIDE DEF calls
<1>3. pc \in Plain
  BY <1>1 DEF Plain
<1>4. /\ Where' = "identified" /\ PlaceOK' /\ MemoOK' /\ pc' \in {"identified", "fetch"}
  BY <1>1, <1>2, <1>3, FetchAllKeeps DEF DiscoveryInv
<1>5. RequestInv' /\ Uses
  BY <1>1, NotAskedKeeps DEF DiscoveryInv
<1>6. Where = "properties"
  BY <1>1, <1>3, AtPlain DEF DiscoveryInv
<1>7. LeftOK'
  BY <1>1, <1>4, <1>6 DEF DiscoveryInv, ProgramOK, LeftOK, Beginnings, CatalogPlaces,
                          GroupPlaces, FieldPlaces, OutputPlaces
<1>8. ShapeOK'
  BY <1>1, <1>4 DEF DiscoveryInv, ProgramOK, ShapeOK
<1>9. TextsOK' /\ CatalogOK' /\ NamesOK'
  BY <1>1, <1>4, Elsewhere DEF DiscoveryInv
<1>10. GroupsOK' /\ FoundOK' /\ MissesOK'
  BY <1>1, <1>4, Untouched DEF DiscoveryInv
<1> QED BY <1>4, <1>5, <1>7, <1>8, <1>9, <1>10 DEF StepOK, ProgramOK

LEMMA PutIdentitiesKeeps ==
    ASSUME DiscoveryInv, PutIdentities
    PROVE  StepOK
<1>1. /\ pc = "identified" /\ pc' = "done" /\ texts' = <<>> /\ sids' = <<>>
      /\ UNCHANGED <<slots, flying, ask, got>>
      /\ UNCHANGED <<back, want, fetches, known, unanswered, catalog, left, shape, groups,
                     complete, todo, found, misses>>
  BY DEF PutIdentities, At, requests, menu, fields, memo
<1>2. RequestInv' /\ Uses
  BY <1>1, NotAskedKeeps DEF DiscoveryInv
<1>3. Where = "identified" /\ ~Fetching /\ pc' \in Plain
  BY <1>1 DEF Where, Fetching, Plain
<1>4. PlaceOK' /\ Where' = "done"
  BY <1>1, <1>3, LeaveStep DEF DiscoveryInv
<1>5. LeftOK'
  BY <1>1, <1>3, <1>4 DEF DiscoveryInv, ProgramOK, LeftOK, Beginnings, CatalogPlaces,
                          GroupPlaces, FieldPlaces, OutputPlaces
<1>6. ShapeOK'
  BY <1>1, <1>4 DEF DiscoveryInv, ProgramOK, ShapeOK
<1>7. TextsOK' /\ CatalogOK' /\ NamesOK'
  BY <1>1, <1>4, Elsewhere DEF DiscoveryInv
<1>8. MemoOK' /\ GroupsOK' /\ FoundOK' /\ MissesOK'
  BY <1>1, Untouched DEF DiscoveryInv
<1> QED BY <1>2, <1>4, <1>5, <1>6, <1>7, <1>8 DEF StepOK, ProgramOK

\* A candidate from its first spot on.
LEMMA SpotsAre ==
    ASSUME NEW i \in DOMAIN Tables
    PROVE  LET all == Tables[i].spots
           IN  /\ all \in Seq(Strings) /\ Len(all) \in Nat /\ DOMAIN all = 1 .. Len(all)
               /\ \A j \in DOMAIN all : all[j] = all[Len(all) - Len(all) + j]
               /\ 1 .. Len(all) - Len(all) = {}
<1> DEFINE all == Tables[i].spots
<1>1. all \in Seq(Strings)
  BY DiscoveryAssumption
<1> HIDE DEF all
<1>2. Len(all) \in Nat /\ DOMAIN all = 1 .. Len(all)
  BY <1>1, LenProperties
<1>3. \A j \in DOMAIN all : Len(all) - Len(all) + j = j
  BY <1>2
<1>4. 1 .. Len(all) - Len(all) = {}
  BY <1>2
<1>5. \A j \in DOMAIN all : all[j] = all[Len(all) - Len(all) + j]
  BY <1>3
<1> QED BY <1>1, <1>2, <1>4, <1>5 DEF all

LEMMA ResolveCatalogKeeps ==
    ASSUME DiscoveryInv, ResolveCatalog
    PROVE  StepOK
<1>1. /\ pc = "idle" /\ pc' = "spot" /\ catalog = None /\ Tables # <<>>
      /\ left' = 1 /\ todo' = Tables[1].spots
      /\ UNCHANGED <<slots, flying, ask, got>>
      /\ UNCHANGED <<back, want, fetches, texts, known, unanswered, catalog, sids, shape, groups,
                     complete, found, misses>>
  BY DEF ResolveCatalog, Begins, At, requests, strings, memo
<1>2. RequestInv' /\ Uses
  BY <1>1, NotAskedKeeps DEF DiscoveryInv
<1>3. pc \in Plain /\ pc' \in Plain
  BY <1>1 DEF Plain
<1>4. Where = "idle" /\ Where' = "spot" /\ PlaceOK'
  BY <1>1, <1>3, AtPlain, PlainStep DEF DiscoveryInv
<1>5. 1 \in DOMAIN Tables
  <2>1. Tables \in Seq(ToSet(Tables))
    BY DiscoveryAssumption
  <2>2. Len(Tables) # 0
    BY <1>1, <2>1, EmptySeq
  <2> QED BY <2>2, Limits
<1>6. LeftOK'
  BY <1>1, <1>4, <1>5 DEF DiscoveryInv, ProgramOK, LeftOK, Beginnings, CatalogPlaces,
                          GroupPlaces, FieldPlaces, OutputPlaces
<1>7. ShapeOK'
  BY <1>1, <1>4 DEF DiscoveryInv, ProgramOK, ShapeOK
<1>8. TextsOK' /\ NamesOK'
  BY <1>4 DEF TextsOK, NamesOK
<1>9. CatalogOK'
  <2>1. TableIsChecked'
    BY <1>1, Untouched DEF DiscoveryInv
  <2> DEFINE all == Tables[1].spots
  <2>2. /\ all \in Seq(Strings) /\ Len(all) \in Nat /\ DOMAIN all = 1 .. Len(all)
        /\ \A j \in DOMAIN all : all[j] = all[Len(all) - Len(all) + j]
        /\ 1 .. Len(all) - Len(all) = {}
    BY <1>5, SpotsAre
  <2>3. todo' = all /\ left' = 1 /\ catalog' = None
    BY <1>1
  <2> QED BY <1>4, <2>1, <2>2, <2>3 DEF CatalogOK
<1>10. MemoOK' /\ GroupsOK' /\ FoundOK' /\ MissesOK'
  BY <1>1, Untouched DEF DiscoveryInv
<1> QED BY <1>2, <1>4, <1>6, <1>7, <1>8, <1>9, <1>10 DEF StepOK, ProgramOK

LEMMA FetchSpotKeeps ==
    ASSUME DiscoveryInv, FetchSpot
    PROVE  StepOK
<1>1. /\ pc = "spot" /\ todo # <<>> /\ FetchAll(<<<<Head(todo)>>>>, "spotted")
      /\ UNCHANGED <<slots, flying, ask, got>>
      /\ UNCHANGED memo
      /\ UNCHANGED <<catalog, sids, left, shape, groups, complete, todo, found, misses>>
  BY DEF FetchSpot, At, requests, menu, fields
<1>2. RequestInv' /\ Uses
  BY <1>1, NotAskedKeeps DEF DiscoveryInv
<1>3. pc \in Plain
  BY <1>1 DEF Plain
<1>4. Where = "spot" /\ sids = <<>>
  BY <1>1, <1>3, AtPlain DEF DiscoveryInv
<1>5. todo \in Seq(Strings)
  BY <1>4 DEF DiscoveryInv, ProgramOK, CatalogOK, CatalogPlaces
<1>6. Head(todo) \in Strings
  BY <1>1, <1>5, SetOfTail
<1>7. <<<<Head(todo)>>>> \in Seq(Seq(Strings))
  BY <1>6
<1>8. /\ Where' = "spotted" /\ PlaceOK' /\ MemoOK' /\ pc' \in {"spotted", "fetch"}
      /\ texts' = <<>> /\ want' = <<<<Head(todo)>>>>
  BY <1>1, <1>3, <1>4, <1>7, FetchAllKeeps DEF DiscoveryInv
<1>9. LeftOK'
  BY <1>1, <1>4, <1>8 DEF DiscoveryInv, ProgramOK, LeftOK, Beginnings, CatalogPlaces,
                          GroupPlaces, FieldPlaces, OutputPlaces
<1>10. ShapeOK'
  BY <1>1, <1>8 DEF DiscoveryInv, ProgramOK, ShapeOK
<1>11. NamesOK'
  BY <1>8 DEF NamesOK
<1>12. CatalogOK'
  BY <1>1, <1>4, <1>8, Untouched DEF DiscoveryInv, ProgramOK, CatalogOK, CatalogPlaces
<1>13. TextsOK'
  <2>1. Sought' = <<Head(todo)>>
    BY <1>1, <1>8 DEF Sought
  <2>2. \A x : Len(<<x>>) = 1 /\ <<x>>[1] = x /\ DOMAIN <<x>> = {1} /\ <<x>>[0 + 1] = x
    OBVIOUS
  <2>3. Len(<<>>) = 0 /\ DOMAIN <<>> = {}
    OBVIOUS
  <2>4. /\ Len(want') = 1 /\ DOMAIN want' = {1} /\ want'[1] = <<Head(todo)>>
        /\ Len(Sought') = 1 /\ Sought'[0 + 1] = Head(todo)
    BY <1>8, <2>1, <2>2
  <2>5. Len(texts') = 0 /\ DOMAIN texts' = {}
    BY <1>8, <2>3
  <2> QED BY <2>4, <2>5 DEF TextsOK
<1>14. GroupsOK' /\ FoundOK' /\ MissesOK'
  BY <1>1, <1>8, Untouched DEF DiscoveryInv
<1> QED BY <1>2, <1>8, <1>9, <1>10, <1>11, <1>12, <1>13, <1>14 DEF StepOK, ProgramOK

LEMMA TakeSpotKeeps ==
    ASSUME DiscoveryInv, TakeSpot
    PROVE  StepOK
<1> DEFINE agrees == texts[1] = Tables[left].strings[Head(todo)]
           next == IF agrees THEN left ELSE NextTable(left)
           all == Tables[left].spots
<1>1. /\ pc = "spotted" /\ texts' = <<>>
      /\ left' = IF next \in DOMAIN Tables THEN next ELSE 0
      /\ todo' = IF agrees THEN Others(todo)
                 ELSE IF next \in DOMAIN Tables THEN Tables[next].spots ELSE <<>>
      /\ pc' = IF next \in DOMAIN Tables THEN "spot" ELSE "done"
      /\ catalog' = IF next \in DOMAIN Tables THEN None ELSE <<>>
      /\ UNCHANGED <<slots, flying, ask, got>>
      /\ UNCHANGED <<back, want, fetches, known, unanswered, sids, shape, groups, complete, found,
                     misses>>
  BY DEF TakeSpot, At, requests, memo
<1>2. RequestInv' /\ Uses
  BY <1>1, NotAskedKeeps DEF DiscoveryInv
<1>3. Where = "spotted" /\ ~Fetching /\ pc' \in Plain
  BY <1>1 DEF Where, Fetching, Plain
<1>4. sids = <<>> /\ want = <<>> /\ groups = <<>> /\ found = <<>> /\ left \in DOMAIN Tables
  BY <1>3 DEF DiscoveryInv, ProgramOK, PlaceOK, LeftOK, CatalogPlaces
<1>5. PlaceOK' /\ Where' = pc'
  BY <1>1, <1>3, <1>4, LeaveStep DEF DiscoveryInv
<1>6. /\ catalog = None /\ todo \in Seq(Strings) /\ Len(todo) <= Len(all)
      /\ \A j \in DOMAIN todo : todo[j] = all[Len(all) - Len(todo) + j]
      /\ \A j \in 1 .. Len(all) - Len(todo) :
            IsPrefix(Tables[left].strings[all[j]], Text[all[j]])
      /\ todo # <<>>
  BY <1>3 DEF DiscoveryInv, ProgramOK, CatalogOK, CatalogPlaces
<1>7. IsPrefix(texts[1], Text[Head(todo)])
  <2>1. Sought = <<Head(todo)>>
    BY <1>3 DEF Sought
  <2>2. \A x : Len(<<x>>) = 1 /\ <<x>>[1] = x
    OBVIOUS
  <2>3. Len(want) = 0
    BY <1>4
  <2>4. Listed(texts) /\ DOMAIN texts = 1 .. Len(texts) /\ Len(texts) \in Nat
    BY SeqIsListed DEF DiscoveryInv, ProgramOK, PlaceOK, Listed
  <2>5. Len(texts) + 0 = 1 /\ \A k \in DOMAIN texts : IsTextOf(texts[k], Sought[k])
    BY <1>3, <2>1, <2>2, <2>3 DEF DiscoveryInv, ProgramOK, TextsOK
  <2>6. 1 \in DOMAIN texts /\ Sought[1] = Head(todo)
    BY <2>1, <2>2, <2>4, <2>5
  <2> QED BY <1>6, <2>5, <2>6 DEF IsTextOf
<1>8. /\ Tail(todo) \in Seq(Strings) /\ Len(Tail(todo)) = Len(todo) - 1
      /\ Head(todo) = todo[1] /\ Len(todo) > 0 /\ Len(todo) \in Nat
      /\ \A i \in 1 .. Len(todo) - 1 : Tail(todo)[i] = todo[i + 1]
      /\ DOMAIN todo = 1 .. Len(todo) /\ DOMAIN Tail(todo) = 1 .. Len(todo) - 1
  <2>1. Tail(todo) \in Seq(Strings) /\ Len(Tail(todo)) = Len(todo) - 1
    BY <1>6, SetOfTail
  <2>2. DOMAIN Tail(todo) = 1 .. Len(Tail(todo))
    BY <2>1, LenProperties
  <2> QED BY <1>6, <2>1, <2>2, SetOfTail, LenProperties
<1>9. all \in Seq(Strings) /\ Len(all) \in Nat
  BY <1>4, SpotsAre
<1>10. next \in DOMAIN Tables \/ next \notin DOMAIN Tables
  OBVIOUS
<1> HIDE DEF agrees
<1>11. LeftOK'
  BY <1>1, <1>4, <1>5 DEF DiscoveryInv, ProgramOK, LeftOK, Beginnings, CatalogPlaces,
                          GroupPlaces, FieldPlaces, OutputPlaces
<1>12. ShapeOK'
  BY <1>1, <1>5 DEF DiscoveryInv, ProgramOK, ShapeOK
<1>13. TextsOK' /\ NamesOK'
  BY <1>1, <1>5 DEF TextsOK, NamesOK
<1>14. FoundOK'
  BY <1>1, <1>4, SetOfEmpty DEF FoundOK
<1>15. CatalogOK'
  <2>1. TableIsChecked'
    BY <1>1 DEF TableIsChecked
  <2>2. CASE next \notin DOMAIN Tables
    BY <1>1, <1>5, <2>1, <2>2 DEF CatalogOK, CatalogPlaces
  <2>3. CASE agrees
    <3>1. next = left /\ left' = left /\ todo' = Tail(todo) /\ pc' = "spot" /\ catalog' = None
      BY <1>1, <1>4, <2>3 DEF Others
    <3>2. IsPrefix(Tables[left].strings[Head(todo)], Text[Head(todo)])
      BY <1>7, <2>3 DEF agrees
    <3> HIDE DEF all
    <3>3. Len(all) - Len(Tail(todo)) = Len(all) - Len(todo) + 1 /\ Len(Tail(todo)) <= Len(all)
      BY <1>6, <1>8, <1>9
    <3>4. ASSUME NEW j \in DOMAIN Tail(todo)
          PROVE  Tail(todo)[j] = all[Len(all) - Len(Tail(todo)) + j]
      <4>1. j \in 1 .. Len(todo) - 1 /\ j + 1 \in DOMAIN todo /\ Tail(todo)[j] = todo[j + 1]
        BY <1>8
      <4>2. Len(all) - Len(todo) + (j + 1) = Len(all) - Len(Tail(todo)) + j
        BY <1>8, <1>9, <4>1
      <4> QED BY <1>6, <4>1, <4>2
    <3>5. ASSUME NEW j \in 1 .. Len(all) - Len(Tail(todo))
          PROVE  IsPrefix(Tables[left].strings[all[j]], Text[all[j]])
      <4>1. CASE j \in 1 .. Len(all) - Len(todo)
        BY <1>6, <4>1
      <4>2. CASE j \notin 1 .. Len(all) - Len(todo)
        <5>1. \A a, b \in Nat : b <= a /\ b > 0 =>
                 \A n \in 1 .. a - b + 1 : n \in 1 .. a - b \/ n = a - b + 1
          OBVIOUS
        <5>2. Len(todo) <= Len(all) /\ j \in 1 .. Len(all) - Len(todo) + 1
          BY <1>6, <3>3
        <5>3. j = Len(all) - Len(todo) + 1
          BY <1>8, <1>9, <4>2, <5>1, <5>2
        <5>4. 1 \in DOMAIN todo
          BY <1>8
        <5>5. all[j] = Head(todo)
          BY <1>6, <1>8, <5>3, <5>4
        <5> QED BY <3>2, <5>5
      <4> QED BY <4>1, <4>2
    <3>6. todo' \in Seq(Strings) /\ Where' = "spot"
      BY <1>5, <1>8, <3>1
    <3> QED BY <2>1, <3>1, <3>3, <3>4, <3>5, <3>6 DEF CatalogOK, all
  <2>4. CASE ~agrees /\ next \in DOMAIN Tables
    <3> DEFINE i == NextTable(left)
               new == Tables[i].spots
    <3>1. i \in DOMAIN Tables /\ left' = i /\ todo' = new /\ pc' = "spot" /\ catalog' = None
      BY <1>1, <2>4
    <3> HIDE DEF i
    <3>2. /\ new \in Seq(Strings) /\ Len(new) \in Nat /\ DOMAIN new = 1 .. Len(new)
          /\ \A j \in DOMAIN new : new[j] = new[Len(new) - Len(new) + j]
          /\ 1 .. Len(new) - Len(new) = {}
      BY <3>1, SpotsAre
    <3>3. Where' = "spot"
      BY <1>5, <3>1
    <3> QED BY <2>1, <3>1, <3>2, <3>3 DEF CatalogOK
  <2> QED BY <2>2, <2>3, <2>4
<1>16. pc' # "remeta"
  BY <1>1
<1>17. MemoOK' /\ GroupsOK' /\ MissesOK'
  BY <1>1, <1>16, Untouched DEF DiscoveryInv
<1> QED BY <1>2, <1>5, <1>11, <1>12, <1>13, <1>14, <1>15, <1>17 DEF StepOK, ProgramOK

LEMMA PutCatalogKeeps ==
    ASSUME DiscoveryInv, PutCatalog
    PROVE  StepOK
<1>1. /\ pc = "spot" /\ pc' = "done" /\ todo = <<>>
      /\ catalog' = Tables[left].strings /\ left' = 0
      /\ UNCHANGED <<slots, flying, ask, got>>
      /\ UNCHANGED <<back, want, fetches, texts, known, unanswered, sids, shape, groups, complete,
                     todo, found, misses>>
  BY DEF PutCatalog, At, requests, strings, memo, fields
<1>2. RequestInv' /\ Uses
  BY <1>1, NotAskedKeeps DEF DiscoveryInv
<1>3. pc \in Plain /\ pc' \in Plain
  BY <1>1 DEF Plain
<1>4. Where = "spot" /\ Where' = "done" /\ PlaceOK'
  BY <1>1, <1>3, AtPlain, PlainStep DEF DiscoveryInv
<1>5. left \in DOMAIN Tables /\ groups = <<>> /\ found = <<>>
  BY <1>4 DEF DiscoveryInv, ProgramOK, LeftOK, CatalogPlaces
<1>6. LeftOK'
  BY <1>1, <1>4 DEF LeftOK, Beginnings, CatalogPlaces, GroupPlaces, FieldPlaces, OutputPlaces
<1>7. ShapeOK'
  BY <1>1, <1>4 DEF DiscoveryInv, ProgramOK, ShapeOK
<1>8. TextsOK' /\ NamesOK'
  BY <1>4 DEF TextsOK, NamesOK
<1>9. CatalogOK'
  <2> DEFINE all == Tables[left].spots
  <2>1. \A j \in 1 .. Len(all) - Len(todo) : IsPrefix(Tables[left].strings[all[j]], Text[all[j]])
    BY <1>4 DEF DiscoveryInv, ProgramOK, CatalogOK, CatalogPlaces
  <2>2. DOMAIN all = 1 .. Len(all) /\ Len(all) \in Nat
    BY <1>5, SpotsAre
  <2>3. Len(all) - Len(todo) = Len(all)
    BY <1>1, <2>2
  <2>4. TableIsChecked'
    BY <1>1, <1>5, <2>1, <2>2, <2>3 DEF TableIsChecked
  <2> QED BY <1>4, <2>4 DEF CatalogOK, CatalogPlaces
<1>10. FoundOK'
  BY <1>1, <1>5, SetOfEmpty DEF FoundOK
<1>11. MemoOK' /\ GroupsOK' /\ MissesOK'
  BY <1>1, Untouched DEF DiscoveryInv
<1> QED BY <1>2, <1>4, <1>6, <1>7, <1>8, <1>9, <1>10, <1>11 DEF StepOK, ProgramOK

-----------------------------------------------------------------------------
(* A menu, group by group. *)

LEMMA TakeTotalKeeps ==
    ASSUME DiscoveryInv, TakeTotal
    PROVE  StepOK
<1>1. /\ pc = "total" /\ pc' \in {"group", "idle"}
      /\ \/ /\ got[Total] # None /\ pc' = "group"
            /\ left' = Least(got[Total], MaxGroups) /\ complete' = TRUE
         \/ pc' = "idle" /\ UNCHANGED <<left, complete>>
      /\ UNCHANGED <<slots, flying, ask, got>>
      /\ UNCHANGED <<back, want, fetches, texts, known, unanswered, catalog, sids, shape, groups,
                     todo, found, misses>>
  BY DEF TakeTotal, Answered, At, requests, strings, memo, fields
<1>2. RequestInv' /\ Uses
  BY <1>1, NotAskedKeeps DEF DiscoveryInv
<1>3. pc \in Plain /\ pc' \in Plain
  BY <1>1 DEF Plain
<1>4. Where = "total" /\ Where' = pc' /\ PlaceOK'
  BY <1>1, <1>3, AtPlain, PlainStep DEF DiscoveryInv
<1>5. got[Total] \in {None, Len(Groups)}
  BY OutputKeysAre DEF DiscoveryInv, RequestInv, AnswersOK
<1>6. pc' = "group" => left' \in Nat /\ left' <= Len(Groups) /\ left' <= MaxGroups
  <2>1. CASE pc' = "group"
    <3>1. left' = Least(Len(Groups), MaxGroups)
      BY <1>1, <1>5, <2>1
    <3> QED BY <3>1, Limits DEF Least
  <2> QED BY <2>1
<1>7. left = 0 /\ groups = <<>> /\ todo = <<>> /\ found = <<>>
  BY <1>4 DEF DiscoveryInv, ProgramOK, LeftOK, Beginnings
<1>8. LeftOK'
  <2>1. CASE pc' = "group"
    BY <1>1, <1>4, <1>6, <1>7, <2>1, Limits DEF LeftOK, Beginnings, CatalogPlaces, GroupPlaces,
                                                FieldPlaces, OutputPlaces
  <2>2. CASE pc' = "idle"
    BY <1>1, <1>4, <1>7, <2>2 DEF LeftOK, Beginnings, CatalogPlaces, GroupPlaces,
                                  FieldPlaces, OutputPlaces
  <2> QED BY <1>1, <2>1, <2>2
<1>9. ShapeOK'
  BY <1>1, <1>4 DEF DiscoveryInv, ProgramOK, ShapeOK
<1>10. TextsOK' /\ CatalogOK' /\ NamesOK'
  BY <1>1, <1>4, Elsewhere DEF DiscoveryInv
<1>11. MemoOK' /\ GroupsOK' /\ FoundOK' /\ MissesOK'
  BY <1>1, Untouched DEF DiscoveryInv
<1> QED BY <1>2, <1>4, <1>8, <1>9, <1>10, <1>11 DEF StepOK, ProgramOK

\* The same group is still being read.
LEMMA InGroup ==
    ASSUME ProgramOK, pc \in {"name", "count", "recount", "ids"},
           pc' \in {"count", "recount", "ids"},
           UNCHANGED <<strings, catalog, sids, left, groups, complete, fields>>, ShapeOK'
    PROVE  ProgramOK'
<1>1. UNCHANGED <<back, want, fetches, texts, sids, known, unanswered, catalog, left,
                  groups, complete, todo, found, misses>>
  BY DEF strings, memo, fields
<1>2. pc \in Plain /\ pc' \in Plain
  BY DEF Plain
<1>3. Where = pc /\ Where' = pc' /\ PlaceOK'
  BY <1>1, <1>2, AtPlain, PlainStep
<1>4. LeftOK'
  BY <1>1, <1>3 DEF ProgramOK, LeftOK, Beginnings, CatalogPlaces, GroupPlaces, FieldPlaces,
                    OutputPlaces
<1>5. TextsOK' /\ CatalogOK' /\ NamesOK'
  BY <1>1, <1>3, Elsewhere
<1>6. MemoOK' /\ GroupsOK' /\ FoundOK' /\ MissesOK'
  BY <1>1, Untouched
<1> QED BY <1>3, <1>4, <1>5, <1>6 DEF ProgramOK

LEMMA GroupBeingRead ==
    ASSUME ProgramOK, Where \in GroupPlaces \ {"group"}
    PROVE  /\ Group \in DOMAIN Groups /\ left \in Nat /\ left > 0
           /\ left <= Len(Groups) /\ left <= MaxGroups
           /\ Ids(Group) \in Seq(ToSet(Ids(Group))) /\ Len(Ids(Group)) \in Nat
           /\ DOMAIN Ids(Group) = 1 .. Len(Ids(Group)) /\ Groups[Group].name \in Strings
<1>1. left > 0 /\ left \in Nat /\ left <= Len(Groups) /\ left <= MaxGroups
  BY DEF ProgramOK, LeftOK
<1>2. Group \in DOMAIN Groups
  BY <1>1, GroupIs
<1>3. Ids(Group) \in Seq(ToSet(Ids(Group))) /\ Groups[Group].name \in Strings
  BY <1>2, DiscoveryAssumption
<1>4. Len(Ids(Group)) \in Nat /\ DOMAIN Ids(Group) = 1 .. Len(Ids(Group))
  BY <1>3, LenProperties
<1> QED BY <1>1, <1>2, <1>3, <1>4

\* What the device says of a group's name and count.
LEMMA GroupAnswers ==
    ASSUME RequestInv, NEW g \in DOMAIN Groups, Groups[g].name \in Strings
    PROVE  /\ NameKey(g) \in Keys /\ CountKey(g) \in Keys
           /\ got[NameKey(g)] \in {None} \cup Strings
           /\ got[CountKey(g)] \in {None, Len(Ids(g)), Bogus}
           /\ \A i \in DOMAIN Ids(g) : got[IdKey(g, i)] \in {None, Ids(g)[i]}
BY GroupKeysAre DEF RequestInv, AnswersOK

LEMMA NoShapeIs ==
    /\ NoShape = [name |-> None, text |-> <<>>, ids |-> <<>>, counted |-> FALSE, count |-> 0]
    /\ <<>> \in Seq(ToSet(Fields))
BY DEF NoShape

LEMMA AskCountKeeps ==
    ASSUME DiscoveryInv, AskCount
    PROVE  StepOK
<1>1. /\ Over /\ pc = "name" /\ pc' = "count" /\ ReqPatient(CountKey(Group))
      /\ shape' = [NoShape EXCEPT !.name = got[NameKey(Group)]]
      /\ UNCHANGED <<slots, flying>>
      /\ UNCHANGED <<strings, catalog, sids, left, groups, complete, fields>>
  BY DEF AskCount, At, table
<1>2. pc \in Plain
  BY <1>1 DEF Plain
<1>3. Where = "name"
  BY <1>1, <1>2, AtPlain DEF DiscoveryInv
<1>4. Group \in DOMAIN Groups /\ Groups[Group].name \in Strings
  BY <1>3, GroupBeingRead DEF DiscoveryInv, GroupPlaces
<1>5. RequestInv' /\ Uses
  BY <1>1, <1>4, GroupKeysAre, OneKey, AskKeeps, Limits DEF DiscoveryInv, ReqPatient
<1>6. shape' = [name |-> got[NameKey(Group)], text |-> <<>>, ids |-> <<>>, counted |-> FALSE,
                count |-> 0]
  BY <1>1 DEF NoShape
<1>7. Where' = "count"
  BY <1>1 DEF Where, Fetching
<1>8. ShapeOK'
  <2>1. got[NameKey(Group)] \in {None} \cup Strings
    BY <1>4, GroupAnswers DEF DiscoveryInv
  <2>2. complete' \in BOOLEAN
    BY <1>1 DEF DiscoveryInv, ProgramOK, ShapeOK
  <2> QED BY <1>6, <1>7, <2>1, <2>2, NoShapeIs DEF ShapeOK
<1>9. ProgramOK'
  BY <1>1, <1>8, InGroup DEF DiscoveryInv
<1> QED BY <1>5, <1>9 DEF StepOK

\* The ids of a group that has no more fields than it can.
LEMMA AskIdsKeeps ==
    ASSUME DiscoveryInv, Over, UNCHANGED <<slots, flying>>, pc \in {"count", "recount"},
           UNCHANGED <<strings, catalog, sids, left, groups, complete, fields>>,
           NEW n \in Nat, n <= Len(Ids(Group)), AskIds(n)
    PROVE  StepOK
<1>1. /\ shape' = [shape EXCEPT !.count = n,
                                !.counted = (got[CountKey(Group)] # None) \/ shape.counted]
      /\ FieldIds(Group, n) /\ pc' = "ids"
  BY DEF AskIds
<1>2. pc \in Plain
  BY DEF Plain
<1>3. Where \in GroupPlaces \ {"group"}
  BY <1>2, AtPlain DEF DiscoveryInv, GroupPlaces
<1>4. Group \in DOMAIN Groups /\ Len(Ids(Group)) \in Nat
  BY <1>3, GroupBeingRead DEF DiscoveryInv
<1>5. RequestInv' /\ Uses
  <2> DEFINE keys == [i \in 1 .. n |-> IdKey(Group, i)]
  <2>1. Askable(OneByOne(keys)) /\ Ask(OneByOne(keys), Retries, TRUE)
    BY <1>1, <1>4, IdsAskable DEF FieldIds
  <2> HIDE DEF keys
  <2> QED BY <2>1, AskKeeps, Limits DEF DiscoveryInv
<1>6. shape' = [name |-> shape.name, text |-> shape.text, ids |-> shape.ids,
                counted |-> (got[CountKey(Group)] # None) \/ shape.counted, count |-> n]
  BY <1>1 DEF DiscoveryInv, ProgramOK, ShapeOK
<1>7. Where' = "ids" /\ Group' = Group
  BY <1>1 DEF Where, Fetching, Group
<1>8. n \in 0 .. Len(Ids(Group))
  BY <1>4
<1>9. ShapeOK'
  BY <1>6, <1>7, <1>8 DEF DiscoveryInv, ProgramOK, ShapeOK
<1>10. ProgramOK'
  BY <1>1, <1>9, InGroup DEF DiscoveryInv
<1> QED BY <1>5, <1>10 DEF StepOK

LEMMA TakeCountKeeps ==
    ASSUME DiscoveryInv, TakeCount
    PROVE  StepOK
<1> DEFINE count == IF Answered(CountKey(Group)) THEN got[CountKey(Group)] ELSE 0
<1>1. /\ Over /\ pc = "count"
      /\ IF TooMany(count)
         THEN /\ shape' = [shape EXCEPT !.count = count, !.counted = TRUE]
              /\ ReqPatient(CountKey(Group))
              /\ pc' = "recount"
         ELSE AskIds(count)
      /\ UNCHANGED <<slots, flying>>
      /\ UNCHANGED <<strings, catalog, sids, left, groups, complete, fields>>
  BY DEF TakeCount, At, table
<1>2. pc \in Plain
  BY <1>1 DEF Plain
<1>3. Where = "count"
  BY <1>1, <1>2, AtPlain DEF DiscoveryInv
<1>4. Group \in DOMAIN Groups /\ Groups[Group].name \in Strings /\ Len(Ids(Group)) \in Nat
  BY <1>3, GroupBeingRead DEF DiscoveryInv, GroupPlaces
<1>5. count \in {0, Len(Ids(Group)), Bogus}
  BY <1>4, GroupAnswers DEF Answered, DiscoveryInv
<1>6. Bogus \in Nat /\ Bogus > MaxFields
  BY DiscoveryAssumption
<1> HIDE DEF count
<1>7. CASE TooMany(count)
  <2>1. shape' = [shape EXCEPT !.count = count, !.counted = TRUE] /\ pc' = "recount"
        /\ ReqPatient(CountKey(Group))
    BY <1>1, <1>7
  <2>2. RequestInv' /\ Uses
    BY <1>1, <1>4, <2>1, GroupKeysAre, OneKey, AskKeeps, Limits DEF DiscoveryInv, ReqPatient
  <2>3. shape' = [name |-> shape.name, text |-> shape.text, ids |-> shape.ids,
                  counted |-> TRUE, count |-> count]
    BY <2>1 DEF DiscoveryInv, ProgramOK, ShapeOK
  <2>4. Where' = "recount"
    BY <2>1 DEF Where, Fetching
  <2>5. count \in Nat /\ count > MaxFields
    BY <1>4, <1>5, <1>6, <1>7 DEF TooMany
  <2>6. ShapeOK'
    BY <1>1, <2>3, <2>4, <2>5 DEF DiscoveryInv, ProgramOK, ShapeOK
  <2>7. ProgramOK'
    BY <1>1, <2>1, <2>6, InGroup DEF DiscoveryInv
  <2> QED BY <2>2, <2>7 DEF StepOK
<1>8. CASE ~TooMany(count)
  <2>1. AskIds(count)
    BY <1>1, <1>8
  <2>2. count \in Nat /\ count <= Len(Ids(Group))
    BY <1>4, <1>5, <1>6, <1>8 DEF TooMany
  <2> QED BY <1>1, <2>1, <2>2, AskIdsKeeps
<1> QED BY <1>7, <1>8

LEMMA TakeRecountKeeps ==
    ASSUME DiscoveryInv, TakeRecount
    PROVE  StepOK
<1> DEFINE count == IF Answered(CountKey(Group)) THEN got[CountKey(Group)] ELSE shape.count
<1>1. /\ Over /\ pc = "recount"
      /\ IF TooMany(count) THEN SkipGroup ELSE AskIds(count) /\ UNCHANGED left
      /\ UNCHANGED <<slots, flying>>
      /\ UNCHANGED <<strings, catalog, sids, groups, complete, fields>>
  BY DEF TakeRecount, At, table
<1>2. pc \in Plain
  BY <1>1 DEF Plain
<1>3. Where = "recount"
  BY <1>1, <1>2, AtPlain DEF DiscoveryInv
<1>4. /\ Group \in DOMAIN Groups /\ Groups[Group].name \in Strings /\ Len(Ids(Group)) \in Nat
      /\ left \in Nat /\ left > 0 /\ left <= Len(Groups) /\ left <= MaxGroups
  BY <1>3, GroupBeingRead DEF DiscoveryInv, GroupPlaces
<1>5. shape.count \in Nat /\ shape.count > MaxFields
  BY <1>3 DEF DiscoveryInv, ProgramOK, ShapeOK
<1>6. count \in {shape.count, Len(Ids(Group)), Bogus}
  BY <1>4, GroupAnswers DEF Answered, DiscoveryInv
<1>7. Bogus \in Nat /\ Bogus > MaxFields
  BY DiscoveryAssumption
<1> HIDE DEF count
<1>8. CASE TooMany(count)
  <2>1. left' = left - 1 /\ shape' = NoShape /\ pc' = "group" /\ UNCHANGED <<ask, got>>
    BY <1>1, <1>8 DEF SkipGroup
  <2>2. RequestInv' /\ Uses
    BY <1>1, <2>1, NotAskedKeeps DEF DiscoveryInv
  <2>3. UNCHANGED <<back, want, fetches, texts, sids, known, unanswered, catalog,
                    groups, complete, todo, found, misses>>
    BY <1>1 DEF strings, memo, fields
  <2>4. pc' \in Plain
    BY <2>1 DEF Plain
  <2>5. Where' = "group" /\ PlaceOK'
    BY <1>2, <2>1, <2>3, <2>4, PlainStep DEF DiscoveryInv
  <2>6. left' \in Nat /\ left' <= Len(Groups) /\ left' <= MaxGroups
    BY <1>4, <2>1, Limits
  <2>7. LeftOK'
    BY <2>5, <2>6 DEF LeftOK, Beginnings, CatalogPlaces, GroupPlaces, FieldPlaces, OutputPlaces
  <2>8. ShapeOK'
    BY <2>1, <2>3, <2>5, NoShapeIs DEF DiscoveryInv, ProgramOK, ShapeOK
  <2>9. TextsOK' /\ CatalogOK' /\ NamesOK'
    BY <2>3, <2>5, Elsewhere DEF DiscoveryInv
  <2>10. MemoOK' /\ GroupsOK' /\ FoundOK' /\ MissesOK'
    BY <2>1, <2>3, Untouched DEF DiscoveryInv
  <2> QED BY <2>2, <2>5, <2>7, <2>8, <2>9, <2>10 DEF StepOK, ProgramOK
<1>9. CASE ~TooMany(count)
  <2>1. AskIds(count) /\ UNCHANGED left
    BY <1>1, <1>9
  <2>2. count \in Nat /\ count <= Len(Ids(Group))
    BY <1>4, <1>5, <1>6, <1>7, <1>9, Limits DEF TooMany
  <2> QED BY <1>1, <2>1, <2>2, AskIdsKeeps
<1> QED BY <1>8, <1>9

\* What was answered of a group's fields stands in the order of the device.
LEMMA RepliesInOrder ==
    ASSUME NEW g \in DOMAIN Groups, NEW n \in Nat, n <= Len(Ids(g)),
           NEW replies, DOMAIN replies = 1 .. n,
           \A i \in 1 .. n : replies[i] \in {None, Ids(g)[i]},
           NEW I, I \subseteq 1 .. n, \A i \in I : replies[i] \in ToSet(Fields)
    PROVE  /\ Among(replies, I) \in Seq(ToSet(Fields))
           /\ InOrder(Among(replies, I), Ids(g))
<1>1. Numbers(I)
  BY IndicesAreNumbers
<1>2. /\ Among(replies, I) \in Seq(ToSet(Fields))
      /\ DOMAIN Among(replies, I) = 1 .. Cardinality(I)
      /\ \A k \in 1 .. Cardinality(I) : Among(replies, I)[k] = replies[Nth(I, k)]
  BY <1>1, AmongIsList
<1>3. Ids(g) \in Seq(ToSet(Ids(g)))
  BY DiscoveryAssumption
<1>4. DOMAIN Ids(g) = 1 .. Len(Ids(g)) /\ Len(Ids(g)) \in Nat
  BY <1>3, LenProperties
<1>5. \A i \in I : i \in DOMAIN Ids(g) /\ replies[i] = Ids(g)[i]
  <2>1. None \notin ToSet(Fields)
    BY DiscoveryAssumption
  <2>2. \A i \in 1 .. n : i \in DOMAIN Ids(g)
    BY <1>4
  <2> QED BY <2>1, <2>2
<1>6. ASSUME NEW k \in 1 .. Cardinality(I), NEW m \in 1 .. Cardinality(I), k < m
      PROVE  Before(Ids(g), Among(replies, I)[k], Among(replies, I)[m])
  <2>1. Nth(I, k) \in I /\ Nth(I, m) \in I /\ Nth(I, k) < Nth(I, m)
    BY <1>1, <1>6, RankOrder
  <2>2. /\ Ids(g)[Nth(I, k)] = Among(replies, I)[k] /\ Ids(g)[Nth(I, m)] = Among(replies, I)[m]
        /\ Nth(I, k) \in DOMAIN Ids(g) /\ Nth(I, m) \in DOMAIN Ids(g)
    BY <1>2, <1>5, <2>1
  <2> QED BY <2>1, <2>2 DEF Before
<1>7. InOrder(Among(replies, I), Ids(g))
  BY <1>2, <1>6 DEF InOrder
<1> QED BY <1>2, <1>7

LEMMA TakeIdsKeeps ==
    ASSUME DiscoveryInv, TakeIds
    PROVE  StepOK
<1> DEFINE replies == [i \in 1 .. shape.count |-> got[IdKey(Group, i)]]
           firsts == {i \in DOMAIN replies : /\ replies[i] \in ToSet(Fields)
                                             /\ \A j \in 1 .. i - 1 : replies[j] # replies[i]}
           calls == IF shape.name = None THEN <<>> ELSE <<<<shape.name>>>>
<1>1. /\ pc = "ids" /\ FetchAll(calls, "shape")
      /\ shape' = [shape EXCEPT !.ids = Among(replies, firsts)]
      /\ UNCHANGED <<slots, flying, ask, got>>
      /\ UNCHANGED memo
      /\ UNCHANGED <<catalog, sids, left, groups, complete, todo, found, misses>>
  BY DEF TakeIds, At, requests, fields
<1>2. RequestInv' /\ Uses
  BY <1>1, NotAskedKeeps DEF DiscoveryInv
<1>3. pc \in Plain
  BY <1>1 DEF Plain
<1>4. Where = "ids" /\ sids = <<>>
  BY <1>1, <1>3, AtPlain DEF DiscoveryInv
<1>5. shape.name \in {None} \cup Strings
  BY DEF DiscoveryInv, ProgramOK, ShapeOK
<1>6. calls \in Seq(Seq(Strings))
  <2>1. CASE shape.name = None
    BY <2>1
  <2>2. CASE shape.name # None
    <3>1. shape.name \in Strings
      BY <1>5, <2>2
    <3>2. <<<<shape.name>>>> \in Seq(Seq(Strings))
      BY <3>1
    <3> QED BY <2>2, <3>2
  <2> QED BY <2>1, <2>2
<1> HIDE DEF calls
<1>7. /\ Where' = "shape" /\ PlaceOK' /\ MemoOK' /\ pc' \in {"shape", "fetch"}
  BY <1>1, <1>3, <1>4, <1>6, FetchAllKeeps DEF DiscoveryInv
<1>8. /\ Group \in DOMAIN Groups /\ Groups[Group].name \in Strings
      /\ DOMAIN Ids(Group) = 1 .. Len(Ids(Group)) /\ Len(Ids(Group)) \in Nat
  BY <1>4, GroupBeingRead DEF DiscoveryInv, GroupPlaces
<1>9. shape.count \in 0 .. Len(Ids(Group))
  BY <1>4 DEF DiscoveryInv, ProgramOK, ShapeOK
<1>10. /\ Among(replies, firsts) \in Seq(ToSet(Fields))
       /\ InOrder(Among(replies, firsts), Ids(Group))
  <2>1. shape.count \in Nat /\ shape.count <= Len(Ids(Group))
    BY <1>8, <1>9
  <2>2. \A i \in 1 .. shape.count : i \in DOMAIN Ids(Group)
    BY <1>8, <2>1
  <2>3. \A i \in 1 .. shape.count : replies[i] \in {None, Ids(Group)[i]}
    BY <1>8, <2>2, GroupAnswers DEF DiscoveryInv
  <2>4. DOMAIN replies = 1 .. shape.count
    OBVIOUS
  <2>5. firsts \subseteq 1 .. shape.count /\ \A i \in firsts : replies[i] \in ToSet(Fields)
    OBVIOUS
  <2> HIDE DEF firsts, replies
  <2> QED BY <1>8, <2>1, <2>3, <2>4, <2>5, RepliesInOrder
<1> HIDE DEF firsts, replies
<1>11. shape' = [name |-> shape.name, text |-> shape.text, ids |-> Among(replies, firsts),
                 counted |-> shape.counted, count |-> shape.count]
  BY <1>1 DEF DiscoveryInv, ProgramOK, ShapeOK
<1>12. Group' = Group
  BY <1>1 DEF Group
<1>13. ShapeOK'
  BY <1>1, <1>7, <1>10, <1>11, <1>12 DEF DiscoveryInv, ProgramOK, ShapeOK
<1>14. LeftOK'
  BY <1>1, <1>4, <1>7 DEF DiscoveryInv, ProgramOK, LeftOK, Beginnings, CatalogPlaces,
                          GroupPlaces, FieldPlaces, OutputPlaces
<1>15. TextsOK' /\ CatalogOK' /\ NamesOK'
  BY <1>1, <1>7, Elsewhere DEF DiscoveryInv
<1>16. GroupsOK' /\ FoundOK' /\ MissesOK'
  BY <1>1, <1>7, Untouched DEF DiscoveryInv
<1> QED BY <1>2, <1>7, <1>13, <1>14, <1>15, <1>16 DEF StepOK, ProgramOK

LEMMA EndAtRepeatKeeps ==
    ASSUME DiscoveryInv, EndAtRepeat
    PROVE  StepOK
<1>1. /\ pc = "shape" /\ pc' = "group" /\ left' = 0 /\ shape' = NoShape /\ texts' = <<>>
      /\ UNCHANGED <<slots, flying, ask, got>>
      /\ UNCHANGED <<back, want, fetches, known, unanswered, catalog, sids, groups, complete, todo,
                     found, misses>>
  BY DEF EndAtRepeat, At, requests, memo, fields
<1>2. RequestInv' /\ Uses
  BY <1>1, NotAskedKeeps DEF DiscoveryInv
<1>3. Where = "shape" /\ ~Fetching /\ pc' \in Plain
  BY <1>1 DEF Where, Fetching, Plain
<1>4. sids = <<>>
  BY <1>3 DEF DiscoveryInv, ProgramOK, PlaceOK
<1>5. PlaceOK' /\ Where' = "group"
  BY <1>1, <1>3, <1>4, LeaveStep DEF DiscoveryInv
<1>6. 0 \in Nat /\ 0 <= Len(Groups) /\ 0 <= MaxGroups
  BY Limits
<1>7. LeftOK'
  BY <1>1, <1>5, <1>6 DEF LeftOK, Beginnings, CatalogPlaces, GroupPlaces, FieldPlaces,
                          OutputPlaces
<1>8. ShapeOK'
  BY <1>1, <1>5, NoShapeIs DEF DiscoveryInv, ProgramOK, ShapeOK
<1>9. TextsOK' /\ CatalogOK' /\ NamesOK'
  BY <1>1, <1>5, Elsewhere DEF DiscoveryInv
<1>10. MemoOK' /\ GroupsOK' /\ FoundOK' /\ MissesOK'
  BY <1>1, Untouched DEF DiscoveryInv
<1> QED BY <1>2, <1>5, <1>7, <1>8, <1>9, <1>10 DEF StepOK, ProgramOK

LEMMA ListGroupKeeps ==
    ASSUME DiscoveryInv, ListGroup
    PROVE  StepOK
<1> DEFINE new == [id |-> Group, text |-> Named.text, ids |-> shape.ids,
                   counted |-> shape.counted, fields |-> <<>>]
<1>1. /\ pc = "shape" /\ pc' = "field" /\ left' = left - 1 /\ todo' = shape.ids
      /\ groups' = Append(groups, new) /\ complete' = Counted
      /\ shape' = NoShape /\ texts' = <<>>
      /\ UNCHANGED <<slots, flying, ask, got>>
      /\ UNCHANGED <<back, want, fetches, known, unanswered, catalog, sids, found, misses>>
  BY DEF ListGroup, At, requests, memo
<1>2. RequestInv' /\ Uses
  BY <1>1, NotAskedKeeps DEF DiscoveryInv
<1>3. Where = "shape" /\ ~Fetching /\ pc' \in Plain
  BY <1>1 DEF Where, Fetching, Plain
<1>4. sids = <<>>
  BY <1>3 DEF DiscoveryInv, ProgramOK, PlaceOK
<1>5. PlaceOK' /\ Where' = "field"
  BY <1>1, <1>3, <1>4, LeaveStep DEF DiscoveryInv
<1>6. /\ shape.ids \in Seq(ToSet(Fields)) /\ shape.counted \in BOOLEAN /\ complete \in BOOLEAN
      /\ InOrder(shape.ids, Ids(Group))
  BY <1>3 DEF DiscoveryInv, ProgramOK, ShapeOK
<1>7. new = [id |-> new.id, text |-> new.text, ids |-> new.ids, counted |-> new.counted,
             fields |-> new.fields]
      /\ new.ids = shape.ids /\ new.id = Group
  OBVIOUS
<1> HIDE DEF new
<1>8. /\ groups \in Seq(ToSet(groups) \cup {new})
      /\ DOMAIN groups = 1 .. Len(groups) /\ Len(groups) \in Nat
  BY SeqMonotonic, LenProperties DEF DiscoveryInv, ProgramOK, GroupsOK, Listed
<1>9. /\ groups' \in Seq(ToSet(groups) \cup {new}) /\ DOMAIN groups' = 1 .. Len(groups) + 1
      /\ groups' # <<>>
      /\ \A i \in 1 .. Len(groups) : groups'[i] = groups[i]
      /\ groups'[Len(groups) + 1] = new
  <2>1. groups' = Append(groups, new) /\ new \in ToSet(groups) \cup {new}
    BY <1>1
  <2> QED BY <1>8, <2>1, AppendProperties
<1>10. GroupsOK'
  <2>1. Listed(groups')
    BY <1>9, SeqIsListed
  <2>2. ASSUME NEW g \in DOMAIN groups'
        PROVE  /\ groups'[g] = [id |-> groups'[g].id, text |-> groups'[g].text,
                                ids |-> groups'[g].ids, counted |-> groups'[g].counted,
                                fields |-> groups'[g].fields]
               /\ InOrder(groups'[g].ids, Ids(groups'[g].id))
    <3>1. CASE g \in 1 .. Len(groups)
      <4>1. groups'[g] = groups[g] /\ g \in DOMAIN groups
        BY <1>8, <1>9, <3>1
      <4> QED BY <4>1 DEF DiscoveryInv, ProgramOK, GroupsOK
    <3>2. CASE g = Len(groups) + 1
      BY <1>6, <1>7, <1>9, <3>2
    <3> QED BY <1>8, <1>9, <3>1, <3>2
  <2> QED BY <2>1, <2>2 DEF GroupsOK
<1>11. left' \in Nat /\ left' <= Len(Groups) /\ left' <= MaxGroups
  <2>1. left \in Nat /\ left > 0 /\ left <= Len(Groups) /\ left <= MaxGroups
    BY <1>3, GroupBeingRead DEF DiscoveryInv, GroupPlaces
  <2> QED BY <1>1, <2>1, Limits
<1>12. LeftOK'
  BY <1>1, <1>5, <1>6, <1>9, <1>11 DEF LeftOK, Beginnings, CatalogPlaces, GroupPlaces,
                                       FieldPlaces, OutputPlaces
<1>13. ShapeOK'
  <2>1. complete' \in BOOLEAN
    BY <1>1, <1>6 DEF Counted
  <2> QED BY <1>1, <1>5, <2>1, NoShapeIs DEF ShapeOK
<1>14. TextsOK' /\ CatalogOK' /\ NamesOK'
  BY <1>1, <1>5, Elsewhere DEF DiscoveryInv
<1>15. MemoOK' /\ FoundOK' /\ MissesOK'
  BY <1>1, Untouched DEF DiscoveryInv
<1> QED BY <1>2, <1>5, <1>10, <1>12, <1>13, <1>14, <1>15 DEF StepOK, ProgramOK

LEMMA EndGroupKeeps ==
    ASSUME DiscoveryInv, EndGroup
    PROVE  StepOK
<1>1. /\ pc = "field" /\ pc' = "group" /\ groups # <<>> /\ found' = <<>>
      /\ groups' = [groups EXCEPT ![Len(groups)].fields = found]
      /\ UNCHANGED <<slots, flying, ask, got>>
      /\ UNCHANGED <<back, want, fetches, texts, known, unanswered, catalog, sids, left, shape,
                     complete, todo, misses>>
  BY DEF EndGroup, At, requests, strings, memo
<1>2. RequestInv' /\ Uses
  BY <1>1, NotAskedKeeps DEF DiscoveryInv
<1>3. pc \in Plain /\ pc' \in Plain
  BY <1>1 DEF Plain
<1>4. Where = "field" /\ Where' = "group" /\ PlaceOK'
  BY <1>1, <1>3, AtPlain, PlainStep DEF DiscoveryInv
<1>5. LeftOK'
  BY <1>1, <1>4 DEF DiscoveryInv, ProgramOK, LeftOK, Beginnings, CatalogPlaces, GroupPlaces,
                    FieldPlaces, OutputPlaces
<1>6. ShapeOK'
  BY <1>1, <1>4 DEF DiscoveryInv, ProgramOK, ShapeOK
<1>7. GroupsOK'
  <2> DEFINE last == groups[Len(groups)]
             new == [last EXCEPT !.fields = found]
  <2>1. groups' = [groups EXCEPT ![Len(groups)] = new]
    BY <1>1
  <2>2. DOMAIN groups = 1 .. Len(groups) /\ Len(groups) \in Nat /\ groups \in Seq(ToSet(groups))
    BY LenProperties DEF DiscoveryInv, ProgramOK, GroupsOK, Listed
  <2>3. Len(groups) # 0
    BY <1>1, <2>2, EmptySeq
  <2>4. Len(groups) \in DOMAIN groups
    BY <2>2, <2>3
  <2>5. /\ last = [id |-> last.id, text |-> last.text, ids |-> last.ids,
                   counted |-> last.counted, fields |-> last.fields]
        /\ InOrder(last.ids, Ids(last.id))
    BY <2>4 DEF DiscoveryInv, ProgramOK, GroupsOK
  <2> HIDE DEF last
  <2>6. new = [id |-> last.id, text |-> last.text, ids |-> last.ids,
               counted |-> last.counted, fields |-> found]
    BY <2>5
  <2> HIDE DEF new
  <2>7. /\ DOMAIN groups' = DOMAIN groups /\ groups'[Len(groups)] = new
        /\ \A g \in DOMAIN groups : g # Len(groups) => groups'[g] = groups[g]
    BY <2>1, <2>4
  <2>8. groups' \in [1 .. Len(groups) -> ToSet(groups')]
    BY <2>1, <2>2, <2>7 DEF ToSet
  <2>9. Listed(groups')
    BY <2>2, <2>8, SeqDef DEF Listed
  <2>10. ASSUME NEW g \in DOMAIN groups'
         PROVE  /\ groups'[g] = [id |-> groups'[g].id, text |-> groups'[g].text,
                                 ids |-> groups'[g].ids, counted |-> groups'[g].counted,
                                 fields |-> groups'[g].fields]
                /\ InOrder(groups'[g].ids, Ids(groups'[g].id))
    <3>1. CASE g # Len(groups)
      BY <2>7, <3>1 DEF DiscoveryInv, ProgramOK, GroupsOK
    <3>2. CASE g = Len(groups)
      BY <2>5, <2>6, <2>7, <3>2
    <3> QED BY <3>1, <3>2
  <2> QED BY <2>9, <2>10 DEF GroupsOK
<1>8. FoundOK'
  BY <1>1, SetOfEmpty DEF FoundOK
<1>9. TextsOK' /\ CatalogOK' /\ NamesOK'
  BY <1>1, <1>4, Elsewhere DEF DiscoveryInv
<1>10. MemoOK' /\ MissesOK'
  BY <1>1, Untouched DEF DiscoveryInv
<1> QED BY <1>2, <1>4, <1>5, <1>6, <1>7, <1>8, <1>9, <1>10 DEF StepOK, ProgramOK

-----------------------------------------------------------------------------
(* A field. *)

LEMMA FieldIs ==
    ASSUME ProgramOK, Where \in FieldPlaces, todo # <<>>
    PROVE  /\ Field \in ToSet(Fields) /\ todo \in Seq(ToSet(Fields))
           /\ Tail(todo) \in Seq(ToSet(Fields)) /\ Labels[Field] \in Seq(Strings)
<1>1. todo \in Seq(ToSet(Fields))
  BY DEF ProgramOK, LeftOK
<1>2. Field \in ToSet(Fields) /\ Tail(todo) \in Seq(ToSet(Fields))
  BY <1>1, SetOfTail DEF Field
<1> QED BY <1>1, <1>2, DiscoveryAssumption

LEMMA OpsAndEventable ==
    /\ Append(Ops, "EVENTABLE") \in Seq(AllOps) /\ IsInjective(Append(Ops, "EVENTABLE"))
<1>1. "EVENTABLE" \in AllOps
  BY DEF AllOps
<1>2. "EVENTABLE" \notin ToSet(Ops)
  BY OpsAre DEF Ops, ToSet
<1> QED BY <1>1, <1>2, OpsAre, SetOfAppend

LEMMA AskMetaKeeps ==
    ASSUME DiscoveryInv, AskMeta
    PROVE  StepOK
<1> DEFINE ops == IF Eventables /\ groups # <<>> THEN Append(Ops, "EVENTABLE") ELSE Ops
<1>1. /\ Over /\ pc = "field" /\ todo # <<>> /\ pc' = "meta" /\ MetaBatch(Field, ops)
      /\ UNCHANGED <<slots, flying>> /\ UNCHANGED <<strings, catalog, sids, menu, fields>>
  BY DEF AskMeta, At, table
<1>2. pc \in Plain /\ pc' \in Plain
  BY <1>1 DEF Plain
<1>3. Where = "field"
  BY <1>1, <1>2, AtPlain DEF DiscoveryInv
<1>4. Field \in ToSet(Fields)
  BY <1>1, <1>3, FieldIs DEF DiscoveryInv, FieldPlaces
<1>5. ops \in Seq(AllOps) /\ IsInjective(ops)
  BY OpsAre, OpsAndEventable
<1> HIDE DEF ops
<1>6. RequestInv' /\ Uses
  <2> DEFINE batches == <<[i \in DOMAIN ops |-> MetaKey(Field, ops[i])]>>
  <2>1. Askable(batches) /\ Ask(batches, 1, FALSE)
    BY <1>1, <1>4, <1>5, MetaAskable DEF MetaBatch
  <2> HIDE DEF batches
  <2> QED BY <1>1, <2>1, AskKeeps, Limits DEF DiscoveryInv
<1>7. LeftOK'
  BY <1>1 DEF DiscoveryInv, ProgramOK, LeftOK, Where, Fetching, Beginnings, CatalogPlaces,
              GroupPlaces, FieldPlaces, OutputPlaces, strings, menu, fields
<1> QED BY <1>1, <1>2, <1>6, <1>7, QuietStep DEF StepOK, DiscoveryInv

\* The same field is still being asked about.
LEMMA InField ==
    ASSUME ProgramOK, pc \in {"meta", "remeta", "told"}, pc' \in {"remeta", "told", "options"},
           UNCHANGED <<strings, catalog, sids, menu, todo, found>>, MissesOK'
    PROVE  ProgramOK'
<1>1. UNCHANGED <<back, want, fetches, texts, sids, known, unanswered, catalog, left, shape,
                  groups, complete, todo, found>>
  BY DEF strings, memo, menu
<1>2. pc \in Plain /\ pc' \in Plain
  BY DEF Plain
<1>3. Where = pc /\ Where' = pc' /\ PlaceOK'
  BY <1>1, <1>2, AtPlain, PlainStep
<1>4. LeftOK'
  BY <1>1, <1>3 DEF ProgramOK, LeftOK, Beginnings, CatalogPlaces, GroupPlaces, FieldPlaces,
                    OutputPlaces
<1>5. ShapeOK'
  BY <1>1, <1>3 DEF ProgramOK, ShapeOK
<1>6. TextsOK' /\ CatalogOK' /\ NamesOK'
  BY <1>1, <1>3, Elsewhere
<1>7. MemoOK' /\ GroupsOK' /\ FoundOK'
  BY <1>1, Untouched
<1> QED BY <1>3, <1>4, <1>5, <1>6, <1>7 DEF ProgramOK

\* What is asked for once more is some of what was asked for.
LEMMA MissingIs ==
    /\ Missing \in Seq(AllOps) /\ IsInjective(Missing)
    /\ Told = <<>> /\ Missing # <<>> => misses.silent < MissLimit
<1>1. CASE Told = <<>>
  <2>1. Missing = IF misses.silent < MissLimit THEN Ops ELSE <<>>
    BY <1>1 DEF Missing
  <2> QED BY <2>1, OpsAre, SetOfEmpty
<1>2. CASE Told # <<>>
  <2> DEFINE I == {i \in DOMAIN Ops :
                      Ops[i] \notin DOMAIN Told /\ misses.ops[Ops[i]] < MissLimit}
  <2>1. Missing = Among(Ops, I)
    BY <1>2 DEF Missing
  <2>2. I \subseteq 1 .. 5 /\ 5 \in Nat
    BY OpsAre
  <2>3. /\ \A i \in I : Ops[i] \in AllOps
        /\ \A i, j \in I : Ops[i] = Ops[j] => i = j
    BY OpsAre, ElementOfSeq, LenProperties DEF IsInjective
  <2> HIDE DEF I
  <2>4. Numbers(I)
    BY <2>2, IndicesAreNumbers
  <2> QED BY <1>2, <2>1, <2>3, <2>4, AmongIsList, AmongInjective
<1> QED BY <1>1, <1>2

LEMMA TakeMetaKeeps ==
    ASSUME DiscoveryInv, TakeMeta
    PROVE  StepOK
<1>1. /\ Over /\ pc = "meta" /\ meta' = Told
      /\ UNCHANGED <<slots, flying>>
      /\ UNCHANGED <<strings, catalog, sids, menu, todo, found>> /\ UNCHANGED misses
      /\ \/ Missing = <<>> /\ pc' = "told" /\ UNCHANGED <<ask, got>>
         \/ Missing # <<>> /\ MetaBatch(Field, Missing) /\ pc' = "remeta"
  BY DEF TakeMeta, At, table
<1>2. pc \in Plain
  BY <1>1 DEF Plain
<1>3. Where = "meta"
  BY <1>1, <1>2, AtPlain DEF DiscoveryInv
<1>4. todo # <<>>
  BY <1>3 DEF DiscoveryInv, ProgramOK, LeftOK, FieldPlaces
<1>5. Field \in ToSet(Fields)
  BY <1>3, <1>4, FieldIs DEF DiscoveryInv, FieldPlaces
<1>6. RequestInv' /\ Uses
  <2>1. CASE UNCHANGED <<ask, got>>
    BY <1>1, <2>1, NotAskedKeeps DEF DiscoveryInv
  <2>2. CASE MetaBatch(Field, Missing)
    <3> DEFINE batches == <<[i \in DOMAIN Missing |-> MetaKey(Field, Missing[i])]>>
    <3>1. Askable(batches) /\ Ask(batches, 1, FALSE)
      BY <1>5, <2>2, MissingIs, MetaAskable DEF MetaBatch
    <3> HIDE DEF batches
    <3> QED BY <1>1, <3>1, AskKeeps, Limits DEF DiscoveryInv
  <2> QED BY <1>1, <2>1, <2>2
<1>7. MissesOK'
  <2>1. pc' = "remeta" => (meta' = <<>> => misses'.silent < MissLimit)
    BY <1>1, MissingIs
  <2> QED BY <1>1, <2>1 DEF DiscoveryInv, ProgramOK, MissesOK
<1>8. pc' \in {"remeta", "told", "options"}
  BY <1>1
<1>9. ProgramOK'
  BY <1>1, <1>7, <1>8, InField DEF DiscoveryInv
<1> QED BY <1>6, <1>9 DEF StepOK

LEMMA TakeMoreMetaKeeps ==
    ASSUME DiscoveryInv, TakeMoreMeta
    PROVE  StepOK
<1>1. /\ pc = "remeta" /\ pc' = "told" /\ misses' = CountMisses
      /\ UNCHANGED <<slots, flying, ask, got>>
      /\ UNCHANGED <<strings, catalog, sids, menu, todo, found>>
  BY DEF TakeMoreMeta, At, requests
<1>2. RequestInv' /\ Uses
  BY <1>1, NotAskedKeeps DEF DiscoveryInv
<1>3. /\ misses \in [ops : [AllOps -> 0 .. MissLimit], silent : 0 .. MissLimit]
      /\ meta = <<>> => misses.silent < MissLimit
  BY <1>1 DEF DiscoveryInv, ProgramOK, MissesOK
<1>4. misses' \in [ops : [AllOps -> 0 .. MissLimit], silent : 0 .. MissLimit]
  <2>1. CASE meta = <<>>
    <3> DEFINE n == IF Told = <<>> THEN misses.silent + 1 ELSE 0
    <3>1. misses' = [misses EXCEPT !.silent = n]
      BY <1>1, <2>1 DEF CountMisses
    <3>2. n \in 0 .. MissLimit
      BY <1>3, <2>1, Limits
    <3> HIDE DEF n
    <3> QED BY <1>3, <3>1, <3>2
  <2>2. CASE meta # <<>>
    <3> DEFINE Again(op) == /\ op \in ToSet(Ops) \ DOMAIN meta
                            /\ misses.ops[op] < MissLimit
                            /\ op \notin DOMAIN Told
               new == [op \in AllOps |-> IF Again(op) THEN misses.ops[op] + 1 ELSE misses.ops[op]]
    <3>1. misses' = [misses EXCEPT !.ops = new]
      BY <1>1, <2>2 DEF CountMisses
    <3>2. \A op \in AllOps : new[op] \in 0 .. MissLimit
      BY <1>3, Limits
    <3>3. new \in [AllOps -> 0 .. MissLimit]
      BY <3>2
    <3> HIDE DEF new
    <3> QED BY <1>3, <3>1, <3>3
  <2> QED BY <2>1, <2>2
<1>5. MissesOK'
  BY <1>1, <1>4 DEF MissesOK
<1>6. ProgramOK'
  BY <1>1, <1>5, InField DEF DiscoveryInv
<1> QED BY <1>2, <1>6 DEF StepOK

LEMMA LeaveOutFieldKeeps ==
    ASSUME DiscoveryInv, LeaveOutField
    PROVE  StepOK
<1>1. /\ pc = "told" /\ pc' = "field" /\ todo' = Tail(todo)
      /\ UNCHANGED <<slots, flying, ask, got>>
      /\ UNCHANGED <<back, want, fetches, texts, sids, known, unanswered, catalog, left, shape,
                     groups, complete, found, misses>>
  BY DEF LeaveOutField, At, requests, strings, memo, menu
<1>2. RequestInv' /\ Uses
  BY <1>1, NotAskedKeeps DEF DiscoveryInv
<1>3. pc \in Plain /\ pc' \in Plain
  BY <1>1 DEF Plain
<1>4. Where = "told" /\ Where' = "field" /\ PlaceOK'
  BY <1>1, <1>3, AtPlain, PlainStep DEF DiscoveryInv
<1>5. todo # <<>>
  BY <1>4 DEF DiscoveryInv, ProgramOK, LeftOK, FieldPlaces
<1>6. todo' \in Seq(ToSet(Fields))
  BY <1>1, <1>4, <1>5, FieldIs DEF DiscoveryInv, FieldPlaces
<1>7. LeftOK'
  BY <1>1, <1>4, <1>6 DEF DiscoveryInv, ProgramOK, LeftOK, Beginnings, CatalogPlaces,
                          GroupPlaces, FieldPlaces, OutputPlaces
<1>8. ShapeOK'
  BY <1>1, <1>4 DEF DiscoveryInv, ProgramOK, ShapeOK
<1>9. TextsOK' /\ CatalogOK' /\ NamesOK'
  BY <1>1, <1>4, Elsewhere DEF DiscoveryInv
<1>10. MemoOK' /\ GroupsOK' /\ FoundOK' /\ MissesOK'
  BY <1>1, Untouched DEF DiscoveryInv
<1> QED BY <1>2, <1>4, <1>7, <1>8, <1>9, <1>10 DEF StepOK, ProgramOK

LEMMA AskOptionsKeeps ==
    ASSUME DiscoveryInv, AskOptions
    PROVE  StepOK
<1>1. /\ Over /\ pc = "told" /\ pc' = "options"
      /\ \/ OptionLabels(Field)
         \/ ask' = NoQuestion /\ got' = [k \in Keys |-> None]
      /\ UNCHANGED <<slots, flying>>
      /\ UNCHANGED <<strings, catalog, sids, menu, todo, found>> /\ UNCHANGED misses
  BY DEF AskOptions, At, table, fields
<1>2. pc \in Plain
  BY <1>1 DEF Plain
<1>3. Where = "told"
  BY <1>1, <1>2, AtPlain DEF DiscoveryInv
<1>4. todo # <<>>
  BY <1>3 DEF DiscoveryInv, ProgramOK, LeftOK, FieldPlaces
<1>5. Field \in ToSet(Fields)
  BY <1>3, <1>4, FieldIs DEF DiscoveryInv, FieldPlaces
<1>6. RequestInv' /\ Uses
  <2>1. CASE OptionLabels(Field)
    <3> DEFINE batches == OneByOne([i \in DOMAIN Labels[Field] |-> OptionKey(Field, i)])
    <3>1. Askable(batches) /\ Ask(batches, OptionalRetries, TRUE)
      BY <1>5, <2>1, OptionsAskable DEF OptionLabels
    <3> HIDE DEF batches
    <3> QED BY <1>1, <3>1, AskKeeps, Limits DEF DiscoveryInv
  <2>2. CASE ask' = NoQuestion /\ got' = [k \in Keys |-> None]
    <3>1. Ask(<<>>, Retries, TRUE)
      BY <2>2 DEF Ask
    <3>2. Askable(<<>>)
      <4>1. <<>> \in Seq(Keys) /\ IsInjective(<<>>)
        BY SetOfEmpty
      <4>2. Askable(IF <<>> = <<>> THEN <<>> ELSE <<<<>>>>)
        BY <4>1, OneBatch
      <4> QED BY <4>2
    <3> QED BY <1>1, <3>1, <3>2, AskKeeps, Limits DEF DiscoveryInv
  <2> QED BY <1>1, <2>1, <2>2
<1>7. MissesOK'
  BY <1>1, Untouched DEF DiscoveryInv
<1>8. ProgramOK'
  BY <1>1, <1>7, InField DEF DiscoveryInv
<1> QED BY <1>6, <1>8 DEF StepOK

\* The strings of a field: the options first, in their places.
LEMMA NamesAre ==
    ASSUME DiscoveryInv, Field \in ToSet(Fields), Labels[Field] \in Seq(Strings)
    PROVE  /\ Listed(Names) /\ Len(Names) \in Nat /\ Len(Names) >= 2
           /\ DOMAIN Names = 1 .. Len(Names)
           /\ \A o \in 1 .. Len(Names) - 2 :
                 /\ o \in DOMAIN Labels[Field]
                 /\ Names[o] \in Strings => Names[o] = Labels[Field][o]
<1> DEFINE options == IF IsList THEN [i \in DOMAIN Labels[Field] |-> got[OptionKey(Field, i)]]
                      ELSE <<>>
           others == <<Value("NAME"), Value("UNIT")>>
           S == ToSet(options) \cup ToSet(others)
<1>1. Names = options \o others
  BY DEF Names
<1>2. DOMAIN Labels[Field] = 1 .. Len(Labels[Field]) /\ Len(Labels[Field]) \in Nat
  BY LenProperties
<1>3. \A i \in DOMAIN Labels[Field] : got[OptionKey(Field, i)] \in {None, Labels[Field][i]}
  BY FieldKeysAre DEF DiscoveryInv, RequestInv, AnswersOK
<1>4. /\ Listed(options) /\ DOMAIN options = 1 .. Len(options) /\ Len(options) \in Nat
      /\ \A o \in 1 .. Len(options) : /\ o \in DOMAIN Labels[Field]
                                      /\ options[o] \in {None, Labels[Field][o]}
  <2>1. CASE IsList
    <3>1. options = [i \in DOMAIN Labels[Field] |-> got[OptionKey(Field, i)]]
      BY <2>1
    <3> HIDE DEF options
    <3>2. options \in [1 .. Len(Labels[Field]) -> ToSet(options)]
      BY <1>2, <3>1 DEF ToSet
    <3>3. options \in Seq(ToSet(options))
      BY <1>2, <3>2, SeqDef
    <3>4. DOMAIN options = 1 .. Len(options) /\ Len(options) \in Nat
      BY <3>3, LenProperties
    <3>5. \A o \in DOMAIN options : /\ o \in DOMAIN Labels[Field]
                                    /\ options[o] \in {None, Labels[Field][o]}
      BY <1>3, <3>1
    <3> QED BY <3>3, <3>4, <3>5 DEF Listed
  <2>2. CASE ~IsList
    <3>1. options = <<>>
      BY <2>2
    <3>2. Len(<<>>) = 0 /\ DOMAIN <<>> = {} /\ 1 .. 0 = {} /\ 0 \in Nat
      OBVIOUS
    <3> HIDE DEF options
    <3> QED BY <3>1, <3>2, SetOfEmpty
  <2> QED BY <2>1, <2>2
<1>5. others \in Seq(ToSet(others)) /\ Len(others) = 2
  <2>1. \A x, y : Len(<<x, y>>) = 2 /\ <<x, y>> \in Seq({x, y})
    OBVIOUS
  <2>2. others \in Seq({Value("NAME"), Value("UNIT")}) /\ Len(others) = 2
    BY <2>1
  <2> HIDE DEF others
  <2> QED BY <2>2, SeqIsListed DEF Listed
<1> HIDE DEF options, others
<1>6. options \in Seq(S) /\ others \in Seq(S)
  BY <1>4, <1>5, SeqMonotonic DEF Listed
<1>7. /\ options \o others \in Seq(S) /\ Len(options \o others) = Len(options) + 2
      /\ \A i \in 1 .. Len(options) + 2 :
            (options \o others)[i] = IF i <= Len(options) THEN options[i]
                                     ELSE others[i - Len(options)]
  <2> HIDE DEF S
  <2>1. /\ options \o others \in Seq(S) /\ Len(options \o others) = Len(options) + Len(others)
        /\ \A i \in 1 .. Len(options) + Len(others) :
              (options \o others)[i] = IF i <= Len(options) THEN options[i]
                                       ELSE others[i - Len(options)]
    BY <1>6, ConcatProperties
  <2> QED BY <1>5, <2>1
<1>8. Listed(Names) /\ DOMAIN Names = 1 .. Len(Names) /\ Len(Names) \in Nat
  BY <1>1, <1>7, SeqIsListed
<1>9. Len(Names) = Len(options) + 2 /\ Len(Names) - 2 = Len(options) /\ Len(Names) >= 2
  BY <1>1, <1>4, <1>7
<1>10. None \notin Strings
  BY DiscoveryAssumption
<1>11. ASSUME NEW o \in 1 .. Len(Names) - 2
       PROVE  /\ o \in DOMAIN Labels[Field]
              /\ Names[o] \in Strings => Names[o] = Labels[Field][o]
  <2>1. o \in 1 .. Len(options) /\ o \in 1 .. Len(options) + 2 /\ o <= Len(options)
    BY <1>4, <1>9
  <2>2. Names[o] = options[o]
    BY <1>1, <1>7, <2>1
  <2> QED BY <1>4, <1>10, <2>1, <2>2
<1> QED BY <1>8, <1>9, <1>11

LEMMA FetchNamesKeeps ==
    ASSUME DiscoveryInv, FetchNames
    PROVE  StepOK
<1> DEFINE I == {i \in DOMAIN Names : Names[i] \in Strings}
           named == Among(Names, I)
           calls == [i \in DOMAIN named |-> <<named[i]>>]
<1>1. /\ pc = "options" /\ sids' = Names /\ FetchAll(calls, "names")
      /\ UNCHANGED <<slots, flying, ask, got>>
      /\ UNCHANGED memo
      /\ UNCHANGED <<catalog, left, shape, groups, complete, todo, found, misses>>
  BY DEF FetchNames, At, requests, menu, fields
<1>2. RequestInv' /\ Uses
  BY <1>1, NotAskedKeeps DEF DiscoveryInv
<1>3. pc \in Plain
  BY <1>1 DEF Plain
<1>4. Where = "options"
  BY <1>1, <1>3, AtPlain DEF DiscoveryInv
<1>5. todo # <<>>
  BY <1>4 DEF DiscoveryInv, ProgramOK, LeftOK, FieldPlaces
<1>6. Field \in ToSet(Fields) /\ Labels[Field] \in Seq(Strings)
  BY <1>4, <1>5, FieldIs DEF DiscoveryInv, FieldPlaces
<1>7. /\ Listed(Names) /\ Len(Names) \in Nat /\ Len(Names) >= 2
      /\ DOMAIN Names = 1 .. Len(Names)
      /\ \A o \in 1 .. Len(Names) - 2 :
            /\ o \in DOMAIN Labels[Field]
            /\ Names[o] \in Strings => Names[o] = Labels[Field][o]
  BY <1>6, NamesAre
<1>8. /\ named \in Seq(Strings) /\ DOMAIN named = 1 .. Len(named) /\ Len(named) \in Nat
  <2>1. Numbers(I)
    BY <1>7, IndicesAreNumbers
  <2>2. \A i \in I : Names[i] \in Strings
    OBVIOUS
  <2> HIDE DEF I
  <2>3. named \in Seq(Strings)
    BY <2>1, <2>2, AmongIsList
  <2> HIDE DEF named
  <2> QED BY <2>3, LenProperties
<1>9. /\ calls \in Seq(Seq(Strings)) /\ Len(calls) = Len(named) /\ DOMAIN calls = DOMAIN named
      /\ \A j \in DOMAIN calls : calls[j] = <<named[j]>>
  <2> HIDE DEF named
  <2>1. \A j \in DOMAIN named : named[j] \in Strings
    BY <1>8, ElementOfSeq
  <2>2. \A j \in DOMAIN named : <<named[j]>> \in Seq(Strings)
    BY <2>1
  <2>3. calls \in [1 .. Len(named) -> Seq(Strings)]
    BY <1>8, <2>2
  <2>4. calls \in Seq(Seq(Strings))
    BY <1>8, <2>3, SeqDef
  <2>5. Len(calls) = Len(named)
    BY <1>8, <2>3, <2>4, LenProperties
  <2> QED BY <2>4, <2>5
<1> HIDE DEF calls
<1>10. /\ Where' = "names" /\ PlaceOK' /\ MemoOK' /\ pc' \in {"names", "fetch"}
       /\ texts' = <<>> /\ want' = calls
  BY <1>1, <1>3, <1>9, FetchAllKeeps DEF DiscoveryInv
<1>11. LeftOK'
  BY <1>1, <1>4, <1>10 DEF DiscoveryInv, ProgramOK, LeftOK, Beginnings, CatalogPlaces,
                           GroupPlaces, FieldPlaces, OutputPlaces
<1>12. ShapeOK'
  BY <1>1, <1>10 DEF DiscoveryInv, ProgramOK, ShapeOK
<1>13. NamesOK'
  <2>1. Field' = Field
    BY <1>1 DEF Field
  <2> QED BY <1>1, <1>7, <2>1 DEF NamesOK
<1>14. CatalogOK'
  BY <1>1, <1>10, Untouched DEF DiscoveryInv, CatalogOK, CatalogPlaces
<1>15. TextsOK'
  <2>1. Spelt' = I
    BY <1>1 DEF Spelt
  <2>2. Sought' = named
    BY <1>1, <1>10, <2>1 DEF Sought
  <2> HIDE DEF named
  <2>3. Len(<<>>) = 0 /\ DOMAIN <<>> = {}
    OBVIOUS
  <2>4. Len(texts') = 0 /\ DOMAIN texts' = {}
    BY <1>10, <2>3
  <2>5. 0 + Len(want') = Len(Sought')
    BY <1>8, <1>9, <1>10, <2>2
  <2>6. ASSUME NEW j \in DOMAIN want'
        PROVE  want'[j] = <<Sought'[0 + j]>>
    <3>1. j \in 1 .. Len(named) /\ want'[j] = <<named[j]>>
      BY <1>8, <1>9, <1>10
    <3>2. 0 + j = j
      BY <3>1
    <3> QED BY <2>2, <3>1, <3>2
  <2> QED BY <2>4, <2>5, <2>6 DEF TextsOK
<1>16. GroupsOK' /\ FoundOK' /\ MissesOK'
  BY <1>1, <1>10, Untouched DEF DiscoveryInv
<1> QED BY <1>2, <1>10, <1>11, <1>12, <1>13, <1>14, <1>15, <1>16 DEF StepOK, ProgramOK

\* The texts are at the places of the strings they were wanted for.
LEMMA TextsInPlace ==
    ASSUME DiscoveryInv, pc = "names", NEW o \in DOMAIN sids, sids[o] \in Strings
    PROVE  IsTextOf(texts[Cardinality({j \in 1 .. o : sids[j] \in Strings})], sids[o])
<1> DEFINE b == Cardinality({j \in Spelt : j <= o})
<1>1. Where = "names" /\ ~Fetching
  BY DEF Where, Fetching
<1>2. DOMAIN sids = 1 .. Len(sids) /\ Len(sids) \in Nat
  BY <1>1, LenProperties DEF DiscoveryInv, ProgramOK, NamesOK, Listed
<1>3. Numbers(Spelt) /\ o \in Spelt
  <2>1. Spelt \subseteq 1 .. Len(sids) /\ o \in Spelt
    BY <1>2 DEF Spelt
  <2> QED BY <1>2, <2>1, IndicesAreNumbers
<1>4. {j \in 1 .. o : sids[j] \in Strings} = {j \in Spelt : j <= o}
  BY <1>2 DEF Spelt
<1>5. b \in 1 .. Cardinality(Spelt) /\ Nth(Spelt, b) = o
  BY <1>3, RankOrder
<1>6. /\ Sought \in Seq(Strings) /\ Len(Sought) = Cardinality(Spelt)
      /\ \A n \in 1 .. Cardinality(Spelt) : Sought[n] = sids[Nth(Spelt, n)]
  <2>1. Sought = Among(sids, Spelt)
    BY <1>1 DEF Sought
  <2>2. \A i \in Spelt : sids[i] \in Strings
    BY DEF Spelt
  <2> QED BY <1>3, <2>1, <2>2, AmongIsList
<1> HIDE DEF b
<1>7. Sought[b] = sids[o]
  BY <1>5, <1>6
<1>8. want = <<>> /\ Listed(texts)
  BY <1>1 DEF DiscoveryInv, ProgramOK, PlaceOK
<1>9. DOMAIN texts = 1 .. Len(texts) /\ Len(texts) \in Nat
  BY <1>8, SeqIsListed DEF Listed
<1>10. Len(texts) = Cardinality(Spelt) /\ \A k \in DOMAIN texts : IsTextOf(texts[k], Sought[k])
  <2>1. Len(<<>>) = 0
    OBVIOUS
  <2>2. Len(want) = 0
    BY <1>8, <2>1
  <2>3. Len(texts) + 0 = Cardinality(Spelt)
    BY <1>1, <1>6, <2>2 DEF DiscoveryInv, ProgramOK, TextsOK
  <2> QED BY <1>1, <1>9, <2>3 DEF DiscoveryInv, ProgramOK, TextsOK
<1>11. IsTextOf(texts[b], Sought[b])
  BY <1>5, <1>9, <1>10
<1> QED BY <1>4, <1>7, <1>11 DEF b

LEMMA PutFieldKeeps ==
    ASSUME DiscoveryInv, PutField
    PROVE  StepOK
<1> DEFINE text(i) == IF sids[i] \in Strings
                      THEN texts[Cardinality({j \in 1 .. i : sids[j] \in Strings})] ELSE <<>>
           its == [i \in DOMAIN sids |-> text(i)]
           new == [index |-> Field, meta |-> meta, texts |-> its]
<1>1. /\ pc = "names" /\ pc' = "field" /\ found' = Append(found, new) /\ todo' = Tail(todo)
      /\ sids' = <<>> /\ texts' = <<>>
      /\ UNCHANGED <<slots, flying, ask, got>>
      /\ UNCHANGED <<back, want, fetches, known, unanswered, catalog, left, shape, groups,
                     complete, misses>>
  BY DEF PutField, At, requests, memo, menu
<1>2. RequestInv' /\ Uses
  BY <1>1, NotAskedKeeps DEF DiscoveryInv
<1>3. Where = "names" /\ ~Fetching /\ pc' \in Plain
  BY <1>1 DEF Where, Fetching, Plain
<1>4. PlaceOK' /\ Where' = "field"
  BY <1>1, <1>3, LeaveStep DEF DiscoveryInv
<1>5. todo # <<>>
  BY <1>3 DEF DiscoveryInv, ProgramOK, LeftOK, FieldPlaces
<1>6. /\ Field \in ToSet(Fields) /\ Labels[Field] \in Seq(Strings)
      /\ todo' \in Seq(ToSet(Fields))
  BY <1>1, <1>3, <1>5, FieldIs DEF DiscoveryInv, FieldPlaces
<1>7. LeftOK'
  BY <1>1, <1>3, <1>4, <1>6 DEF DiscoveryInv, ProgramOK, LeftOK, Beginnings, CatalogPlaces,
                                GroupPlaces, FieldPlaces, OutputPlaces
<1>8. ShapeOK'
  BY <1>1, <1>4 DEF DiscoveryInv, ProgramOK, ShapeOK
<1>9. TextsOK' /\ CatalogOK' /\ NamesOK'
  BY <1>1, <1>4, Elsewhere DEF DiscoveryInv
<1>10. MemoOK' /\ GroupsOK' /\ MissesOK'
  BY <1>1, Untouched DEF DiscoveryInv
<1>11. /\ Listed(sids) /\ DOMAIN sids = 1 .. Len(sids) /\ Len(sids) \in Nat
       /\ \A o \in 1 .. Len(sids) - 2 :
             /\ o \in DOMAIN Labels[Field]
             /\ sids[o] \in Strings => sids[o] = Labels[Field][o]
  BY <1>3, LenProperties DEF DiscoveryInv, ProgramOK, NamesOK, Listed
<1>12. Len(its) = Len(sids) /\ DOMAIN its = DOMAIN sids
  <2>1. its \in [1 .. Len(sids) -> ToSet(its)]
    BY <1>11 DEF ToSet
  <2> HIDE DEF its
  <2>2. its \in Seq(ToSet(its))
    BY <1>11, <2>1, SeqDef
  <2>3. DOMAIN its = 1 .. Len(sids)
    BY <2>1
  <2> QED BY <1>11, <2>2, <2>3, LenProperties
<1>13. ASSUME NEW o \in 1 .. Len(its) - 2
       PROVE  IsTextOf(its[o], Labels[Field][o])
  <2>1. o \in 1 .. Len(sids) - 2 /\ o \in DOMAIN sids /\ its[o] = text(o)
    <3>1. o \in 1 .. Len(sids) - 2
      BY <1>12
    <3>2. o \in DOMAIN sids
      BY <1>11, <3>1
    <3> QED BY <3>1, <3>2
  <2>2. o \in DOMAIN Labels[Field] /\ Labels[Field][o] \in Strings
    BY <1>6, <1>11, <2>1, ElementOfSeq, LenProperties
  <2> HIDE DEF its
  <2>3. CASE sids[o] \in Strings
    <3>1. its[o] = texts[Cardinality({j \in 1 .. o : sids[j] \in Strings})]
      BY <2>1, <2>3
    <3>2. sids[o] = Labels[Field][o]
      BY <1>11, <2>1, <2>3
    <3>3. IsTextOf(texts[Cardinality({j \in 1 .. o : sids[j] \in Strings})], sids[o])
      BY <1>1, <2>1, <2>3, TextsInPlace
    <3> QED BY <3>1, <3>2, <3>3
  <2>4. CASE sids[o] \notin Strings
    <3>1. its[o] = <<>>
      BY <2>1, <2>4
    <3> QED BY <2>2, <3>1, TextIs DEF IsTextOf
  <2> QED BY <2>3, <2>4
<1>14. new.index = Field /\ new.texts = its
  OBVIOUS
<1> HIDE DEF new, its
<1>15. FoundOK'
  <2>1. /\ found \in Seq(ToSet(found) \cup {new})
        /\ DOMAIN found = 1 .. Len(found) /\ Len(found) \in Nat
    BY SeqMonotonic, LenProperties DEF DiscoveryInv, ProgramOK, FoundOK, Listed
  <2>2. /\ found' \in Seq(ToSet(found) \cup {new}) /\ DOMAIN found' = 1 .. Len(found) + 1
        /\ \A i \in 1 .. Len(found) : found'[i] = found[i]
        /\ found'[Len(found) + 1] = new
    <3>1. found' = Append(found, new) /\ new \in ToSet(found) \cup {new}
      BY <1>1
    <3> QED BY <2>1, <3>1, AppendProperties
  <2>3. Listed(found')
    BY <2>2, SeqIsListed
  <2>4. ASSUME NEW i \in DOMAIN found', NEW o \in 1 .. Len(found'[i].texts) - 2
        PROVE  IsTextOf(found'[i].texts[o], Labels[found'[i].index][o])
    <3>1. CASE i \in 1 .. Len(found)
      <4>1. i \in DOMAIN found /\ found'[i] = found[i]
        BY <2>1, <2>2, <3>1
      <4> QED BY <2>4, <4>1 DEF DiscoveryInv, ProgramOK, FoundOK
    <3>2. CASE i = Len(found) + 1
      <4>1. found'[i] = new
        BY <2>2, <3>2
      <4> QED BY <1>13, <1>14, <2>4, <4>1
    <3> QED BY <2>1, <2>2, <3>1, <3>2
  <2> QED BY <1>1, <2>3, <2>4 DEF FoundOK, IsTextOf
<1> QED BY <1>2, <1>4, <1>7, <1>8, <1>9, <1>10, <1>15 DEF StepOK, ProgramOK

-----------------------------------------------------------------------------
(* The flat probe, the outputs, and the end. *)

LEMMA TakeProbeKeeps ==
    ASSUME DiscoveryInv, TakeProbe
    PROVE  StepOK
<1> DEFINE I == {i \in DOMAIN Fields : Answered(MetaKey(Fields[i], "VIZ"))}
<1>1. /\ pc = "probe" /\ pc' = "field" /\ todo' = Among(Fields, I)
      /\ UNCHANGED <<slots, flying, ask, got>>
      /\ UNCHANGED <<back, want, fetches, texts, sids, known, unanswered, catalog, left, shape,
                     groups, complete, found, misses>>
  BY DEF TakeProbe, At, requests, strings, memo, menu
<1>2. RequestInv' /\ Uses
  BY <1>1, NotAskedKeeps DEF DiscoveryInv
<1>3. pc \in Plain /\ pc' \in Plain
  BY <1>1 DEF Plain
<1>4. Where = "probe" /\ Where' = "field" /\ PlaceOK'
  BY <1>1, <1>3, AtPlain, PlainStep DEF DiscoveryInv
<1>5. todo' \in Seq(ToSet(Fields))
  <2>1. Fields \in Seq(ToSet(Fields))
    BY DiscoveryAssumption
  <2>2. DOMAIN Fields = 1 .. Len(Fields) /\ Len(Fields) \in Nat
        /\ \A i \in DOMAIN Fields : Fields[i] \in ToSet(Fields)
    BY <2>1, LenProperties, ElementOfSeq
  <2>3. I \subseteq 1 .. Len(Fields) /\ \A i \in I : Fields[i] \in ToSet(Fields)
    BY <2>2
  <2> HIDE DEF I
  <2>4. Numbers(I)
    BY <2>2, <2>3, IndicesAreNumbers
  <2> QED BY <1>1, <2>3, <2>4, AmongIsList
<1>6. left = 0 /\ groups = <<>> /\ found = <<>>
  BY <1>4 DEF DiscoveryInv, ProgramOK, LeftOK, Beginnings
<1>7. LeftOK'
  BY <1>1, <1>4, <1>5, <1>6, Limits DEF LeftOK, Beginnings, CatalogPlaces, GroupPlaces,
                                        FieldPlaces, OutputPlaces
<1>8. ShapeOK'
  BY <1>1, <1>4 DEF DiscoveryInv, ProgramOK, ShapeOK
<1>9. TextsOK' /\ CatalogOK' /\ NamesOK'
  BY <1>1, <1>4, Elsewhere DEF DiscoveryInv
<1>10. MemoOK' /\ GroupsOK' /\ FoundOK' /\ MissesOK'
  BY <1>1, Untouched DEF DiscoveryInv
<1> QED BY <1>2, <1>4, <1>7, <1>8, <1>9, <1>10 DEF StepOK, ProgramOK

\* Outputs are counted, or listed one by one.
LEMMA OutputStepKeeps ==
    ASSUME DiscoveryInv, pc \in {"outputs", "listed"}, pc' = "output",
           UNCHANGED <<requests, strings, catalog, sids, shape, groups, complete, found, misses>>,
           left' \in Nat, todo' \in Seq(ToSet(Fields)), left' + Len(todo') <= MaxOutputs
    PROVE  StepOK
<1>1. /\ UNCHANGED <<slots, flying, ask, got>>
      /\ UNCHANGED <<back, want, fetches, texts, sids, known, unanswered, catalog, shape, groups,
                     complete, found, misses>>
  BY DEF requests, strings, memo
<1>2. RequestInv' /\ Uses
  BY <1>1, NotAskedKeeps DEF DiscoveryInv
<1>3. pc \in Plain /\ pc' \in Plain
  BY DEF Plain
<1>4. Where = pc /\ Where' = "output" /\ PlaceOK'
  BY <1>1, <1>3, AtPlain, PlainStep DEF DiscoveryInv
<1>5. groups = <<>> /\ found = <<>>
  BY <1>4 DEF DiscoveryInv, ProgramOK, LeftOK, Beginnings, OutputPlaces
<1>6. LeftOK'
  BY <1>1, <1>4, <1>5 DEF LeftOK, Beginnings, CatalogPlaces, GroupPlaces, FieldPlaces,
                          OutputPlaces
<1>7. ShapeOK'
  BY <1>1, <1>4 DEF DiscoveryInv, ProgramOK, ShapeOK
<1>8. TextsOK' /\ CatalogOK' /\ NamesOK'
  BY <1>1, <1>4, Elsewhere DEF DiscoveryInv
<1>9. MemoOK' /\ GroupsOK' /\ FoundOK' /\ MissesOK'
  BY <1>1, Untouched DEF DiscoveryInv
<1> QED BY <1>2, <1>4, <1>6, <1>7, <1>8, <1>9 DEF StepOK, ProgramOK

LEMMA CountOutputsKeeps ==
    ASSUME DiscoveryInv, CountOutputs
    PROVE  StepOK
<1>1. /\ pc = "outputs" /\ pc' = "output"
      /\ left' = CASE got[OutputCount] = NA -> 0
                   [] got[OutputCount] = None -> MaxOutputs
                   [] OTHER -> Least(got[OutputCount], MaxOutputs)
      /\ UNCHANGED <<requests, strings, catalog, sids, shape, groups, complete, found, misses>>
      /\ UNCHANGED todo
  BY DEF CountOutputs, At, fields
<1>2. Where = "outputs"
  BY <1>1 DEF Where, Fetching
<1>3. todo = <<>>
  BY <1>2 DEF DiscoveryInv, ProgramOK, LeftOK, Beginnings
<1>4. got[OutputCount] \in {None, IF Outputs = NA THEN NA ELSE Len(Outputs)}
  BY OutputKeysAre DEF DiscoveryInv, RequestInv, AnswersOK
<1>5. Outputs # NA => Len(Outputs) \in Nat
  BY DiscoveryAssumption, LenProperties
<1>6. \/ left' \in {0, MaxOutputs}
      \/ /\ got[OutputCount] \notin {NA, None}
         /\ left' = Least(got[OutputCount], MaxOutputs)
  <2> DEFINE count == got[OutputCount]
  <2>1. left' = CASE count = NA -> 0 [] count = None -> MaxOutputs
                  [] OTHER -> Least(count, MaxOutputs)
    BY <1>1
  <2> HIDE DEF count
  <2>2. CASE count = NA /\ count = None
    <3>1. left' \in {0, MaxOutputs}
      BY <2>1, <2>2, Zenon
    <3> QED BY <3>1
  <2>3. CASE count = NA /\ count # None
    <3>1. left' \in {0, MaxOutputs}
      BY <2>1, <2>3, Zenon
    <3> QED BY <3>1
  <2>4. CASE count # NA /\ count = None
    <3>1. left' \in {0, MaxOutputs}
      BY <2>1, <2>4, Zenon
    <3> QED BY <3>1
  <2>5. CASE count # NA /\ count # None
    <3>1. left' = Least(count, MaxOutputs)
      BY <2>1, <2>5, Zenon
    <3> QED BY <2>5, <3>1 DEF count
  <2> QED BY <2>2, <2>3, <2>4, <2>5
<1>7. left' \in 0 .. MaxOutputs
  BY <1>4, <1>5, <1>6, Limits DEF Least
<1>8. left' \in Nat /\ todo' \in Seq(ToSet(Fields)) /\ left' + Len(todo') <= MaxOutputs
  <2>1. <<>> \in Seq(ToSet(Fields)) /\ Len(<<>>) = 0
    OBVIOUS
  <2>2. todo' \in Seq(ToSet(Fields)) /\ Len(todo') = 0
    BY <1>1, <1>3, <2>1
  <2>3. \A n \in 0 .. MaxOutputs : n \in Nat /\ n + 0 <= MaxOutputs
    BY Limits
  <2>4. left' \in Nat /\ left' + 0 <= MaxOutputs
    BY <1>7, <2>3
  <2> QED BY <2>2, <2>4
<1> QED BY <1>1, <1>8, OutputStepKeeps

LEMMA TakeOutputKeeps ==
    ASSUME DiscoveryInv, TakeOutput
    PROVE  StepOK
<1> DEFINE f == got[OutputKey(Len(todo) + 1)]
<1>1. /\ pc = "listed" /\ pc' = "output"
      /\ IF f \in ToSet(Fields)
         THEN todo' = Append(todo, f) /\ left' = left - 1
         ELSE left' = 0 /\ UNCHANGED todo
      /\ UNCHANGED <<requests, strings, catalog, sids, shape, groups, complete, found, misses>>
  BY DEF TakeOutput, At
<1>2. Where = "listed"
  BY <1>1 DEF Where, Fetching
<1>3. /\ left \in Nat /\ left > 0 /\ todo \in Seq(ToSet(Fields))
      /\ left + Len(todo) <= MaxOutputs /\ Len(todo) \in Nat
  BY <1>2, LenProperties DEF DiscoveryInv, ProgramOK, LeftOK, OutputPlaces
<1> HIDE DEF f
<1>4. left' \in Nat /\ todo' \in Seq(ToSet(Fields)) /\ left' + Len(todo') <= MaxOutputs
  <2>1. CASE f \in ToSet(Fields)
    <3>1. todo' = Append(todo, f) /\ left' = left - 1
      BY <1>1, <2>1
    <3>2. todo' \in Seq(ToSet(Fields)) /\ Len(todo') = Len(todo) + 1
      BY <1>3, <2>1, <3>1, AppendProperties
    <3> QED BY <1>3, <3>1, <3>2, Limits
  <2>2. CASE f \notin ToSet(Fields)
    <3>1. left' = 0 /\ todo' = todo
      BY <1>1, <2>2
    <3> QED BY <1>3, <3>1, Limits
  <2> QED BY <2>1, <2>2
<1> QED BY <1>1, <1>4, OutputStepKeeps

LEMMA MissesBegin ==
    NoMisses \in [ops : [AllOps -> 0 .. MissLimit], silent : 0 .. MissLimit]
BY Limits DEF NoMisses

LEMMA MemoBegins ==
    /\ [s \in Strings |-> None] \in [Strings -> {None} \cup {Text[s] : s \in Strings}]
    /\ [s \in Strings |-> 0] \in [Strings -> 0 .. StrLimit]
    /\ \A s \in Strings : [x \in Strings |-> None][s] \in {None, Text[s]}
BY Limits

LEMMA DoneKeeps ==
    ASSUME DiscoveryInv, Done
    PROVE  StepOK
<1>1. /\ pc = "done" /\ pc' = "idle" /\ back' = "idle"
      /\ groups' = <<>> /\ complete' = FALSE /\ todo' = <<>> /\ found' = <<>>
      /\ known' = [s \in Strings |-> None] /\ unanswered' = [s \in Strings |-> 0]
      /\ misses' = NoMisses
      /\ UNCHANGED <<slots, flying, ask, got>>
      /\ UNCHANGED <<want, fetches, texts, sids, catalog, left, shape>>
  BY DEF Done, At, requests
<1>2. RequestInv' /\ Uses
  BY <1>1, NotAskedKeeps DEF DiscoveryInv
<1>3. pc \in Plain /\ pc' \in Plain
  BY <1>1 DEF Plain
<1>4. Where = "done" /\ ~Fetching /\ texts = <<>> /\ sids = <<>> /\ fetches = <<>>
  BY <1>1, <1>3, AtPlain DEF DiscoveryInv
<1>5. PlaceOK' /\ Where' = "idle"
  BY <1>1, <1>3, <1>4, LeaveStep DEF DiscoveryInv
<1>6. left = 0
  BY <1>4 DEF DiscoveryInv, ProgramOK, LeftOK
<1>7. LeftOK'
  BY <1>1, <1>5, <1>6 DEF LeftOK, Beginnings, CatalogPlaces, GroupPlaces, FieldPlaces,
                          OutputPlaces
<1>8. ShapeOK'
  BY <1>1, <1>5 DEF DiscoveryInv, ProgramOK, ShapeOK
<1>9. TextsOK' /\ CatalogOK' /\ NamesOK'
  BY <1>1, <1>5, Elsewhere DEF DiscoveryInv
<1>10. MemoOK'
  <2>1. fetches' = <<>> /\ Listed(<<>>) /\ DOMAIN <<>> = {}
    BY <1>1, <1>4, SetOfEmpty
  <2>2. /\ known' \in [Strings -> {None} \cup {Text[s] : s \in Strings}]
        /\ unanswered' \in [Strings -> 0 .. StrLimit]
        /\ \A s \in Strings : known'[s] \in {None, Text[s]}
    BY <1>1, MemoBegins
  <2> QED BY <2>1, <2>2 DEF MemoOK, KnownIsWhole
<1>11. GroupsOK' /\ FoundOK'
  <2>1. Listed(<<>>) /\ DOMAIN <<>> = {}
    BY SetOfEmpty
  <2> QED BY <1>1, <2>1 DEF GroupsOK, FoundOK
<1>12. MissesOK'
  BY <1>1, MissesBegin DEF MissesOK
<1> QED BY <1>2, <1>5, <1>7, <1>8, <1>9, <1>10, <1>11, <1>12 DEF StepOK, ProgramOK

-----------------------------------------------------------------------------
(* It holds at first, and every step keeps it. *)

LEMMA InvBegins ==
    ASSUME Init
    PROVE  DiscoveryInv
<1>1. /\ slots = [k \in Keys |-> Absent] /\ flying = <<>> /\ ask = NoQuestion
      /\ got = [k \in Keys |-> None]
      /\ pc = "idle" /\ back = "idle" /\ want = <<>> /\ fetches = <<>> /\ texts = <<>>
      /\ known = [s \in Strings |-> None] /\ unanswered = [s \in Strings |-> 0]
      /\ misses = NoMisses /\ catalog = None /\ sids = <<>>
      /\ left = 0 /\ shape = NoShape /\ groups = <<>> /\ complete = FALSE
      /\ todo = <<>> /\ meta = <<>> /\ found = <<>>
  BY DEF Init, RequestsInit, Table!WaiterInit
<1>2. RequestInv
  <2>1. <<>> \in Seq(Keys)
    OBVIOUS
  <2>2. AnswersOK
    BY <1>1, <2>1 DEF AnswersOK
  <2>3. AskOK
    BY <1>1, NothingAsked DEF AskOK
  <2>4. Awaited(slots, ask)
    BY <1>1, NothingAsked DEF Awaited
  <2> QED BY <2>2, <2>3, <2>4, AwaitedIs DEF RequestInv
<1>3. Where = "idle" /\ ~Fetching
  BY <1>1 DEF Where, Fetching
<1>4. Listed(<<>>) /\ DOMAIN <<>> = {} /\ <<>> \in Seq(Seq(Strings))
  BY SetOfEmpty
<1>5. PlaceOK
  BY <1>1, <1>3, <1>4 DEF PlaceOK, Beginnings
<1>6. LeftOK
  BY <1>1, <1>3 DEF LeftOK, Beginnings, CatalogPlaces, GroupPlaces, FieldPlaces, OutputPlaces
<1>7. MemoOK
  BY <1>1, <1>4, MemoBegins DEF MemoOK, KnownIsWhole
<1>8. TextsOK /\ NamesOK
  BY <1>3 DEF TextsOK, NamesOK
<1>9. CatalogOK
  BY <1>1, <1>3 DEF CatalogOK, TableIsChecked, CatalogPlaces
<1>10. ShapeOK
  BY <1>1, <1>3, NoShapeIs DEF ShapeOK
<1>11. GroupsOK /\ FoundOK
  BY <1>1, <1>4 DEF GroupsOK, FoundOK
<1>12. MissesOK
  BY <1>1, MissesBegin DEF MissesOK
<1> QED BY <1>2, <1>5, <1>6, <1>7, <1>8, <1>9, <1>10, <1>11, <1>12 DEF DiscoveryInv, ProgramOK

\* What is not said of the requests stands while a question is asked.
LEMMA AskingKeeps ==
    ASSUME ProgramOK, NotAsking
    PROVE  ProgramOK'
<1>1. UNCHANGED <<pc, back, want, fetches, texts, known, unanswered, catalog, sids, left, shape,
                  prev, groups, complete, todo, meta, found, misses>>
  BY DEF NotAsking, strings, memo, menu, fields
<1>2. Where' = Where /\ (Fetching' <=> Fetching)
  BY <1>1 DEF Where, Fetching
<1>3. PlaceOK'
  BY <1>1, <1>2 DEF ProgramOK, PlaceOK
<1>4. LeftOK' /\ ShapeOK' /\ NamesOK' /\ CatalogOK' /\ GroupsOK' /\ FoundOK'
  BY <1>1, <1>2, SamePlace
<1>5. MemoOK'
  BY <1>1, Untouched
<1>6. TextsOK'
  <2>1. Sought' = Sought
    BY <1>1, <1>2 DEF Sought, Spelt
  <2> QED BY <1>1, <1>2, <2>1 DEF ProgramOK, TextsOK, IsTextOf
<1>7. MissesOK'
  BY <1>1 DEF ProgramOK, MissesOK
<1> QED BY <1>3, <1>4, <1>5, <1>6, <1>7 DEF ProgramOK

LEMMA ProgramKeeps ==
    ASSUME DiscoveryInv, Program
    PROVE  StepOK
<1>1. CASE StringStep
  BY <1>1, BeginFetchKeeps, TakeChunksKeeps DEF StringStep
<1>2. CASE IdentityStep
  BY <1>2, IdentifyKeeps, AskPropertiesKeeps, FetchPropertiesKeeps, PutIdentitiesKeeps
     DEF IdentityStep
<1>3. CASE CatalogStep
  BY <1>3, ResolveCatalogKeeps, FetchSpotKeeps, TakeSpotKeeps, PutCatalogKeeps DEF CatalogStep
<1>4. CASE GroupStep
  BY <1>4, AskNameKeeps, AskCountKeeps, TakeCountKeeps, TakeRecountKeeps, TakeIdsKeeps,
     EndAtRepeatKeeps, ListGroupKeeps, EndGroupKeeps DEF GroupStep
<1>5. CASE StartMenu \/ TakeTotal \/ EndMenu
  BY <1>5, StartMenuKeeps, TakeTotalKeeps, EndMenuKeeps
<1>6. CASE FieldStep
  BY <1>6, AskMetaKeeps, TakeMetaKeeps, TakeMoreMetaKeeps, LeaveOutFieldKeeps, AskOptionsKeeps,
     FetchNamesKeeps, PutFieldKeeps DEF FieldStep
<1>7. CASE ProbeStep
  BY <1>7, StartProbeKeeps, TakeProbeKeeps, EndProbeKeeps DEF ProbeStep
<1>8. CASE OutputStep
  BY <1>8, StartOutputsKeeps, CountOutputsKeeps, AskOutputKeeps, TakeOutputKeeps, EndOutputsKeeps
     DEF OutputStep
<1>9. CASE Done
  BY <1>9, DoneKeeps
<1> QED BY <1>1, <1>2, <1>3, <1>4, <1>5, <1>6, <1>7, <1>8, <1>9 DEF Program, MenuStep

LEMMA RequestKeeps ==
    ASSUME RequestInv, RequestStep
    PROVE  RequestInv' /\ Uses
BY SendKeeps, TakeReplyKeeps, MissReplyKeeps, NextSendingKeeps, CollectLateKeeps, EndQuestionKeeps
   DEF RequestStep

LEMMA NextKeeps ==
    ASSUME DiscoveryInv, Next
    PROVE  DiscoveryInv' /\ Uses
<1>1. CASE (Device \/ Turn \/ RequestStep) /\ NotAsking
  <2>1. RequestInv' /\ Uses
    BY <1>1, DeviceKeeps, TurnKeeps, RequestKeeps DEF DiscoveryInv
  <2>2. ProgramOK'
    BY <1>1, AskingKeeps DEF DiscoveryInv
  <2> QED BY <2>1, <2>2 DEF DiscoveryInv
<1>2. CASE Program
  BY <1>2, ProgramKeeps DEF StepOK, DiscoveryInv
<1> QED BY <1>1, <1>2 DEF Next

LEMMA StutterKeeps ==
    ASSUME DiscoveryInv, UNCHANGED vars
    PROVE  DiscoveryInv'
<1>1. UNCHANGED <<slots, flying, ask, got>> /\ NotAsking
  BY DEF vars, requests, NotAsking
<1>2. RequestInv'
  BY <1>1, NotAskedKeeps DEF DiscoveryInv
<1> QED BY <1>1, <1>2, AskingKeeps DEF DiscoveryInv

\* What holds throughout a discovery, whatever the device answers or leaves
\* unanswered, whatever comes late, and whenever the scheduler takes a turn.
THEOREM Invariant == Spec => []DiscoveryInv
<1>1. Init => DiscoveryInv
  BY InvBegins
<1>2. DiscoveryInv /\ [Next]_vars => DiscoveryInv'
  BY NextKeeps, StutterKeeps
<1> QED BY <1>1, <1>2, PTL DEF Spec

-----------------------------------------------------------------------------
(* What it means. *)

LEMMA InvMeansTypeOK ==
    ASSUME DiscoveryInv
    PROVE  TypeOK
<1>1. AnswersOK /\ QuestionOK(ask)
  BY DEF DiscoveryInv, RequestInv, AskOK
<1>2. ToSet(flying) \subseteq Keys /\ DOMAIN slots = Keys /\ DOMAIN got = Keys
  BY <1>1, SeqIsListed DEF AnswersOK
<1>3. ask.stage \in Stages /\ ToSet(ask.open \o ask.missed \o ask.late) \subseteq Keys
  <2>1. /\ ask.open \in Seq(Keys) /\ ask.missed \in Seq(Keys) /\ ask.late \in Seq(Keys)
        /\ ask.stage \in Stages
    BY <1>1, PartsOfQuestion
  <2>2. ask.open \o ask.missed \in Seq(Keys)
    BY <2>1, SetOfConcat
  <2>3. ask.open \o ask.missed \o ask.late \in Seq(Keys)
    BY <2>1, <2>2, SetOfConcat
  <2> QED BY <2>1, <2>3, SeqIsListed
<1>4. ASSUME pc = "idle"
      PROVE  /\ groups = <<>> /\ todo = <<>> /\ found = <<>> /\ want = <<>>
             /\ texts = <<>> /\ sids = <<>> /\ left = 0
  <2>1. Where = "idle" /\ want = <<>> /\ texts = <<>> /\ sids = <<>>
    BY <1>4, AtPlain DEF Plain, DiscoveryInv
  <2> QED BY <2>1 DEF DiscoveryInv, ProgramOK, LeftOK, Beginnings
<1>5. \A s \in Strings : unanswered[s] \in 0 .. StrLimit
  BY DEF DiscoveryInv, ProgramOK, MemoOK
<1>6. (\A op \in AllOps : misses.ops[op] \in 0 .. MissLimit) /\ misses.silent \in 0 .. MissLimit
  BY DEF DiscoveryInv, ProgramOK, MissesOK
<1> QED BY <1>2, <1>3, <1>4, <1>5, <1>6 DEF TypeOK

LEMMA InvMeansInPlace ==
    ASSUME DiscoveryInv
    PROVE  InPlace
<1>1. ASSUME NEW g \in DOMAIN groups
      PROVE  LET ids == groups[g].ids
             IN  \A i, j \in DOMAIN ids : i < j => Before(Ids(groups[g].id), ids[i], ids[j])
  BY DEF DiscoveryInv, ProgramOK, GroupsOK, InOrder
<1>2. ASSUME NEW i \in DOMAIN found
      PROVE  LET f == found[i].index
                 n == Len(found[i].texts) - 2
             IN  \A o \in 1 .. n : IsTextOf(found[i].texts[o], Labels[f][o])
  BY DEF DiscoveryInv, ProgramOK, FoundOK
<1> QED BY <1>1, <1>2 DEF InPlace

\* The state of a discovery is what its type says, and between discoveries
\* nothing of the last one is left.
THEOREM TypeCorrect == Spec => []TypeOK
<1>1. DiscoveryInv => TypeOK
  BY InvMeansTypeOK
<1> QED BY <1>1, Invariant, PTL

\* The request table holds the keys somebody still means to look at, no more
\* and no less: req_std, req_batch, req_each and their collecting of late
\* answers, with fetch_string_sync of the scheduler's turns in between.
THEOREM SlotsAwaited == Spec => []SlotsAreAwaited
<1>1. DiscoveryInv => SlotsAreAwaited
  BY DEF DiscoveryInv, RequestInv
<1> QED BY <1>1, Invariant, PTL

\* An answer that has reached the request table is never thrown away by the
\* discovery that asked for it.
THEOREM NoAnswerIsLost == Spec => AnswersAreUsed
<1>1. DiscoveryInv /\ [Next]_vars =>
         [\A k \in Keys :
             Table!Answered(k) =>
                 \/ Table!Answered(k)'
                 \/ \E request \in Keys :
                       Key(request) = k /\ got'[request] = slots[k]]_<<slots, got>>
  <2> SUFFICES ASSUME DiscoveryInv, [Next]_vars
               PROVE  \/ UNCHANGED <<slots, got>>
                      \/ \A k \in Keys :
                            Table!Answered(k) =>
                                \/ Table!Answered(k)'
                                \/ \E request \in Keys :
                                      Key(request) = k /\ got'[request] = slots[k]
    OBVIOUS
  <2>1. CASE UNCHANGED vars
    BY <2>1 DEF vars, requests
  <2>2. CASE Next
    <3>1. Uses
      BY <2>2, NextKeeps
    <3> QED BY <3>1 DEF Uses, Table!Answered, Key
  <2> QED BY <2>1, <2>2
<1> QED BY <1>1, Invariant, PTL DEF Spec, AnswersAreUsed

\* Whatever chunks came late, twice or never, StrMemo only remembers whole
\* strings of the device.
THEOREM MemoIsWhole == Spec => []KnownIsWhole
<1>1. DiscoveryInv => KnownIsWhole
  BY DEF DiscoveryInv, ProgramOK, MemoOK
<1> QED BY <1>1, Invariant, PTL

\* resolve_catalog takes a table only if at every one of its spots it agrees
\* with all the device told.
THEOREM CatalogIsChecked == Spec => []TableIsChecked
<1>1. DiscoveryInv => TableIsChecked
  BY DEF DiscoveryInv, ProgramOK, CatalogOK
<1> QED BY <1>1, Invariant, PTL

\* A reply is never taken for that of its neighbour: the fields of a group are
\* in the device's order, the labels of a list at their options.
THEOREM RepliesAreInPlace == Spec => []InPlace
<1>1. DiscoveryInv => InPlace
  BY InvMeansInPlace
<1> QED BY <1>1, Invariant, PTL

-----------------------------------------------------------------------------
(* Reading a menu is what MenuReading says. *)

Outside == Beginnings \cup CatalogPlaces \cup OutputPlaces \cup {"done"}

\* Where a menu is being read.
ReadingIs ==
    /\ Where \in Outside => ~InMenu
    /\ Where \in GroupPlaces => InMenu
    /\ Where \in FieldPlaces => (InMenu <=> groups # <<>>)

LEMMA InMenuIs == DiscoveryInv => ReadingIs
<1> SUFFICES ASSUME ProgramOK
             PROVE  ReadingIs
  BY DEF DiscoveryInv
<1>1. CASE Fetching
  <2>1. Where = back /\ (InMenu <=> (groups # <<>> \/ back = "shape"))
    BY <1>1 DEF Fetching, InMenu, Where
  <2>2. back \in {"identified", "spotted", "shape", "names"}
    BY <1>1 DEF ProgramOK, PlaceOK
  <2>3. back \in {"identified", "spotted"} => groups = <<>>
    BY <2>1 DEF ProgramOK, LeftOK, Beginnings, CatalogPlaces
  <2> QED BY <2>1, <2>2, <2>3 DEF ReadingIs, Outside, Beginnings, CatalogPlaces, OutputPlaces,
                                  GroupPlaces, FieldPlaces
<1>2. CASE ~Fetching
  <2>1. Where = pc /\ pc \notin {"fetch", "chunks"} /\ (pc = "shape" => back = "shape")
    BY <1>2 DEF Fetching, Where, ProgramOK, PlaceOK
  <2>2. pc \in Outside \ {"done"} => groups = <<>>
    BY <2>1 DEF ProgramOK, LeftOK, Outside
  <2>3. ASSUME pc \in Outside
        PROVE  ~InMenu
    <3>1. pc \notin {"group", "name", "count", "recount", "ids"} /\ pc # "shape"
      BY <2>3 DEF Outside, Beginnings, CatalogPlaces, OutputPlaces
    <3> QED BY <2>1, <2>2, <2>3, <3>1 DEF InMenu
  <2>4. ASSUME pc \in GroupPlaces
        PROVE  InMenu
    <3>1. pc \in {"group", "name", "count", "recount", "ids"} \/ pc = "shape"
      BY <2>4 DEF GroupPlaces
    <3>2. pc # "done"
      BY <3>1
    <3> QED BY <2>1, <3>1, <3>2 DEF InMenu
  <2>5. ASSUME pc \in FieldPlaces
        PROVE  InMenu <=> groups # <<>>
    BY <2>5 DEF FieldPlaces, InMenu
  <2> QED BY <2>1, <2>3, <2>4, <2>5 DEF ReadingIs
<1> QED BY <1>1, <1>2

LEMMA InMenuWillBe == DiscoveryInv' => ReadingIs'
BY InMenuIs, PTL

\* Where fetching leads.
LEMMA FetchGoes ==
    ASSUME NEW calls, NEW next \in {"identified", "spotted", "shape", "names"},
           FetchAll(calls, next)
    PROVE  Where' = next
<1>1. back' = next /\ pc' \in {next, "fetch"}
  BY DEF FetchAll
<1> QED BY <1>1 DEF Where, Fetching

\* A step that a reader of menus does not see.
Unseen == /\ InMenu' <=> InMenu
          /\ InMenu => left' = left
          /\ (groups' # <<>>) <=> (groups # <<>>)
          /\ complete' = complete

LEMMA UnseenStutters ==
    ASSUME Unseen
    PROVE  UNCHANGED Menu!menu
<1>1. (IF InMenu THEN left ELSE 0)' = IF InMenu THEN left ELSE 0
  <2>1. CASE InMenu
    BY <2>1 DEF Unseen
  <2>2. CASE ~InMenu
    BY <2>2 DEF Unseen
  <2> QED BY <2>1, <2>2
<1>2. InMenu' = InMenu
  BY Zenon DEF Unseen, InMenu
<1>3. (groups # <<>>)' = (groups # <<>>)
  BY Zenon DEF Unseen
<1>4. complete' = complete
  BY DEF Unseen
<1> QED BY <1>1, <1>2, <1>3, <1>4 DEF Menu!menu

\* Within one part of the program nothing is seen.
LEMMA SamePart ==
    ASSUME ReadingIs, ReadingIs', UNCHANGED <<groups, complete>>,
           \/ Where \in Outside /\ Where' \in Outside
           \/ Where \in GroupPlaces /\ Where' \in GroupPlaces /\ UNCHANGED left
           \/ Where \in FieldPlaces /\ Where' \in FieldPlaces /\ UNCHANGED left
           \/ /\ Where \in Outside \cup FieldPlaces /\ Where' \in Outside \cup FieldPlaces
              /\ groups = <<>>
    PROVE  UNCHANGED Menu!menu
<1>1. (InMenu' <=> InMenu) /\ (InMenu => left' = left)
  BY DEF ReadingIs
<1>2. Unseen
  BY <1>1 DEF Unseen
<1> QED BY <1>2, UnseenStutters

LEMMA AskingIsUnseen ==
    ASSUME NotAsking
    PROVE  UNCHANGED Menu!menu
<1>1. UNCHANGED <<pc, back, left, groups, complete>>
  BY DEF NotAsking, strings, menu
<1>2. Unseen
  BY <1>1 DEF Unseen, InMenu
<1> QED BY <1>2, UnseenStutters

\* Strings, identities, tables, outputs.
LEMMA StringsAreUnseen ==
    ASSUME ProgramOK, ReadingIs, ReadingIs', BeginFetch \/ TakeChunks
    PROVE  UNCHANGED Menu!menu
<1>1. /\ pc \in {"fetch", "chunks"} /\ pc' \in {"fetch", "chunks", back}
      /\ UNCHANGED <<back, left, groups, complete>>
  BY DEF BeginFetch, TakeChunks, At, menu
<1>2. back \in {"identified", "spotted", "shape", "names"}
  BY <1>1 DEF ProgramOK, PlaceOK, Fetching
<1>3. Where = back /\ Where' = back
  BY <1>1, <1>2 DEF Where, Fetching
<1>4. back \in Outside \/ back \in GroupPlaces \/ back \in FieldPlaces
  BY <1>2 DEF Outside, Beginnings, CatalogPlaces, GroupPlaces, FieldPlaces
<1> QED BY <1>1, <1>3, <1>4, SamePart

LEMMA OutsideIsUnseen ==
    ASSUME ReadingIs, ReadingIs',
           IdentityStep \/ CatalogStep \/ OutputStep \/ StartMenu \/ StartProbe
    PROVE  UNCHANGED Menu!menu
<1>1. UNCHANGED <<groups, complete>>
  BY DEF IdentityStep, Identify, AskProperties, FetchProperties, PutIdentities,
         CatalogStep, ResolveCatalog, FetchSpot, TakeSpot, PutCatalog,
         OutputStep, StartOutputs, CountOutputs, AskOutput, TakeOutput, EndOutputs,
         StartMenu, StartProbe, menu
<1>2. pc \in {"idle", "firmware", "properties", "identified", "spot", "spotted", "outputs",
              "output", "listed"}
  BY DEF IdentityStep, Identify, AskProperties, FetchProperties, PutIdentities,
         CatalogStep, ResolveCatalog, FetchSpot, TakeSpot, PutCatalog,
         OutputStep, StartOutputs, CountOutputs, AskOutput, TakeOutput, EndOutputs,
         StartMenu, StartProbe, Begins, At
<1>3. Where \in Outside
  BY <1>2 DEF Where, Fetching, Outside, Beginnings, CatalogPlaces, OutputPlaces
<1>4. Where' \in Outside
  <2>1. CASE FetchProperties
    <3>1. PICK calls : FetchAll(calls, "identified")
      BY <2>1 DEF FetchProperties
    <3> QED BY <3>1, FetchGoes DEF Outside, Beginnings
  <2>2. CASE FetchSpot
    <3>1. Where' = "spotted"
      BY <2>2, FetchGoes DEF FetchSpot
    <3> QED BY <3>1 DEF Outside, CatalogPlaces
  <2>3. CASE ~(FetchProperties \/ FetchSpot)
    <3>1. pc' \in {"firmware", "properties", "done", "spot", "outputs", "output", "listed",
                   "total", "probe"}
      BY <2>3 DEF IdentityStep, Identify, AskProperties, PutIdentities,
         CatalogStep, ResolveCatalog, TakeSpot, PutCatalog,
         OutputStep, StartOutputs, CountOutputs, AskOutput, TakeOutput, EndOutputs,
         StartMenu, StartProbe
    <3> QED BY <3>1 DEF Where, Fetching, Outside, Beginnings, CatalogPlaces, OutputPlaces
  <2> QED BY <2>1, <2>2, <2>3
<1> QED BY <1>1, <1>3, <1>4, SamePart

LEMMA ProbeIsUnseen ==
    ASSUME ProgramOK, ReadingIs, ReadingIs', TakeProbe \/ EndProbe
    PROVE  UNCHANGED Menu!menu
<1>1. /\ UNCHANGED <<groups, complete>>
      /\ \/ pc = "probe" /\ pc' = "field"
         \/ pc = "field" /\ pc' = "done" /\ groups = <<>>
  BY DEF TakeProbe, EndProbe, At, menu
<1>2. Where = pc /\ Where' = pc'
  BY <1>1 DEF Where, Fetching
<1>3. groups = <<>>
  BY <1>1, <1>2 DEF ProgramOK, LeftOK, Beginnings
<1>4. Where \in Outside \cup FieldPlaces /\ Where' \in Outside \cup FieldPlaces
  BY <1>1, <1>2 DEF Outside, Beginnings, FieldPlaces
<1> QED BY <1>1, <1>3, <1>4, SamePart

LEMMA FieldIsUnseen ==
    ASSUME ReadingIs, ReadingIs', FieldStep
    PROVE  UNCHANGED Menu!menu
<1>1. /\ UNCHANGED <<left, groups, complete>>
      /\ pc \in {"field", "meta", "remeta", "told", "options", "names"}
  BY DEF FieldStep, AskMeta, TakeMeta, TakeMoreMeta, LeaveOutField, AskOptions, FetchNames,
         PutField, At, menu
<1>2. Where \in FieldPlaces
  BY <1>1 DEF Where, Fetching, FieldPlaces
<1>3. Where' \in FieldPlaces
  <2>1. CASE FetchNames
    <3>1. PICK calls : FetchAll(calls, "names")
      BY <2>1 DEF FetchNames
    <3> QED BY <3>1, FetchGoes DEF FieldPlaces
  <2>2. CASE ~FetchNames
    <3>1. pc' \in {"field", "meta", "remeta", "told", "options"}
      BY <2>2 DEF FieldStep, AskMeta, TakeMeta, TakeMoreMeta, LeaveOutField, AskOptions, PutField
    <3> QED BY <3>1 DEF Where, Fetching, FieldPlaces
  <2> QED BY <2>1, <2>2
<1> QED BY <1>1, <1>2, <1>3, SamePart

\* A menu begins with its groups counted.
LEMMA TotalBegins ==
    ASSUME ProgramOK, ReadingIs, ReadingIs', DiscoveryInv', TakeTotal
    PROVE  Menu!Begin \/ UNCHANGED Menu!menu
<1>1. /\ pc = "total" /\ pc' \in {"group", "idle"} /\ UNCHANGED groups
      /\ pc' = "group" => complete' = TRUE
      /\ pc' = "idle" => UNCHANGED complete
  BY DEF TakeTotal, At
<1>2. Where = "total" /\ Where' = pc'
  BY <1>1 DEF Where, Fetching
<1>3. Where \in Outside
  BY <1>2 DEF Outside, Beginnings
<1>4. CASE pc' = "idle"
  <2>1. Where' \in Outside
    BY <1>2, <1>4 DEF Outside, Beginnings
  <2> QED BY <1>1, <1>3, <1>4, <2>1, SamePart
<1>5. CASE pc' = "group"
  <2>1. Where' \in GroupPlaces
    BY <1>2, <1>5 DEF GroupPlaces
  <2>2. ~InMenu /\ InMenu'
    BY <1>3, <2>1 DEF ReadingIs
  <2>3. left' \in 0 .. MaxGroups
    BY <2>1, Limits DEF DiscoveryInv, ProgramOK, LeftOK
  <2>4. (IF InMenu THEN left ELSE 0)' \in 0 .. MaxGroups
    BY <2>2, <2>3
  <2>5. groups' = <<>>
    BY <1>1, <1>2 DEF ProgramOK, LeftOK, Beginnings
  <2>6. InMenu' = TRUE
    BY <2>2, Zenon DEF InMenu
  <2>7. (groups # <<>>)' = FALSE
    BY <2>5, Zenon
  <2> QED BY <1>1, <1>5, <2>2, <2>4, <2>6, <2>7 DEF Menu!Begin
<1> QED BY <1>1, <1>4, <1>5

\* Its groups are taken one by one.
LEMMA GroupsAreTaken ==
    ASSUME ProgramOK, ReadingIs, ReadingIs', GroupStep
    PROVE  Menu!ListGroup \/ Menu!LeaveOutGroup \/ UNCHANGED Menu!menu
<1>1. CASE TakeIds
  <2>1. pc = "ids" /\ UNCHANGED <<left, groups, complete>>
    BY <1>1 DEF TakeIds, At
  <2>2. PICK calls : FetchAll(calls, "shape")
    BY <1>1 DEF TakeIds
  <2>3. Where \in GroupPlaces /\ Where' \in GroupPlaces
    BY <2>1, <2>2, FetchGoes DEF Where, Fetching, GroupPlaces
  <2> QED BY <2>1, <2>3, SamePart
<1>2. CASE AskName \/ AskCount \/ TakeCount
  <2>1. /\ pc \in {"group", "name", "count"} /\ UNCHANGED <<left, groups, complete>>
        /\ pc' \in {"name", "count", "recount", "ids"}
    BY <1>2 DEF AskName, AskCount, TakeCount, AskIds, At, menu
  <2>2. Where \in GroupPlaces /\ Where' \in GroupPlaces
    BY <2>1 DEF Where, Fetching, GroupPlaces
  <2> QED BY <2>1, <2>2, SamePart
<1>3. CASE TakeRecount
  <2>1. /\ pc = "recount" /\ UNCHANGED <<groups, complete>>
        /\ pc' \in {"group", "ids"} /\ left' \in {left, left - 1}
    BY <1>3 DEF TakeRecount, SkipGroup, AskIds, At
  <2>2. Where = "recount" /\ Where \in GroupPlaces /\ Where' \in GroupPlaces
    BY <2>1 DEF Where, Fetching, GroupPlaces
  <2>3. CASE left' = left
    BY <2>1, <2>2, <2>3, SamePart
  <2>4. CASE left' = left - 1
    <3>1. InMenu /\ InMenu'
      BY <2>2 DEF ReadingIs
    <3>2. left > 0
      BY <2>2, GroupBeingRead
    <3>3. (IF InMenu THEN left ELSE 0) > 0
      BY <3>1, <3>2
    <3>4. (IF InMenu THEN left ELSE 0)' = (IF InMenu THEN left ELSE 0) - 1
      BY <2>4, <3>1
    <3>5. InMenu' = InMenu
      BY <3>1, Zenon DEF InMenu
    <3>6. (groups # <<>>)' = (groups # <<>>) /\ complete' = complete
      BY <2>1
    <3> QED BY <3>1, <3>3, <3>4, <3>5, <3>6 DEF Menu!LeaveOutGroup
  <2> QED BY <2>1, <2>3, <2>4
<1>4. CASE EndAtRepeat
  <2>1. /\ pc = "shape" /\ pc' = "group" /\ left' = 0 /\ groups # <<>>
        /\ UNCHANGED <<groups, complete>>
    BY <1>4 DEF EndAtRepeat, At
  <2>2. Where = "shape" /\ Where \in GroupPlaces /\ Where' \in GroupPlaces
    BY <2>1 DEF Where, Fetching, GroupPlaces
  <2>3. InMenu /\ InMenu'
    BY <2>2 DEF ReadingIs
  <2>4. left > 0
    BY <2>2, GroupBeingRead
  <2>5. (IF InMenu THEN left ELSE 0) > 0 /\ (IF InMenu THEN left ELSE 0)' = 0
    BY <2>1, <2>3, <2>4
  <2>6. InMenu' = InMenu
    BY <2>3, Zenon DEF InMenu
  <2>7. (groups # <<>>)' = (groups # <<>>) /\ complete' = complete
    BY <2>1
  <2> QED BY <2>1, <2>3, <2>5, <2>6, <2>7 DEF Menu!LeaveOutGroup
<1>5. CASE ListGroup
  <2>1. /\ pc = "shape" /\ pc' = "field" /\ left' = left - 1 /\ complete' = Counted
        /\ \E new : groups' = Append(groups, new)
    BY <1>5 DEF ListGroup, At
  <2>2. Where = "shape" /\ Where \in GroupPlaces /\ Where' \in FieldPlaces
    BY <2>1 DEF Where, Fetching, GroupPlaces, FieldPlaces
  <2>3. groups' # <<>>
    <3>1. PICK new : groups' = Append(groups, new)
      BY <2>1
    <3>2. groups \in Seq(ToSet(groups) \cup {new})
      BY SeqMonotonic DEF ProgramOK, GroupsOK, Listed
    <3> QED BY <3>1, <3>2, AppendProperties
  <2>4. InMenu /\ InMenu'
    BY <2>2, <2>3 DEF ReadingIs
  <2>5. left > 0
    BY <2>2, GroupBeingRead
  <2>6. /\ (IF InMenu THEN left ELSE 0) > 0
        /\ (IF InMenu THEN left ELSE 0)' = (IF InMenu THEN left ELSE 0) - 1
    BY <2>1, <2>4, <2>5
  <2>7. InMenu' = InMenu
    BY <2>4, Zenon DEF InMenu
  <2>8. (groups # <<>>)' = TRUE
    BY <2>3, Zenon
  <2>9. complete' \in BOOLEAN /\ (complete' => complete)
    BY <2>1 DEF Counted, ProgramOK, ShapeOK
  <2> QED BY <2>4, <2>6, <2>7, <2>8, <2>9 DEF Menu!ListGroup
<1>6. CASE EndGroup
  <2>1. /\ pc = "field" /\ pc' = "group" /\ groups # <<>> /\ UNCHANGED <<left, complete>>
        /\ DOMAIN groups' = DOMAIN groups
    BY <1>6 DEF EndGroup, At
  <2>2. Where \in FieldPlaces /\ Where' \in GroupPlaces
    BY <2>1 DEF Where, Fetching, GroupPlaces, FieldPlaces
  <2>3. InMenu /\ InMenu'
    BY <2>1, <2>2 DEF ReadingIs
  <2>4. groups' # <<>>
    <3>1. DOMAIN groups # {}
      <4>1. groups \in Seq(ToSet(groups))
        BY DEF ProgramOK, GroupsOK, Listed
      <4>2. DOMAIN groups = 1 .. Len(groups) /\ Len(groups) \in Nat /\ Len(groups) # 0
        BY <2>1, <4>1, LenProperties, EmptySeq
      <4>3. 1 \in DOMAIN groups
        BY <4>2
      <4> QED BY <4>3
    <3> QED BY <2>1, <3>1, SetOfEmpty
  <2>5. Unseen
    BY <2>1, <2>3, <2>4 DEF Unseen
  <2> QED BY <2>5, UnseenStutters
<1> QED BY <1>1, <1>2, <1>3, <1>4, <1>5, <1>6 DEF GroupStep

LEMMA MenuEnds ==
    ASSUME ReadingIs, ReadingIs', EndMenu
    PROVE  Menu!End
<1>1. pc = "group" /\ pc' = "done" /\ left = 0 /\ UNCHANGED <<left, groups, complete>>
  BY DEF EndMenu, At, menu
<1>2. Where \in GroupPlaces /\ Where' \in Outside
  BY <1>1 DEF Where, Fetching, GroupPlaces, Outside
<1>3. InMenu /\ ~InMenu'
  BY <1>2 DEF ReadingIs
<1>4. (IF InMenu THEN left ELSE 0) = 0 /\ (IF InMenu THEN left ELSE 0)' = 0
  BY <1>1, <1>3
<1>5. InMenu' = FALSE
  BY <1>3, Zenon DEF InMenu
<1>6. (groups # <<>>)' = (groups # <<>>) /\ complete' = complete
  BY <1>1
<1> QED BY <1>3, <1>4, <1>5, <1>6 DEF Menu!End

LEMMA DoneForgets ==
    ASSUME ReadingIs, ReadingIs', Done
    PROVE  Menu!Forget
<1>1. pc = "done" /\ pc' = "idle" /\ groups' = <<>> /\ complete' = FALSE
  BY DEF Done, At
<1>2. Where \in Outside /\ Where' \in Outside
  BY <1>1 DEF Where, Fetching, Outside, Beginnings
<1>3. ~InMenu /\ ~InMenu'
  BY <1>2 DEF ReadingIs
<1>4. (IF InMenu THEN left ELSE 0)' = 0
  BY <1>3
<1> QED BY <1>1, <1>3, <1>4 DEF Menu!Forget, Menu!Init

LEMMA ProgramReads ==
    ASSUME DiscoveryInv, DiscoveryInv', Program
    PROVE  [Menu!Next]_(Menu!menu)
<1>1. ProgramOK /\ ReadingIs /\ ReadingIs'
  BY InMenuIs, InMenuWillBe DEF DiscoveryInv
<1>2. CASE StringStep
  BY <1>1, <1>2, StringsAreUnseen DEF StringStep
<1>3. CASE IdentityStep \/ CatalogStep \/ OutputStep \/ StartMenu \/ StartProbe
  BY <1>1, <1>3, OutsideIsUnseen
<1>4. CASE TakeProbe \/ EndProbe
  BY <1>1, <1>4, ProbeIsUnseen
<1>5. CASE FieldStep
  BY <1>1, <1>5, FieldIsUnseen
<1>6. CASE TakeTotal
  BY <1>1, <1>6, TotalBegins DEF Menu!Next
<1>7. CASE GroupStep
  BY <1>1, <1>7, GroupsAreTaken DEF Menu!Next
<1>8. CASE EndMenu
  BY <1>1, <1>8, MenuEnds DEF Menu!Next
<1>9. CASE Done
  BY <1>1, <1>9, DoneForgets DEF Menu!Next
<1> QED BY <1>2, <1>3, <1>4, <1>5, <1>6, <1>7, <1>8, <1>9
        DEF Program, MenuStep, ProbeStep

\* Reading a menu with requests that are retried, answered late or never, is
\* reading it as MenuReading says: groups one by one, whole if all were counted.
THEOREM MenusAreRead == Spec => ReadsMenus
<1>1. Init => Menu!Init
  <2> SUFFICES ASSUME Init
               PROVE  Menu!Init
    OBVIOUS
  <2>1. pc = "idle" /\ groups = <<>> /\ left = 0 /\ complete = FALSE
    BY DEF Init
  <2>2. ~InMenu
    BY <2>1 DEF InMenu
  <2> QED BY <2>1, <2>2 DEF Menu!Init
<1>2. DiscoveryInv /\ DiscoveryInv' /\ [Next]_vars => [Menu!Next]_(Menu!menu)
  <2> SUFFICES ASSUME DiscoveryInv, DiscoveryInv', [Next]_vars
               PROVE  [Menu!Next]_(Menu!menu)
    OBVIOUS
  <2>1. CASE UNCHANGED vars
    <3>1. NotAsking
      BY <2>1 DEF vars, NotAsking
    <3> QED BY <3>1, AskingIsUnseen
  <2>2. CASE NotAsking
    BY <2>2, AskingIsUnseen
  <2>3. CASE Program
    BY <2>3, ProgramReads
  <2> QED BY <2>1, <2>2, <2>3 DEF Next
<1> QED BY <1>1, <1>2, Invariant, PTL DEF Spec, ReadsMenus, Menu!Spec

-----------------------------------------------------------------------------
(* Groups told again. *)

\* Groups are listed in the device's order, and those still to be asked for come
\* after; the last is the one the next is compared with; and none repeats the
\* one before it.
ListOK ==
    groups # <<>> =>
        /\ prev.ids = groups[Len(groups)].ids /\ prev.text = groups[Len(groups)].text
        /\ \A i \in DOMAIN groups :
              /\ groups[i].id \in DOMAIN Groups
              /\ groups[i].id + left <= Least(Len(Groups), MaxGroups)
        /\ \A i, j \in DOMAIN groups : i < j => groups[i].id < groups[j].id
        /\ \A i \in DOMAIN groups : i + 1 \in DOMAIN groups => ~Repeats(groups[i + 1], groups[i])

LEMMA ListStands ==
    ASSUME ListOK, UNCHANGED groups, groups = <<>> \/ UNCHANGED <<left, prev>>
    PROVE  ListOK'
<1>1. CASE groups = <<>>
  BY <1>1 DEF ListOK
<1>2. CASE UNCHANGED <<left, prev>>
  BY <1>2 DEF ListOK, Repeats
<1> QED BY <1>1, <1>2

\* Fewer groups left leave the list as it is.
LEMMA ListStandsLess ==
    ASSUME ProgramOK, ListOK, UNCHANGED <<groups, prev>>, left \in Nat, left' \in Nat, left' <= left
    PROVE  ListOK'
<1>1. ASSUME groups # <<>>, NEW i \in DOMAIN groups
      PROVE  groups[i].id + left' <= Least(Len(Groups), MaxGroups)
  <2>1. groups[i].id + left <= Least(Len(Groups), MaxGroups) /\ groups[i].id \in Nat
    BY <1>1, Limits DEF ListOK
  <2>2. Least(Len(Groups), MaxGroups) \in Nat
    BY Limits DEF Least
  <2> QED BY <2>1, <2>2
<1> QED BY <1>1 DEF ListOK, Repeats

\* A group is put after those listed; it is none of them again, and does not
\* repeat the last.
LEMMA ListGrows ==
    ASSUME ProgramOK, ListOK, ListGroup
    PROVE  ListOK'
<1> DEFINE new == [id |-> Group, text |-> Named.text, ids |-> shape.ids,
                   counted |-> shape.counted, fields |-> <<>>]
           n == Len(groups)
<1>1. /\ pc = "shape" /\ left' = left - 1 /\ groups' = Append(groups, new) /\ prev' = Named
      /\ groups # <<>> => ~Repeats(Named, prev)
  BY DEF ListGroup, At
<1>2. Where = "shape"
  BY <1>1 DEF Where, Fetching
<1>3. /\ Group \in DOMAIN Groups /\ left \in Nat /\ left > 0
      /\ left <= Len(Groups) /\ left <= MaxGroups
  BY <1>2, GroupBeingRead DEF GroupPlaces
<1>4. Named.ids = new.ids /\ Named.text = new.text /\ new.id = Group
  <2>1. shape = [name |-> shape.name, text |-> shape.text, ids |-> shape.ids,
                 counted |-> shape.counted, count |-> shape.count]
    BY DEF ProgramOK, ShapeOK
  <2>2. Named.ids = shape.ids
    BY <2>1 DEF Named
  <2> QED BY <2>2
<1> HIDE DEF new
<1>5. groups \in Seq(ToSet(groups) \cup {new}) /\ DOMAIN groups = 1 .. n /\ n \in Nat
  BY SeqMonotonic, LenProperties DEF ProgramOK, GroupsOK, Listed
<1>6. /\ DOMAIN groups' = 1 .. n + 1 /\ Len(groups') = n + 1
      /\ \A i \in 1 .. n : groups'[i] = groups[i]
      /\ groups'[n + 1] = new
  BY <1>1, <1>5, AppendProperties
<1>7. n > 0 => groups # <<>>
  BY EmptySeq
<1> DEFINE last == Least(Len(Groups), MaxGroups)
<1>8. last \in Nat /\ Group = last - left + 1
  BY Limits DEF Group, Least
<1>9. \A i \in 1 .. n : groups[i].id \in DOMAIN Groups /\ groups[i].id + left <= last
  BY <1>5, <1>7 DEF ListOK
<1> HIDE DEF n, last
<1>10. \A i \in 1 .. n : groups[i].id \in Nat
  BY <1>9, Limits
<1>11. (prev' = Named) /\ prev'.ids = groups'[Len(groups')].ids
       /\ prev'.text = groups'[Len(groups')].text
  BY <1>1, <1>4, <1>6
<1>12. ASSUME NEW i \in DOMAIN groups'
       PROVE  groups'[i].id \in DOMAIN Groups /\ groups'[i].id + left' <= last
  <2>1. CASE i \in 1 .. n
    BY <1>1, <1>3, <1>6, <1>8, <1>9, <1>10, <2>1
  <2>2. CASE i = n + 1
    <3>1. groups'[i].id = Group
      BY <1>4, <1>6, <2>2
    <3>2. Group + left' = last
      BY <1>1, <1>3, <1>8
    <3> QED BY <1>3, <1>8, <3>1, <3>2
  <2> QED BY <1>5, <1>6, <2>1, <2>2
<1>13. ASSUME NEW i \in DOMAIN groups', NEW j \in DOMAIN groups', i < j
       PROVE  groups'[i].id < groups'[j].id
  <2>1. i \in 1 .. n /\ groups'[i] = groups[i] /\ groups # <<>>
    BY <1>5, <1>6, <1>7, <1>13 DEF n
  <2>2. CASE j \in 1 .. n
    BY <1>5, <1>6, <1>13, <2>1, <2>2 DEF ListOK
  <2>3. CASE j = n + 1
    <3>1. groups'[j].id = Group
      BY <1>4, <1>6, <2>3
    <3>2. groups[i].id + left <= last /\ groups[i].id \in Nat
      BY <1>9, <1>10, <2>1
    <3> QED BY <1>3, <1>8, <2>1, <3>1, <3>2
  <2> QED BY <1>5, <1>6, <2>2, <2>3
<1>14. ASSUME NEW i \in DOMAIN groups', i + 1 \in DOMAIN groups'
       PROVE  ~Repeats(groups'[i + 1], groups'[i])
  <2>1. i \in 1 .. n /\ groups'[i] = groups[i] /\ groups # <<>>
    BY <1>5, <1>6, <1>7, <1>14 DEF n
  <2>2. CASE i + 1 \in 1 .. n
    BY <1>5, <1>6, <2>1, <2>2 DEF ListOK
  <2>3. CASE i = n
    <3>1. groups'[i + 1] = new
      BY <1>6, <2>3
    <3>2. prev.ids = groups[i].ids /\ prev.text = groups[i].text
      BY <2>1, <2>3 DEF ListOK, n
    <3> QED BY <1>1, <1>4, <2>1, <3>1, <3>2 DEF Repeats
  <2> QED BY <1>5, <2>1, <2>2, <2>3
<1> QED BY <1>11, <1>12, <1>13, <1>14 DEF ListOK, last

\* The fields found are put with the last group.
LEMMA ListKeepsFields ==
    ASSUME ProgramOK, ListOK, EndGroup
    PROVE  ListOK'
<1> DEFINE n == Len(groups)
<1>1. groups # <<>> /\ groups' = [groups EXCEPT ![n].fields = found] /\ UNCHANGED <<left, prev>>
  BY DEF EndGroup
<1>2. groups \in Seq(ToSet(groups)) /\ DOMAIN groups = 1 .. n /\ n \in Nat
  BY LenProperties DEF ProgramOK, GroupsOK, Listed
<1>3. /\ DOMAIN groups' = DOMAIN groups
      /\ \A i \in DOMAIN groups : i # n => groups'[i] = groups[i]
      /\ n \in DOMAIN groups => groups'[n] = [groups[n] EXCEPT !.fields = found]
  BY <1>1
<1>4. ASSUME NEW i \in DOMAIN groups
      PROVE  /\ groups'[i].id = groups[i].id /\ groups'[i].ids = groups[i].ids
             /\ groups'[i].text = groups[i].text
  <2>1. groups[i] = [id |-> groups[i].id, text |-> groups[i].text, ids |-> groups[i].ids,
                     counted |-> groups[i].counted, fields |-> groups[i].fields]
    BY DEF ProgramOK, GroupsOK
  <2> DEFINE g == groups[i]
  <2>2. g = [id |-> g.id, text |-> g.text, ids |-> g.ids, counted |-> g.counted,
             fields |-> g.fields]
    BY <2>1
  <2>3. CASE i = n
    <3>1. groups'[i] = [g EXCEPT !.fields = found]
      BY <1>3, <2>3
    <3> HIDE DEF g
    <3>2. /\ [g EXCEPT !.fields = found].id = g.id /\ [g EXCEPT !.fields = found].ids = g.ids
          /\ [g EXCEPT !.fields = found].text = g.text
      BY <2>2
    <3> QED BY <3>1, <3>2 DEF g
  <2> QED BY <1>3, <2>3
<1>5. Len(groups') = n
  <2>1. groups' \in [1 .. n -> ToSet(groups')]
    BY <1>1, <1>2, <1>3 DEF ToSet
  <2>2. groups' \in Seq(ToSet(groups'))
    BY <1>2, <2>1, SeqDef
  <2> QED BY <1>2, <1>3, <2>2, LenProperties
<1>6. n \in DOMAIN groups
  BY <1>1, <1>2, EmptySeq
<1> HIDE DEF n
<1>7. prev'.ids = groups'[Len(groups')].ids /\ prev'.text = groups'[Len(groups')].text
  BY <1>1, <1>4, <1>5, <1>6 DEF ListOK, n
<1>8. \A i \in DOMAIN groups' :
         groups'[i].id \in DOMAIN Groups /\ groups'[i].id + left' <= Least(Len(Groups), MaxGroups)
  BY <1>1, <1>3, <1>4 DEF ListOK
<1>9. \A i, j \in DOMAIN groups' : i < j => groups'[i].id < groups'[j].id
  BY <1>1, <1>3, <1>4 DEF ListOK
<1>10. \A i \in DOMAIN groups' : i + 1 \in DOMAIN groups' => ~Repeats(groups'[i + 1], groups'[i])
  BY <1>1, <1>3, <1>4 DEF ListOK, Repeats
<1> QED BY <1>7, <1>8, <1>9, <1>10 DEF ListOK

LEMMA ListInGroups ==
    ASSUME ProgramOK, ListOK, GroupStep
    PROVE  ListOK'
<1>1. CASE AskName \/ AskCount \/ TakeCount \/ TakeIds
  <2>1. UNCHANGED <<groups, left, prev>>
    BY <1>1 DEF AskName, AskCount, TakeCount, TakeIds, menu
  <2> QED BY <2>1, ListStands
<1>2. CASE TakeRecount \/ EndAtRepeat
  <2>1. /\ pc \in {"recount", "shape"} /\ left' \in {left, left - 1, 0}
        /\ UNCHANGED <<groups, prev>>
    BY <1>2 DEF TakeRecount, SkipGroup, EndAtRepeat, At
  <2>2. Where = pc /\ Where \in GroupPlaces \ {"group"}
    BY <2>1 DEF Where, Fetching, GroupPlaces
  <2>3. left \in Nat /\ left > 0
    BY <2>2, GroupBeingRead
  <2> QED BY <2>1, <2>3, ListStandsLess
<1>3. CASE ListGroup
  BY <1>3, ListGrows
<1>4. CASE EndGroup
  BY <1>4, ListKeepsFields
<1> QED BY <1>1, <1>2, <1>3, <1>4 DEF GroupStep

LEMMA ListInProgram ==
    ASSUME ProgramOK, ListOK, Program
    PROVE  ListOK'
<1>1. CASE StringStep \/ FieldStep \/ IdentityStep \/ StartMenu \/ EndMenu \/ ProbeStep
  <2>1. UNCHANGED <<groups, left, prev>>
    BY <1>1 DEF StringStep, BeginFetch, TakeChunks, FieldStep, AskMeta, TakeMeta, TakeMoreMeta,
       LeaveOutField, AskOptions, FetchNames, PutField, IdentityStep, Identify, AskProperties,
       FetchProperties, PutIdentities, StartMenu, EndMenu, ProbeStep, StartProbe, TakeProbe,
       EndProbe, menu
  <2> QED BY <2>1, ListStands
<1>2. CASE CatalogStep \/ OutputStep \/ TakeTotal
  <2>1. UNCHANGED groups /\ pc \in {"idle", "spot", "spotted", "outputs", "output", "listed",
                                    "total"}
    BY <1>2 DEF CatalogStep, ResolveCatalog, FetchSpot, TakeSpot, PutCatalog, OutputStep,
       StartOutputs, CountOutputs, AskOutput, TakeOutput, EndOutputs, TakeTotal, Begins, At, menu
  <2>2. Where = pc /\ Where \in Beginnings \cup CatalogPlaces \cup OutputPlaces
    BY <2>1 DEF Where, Fetching, Beginnings, CatalogPlaces, OutputPlaces
  <2>3. groups = <<>>
    BY <2>2 DEF ProgramOK, LeftOK
  <2> QED BY <2>1, <2>3, ListStands
<1>3. CASE GroupStep
  BY <1>3, ListInGroups
<1>4. CASE Done
  BY <1>4 DEF Done, ListOK
<1> QED BY <1>1, <1>2, <1>3, <1>4 DEF Program, MenuStep

LEMMA ListInvariant == Spec => []ListOK
<1>1. Init => ListOK
  BY DEF Init, ListOK
<1>2. DiscoveryInv /\ ListOK /\ [Next]_vars => ListOK'
  <2> SUFFICES ASSUME DiscoveryInv, ListOK, [Next]_vars
               PROVE  ListOK'
    OBVIOUS
  <2>1. CASE UNCHANGED vars \/ NotAsking
    <3>1. UNCHANGED <<groups, left, prev>>
      BY <2>1 DEF vars, NotAsking, menu
    <3> QED BY <3>1, ListStands
  <2>2. CASE Program
    BY <2>2, ListInProgram DEF DiscoveryInv
  <2> QED BY <2>1, <2>2 DEF Next
<1> QED BY <1>1, <1>2, Invariant, PTL DEF Spec

\* A device that tells each field in one group, but tells the last group again
\* past its end as often as it likes, has no field listed twice, unless a name
\* or a field id was lost of one of the two groups or of one between them.
THEOREM FieldsAreListedOnce == TellsLastAgain => (Spec => []ListedOnce)
<1>1. ASSUME TellsLastAgain, ProgramOK, ListOK
      PROVE  ListedOnce
  <2> SUFFICES ASSUME NEW i \in DOMAIN groups, NEW j \in DOMAIN groups, i < j,
                      ToSet(groups[i].ids) \cap ToSet(groups[j].ids) # {},
                      \A k \in i .. j : ReadWhole(groups[k])
               PROVE  FALSE
    BY DEF ListedOnce
  <2>1. DOMAIN groups = 1 .. Len(groups) /\ Len(groups) \in Nat
    BY LenProperties DEF ProgramOK, GroupsOK, Listed
  <2>2. groups # <<>> /\ i + 1 \in DOMAIN groups /\ i \in i .. j /\ i + 1 \in i .. j /\ j \in i .. j
    BY <2>1
  <2> DEFINE g == groups[i].id
             h == groups[i + 1].id
             m == groups[j].id
  <2>3. g \in DOMAIN Groups /\ h \in DOMAIN Groups /\ m \in DOMAIN Groups
    BY <1>1, <2>2 DEF ListOK
  <2>4. g < m /\ g < h /\ h <= m
    <3>1. g \in Nat /\ h \in Nat /\ m \in Nat
      BY <2>3, Limits
    <3>2. g < m /\ g < h
      BY <1>1, <2>1, <2>2 DEF ListOK
    <3>3. i + 1 = j \/ i + 1 < j
      BY <2>1
    <3>4. h = m \/ h < m
      BY <1>1, <2>2, <3>3 DEF ListOK
    <3> QED BY <3>1, <3>2, <3>4
  <2>5. /\ groups[i].ids = Listable(g) /\ groups[i + 1].ids = Listable(h)
        /\ groups[j].ids = Listable(m)
        /\ groups[i].text = NameOf(g) /\ groups[i + 1].text = NameOf(h)
    BY <2>2 DEF ReadWhole
  <2> HIDE DEF g, h, m
  <2>6. \A k \in g .. m : Groups[k].name = Groups[g].name /\ Listable(k) = Listable(g)
    BY <1>1, <2>3, <2>4, <2>5 DEF TellsLastAgain
  <2>7. h \in g .. m
    BY <2>3, <2>4, Limits
  <2>8. Groups[h].name = Groups[g].name /\ Listable(h) = Listable(g)
    BY <2>6, <2>7
  <2>9. NameOf(h) = NameOf(g)
    BY <2>8 DEF NameOf
  <2>10. groups[i].ids # <<>>
    BY SetOfEmpty
  <2>11. Repeats(groups[i + 1], groups[i])
    BY <2>5, <2>8, <2>9, <2>10 DEF Repeats
  <2> QED BY <1>1, <2>2, <2>11 DEF ListOK
<1>2. TellsLastAgain /\ DiscoveryInv /\ ListOK => ListedOnce
  BY <1>1 DEF DiscoveryInv
<1>3. ASSUME TellsLastAgain
      PROVE  Spec => []ListedOnce
  <2>1. DiscoveryInv /\ ListOK => ListedOnce
    BY <1>2, <1>3
  <2> QED BY <2>1, Invariant, ListInvariant, PTL
<1> QED BY <1>3
=============================================================================
