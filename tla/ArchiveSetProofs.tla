-------------------------- MODULE ArchiveSetProofs --------------------------
(***************************************************************************)
(* Theorems about the set of archives and the patch chains it relies on,    *)
(* for any archives, patches, groupings of them, entries and list files.    *)
(***************************************************************************)
EXTENDS ArchiveSet, WellFoundedInduction, TLAPS

-----------------------------------------------------------------------------
\* MINIMA AND MAXIMA

\* A set of naturals that is not empty has a least element: the order of the
\* naturals is well founded.
LEMMA LeastNatural ==
  ASSUME NEW T \in SUBSET Nat, T # {}
  PROVE  \E x \in T : \A y \in T : x <= y
<1> DEFINE Below == OpToRel(<, Nat)
<1>1. IsWellFoundedOn(Below, Nat)
  BY NatLessThanWellFounded
<1>2. \A x, y \in Nat : y < x => <<y, x>> \in Below
  BY DEF OpToRel
<1> HIDE DEF Below
<1>3. PICK x \in T : \A y \in T : ~(<<y, x>> \in Below)
  BY <1>1, WFMin
<1>4. ASSUME NEW y \in T
      PROVE  x <= y
  <2>1. x \in Nat /\ y \in Nat
    OBVIOUS
  <2>2. ~(y < x)
    BY <1>2, <1>3, <2>1
  <2> QED BY <2>1, <2>2
<1> QED BY <1>4

\* Min of the community modules is what its name says.
LEMMA MinOfNaturals ==
  ASSUME NEW S \in SUBSET Nat, S # {}
  PROVE  Min(S) \in S /\ \A x \in S : Min(S) <= x
BY LeastNatural DEF Min

\* An upper bound in the set is its maximum, be the set finite or not.
LEMMA MaxIs ==
  ASSUME NEW S \in SUBSET Nat, NEW m \in S, \A x \in S : x <= m
  PROVE  Max(S) = m
<1>1. \A x \in S : m >= x
  OBVIOUS
<1>2. Max(S) \in S /\ \A x \in S : Max(S) >= x
  BY <1>1 DEF Max
<1>3. Max(S) \in Nat /\ m \in Nat /\ Max(S) <= m /\ Max(S) >= m
  BY <1>1, <1>2
<1> QED BY <1>3

\* A lower bound in the set is its minimum.
LEMMA MinIs ==
  ASSUME NEW S \in SUBSET Nat, NEW m \in S, \A x \in S : m <= x
  PROVE  Min(S) = m
<1>1. Min(S) \in S /\ \A x \in S : Min(S) <= x
  BY DEF Min
<1>2. Min(S) \in Nat /\ m \in Nat /\ Min(S) <= m /\ m <= Min(S)
  BY <1>1
<1> QED BY <1>2

\* A set of indices has a greatest element: the least one, counted from above.
LEMMA MaxOfIndices ==
  ASSUME NEW n \in Nat, NEW S \in SUBSET (1..n), S # {}
  PROVE  Max(S) \in S /\ \A x \in S : Max(S) >= x
<1> DEFINE T == {n - x : x \in S}
<1>1. T \in SUBSET Nat /\ T # {}
  <2>1. \A x \in S : n - x \in Nat
    OBVIOUS
  <2> QED BY <2>1
<1> HIDE DEF T
<1>2. PICK t \in T : \A y \in T : t <= y
  BY <1>1, LeastNatural
<1>3. PICK m \in S : t = n - m
  BY <1>2 DEF T
<1>4. \A x \in S : m >= x
  <2>1. \A x \in S : n - m <= n - x
    BY <1>2, <1>3 DEF T
  <2> QED BY <2>1
<1> QED BY <1>4 DEF Max

\* Appending to a sequence adds one element.
LEMMA RangeOfAppend ==
  ASSUME NEW D, NEW s \in Seq(D), NEW x \in D
  PROVE  Range(Append(s, x)) = Range(s) \cup {x}
<1>1. /\ DOMAIN Append(s, x) = 1..Len(s) + 1 /\ DOMAIN s = 1..Len(s) /\ Len(s) \in Nat
      /\ \A k \in 1..Len(s) : Append(s, x)[k] = s[k]
      /\ Append(s, x)[Len(s) + 1] = x
  OBVIOUS
<1> QED BY <1>1 DEF Range


-----------------------------------------------------------------------------
\* PATCH CHAINS

\* The entries of a file handle: the newest complete one is the oldest of
\* them, and everything above it is a patch.
LEMMA OpenedFacts ==
  ASSUME NEW chain \in Seq(EntryKinds), Opened(chain) # {}
  PROVE  /\ Opened(chain) \subseteq DOMAIN chain
         /\ Plain(chain) # {}
         /\ Min(Opened(chain)) = Max(Plain(chain))
         /\ Max(Plain(chain)) \in Opened(chain) /\ IsPlain(chain[Max(Plain(chain))])
         /\ \A i \in Opened(chain) : i = Max(Plain(chain)) \/ IsPatch(chain[i])
<1> DEFINE n == Len(chain)
<1>1. n \in Nat /\ DOMAIN chain = 1..n
  OBVIOUS
<1>2. Plain(chain) # {} /\ Plain(chain) \in SUBSET (1..n)
  BY <1>1 DEF Opened, Plain
<1>3. Opened(chain) = {i \in 1..n : i >= Max(Plain(chain)) /\ chain[i] # "absent"}
  BY <1>1, <1>2 DEF Opened
<1> DEFINE m == Max(Plain(chain))
<1>4. m \in Plain(chain) /\ \A x \in Plain(chain) : m >= x
  BY <1>1, <1>2, MaxOfIndices
<1>5. m \in 1..n /\ IsPlain(chain[m])
  BY <1>1, <1>4 DEF Plain
<1>6. m \in Opened(chain)
  BY <1>3, <1>5 DEF IsPlain
<1>7. \A i \in Opened(chain) : i = m \/ IsPatch(chain[i])
  <2>1. ASSUME NEW i \in Opened(chain), i # m
        PROVE  IsPatch(chain[i])
    <3>1. i \in 1..n /\ i >= m /\ chain[i] # "absent" /\ chain[i] \in EntryKinds
      BY <1>1, <1>3
    <3>2. i \notin Plain(chain)
      BY <1>4, <1>5, <2>1, <3>1
    <3>3. ~IsPlain(chain[i])
      BY <1>1, <3>1, <3>2 DEF Plain
    <3> QED BY <3>1, <3>3 DEF IsPlain, IsPatch, EntryKinds
  <2> QED BY <2>1
<1>8. Min(Opened(chain)) = m
  <2>1. Opened(chain) \in SUBSET (1..n)
    BY <1>3
  <2>0. Opened(chain) \in SUBSET Nat
    BY <2>1
  <2> HIDE DEF n, m
  <2>2. Min(Opened(chain)) \in Opened(chain) /\ \A x \in Opened(chain) : Min(Opened(chain)) <= x
    BY <1>1, <1>6, <2>1, <2>0, MinOfNaturals
  <2>3. Min(Opened(chain)) >= m /\ Min(Opened(chain)) \in 1..n
    BY <1>3, <2>1, <2>2 DEF m
  <2>4. Min(Opened(chain)) <= m
    BY <1>6, <2>2
  <2> QED BY <1>5, <2>3, <2>4
<1> QED BY <1>1, <1>2, <1>3, <1>5, <1>6, <1>7, <1>8

\* The assertion of PatchFileData (SFilePatchArchives.cpp:440): every entry
\* linked above the base of a file handle is a patch.
THEOREM LinkedArePatches ==
  ASSUME NEW chain \in Seq(EntryKinds), NEW i \in Opened(chain), i > Min(Opened(chain))
  PROVE  IsPatch(chain[i])
<1>1. Min(Opened(chain)) = Max(Plain(chain)) /\ Opened(chain) \subseteq DOMAIN chain
  BY OpenedFacts
<1>2. i \in DOMAIN chain /\ i # Max(Plain(chain))
  BY <1>1
<1> QED BY <1>2, OpenedFacts

-----------------------------------------------------------------------------
\* THE INDUCTIVE INVARIANT

Alive == pc # "destroyed"
InInit == pc \in {"opening", "patching", "failed"}
InUse == pc \in {"ready", "listing"} \/ Reading

\* The archive whose serial number is k.
FirstOf(k) == IF k <= Len(plan.base) THEN plan.base[k] ELSE plan.locale[k - Len(plan.base)]
Planned == Len(plan.base) + Len(plan.locale)

\* Init works through its lists in order: the handles it keeps are the
\* archives it has passed, and the handle in hand is the next one.
ListsOK ==
    /\ pc \in {"opening", "patching"} => Len(m_mpqList) = Serial(phase, next) - 1
    /\ pc = "patching" =>
          /\ next <= Len(ListOf(phase))
          /\ patched <= Len(PatchesOf(phase))
          /\ handle.archives # <<>> /\ handle.archives[1] = ListOf(phase)[next]
    /\ InUse => Len(m_mpqList) = Planned
    /\ Alive => \A k \in 1..Len(m_mpqList) :
          m_mpqList[k].archives # <<>> /\ m_mpqList[k].archives[1] = FirstOf(k)

\* Which archives are open, with the one Init has not put in the list yet.
HandlesOK ==
    /\ pc \in {"opening", "ready", "listing"} \/ Reading => open = KeptHandles
    /\ pc = "patching" => open = KeptHandles \cup {handle.id}
    /\ pc = "failed" => \/ open = KeptHandles
                        \/ /\ open = KeptHandles \cup {handle.id}
                           /\ patched < Len(PatchesOf(phase))
    /\ pc = "destroyed" => \/ open = {}
                           \/ open = {handle.id} /\ patched < Len(PatchesOf(phase))

\* Where ReadFile is, what it holds.
Holding(f, b) == files = f /\ buffers = b
ReadOK ==
    /\ InInit => buff = Nothing /\ Holding(0, 0)
    /\ pc \in {"ready", "listing", "destroyed"} =>
          /\ Holding(0, IF buff = Nothing THEN 0 ELSE 1)
          /\ buff # Nothing => size = 1
    /\ pc = "finding" => buff = Nothing /\ Holding(0, 0)
    /\ pc = "sizing" => buff = Nothing /\ Holding(1, 0)
    /\ pc = "reading" => buff = Nothing /\ Holding(1, 1) /\ size = 1
    /\ pc = "closing" =>
          /\ Holding(1, IF buff = Nothing THEN 0 ELSE 1)
          /\ buff # Nothing => size = 1
    /\ Reading \/ pc = "listing" => it <= Len(m_mpqList)
    /\ Reading => name \in Names
    /\ pc \in {"sizing", "reading", "closing"} => it > 0

\* GetFileList has the names of the archives it has passed.
NamesOK ==
    pc = "listing" =>
        /\ list = UNION {listing[FirstOf(k)] : k \in it + 1..Planned}
        /\ ok <=> list # {}

IInv == TypeOK /\ ListsOK /\ HandlesOK /\ ReadOK /\ NamesOK

-----------------------------------------------------------------------------
\* HANDLES

\* The types of the plan, unfolded.
LEMMA PlanFacts ==
  ASSUME TypeOK
  PROVE  /\ plan.base \in Seq(Archives) /\ plan.basePatch \in Seq(Archives)
         /\ plan.locale \in Seq(Archives) /\ plan.localePatch \in Seq(Archives)
         /\ Len(plan.base) \in Nat /\ Len(plan.locale) \in Nat /\ Planned \in Nat
         /\ \A p \in {"base", "locale"} :
               ListOf(p) \in Seq(Archives) /\ PatchesOf(p) \in Seq(Archives)
               /\ Len(ListOf(p)) \in Nat /\ Len(PatchesOf(p)) \in Nat
<1>1. /\ plan.base \in Seq(Archives) /\ plan.basePatch \in Seq(Archives)
      /\ plan.locale \in Seq(Archives) /\ plan.localePatch \in Seq(Archives)
  BY DEF TypeOK, PlanType
<1>2. Len(plan.base) \in Nat /\ Len(plan.locale) \in Nat
  BY <1>1
<1>3. Planned \in Nat
  <2> DEFINE b == Len(plan.base)
             l == Len(plan.locale)
  <2>1. b \in Nat /\ l \in Nat /\ Planned = b + l
    BY <1>2 DEF Planned
  <2> HIDE DEF b, l
  <2> QED BY <2>1
<1>4. \A p \in {"base", "locale"} :
         ListOf(p) \in Seq(Archives) /\ PatchesOf(p) \in Seq(Archives)
         /\ Len(ListOf(p)) \in Nat /\ Len(PatchesOf(p)) \in Nat
  BY <1>1 DEF ListOf, PatchesOf
<1> QED BY <1>1, <1>2, <1>3, <1>4

\* The archive Init opens next is the one with its serial number.
LEMMA SerialFacts ==
  ASSUME TypeOK, next <= Len(ListOf(phase))
  PROVE  /\ Serial(phase, next) \in 1..Planned
         /\ FirstOf(Serial(phase, next)) = ListOf(phase)[next]
         /\ ListOf(phase)[next] \in Archives
<1> DEFINE b == Len(plan.base)
           l == Len(plan.locale)
<1>1. phase \in {"base", "locale"} /\ next \in 1..Len(ListOf(phase)) + 1
  BY DEF TypeOK
<1>2. plan.base \in Seq(Archives) /\ plan.locale \in Seq(Archives) /\ b \in Nat /\ l \in Nat
  BY PlanFacts
<1>3. ListOf(phase) \in Seq(Archives) /\ Len(ListOf(phase)) \in Nat
  BY <1>1, PlanFacts
<1>4. next \in 1..Len(ListOf(phase))
  BY <1>1, <1>3
<1>5. Planned = b + l /\ \A k \in Int : FirstOf(k) = IF k <= b THEN plan.base[k] ELSE plan.locale[k - b]
  BY DEF Planned, FirstOf
<1>6. ListOf(phase)[next] \in Archives
  BY <1>3, <1>4
<1>7. CASE phase = "base"
  <2>1. next \in 1..b /\ ListOf(phase) = plan.base /\ Serial(phase, next) = next
    BY <1>4, <1>7 DEF ListOf, Serial
  <2> HIDE DEF b, l
  <2>2. next <= b /\ next \in 1..b + l
    BY <1>2, <2>1
  <2> QED BY <1>5, <1>6, <2>1, <2>2
<1>8. CASE phase = "locale"
  <2>1. next \in 1..l /\ ListOf(phase) = plan.locale /\ Serial(phase, next) = b + next
    BY <1>4, <1>8 DEF ListOf, Serial
  <2> HIDE DEF b, l
  <2>2. b + next - b = next /\ ~(b + next <= b) /\ b + next \in 1..b + l
    BY <1>2, <2>1
  <2>3. FirstOf(b + next) = plan.locale[next]
    <3>1. PICK k \in Int : k = b + next
      BY <1>2, <2>1
    <3>2. FirstOf(k) = plan.locale[k - b]
      BY <1>2, <1>5, <2>2, <3>1
    <3>3. k - b = next
      BY <1>2, <2>1, <3>1
    <3> QED BY <3>1, <3>2, <3>3, Zenon
  <2> QED BY <1>5, <1>6, <2>1, <2>2, <2>3, Zenon
<1> QED BY <1>1, <1>7, <1>8

\* The chain ReadFile looks at is a chain of entries.
LEMMA HereIsChain ==
  ASSUME TypeOK, it > 0, it <= Len(m_mpqList), name \in Names
  PROVE  Here \in Seq(EntryKinds) /\ Opened(Here) \in SUBSET Nat
<1> DEFINE a == m_mpqList[it].archives
<1>1. a \in Seq(Archives)
  <2>1. m_mpqList \in Seq(HandleType) /\ it \in Nat
    BY DEF TypeOK
  <2>2. m_mpqList[it] \in HandleType
    BY <2>1
  <2> QED BY <2>2 DEF HandleType
<1>2. \A i \in 1..Len(a) : content[a[i]][name] \in EntryKinds
  BY <1>1 DEF TypeOK, ContentType
<1>3. Here = [i \in 1..Len(a) |-> content[a[i]][name]]
  BY DEF Here, ChainOf
<1>4. Len(a) \in Nat
  BY <1>1
<1> HIDE DEF a
<1>5. Here \in Seq(EntryKinds)
  BY <1>2, <1>3, <1>4
<1> QED BY <1>5 DEF Opened

-----------------------------------------------------------------------------
\* EVERY STEP KEEPS THE INVARIANT

\* A step inside Init has nothing to do with the lookups.
LEMMA InitFrameKeeps ==
  ASSUME IInv, InitFrame, InInit, InInit'
  PROVE  ReadOK' /\ NamesOK'
<1>1. UNCHANGED <<files, buffers, buff, size, it>>
  BY DEF InitFrame, readVars
<1>2. /\ pc' \in {"opening", "patching", "failed"} /\ buff = Nothing /\ Holding(0, 0)
  BY DEF IInv, ReadOK, InInit
<1> QED BY <1>1, <1>2 DEF ReadOK, NamesOK, InInit, Reading, Holding, Nothing

\* A step inside a lookup has nothing to do with the archives.
LEMMA LookupFrameKeeps ==
  ASSUME IInv, LookupFrame, InUse, InUse'
  PROVE  ListsOK' /\ HandlesOK'
<1>1. UNCHANGED <<plan, phase, next, patched, handle, m_mpqList, open>>
  BY DEF LookupFrame, planVars, initVars
<1>2. ListsOK'
  BY <1>1 DEF IInv, ListsOK, InUse, Reading, Alive, Planned, FirstOf, ListOf, PatchesOf, Serial
<1>3. HandlesOK'
  BY <1>1 DEF IInv, HandlesOK, InUse, Reading, KeptHandles
<1> QED BY <1>2, <1>3

\* What is left of TypeOK for a step inside Init, and inside a lookup.
LEMMA InitFrameTypes ==
  ASSUME TypeOK, InitFrame,
         pc' \in {"opening", "patching", "failed", "ready", "destroyed"},
         phase' \in {"base", "locale"},
         (next \in 1..Len(ListOf(phase)) + 1)', patched' \in Nat,
         handle' \in HandleType, m_mpqList' \in Seq(HandleType),
         open' \subseteq 1..Planned
  PROVE  TypeOK'
<1>1. plan' = plan /\ content' = content /\ listing' = listing
  BY DEF InitFrame, planVars
<1>2. /\ name' = name /\ it' = it /\ size' = size /\ buff' = buff /\ files' = files
      /\ buffers' = buffers /\ list' = list /\ ok' = ok /\ calls' = calls
  BY DEF InitFrame, readVars, listVars
<1>3. open' \subseteq 1..Len(plan'.base) + Len(plan'.locale)
  BY <1>1 DEF Planned
<1> QED BY <1>1, <1>2, <1>3 DEF TypeOK

LEMMA LookupFrameTypes ==
  ASSUME TypeOK, LookupFrame,
         pc' \in {"ready", "finding", "sizing", "reading", "closing", "listing"},
         name' \in Names \cup {NoName}, it' \in Nat, size' \in {0, 1},
         buff' \in [archive : Nat, parts : SUBSET Nat],
         files' \in Nat, buffers' \in Nat, list' \subseteq Names, ok' \in BOOLEAN
  PROVE  TypeOK'
<1>1. plan' = plan /\ content' = content /\ listing' = listing
  BY DEF LookupFrame, planVars
<1>2. /\ phase' = phase /\ next' = next /\ patched' = patched /\ handle' = handle
      /\ m_mpqList' = m_mpqList /\ open' = open /\ calls' = calls
  BY DEF LookupFrame, initVars
<1>3. ListOf(phase)' = ListOf(phase)
  BY <1>1, <1>2 DEF ListOf
<1> QED BY <1>1, <1>2, <1>3 DEF TypeOK

\* Init

LEMMA OpenArchiveInv == IInv /\ OpenArchive => IInv'
<1> SUFFICES ASSUME IInv, OpenArchive
             PROVE  IInv'
  OBVIOUS
<1> DEFINE a == ListOf(phase)[next]
           k == Serial(phase, next)
<1>1. TypeOK /\ InitFrame /\ InInit /\ InInit' /\ pc = "opening" /\ pc' = "patching"
  BY DEF IInv, OpenArchive, InInit
<1>2. /\ handle' = [id |-> k, archives |-> <<a>>] /\ open' = open \cup {k} /\ patched' = 0
      /\ plan' = plan /\ phase' = phase /\ next' = next /\ m_mpqList' = m_mpqList
      /\ next <= Len(ListOf(phase))
  BY DEF OpenArchive, InitFrame, planVars
<1>3. a \in Archives /\ k \in 1..Planned /\ Planned \in Nat
  BY <1>1, <1>2, SerialFacts, PlanFacts
<1>4. /\ ListOf(phase)' = ListOf(phase) /\ PatchesOf(phase)' = PatchesOf(phase)
      /\ Serial(phase, next)' = k /\ KeptHandles' = KeptHandles
      /\ \A j : FirstOf(j)' = FirstOf(j)
  BY <1>2 DEF ListOf, PatchesOf, Serial, KeptHandles, FirstOf
<1>5. TypeOK'
  <2>1. handle' \in HandleType
    BY <1>2, <1>3 DEF HandleType
  <2>2. open' \subseteq 1..Planned
    BY <1>1, <1>2, <1>3 DEF TypeOK, Planned
  <2>3. (next \in 1..Len(ListOf(phase)) + 1)' /\ phase' \in {"base", "locale"}
    BY <1>1, <1>2, <1>4 DEF TypeOK
  <2>4. m_mpqList' \in Seq(HandleType)
    BY <1>1, <1>2 DEF TypeOK
  <2> QED BY <1>1, <1>2, <2>1, <2>2, <2>3, <2>4, InitFrameTypes
<1>6. ListsOK'
  <2>1. (handle.archives # <<>> /\ handle.archives[1] = ListOf(phase)[next])'
    BY <1>2, <1>4
  <2>2. 0 <= Len(PatchesOf(phase))
    BY <1>1, PlanFacts DEF TypeOK
  <2> HIDE DEF a, k
  <2> QED BY <1>1, <1>2, <1>4, <2>1, <2>2 DEF IInv, ListsOK, InUse, Reading, Alive, k
<1>7. HandlesOK'
  BY <1>1, <1>2, <1>4 DEF IInv, HandlesOK, Reading
<1>8. ReadOK' /\ NamesOK'
  BY <1>1, InitFrameKeeps
<1> QED BY <1>5, <1>6, <1>7, <1>8 DEF IInv

LEMMA ApplyPatchInv == IInv /\ ApplyPatch => IInv'
<1> SUFFICES ASSUME IInv, ApplyPatch
             PROVE  IInv'
  OBVIOUS
<1> DEFINE p == PatchesOf(phase)[patched + 1]
<1>1. TypeOK /\ InitFrame /\ InInit /\ InInit' /\ pc = "patching" /\ pc' = "patching"
  BY DEF IInv, ApplyPatch, InInit
<1>2. /\ handle' = [handle EXCEPT !.archives = Append(@, p)]
      /\ patched' = patched + 1 /\ patched < Len(PatchesOf(phase))
      /\ open' = open /\ plan' = plan /\ phase' = phase /\ next' = next
      /\ m_mpqList' = m_mpqList
  BY DEF ApplyPatch, InitFrame, planVars
<1>3. /\ ListOf(phase)' = ListOf(phase) /\ PatchesOf(phase)' = PatchesOf(phase)
      /\ Serial(phase, next)' = Serial(phase, next) /\ KeptHandles' = KeptHandles
      /\ \A j : FirstOf(j)' = FirstOf(j)
  BY <1>2 DEF ListOf, PatchesOf, Serial, KeptHandles, FirstOf
<1>4. /\ PatchesOf(phase) \in Seq(Archives) /\ Len(PatchesOf(phase)) \in Nat
      /\ patched \in Nat /\ handle \in HandleType
  BY <1>1, PlanFacts DEF TypeOK
<1>5. p \in Archives
  BY <1>2, <1>4
<1>6. handle.archives \in Seq(Archives) /\ handle.archives # <<>>
      /\ handle.archives[1] = ListOf(phase)[next]
  BY <1>1, <1>4 DEF HandleType, IInv, ListsOK
<1>7. /\ handle'.archives = Append(handle.archives, p) /\ handle'.id = handle.id
      /\ handle' \in HandleType
  <2>1. Append(handle.archives, p) \in Seq(Archives)
    BY <1>5, <1>6
  <2> HIDE DEF p
  <2>2. handle.id \in Nat
    BY <1>4 DEF HandleType
  <2>3. handle' = [id |-> handle.id, archives |-> Append(handle.archives, p)]
    BY <1>2, <1>4 DEF HandleType
  <2> QED BY <2>1, <2>2, <2>3 DEF HandleType
<1>8. handle'.archives # <<>> /\ handle'.archives[1] = handle.archives[1]
  BY <1>5, <1>6, <1>7
<1>9. TypeOK'
  <2>1. /\ (next \in 1..Len(ListOf(phase)) + 1)' /\ phase' \in {"base", "locale"}
        /\ m_mpqList' \in Seq(HandleType) /\ open' \subseteq 1..Planned
    BY <1>1, <1>2, <1>3 DEF TypeOK, Planned
  <2>2. patched' \in Nat
    BY <1>2, <1>4
  <2> QED BY <1>1, <1>7, <2>1, <2>2, InitFrameTypes
<1>10. ListsOK'
  <2>1. patched' <= Len(PatchesOf(phase)')
    BY <1>2, <1>3, <1>4
  <2> QED BY <1>1, <1>2, <1>3, <1>6, <1>8, <2>1 DEF IInv, ListsOK, InUse, Reading, Alive
<1>11. HandlesOK'
  BY <1>1, <1>2, <1>3, <1>7 DEF IInv, HandlesOK, Reading
<1>12. ReadOK' /\ NamesOK'
  BY <1>1, InitFrameKeeps
<1> QED BY <1>9, <1>10, <1>11, <1>12 DEF IInv

LEMMA PushBackInv == IInv /\ PushBack => IInv'
<1> SUFFICES ASSUME IInv, PushBack
             PROVE  IInv'
  OBVIOUS
<1> DEFINE n == Len(m_mpqList)
           k == Serial(phase, next)
<1>1. TypeOK /\ InitFrame /\ InInit /\ InInit' /\ pc = "patching" /\ pc' = "opening"
  BY DEF IInv, PushBack, InInit
<1>2. /\ m_mpqList' = Append(m_mpqList, handle) /\ next' = next + 1
      /\ handle' = handle /\ patched' = patched /\ open' = open
      /\ plan' = plan /\ phase' = phase
  BY DEF PushBack, InitFrame, planVars
<1>3. /\ ListOf(phase)' = ListOf(phase) /\ PatchesOf(phase)' = PatchesOf(phase)
      /\ \A j : FirstOf(j)' = FirstOf(j)
  BY <1>2 DEF ListOf, PatchesOf, FirstOf
<1>4. /\ next <= Len(ListOf(phase)) /\ n = k - 1
      /\ handle.archives # <<>> /\ handle.archives[1] = ListOf(phase)[next]
      /\ \A j \in 1..n : m_mpqList[j].archives # <<>> /\ m_mpqList[j].archives[1] = FirstOf(j)
      /\ open = KeptHandles \cup {handle.id}
  BY <1>1 DEF IInv, ListsOK, HandlesOK, Alive
<1>5. k \in 1..Planned /\ FirstOf(k) = ListOf(phase)[next]
  BY <1>1, <1>4, SerialFacts
<1>6. /\ m_mpqList \in Seq(HandleType) /\ handle \in HandleType /\ n \in Nat
      /\ phase \in {"base", "locale"} /\ next \in Nat /\ Len(ListOf(phase)) \in Nat
      /\ next \in 1..Len(ListOf(phase)) + 1
  BY <1>1, PlanFacts DEF TypeOK
<1>7. /\ m_mpqList' \in Seq(HandleType) /\ Len(m_mpqList') = n + 1
      /\ m_mpqList'[n + 1] = handle /\ \A j \in 1..n : m_mpqList'[j] = m_mpqList[j]
  BY <1>2, <1>6
<1>8. KeptHandles' = KeptHandles \cup {handle.id}
  <2>1. Range(m_mpqList') = Range(m_mpqList) \cup {handle}
    BY <1>2, <1>6, RangeOfAppend
  <2> QED BY <2>1 DEF KeptHandles
<1>9. TypeOK'
  <2>1. next' \in 1..Len(ListOf(phase)') + 1
    <3> DEFINE l == Len(ListOf(phase))
    <3>1. l \in Nat /\ next \in 1..l + 1 /\ next <= l /\ Len(ListOf(phase)') = l
      BY <1>3, <1>4, <1>6
    <3> HIDE DEF l
    <3> QED BY <1>2, <3>1
  <2>2. (next \in 1..Len(ListOf(phase)) + 1)'
    BY <2>1
  <2>3. handle' \in HandleType /\ patched' \in Nat /\ open' \subseteq 1..Planned
    BY <1>1, <1>2 DEF TypeOK, Planned
  <2> QED BY <1>1, <1>2, <1>6, <1>7, <2>2, <2>3, InitFrameTypes
<1>10. ListsOK'
  <2>1. Serial(phase, next)' = k + 1
    <3> DEFINE b == Len(plan.base)
    <3>1. b \in Nat
      BY <1>1, PlanFacts
    <3>2. k = (IF phase = "base" THEN next ELSE b + next)
          /\ Serial(phase, next)' = (IF phase = "base" THEN next + 1 ELSE b + (next + 1))
      BY <1>2 DEF Serial
    <3> HIDE DEF b, k
    <3> QED BY <1>6, <3>1, <3>2
  <2> HIDE DEF n, k
  <2>2. Len(m_mpqList)' = Serial(phase, next)' - 1
    BY <1>4, <1>5, <1>6, <1>7, <2>1
  <2>3. ASSUME NEW j \in 1..n + 1
        PROVE  m_mpqList'[j].archives # <<>> /\ m_mpqList'[j].archives[1] = FirstOf(j)'
    <3>1. CASE j \in 1..n
      BY <1>3, <1>4, <1>7, <3>1
    <3>2. CASE j = n + 1
      <4>1. j = k
        BY <1>4, <1>5, <1>6, <3>2
      <4> QED BY <1>3, <1>4, <1>5, <1>7, <3>2, <4>1
    <3> QED BY <1>6, <3>1, <3>2
  <2> QED BY <1>1, <1>7, <2>2, <2>3 DEF ListsOK, InUse, Reading, Alive
<1>11. HandlesOK'
  BY <1>1, <1>2, <1>4, <1>8 DEF HandlesOK, Reading
<1>12. ReadOK' /\ NamesOK'
  BY <1>1, InitFrameKeeps
<1> QED BY <1>9, <1>10, <1>11, <1>12 DEF IInv

LEMMA InitFailsInv == IInv /\ (OpenArchiveFails \/ ApplyPatchFails) => IInv'
<1> SUFFICES ASSUME IInv, OpenArchiveFails \/ ApplyPatchFails
             PROVE  IInv'
  OBVIOUS
<1>1. TypeOK /\ InitFrame /\ InInit /\ InInit' /\ pc' = "failed"
  BY DEF IInv, OpenArchiveFails, ApplyPatchFails, InInit
<1>2. UNCHANGED <<plan, phase, next, patched, handle, m_mpqList, open>>
  BY DEF OpenArchiveFails, ApplyPatchFails, InitFrame, planVars, initVars
<1>3. /\ ListOf(phase)' = ListOf(phase) /\ PatchesOf(phase)' = PatchesOf(phase)
      /\ KeptHandles' = KeptHandles /\ \A j : FirstOf(j)' = FirstOf(j)
  BY <1>2 DEF ListOf, PatchesOf, KeptHandles, FirstOf
<1>4. TypeOK'
  <2>1. (next \in 1..Len(ListOf(phase)) + 1)'
    BY <1>1, <1>2, <1>3 DEF TypeOK
  <2> QED BY <1>1, <1>2, <2>1, InitFrameTypes DEF TypeOK, Planned
<1>5. ListsOK'
  BY <1>1, <1>2, <1>3 DEF IInv, ListsOK, InInit, InUse, Reading, Alive
<1>6. HandlesOK'
  <2>1. CASE OpenArchiveFails
    BY <1>1, <1>2, <1>3, <2>1 DEF IInv, HandlesOK, OpenArchiveFails, Reading
  <2>2. CASE ApplyPatchFails
    BY <1>1, <1>2, <1>3, <2>2 DEF IInv, HandlesOK, ApplyPatchFails, Reading
  <2> QED BY <2>1, <2>2
<1>7. ReadOK' /\ NamesOK'
  BY <1>1, InitFrameKeeps
<1> QED BY <1>4, <1>5, <1>6, <1>7 DEF IInv

LEMMA ToLocaleInv == IInv /\ ToLocale => IInv'
<1> SUFFICES ASSUME IInv, ToLocale
             PROVE  IInv'
  OBVIOUS
<1> DEFINE b == Len(plan.base)
           l == Len(plan.locale)
<1>1. /\ TypeOK /\ InitFrame /\ InInit /\ InInit' /\ pc = "opening" /\ pc' = "opening"
      /\ phase = "base" /\ phase' = "locale" /\ next' = 1 /\ next > b
  BY DEF IInv, ToLocale, InInit
<1>2. UNCHANGED <<plan, patched, handle, m_mpqList, open>>
  BY DEF ToLocale, InitFrame, planVars
<1>3. b \in Nat /\ l \in Nat
  BY <1>1, PlanFacts
<1>4. /\ ListOf(phase) = plan.base /\ ListOf(phase)' = plan.locale
      /\ Serial(phase, next) = next /\ Serial(phase, next)' = b + 1
      /\ KeptHandles' = KeptHandles /\ \A j : FirstOf(j)' = FirstOf(j)
  BY <1>1, <1>2 DEF ListOf, Serial, KeptHandles, FirstOf
<1>5. next = b + 1
  <2>1. next \in 1..b + 1
    BY <1>1, <1>4 DEF TypeOK
  <2> HIDE DEF b
  <2> QED BY <1>1, <1>3, <2>1
<1>6. TypeOK'
  <2>1. Len(ListOf(phase)') = l
    BY <1>4
  <2>2. next' \in 1..Len(ListOf(phase)') + 1
    <3> HIDE DEF l
    <3> QED BY <1>1, <1>3, <2>1
  <2>3. (next \in 1..Len(ListOf(phase)) + 1)'
    BY <2>2
  <2> QED BY <1>1, <1>2, <2>3, InitFrameTypes DEF TypeOK, Planned
<1>7. ListsOK'
  <2> HIDE DEF b, l
  <2> QED BY <1>1, <1>2, <1>4, <1>5 DEF IInv, ListsOK, InUse, Reading, Alive
<1>8. HandlesOK'
  BY <1>1, <1>2, <1>4 DEF IInv, HandlesOK, Reading
<1>9. ReadOK' /\ NamesOK'
  BY <1>1, InitFrameKeeps
<1> QED BY <1>6, <1>7, <1>8, <1>9 DEF IInv

LEMMA InitDoneInv == IInv /\ InitDone => IInv'
<1> SUFFICES ASSUME IInv, InitDone
             PROVE  IInv'
  OBVIOUS
<1> DEFINE b == Len(plan.base)
           l == Len(plan.locale)
<1>1. /\ TypeOK /\ InitFrame /\ pc = "opening" /\ pc' = "ready"
      /\ phase = "locale" /\ next > l
  BY DEF IInv, InitDone
<1>2. UNCHANGED <<plan, phase, next, patched, handle, m_mpqList, open,
                  files, buffers, buff, size, it>>
  BY DEF InitDone, InitFrame, planVars, initVars, readVars
<1>3. b \in Nat /\ l \in Nat /\ Planned = b + l /\ Planned' = Planned
  BY <1>1, <1>2, PlanFacts DEF Planned
<1>4. /\ ListOf(phase)' = plan.locale /\ ListOf(phase) = plan.locale
      /\ Serial(phase, next) = b + next
      /\ KeptHandles' = KeptHandles /\ \A j : FirstOf(j)' = FirstOf(j)
  BY <1>1, <1>2 DEF ListOf, Serial, KeptHandles, FirstOf
<1>5. next \in 1..l + 1
  BY <1>1, <1>4 DEF TypeOK
<1>6. TypeOK'
  <2>1. (next \in 1..Len(ListOf(phase)) + 1)'
    BY <1>2, <1>4, <1>5
  <2> QED BY <1>1, <1>2, <2>1, InitFrameTypes DEF TypeOK, Planned
<1>7. ListsOK'
  <2>1. Len(m_mpqList) = Serial(phase, next) - 1
    BY <1>1 DEF IInv, ListsOK
  <2> HIDE DEF b, l
  <2>2. Len(m_mpqList) = Planned
    BY <1>1, <1>3, <1>4, <1>5, <2>1
  <2> QED BY <1>1, <1>2, <1>3, <1>4, <2>2 DEF IInv, ListsOK, InUse, Reading, Alive
<1>8. HandlesOK'
  BY <1>1, <1>2, <1>4 DEF IInv, HandlesOK, Reading
<1>9. ReadOK' /\ NamesOK'
  BY <1>1, <1>2 DEF IInv, ReadOK, NamesOK, InInit, Holding, Reading, Nothing
<1> QED BY <1>6, <1>7, <1>8, <1>9 DEF IInv

LEMMA DestroyInv == IInv /\ Destroy => IInv'
<1> SUFFICES ASSUME IInv, Destroy
             PROVE  IInv'
  OBVIOUS
<1>1. /\ TypeOK /\ InitFrame /\ pc \in {"ready", "failed"} /\ pc' = "destroyed"
      /\ open' = open \ KeptHandles /\ m_mpqList' = <<>>
  BY DEF IInv, Destroy
<1>2. UNCHANGED <<plan, phase, next, patched, handle, files, buffers, buff, size, it>>
  BY DEF Destroy, InitFrame, planVars, readVars
<1>3. /\ ListOf(phase)' = ListOf(phase) /\ PatchesOf(phase)' = PatchesOf(phase)
  BY <1>2 DEF ListOf, PatchesOf
<1>4. TypeOK'
  <2>1. (next \in 1..Len(ListOf(phase)) + 1)'
    BY <1>1, <1>2, <1>3 DEF TypeOK
  <2>2. m_mpqList' \in Seq(HandleType)
    BY <1>1
  <2>3. open \subseteq 1..Planned
    BY <1>1 DEF TypeOK, Planned
  <2>4. open' \subseteq 1..Planned
    BY <1>1, <2>3
  <2> QED BY <1>1, <1>2, <2>1, <2>2, <2>4, InitFrameTypes DEF TypeOK
<1>5. ListsOK'
  BY <1>1 DEF ListsOK, InUse, Reading, Alive
<1>6. HandlesOK'
  <2>1. \/ open = KeptHandles
        \/ open = KeptHandles \cup {handle.id} /\ patched < Len(PatchesOf(phase))
    BY <1>1 DEF IInv, HandlesOK
  <2>2. \/ open' = {}
        \/ open' = {handle.id} /\ patched < Len(PatchesOf(phase))
    BY <1>1, <2>1
  <2> QED BY <1>1, <1>2, <1>3, <2>2 DEF HandlesOK, Reading
<1>7. ReadOK' /\ NamesOK'
  BY <1>1, <1>2 DEF IInv, ReadOK, NamesOK, InInit, Holding, Reading, Nothing
<1> QED BY <1>4, <1>5, <1>6, <1>7 DEF IInv

\* ReadFile

LEMMA ReadFileInv == IInv /\ (\E n \in Names : ReadFile(n)) => IInv'
<1> SUFFICES ASSUME IInv, NEW n \in Names, ReadFile(n)
             PROVE  IInv'
  OBVIOUS
<1>1. /\ TypeOK /\ pc = "ready" /\ pc' = "finding" /\ calls < MaxCalls
      /\ name' = n /\ it' = Len(m_mpqList) /\ size' = 0 /\ buff' = Nothing
      /\ buffers' = 0 /\ calls' = calls + 1
  BY DEF IInv, ReadFile
<1>2. UNCHANGED <<plan, content, listing, phase, next, patched, handle, m_mpqList,
                  open, files, list, ok>>
  BY DEF ReadFile, planVars, initVars, listVars
<1>3. /\ ListOf(phase)' = ListOf(phase) /\ PatchesOf(phase)' = PatchesOf(phase)
      /\ KeptHandles' = KeptHandles /\ Planned' = Planned
      /\ \A j : FirstOf(j)' = FirstOf(j)
  BY <1>2 DEF ListOf, PatchesOf, KeptHandles, Planned, FirstOf
<1>4. calls' \in 0..MaxCalls
  BY <1>1, MaxCallsAssumption DEF TypeOK
<1>5. Len(m_mpqList) \in Nat
  BY <1>1 DEF TypeOK
<1>6. TypeOK'
  <2>1. Nothing \in [archive : Nat, parts : SUBSET Nat]
    BY DEF Nothing
  <2> QED BY <1>1, <1>2, <1>3, <1>4, <1>5, <2>1 DEF TypeOK
<1>7. ListsOK'
  BY <1>1, <1>2, <1>3 DEF IInv, ListsOK, InUse, Reading, Alive
<1>8. HandlesOK'
  BY <1>1, <1>2, <1>3 DEF IInv, HandlesOK, Reading
<1>9. ReadOK'
  BY <1>1, <1>2, <1>5 DEF IInv, ReadOK, InInit, Holding, Reading
<1>10. NamesOK'
  BY <1>1 DEF NamesOK
<1> QED BY <1>6, <1>7, <1>8, <1>9, <1>10 DEF IInv

LEMMA ReadStepInv == IInv /\ ReadStep => IInv'
<1> SUFFICES ASSUME IInv, ReadStep
             PROVE  IInv'
  OBVIOUS
<1>1. /\ TypeOK /\ LookupFrame /\ Reading
      /\ pc' \in {"ready", "finding", "sizing", "reading", "closing"}
      /\ name' = name /\ list' = list /\ ok' = ok
  BY DEF IInv, ReadStep, NotInArchive, OpenFile, SkipEmpty, AllocateBuffer, ReadData,
         ReadDataFails, CloseFile, ReadNothing, Reading, readVars, listVars
<1>2. ListsOK' /\ HandlesOK'
  BY <1>1, LookupFrameKeeps DEF InUse, Reading
<1>3. NamesOK'
  BY <1>1 DEF NamesOK
<1>4. /\ it \in Nat /\ it <= Len(m_mpqList) /\ Len(m_mpqList) \in Nat /\ name \in Names
      /\ m_mpqList' = m_mpqList /\ size \in {0, 1} /\ files \in Nat /\ buffers \in Nat
      /\ buff \in [archive : Nat, parts : SUBSET Nat]
      /\ list \subseteq Names /\ ok \in BOOLEAN
  BY <1>1 DEF IInv, ReadOK, TypeOK, LookupFrame, initVars
<1>5. /\ it' \in Nat /\ it' <= Len(m_mpqList) /\ size' \in {0, 1}
      /\ buff' \in [archive : Nat, parts : SUBSET Nat] /\ files' \in Nat /\ buffers' \in Nat
      /\ ReadOK'
  <2>1. CASE NotInArchive
    BY <1>4, <2>1 DEF NotInArchive, IInv, ReadOK, InInit, Reading, Holding
  <2>2. CASE OpenFile
    BY <1>4, <2>2 DEF OpenFile, IInv, ReadOK, InInit, Reading, Holding
  <2>3. CASE SkipEmpty
    BY <1>4, <2>3 DEF SkipEmpty, IInv, ReadOK, InInit, Reading, Holding
  <2>4. CASE AllocateBuffer
    BY <1>4, <2>4 DEF AllocateBuffer, IInv, ReadOK, InInit, Reading, Holding
  <2>5. CASE ReadData
    <3>1. it > 0 /\ buff' = [archive |-> it, parts |-> Opened(Here)]
      BY <2>5 DEF ReadData, IInv, ReadOK
    <3>2. Opened(Here) \in SUBSET Nat
      BY <1>1, <1>4, <3>1, HereIsChain
    <3>3. buff' \in [archive : Nat, parts : SUBSET Nat] /\ buff' # Nothing
      BY <1>4, <3>1, <3>2 DEF Nothing
    <3> QED BY <1>4, <2>5, <3>3 DEF ReadData, IInv, ReadOK, InInit, Reading, Holding
  <2>6. CASE ReadDataFails
    BY <1>4, <2>6 DEF ReadDataFails, IInv, ReadOK, InInit, Reading, Holding
  <2>7. CASE CloseFile
    <3>1. it > 0 /\ files = 1 /\ it - 1 \in Nat /\ it - 1 <= Len(m_mpqList)
      BY <1>4, <2>7 DEF CloseFile, IInv, ReadOK, Holding
    <3> QED BY <1>4, <2>7, <3>1 DEF CloseFile, IInv, ReadOK, InInit, Reading, Holding
  <2>8. CASE ReadNothing
    BY <1>4, <2>8 DEF ReadNothing, readVars, IInv, ReadOK, InInit, Reading, Holding
  <2> QED BY <2>1, <2>2, <2>3, <2>4, <2>5, <2>6, <2>7, <2>8 DEF ReadStep
<1>6. TypeOK'
  BY <1>1, <1>4, <1>5, LookupFrameTypes
<1> QED BY <1>2, <1>3, <1>5, <1>6 DEF IInv

\* GetFileList

LEMMA GetFileListInv == IInv /\ GetFileList => IInv'
<1> SUFFICES ASSUME IInv, GetFileList
             PROVE  IInv'
  OBVIOUS
<1>1. /\ TypeOK /\ pc = "ready" /\ pc' = "listing" /\ calls < MaxCalls
      /\ it' = Len(m_mpqList) /\ list' = {} /\ calls' = calls + 1
  BY DEF IInv, GetFileList
<1>2. ok' = FALSE
  BY DEF GetFileList
<1>3. UNCHANGED <<plan, content, listing, phase, next, patched, handle, m_mpqList,
                  open, files, buffers, name, size, buff>>
  BY DEF GetFileList, planVars, initVars
<1>4. /\ ListOf(phase)' = ListOf(phase) /\ PatchesOf(phase)' = PatchesOf(phase)
      /\ KeptHandles' = KeptHandles /\ Planned' = Planned
      /\ \A j : FirstOf(j)' = FirstOf(j)
  BY <1>3 DEF ListOf, PatchesOf, KeptHandles, Planned, FirstOf
<1>5. calls' \in 0..MaxCalls
  BY <1>1, MaxCallsAssumption DEF TypeOK
<1>6. Len(m_mpqList) \in Nat /\ Len(m_mpqList) = Planned /\ Planned \in Nat
  BY <1>1, PlanFacts DEF TypeOK, IInv, ListsOK, InUse
<1>7. TypeOK'
  <2>1. ok' \in BOOLEAN
    BY <1>2
  <2> QED BY <1>1, <1>3, <1>4, <1>5, <1>6, <2>1 DEF TypeOK
<1>8. ListsOK'
  BY <1>1, <1>3, <1>4 DEF IInv, ListsOK, InUse, Reading, Alive
<1>9. HandlesOK'
  BY <1>1, <1>3, <1>4 DEF IInv, HandlesOK, Reading
<1>10. ReadOK'
  BY <1>1, <1>3, <1>6 DEF IInv, ReadOK, InInit, Holding, Reading
<1>11. NamesOK'
  <2>1. it' + 1..Planned' = {}
    BY <1>1, <1>4, <1>6
  <2>2. list' = UNION {listing'[FirstOf(k)'] : k \in it' + 1..Planned'}
    BY <1>1, <2>1
  <2>3. ok' <=> list' # {}
    BY <1>1, <1>2
  <2> QED BY <2>2, <2>3 DEF NamesOK
<1> QED BY <1>7, <1>8, <1>9, <1>10, <1>11 DEF IInv

\* The step that adds one archive's names.
LEMMA ListArchiveInv == IInv /\ ListArchive => IInv'
<1> SUFFICES ASSUME IInv, ListArchive
             PROVE  IInv'
  OBVIOUS
<1> DEFINE new == Listed(m_mpqList[it])
<1>1. /\ TypeOK /\ LookupFrame /\ pc = "listing" /\ pc' = "listing" /\ it > 0
      /\ list' = list \cup new /\ it' = it - 1
  BY DEF IInv, ListArchive
<1>2. ok' = (ok \/ new # {})
  BY DEF ListArchive
<1>3. UNCHANGED <<plan, listing, m_mpqList, name, size, buff, files, buffers>>
  BY DEF ListArchive, LookupFrame, planVars, initVars
<1>4. ListsOK' /\ HandlesOK'
  BY <1>1, LookupFrameKeeps DEF InUse
<1>5. /\ it \in Nat /\ it - 1 \in Nat /\ it <= Len(m_mpqList) /\ Len(m_mpqList) = Planned
      /\ Planned \in Nat /\ Planned' = Planned /\ it \in 1..Planned
      /\ \A j : FirstOf(j)' = FirstOf(j)
  <2>1. it \in Nat /\ Len(m_mpqList) = Planned /\ it <= Len(m_mpqList)
    BY <1>1 DEF TypeOK, IInv, ListsOK, ReadOK, InUse
  <2>2. Planned' = Planned /\ \A j : FirstOf(j)' = FirstOf(j)
    BY <1>3 DEF Planned, FirstOf
  <2>3. Planned \in Nat
    BY <1>1, PlanFacts
  <2> QED BY <1>1, <2>1, <2>2, <2>3
<1>6. new = listing[FirstOf(it)]
  <2>1. m_mpqList[it].archives[1] = FirstOf(it)
    BY <1>1, <1>5 DEF IInv, ListsOK, Alive
  <2> QED BY <2>1 DEF Listed
<1>7. new \subseteq Names
  <2> DEFINE h == m_mpqList[it]
  <2>1. h \in HandleType /\ h.archives # <<>>
    BY <1>1, <1>5 DEF TypeOK, IInv, ListsOK, Alive
  <2>2. h.archives[1] \in Archives
    BY <2>1 DEF HandleType
  <2> QED BY <1>1, <2>2 DEF Listed, TypeOK, ListingType
<1>8. TypeOK'
  <2>1. list' \subseteq Names
    BY <1>1, <1>7 DEF TypeOK
  <2>2. ok' \in BOOLEAN
    BY <1>2, Zenon
  <2> QED BY <1>1, <1>3, <1>5, <2>1, <2>2, LookupFrameTypes DEF TypeOK
<1>9. ReadOK'
  BY <1>1, <1>3, <1>5 DEF IInv, ReadOK, InInit, Holding, Reading
<1>10. NamesOK'
  <2> DEFINE Some(i) == {listing[FirstOf(k)] : k \in i + 1..Planned}
  <2>1. list = UNION Some(it)
    BY <1>1 DEF IInv, NamesOK
  <2>2. ok <=> list # {}
    BY <1>1, Zenon DEF IInv, NamesOK
  <2>3. it - 1 + 1..Planned = (it + 1..Planned) \cup {it}
    BY <1>5
  <2>4. Some(it - 1) = Some(it) \cup {listing[FirstOf(it)]}
    BY <2>3
  <2>5. list' = UNION Some(it - 1)
    <3> HIDE DEF Some
    <3> QED BY <1>1, <1>6, <2>1, <2>4
  <2>6. list' = UNION {listing'[FirstOf(k)'] : k \in it' + 1..Planned'}
    BY <1>1, <1>3, <1>5, <2>5
  <2>7. ok' <=> list' # {}
    <3>1. list' = list \cup new
      BY <1>1
    <3> HIDE DEF new
    <3> QED BY <1>2, <2>2, <3>1, Zenon
  <2> QED BY <2>6, <2>7, Zenon DEF NamesOK
<1> QED BY <1>4, <1>8, <1>9, <1>10 DEF IInv

LEMMA ListDoneInv == IInv /\ ListDone => IInv'
<1> SUFFICES ASSUME IInv, ListDone
             PROVE  IInv'
  OBVIOUS
<1>1. TypeOK /\ LookupFrame /\ pc = "listing" /\ pc' = "ready"
  BY DEF IInv, ListDone
<1>2. UNCHANGED <<listVars, readVars, m_mpqList>>
  BY DEF ListDone, LookupFrame, initVars
<1>3. ListsOK' /\ HandlesOK'
  BY <1>1, LookupFrameKeeps DEF InUse
<1>4. TypeOK'
  BY <1>1, <1>2, LookupFrameTypes DEF TypeOK, listVars, readVars
<1>5. ReadOK'
  BY <1>1, <1>2 DEF IInv, ReadOK, InInit, Holding, Reading, readVars
<1>6. NamesOK'
  BY <1>1 DEF NamesOK
<1> QED BY <1>3, <1>4, <1>5, <1>6 DEF IInv

-----------------------------------------------------------------------------
\* THEOREMS

\* Whatever Init finds, the set begins as the invariant says.
WorldOK == plan \in PlanType /\ content \in ContentType /\ listing \in ListingType

LEMMA ConstructedInv == WorldOK /\ Constructed => IInv
<1> SUFFICES ASSUME WorldOK, Constructed
             PROVE  IInv
  OBVIOUS
<1>1. plan \in PlanType /\ content \in ContentType /\ listing \in ListingType
  BY DEF WorldOK
<1>2. /\ pc = "opening" /\ phase = "base" /\ next = 1 /\ patched = 0
      /\ handle = NoHandle /\ m_mpqList = <<>> /\ open = {}
      /\ name = NoName /\ it = 0 /\ size = 0 /\ buff = Nothing
      /\ files = 0 /\ buffers = 0 /\ list = {} /\ calls = 0
  BY DEF Constructed
<1>3. ok = FALSE
  BY DEF Constructed
<1>4. next \in 1..Len(ListOf(phase)) + 1
  <2> DEFINE b == Len(plan.base)
  <2>1. b \in Nat /\ ListOf(phase) = plan.base
    BY <1>1, <1>2 DEF PlanType, ListOf
  <2>2. 1 \in 1..b + 1
    <3> HIDE DEF b
    <3> QED BY <2>1
  <2> QED BY <1>2, <2>1, <2>2
<1>5. NoHandle \in HandleType /\ Nothing \in [archive : Nat, parts : SUBSET Nat]
  BY DEF NoHandle, HandleType, Nothing
<1>6. TypeOK
  <2>1. ok \in BOOLEAN
    BY <1>3
  <2> QED BY <1>1, <1>2, <1>4, <1>5, <2>1, MaxCallsAssumption DEF TypeOK
<1>7. ListsOK
  BY <1>2 DEF ListsOK, Serial, InUse, Reading, Alive
<1>8. HandlesOK
  BY <1>2 DEF HandlesOK, KeptHandles, Range, Reading
<1>9. ReadOK /\ NamesOK
  BY <1>2 DEF ReadOK, NamesOK, InInit, Holding, Reading
<1> QED BY <1>6, <1>7, <1>8, <1>9 DEF IInv

LEMMA InitStateInv == InitState => IInv
<1>1. InitState => WorldOK /\ Constructed
  BY WorldsAssumption DEF InitState, WorldType, WorldOK
<1> QED BY <1>1, ConstructedInv

LEMMA StepInv == IInv /\ [Next]_vars => IInv'
<1> SUFFICES ASSUME IInv, [Next]_vars
             PROVE  IInv'
  OBVIOUS
<1>1. CASE InitStep
  BY <1>1, OpenArchiveInv, InitFailsInv, ApplyPatchInv, PushBackInv, ToLocaleInv,
     InitDoneInv DEF InitStep
<1>2. CASE \E n \in Names : ReadFile(n)
  BY <1>2, ReadFileInv
<1>3. CASE ReadStep
  BY <1>3, ReadStepInv
<1>4. CASE GetFileList \/ ListStep
  BY <1>4, GetFileListInv, ListArchiveInv, ListDoneInv DEF ListStep
<1>5. CASE Destroy
  BY <1>5, DestroyInv
<1>6. CASE UNCHANGED vars
  <2>1. /\ plan' = plan /\ content' = content /\ listing' = listing /\ pc' = pc
        /\ open' = open /\ calls' = calls
    BY <1>6 DEF vars, planVars
  <2>2. /\ phase' = phase /\ next' = next /\ patched' = patched
        /\ handle' = handle /\ m_mpqList' = m_mpqList
    BY <1>6 DEF vars, initVars
  <2>3. /\ name' = name /\ it' = it /\ size' = size /\ buff' = buff
        /\ files' = files /\ buffers' = buffers /\ list' = list /\ ok' = ok
    BY <1>6 DEF vars, readVars, listVars
  <2>4. /\ ListOf(phase)' = ListOf(phase) /\ PatchesOf(phase)' = PatchesOf(phase)
        /\ Serial(phase, next)' = Serial(phase, next)
        /\ KeptHandles' = KeptHandles /\ Planned' = Planned
        /\ \A j : FirstOf(j)' = FirstOf(j)
    BY <2>1, <2>2 DEF ListOf, PatchesOf, Serial, KeptHandles, Planned, FirstOf
  <2>5. TypeOK'
    BY <2>1, <2>2, <2>3, <2>4 DEF IInv, TypeOK
  <2>6. ListsOK'
    BY <2>1, <2>2, <2>4 DEF IInv, ListsOK, InUse, Reading, Alive
  <2>7. HandlesOK'
    BY <2>1, <2>2, <2>4 DEF IInv, HandlesOK, Reading
  <2>8. ReadOK'
    BY <2>1, <2>2, <2>3 DEF IInv, ReadOK, InInit, Holding, Reading
  <2>9. NamesOK'
    BY <2>1, <2>3, <2>4, Zenon DEF IInv, NamesOK
  <2> QED BY <2>5, <2>6, <2>7, <2>8, <2>9 DEF IInv
<1> QED BY <1>1, <1>2, <1>3, <1>4, <1>5, <1>6 DEF Next

LEMMA InvariantHolds == Spec => []IInv
<1> QED BY InitStateInv, StepInv, PTL DEF Spec

\* The variables keep their types, for every client.
THEOREM TypeCorrect == Spec => []TypeOK
<1>1. IInv => TypeOK
  BY DEF IInv
<1> QED BY <1>1, InvariantHolds, PTL

\* Between the calls no file is open, and the only buffer is the one ReadFile
\* returned: it gives back what it took, in whichever archive and at whichever
\* failure it stopped (ArchiveSet.cpp:104-144).
THEOREM ReadReleases == Spec => []ReadReleasesAll
<1>1. IInv => ReadReleasesAll
  BY DEF IInv, ReadOK, ReadReleasesAll, Holding
<1> QED BY <1>1, InvariantHolds, PTL

\* The archives that are open are those the destructor closes, but for one
\* whose patch could not be attached (ArchiveSet.cpp:32-102).
THEOREM ArchivesClosed == Spec => []ArchivesAccounted
<1>1. IInv => ArchivesAccounted
  BY DEF IInv, HandlesOK, ArchivesAccounted, Reading
<1> QED BY <1>1, InvariantHolds, PTL

\* GetFileList misses no opened archive (ArchiveSet.cpp:146-168).
THEOREM ListComplete == Spec => []ListIsComplete
<1>1. IInv => ListIsComplete
  <2> SUFFICES ASSUME IInv, pc = "listing", it = 0
               PROVE  /\ list = UNION {listing[a] : a \in Range(plan.base) \cup Range(plan.locale)}
                      /\ ok <=> list # {}
    BY Zenon DEF ListIsComplete
  <2> DEFINE b == Len(plan.base)
             l == Len(plan.locale)
  <2>1. /\ plan.base \in Seq(Archives) /\ plan.locale \in Seq(Archives)
        /\ b \in Nat /\ l \in Nat /\ Planned = b + l
    BY PlanFacts DEF IInv, Planned
  <2>2. /\ Range(plan.base) = {plan.base[k] : k \in 1..b}
        /\ Range(plan.locale) = {plan.locale[k] : k \in 1..l}
    BY <2>1 DEF Range
  <2>3. \A k \in Int : FirstOf(k) = IF k <= b THEN plan.base[k] ELSE plan.locale[k - b]
    BY DEF FirstOf
  <2>4. list = UNION {listing[FirstOf(k)] : k \in it + 1..Planned} /\ (ok <=> list # {})
    BY Zenon DEF IInv, NamesOK
  <2>5. it + 1..Planned = 1..b + l
    BY <2>1
  <2> HIDE DEF b, l
  <2>6. {FirstOf(k) : k \in 1..b + l} = Range(plan.base) \cup Range(plan.locale)
    <3>1. ASSUME NEW k \in 1..b + l
          PROVE  FirstOf(k) \in Range(plan.base) \cup Range(plan.locale)
      <4>1. CASE k <= b
        BY <2>1, <2>2, <2>3, <4>1
      <4>2. CASE ~(k <= b)
        <5>1. k - b \in 1..l
          BY <2>1, <4>2
        <5> QED BY <2>1, <2>2, <2>3, <4>2, <5>1
      <4> QED BY <4>1, <4>2
    <3>2. ASSUME NEW k \in 1..b
          PROVE  plan.base[k] \in {FirstOf(j) : j \in 1..b + l}
      <4>1. k \in 1..b + l /\ FirstOf(k) = plan.base[k]
        BY <2>1, <2>3
      <4> QED BY <4>1
    <3>3. ASSUME NEW k \in 1..l
          PROVE  plan.locale[k] \in {FirstOf(j) : j \in 1..b + l}
      <4>1. PICK j \in 1..b + l : j = b + k
        BY <2>1
      <4>2. j - b = k /\ ~(j <= b)
        BY <2>1, <4>1
      <4>3. FirstOf(j) = plan.locale[k]
        BY <2>3, <4>2
      <4> QED BY <4>3
    <3> QED BY <2>2, <3>1, <3>2, <3>3
  <2>7. {listing[FirstOf(k)] : k \in 1..b + l}
          = {listing[a] : a \in Range(plan.base) \cup Range(plan.locale)}
    <3> DEFINE F == {FirstOf(k) : k \in 1..b + l}
    <3>1. {listing[FirstOf(k)] : k \in 1..b + l} = {listing[a] : a \in F}
      OBVIOUS
    <3> QED BY <2>6, <3>1
  <2>8. list = UNION {listing[FirstOf(k)] : k \in 1..b + l}
    BY <2>4, <2>5
  <2> QED BY <2>4, <2>7, <2>8, Zenon
<1> QED BY <1>1, InvariantHolds, PTL

-----------------------------------------------------------------------------
\* THE CONTENT OF A CHAIN
\*
\* TableStore builds the content from the bottom, entry by entry; StormLib
\* looks for the last complete entry and links what is above it.

\* The recursion of TableStore!ContentsOf defines a function: the shortest
\* prefix for which there were none could be extended from the one before.
LEMMA ContentsExist ==
  ASSUME NEW chain \in Seq(EntryKinds)
  PROVE  LET c == Store!ContentsOf(chain)
         IN  c = [i \in 0..Len(chain) |->
                     IF i = 0 THEN {} ELSE Store!AfterEntry(c[i - 1], chain[i], i)]
<1> DEFINE Step(g, i) == IF i = 0 THEN {} ELSE Store!AfterEntry(g[i - 1], chain[i], i)
           IsUpTo(g, n) == g = [i \in 0..n |-> Step(g, i)]
           Bad == {n \in Nat : ~\E g : IsUpTo(g, n)}
<1>1. Bad = {}
  <2> SUFFICES ASSUME Bad # {} PROVE FALSE
    OBVIOUS
  <2>1. PICK n \in Bad : \A m \in Bad : n <= m
    BY LeastNatural
  <2>2. n # 0
    <3>1. IsUpTo([i \in 0..0 |-> {}], 0)
      OBVIOUS
    <3> QED BY <3>1
  <2>3. n \in Nat /\ n - 1 \in Nat /\ ~(n <= n - 1)
    BY <2>1, <2>2
  <2>4. PICK g : IsUpTo(g, n - 1)
    <3>1. n - 1 \notin Bad
      BY <2>1, <2>3
    <3> QED BY <2>3, <3>1
  <2> DEFINE h == [i \in 0..n |-> IF i = n THEN Store!AfterEntry(g[n - 1], chain[n], n) ELSE g[i]]
  <2>5. \A i \in 0..n : h[i] = Step(h, i)
    <3> SUFFICES ASSUME NEW i \in 0..n PROVE h[i] = Step(h, i)
      OBVIOUS
    <3>1. i = 0 \/ i - 1 \in 0..n - 1
      BY <2>1
    <3>2. CASE i = n
      <4>1. h[i] = Store!AfterEntry(g[n - 1], chain[n], n) /\ h[n - 1] = g[n - 1]
        BY <2>3, <3>2
      <4> QED BY <2>2, <3>2, <4>1
    <3>3. CASE i # n
      <4>1. i \in 0..n - 1
        BY <3>3, <2>1
      <4>2. g[i] = Step(g, i)
        BY <2>4, <4>1
      <4>3. h[i] = g[i] /\ (i # 0 => h[i - 1] = g[i - 1])
        BY <2>1, <3>3, <4>1
      <4> QED BY <4>2, <4>3
    <3> QED BY <3>2, <3>3
  <2>6. IsUpTo(h, n)
    BY <2>5
  <2> QED BY <2>1, <2>6
<1>2. Len(chain) \in Nat
  OBVIOUS
<1>3. \E g : IsUpTo(g, Len(chain))
  BY <1>1, <1>2
<1>4. Store!ContentsOf(chain) = CHOOSE g : IsUpTo(g, Len(chain))
  BY DEF Store!ContentsOf
<1> QED BY <1>3, <1>4

\* What an entry adds to the content below it, by cases.
LEMMA EntryFacts ==
  ASSUME NEW below, NEW i \in Nat \ {0}, NEW entry \in EntryKinds
  PROVE  /\ entry = "absent" => Store!AfterEntry(below, entry, i) = below
         /\ entry = "full" => Store!AfterEntry(below, entry, i) = {i}
         /\ entry \in {"marker", "corrupt"} => Store!AfterEntry(below, entry, i) = {0}
         /\ IsPatch(entry) /\ below = {} => Store!AfterEntry(below, entry, i) = {}
         /\ IsPatch(entry) /\ below = {0} => Store!AfterEntry(below, entry, i) = {0}
         /\ entry = "patch" /\ below \notin {{}, {0}} =>
               Store!AfterEntry(below, entry, i) = below \cup {i}
         /\ entry = "badpatch" /\ below \notin {{}, {0}} =>
               Store!AfterEntry(below, entry, i) = {0}
BY DEF Store!AfterEntry, Store!Unreadable, EntryKinds, IsPatch

\* The entries from the newest complete one among the first i upwards.
PlainUpTo(chain, i) == {k \in Plain(chain) : k <= i}
From(chain, m, i) == {k \in m..i : chain[k] # "absent"}
Reads(chain, m, i) ==
    chain[m] = "full" /\ \A k \in From(chain, m, i) : chain[k] # "badpatch"
SoundUpTo(chain, i) ==
    /\ PlainUpTo(chain, i) = {} => Store!ContentsOf(chain)[i] = {}
    /\ \A m \in PlainUpTo(chain, i) :
          (\A k \in PlainUpTo(chain, i) : k <= m) =>
              Store!ContentsOf(chain)[i] =
                  IF Reads(chain, m, i) THEN From(chain, m, i) ELSE {0}

\* One more entry of the chain.
LEMMA SoundStep ==
  ASSUME NEW chain \in Seq(EntryKinds), NEW i \in 1..Len(chain), SoundUpTo(chain, i - 1)
  PROVE  SoundUpTo(chain, i)
<1> DEFINE c == Store!ContentsOf(chain)
           e == chain[i]
<1>1. i \in Nat \ {0} /\ e \in EntryKinds /\ Len(chain) \in Nat /\ DOMAIN chain = 1..Len(chain)
      /\ i \in 0..Len(chain) /\ i - 1 \in 0..Len(chain) /\ i - 1 \in Nat
  OBVIOUS
<1>2. c[i] = Store!AfterEntry(c[i - 1], e, i)
  BY <1>1, ContentsExist
<1> HIDE DEF c
<1>6. /\ e = "absent" => c[i] = c[i - 1]
      /\ e = "full" => c[i] = {i}
      /\ e \in {"marker", "corrupt"} => c[i] = {0}
      /\ IsPatch(e) /\ c[i - 1] = {} => c[i] = {}
      /\ IsPatch(e) /\ c[i - 1] = {0} => c[i] = {0}
      /\ e = "patch" /\ c[i - 1] \notin {{}, {0}} => c[i] = c[i - 1] \cup {i}
      /\ e = "badpatch" /\ c[i - 1] \notin {{}, {0}} => c[i] = {0}
  <2> DEFINE p == c[i - 1]
  <2>1. c[i] = Store!AfterEntry(p, e, i) /\ i \in Nat \ {0} /\ e \in EntryKinds
    BY <1>1, <1>2
  <2> HIDE DEF p, e
  <2>2. /\ e = "absent" => c[i] = p
        /\ e = "full" => c[i] = {i}
        /\ e \in {"marker", "corrupt"} => c[i] = {0}
        /\ IsPatch(e) /\ p = {} => c[i] = {}
        /\ IsPatch(e) /\ p = {0} => c[i] = {0}
        /\ e = "patch" /\ p \notin {{}, {0}} => c[i] = p \cup {i}
        /\ e = "badpatch" /\ p \notin {{}, {0}} => c[i] = {0}
    <3> DEFINE a == Store!AfterEntry(p, e, i)
    <3>1. /\ e = "absent" => a = p
          /\ e = "full" => a = {i}
          /\ e \in {"marker", "corrupt"} => a = {0}
          /\ IsPatch(e) /\ p = {} => a = {}
          /\ IsPatch(e) /\ p = {0} => a = {0}
          /\ e = "patch" /\ p \notin {{}, {0}} => a = p \cup {i}
          /\ e = "badpatch" /\ p \notin {{}, {0}} => a = {0}
      BY <2>1, EntryFacts
    <3> HIDE DEF a
    <3>2. c[i] = a
      BY <2>1 DEF a
    <3> QED BY <3>1, <3>2
  <2> QED BY <2>2 DEF p, e
<1>3. Plain(chain) \in SUBSET (1..Len(chain))
  BY <1>1 DEF Plain
<1>4. CASE IsPlain(e)
  <2>1. i \in PlainUpTo(chain, i)
    BY <1>1, <1>4 DEF PlainUpTo, Plain
  <2>2. ASSUME NEW m \in PlainUpTo(chain, i), \A k \in PlainUpTo(chain, i) : k <= m
        PROVE  c[i] = IF Reads(chain, m, i) THEN From(chain, m, i) ELSE {0}
    <3>1. m = i
      BY <1>1, <1>3, <2>1, <2>2 DEF PlainUpTo
    <3>2. From(chain, i, i) = {i}
      BY <1>1, <1>4 DEF From, IsPlain
    <3>3. Reads(chain, i, i) <=> e = "full"
      BY <3>2 DEF Reads
    <3>4. c[i] = IF e = "full" THEN {i} ELSE {0}
      BY <1>4, <1>6 DEF IsPlain
    <3> QED BY <3>1, <3>2, <3>3, <3>4
  <2> QED BY <2>1, <2>2 DEF SoundUpTo, c
<1>5. CASE ~IsPlain(e)
  <2>1. PlainUpTo(chain, i) = PlainUpTo(chain, i - 1)
    <3>1. i \notin Plain(chain)
      BY <1>5 DEF Plain
    <3>2. \A k \in Plain(chain) : k <= i <=> k <= i - 1
      BY <1>1, <1>3, <3>1
    <3> QED BY <3>2 DEF PlainUpTo
  <2>2. PlainUpTo(chain, i - 1) = {} => c[i - 1] = {}
    BY DEF SoundUpTo, c
  <2>3. e = "absent" \/ IsPatch(e)
    BY <1>1, <1>5 DEF IsPlain, IsPatch, EntryKinds
  <2>4. PlainUpTo(chain, i) = {} => c[i] = {}
    BY <1>6, <2>1, <2>2, <2>3
  <2>5. ASSUME NEW m \in PlainUpTo(chain, i), \A k \in PlainUpTo(chain, i) : k <= m
        PROVE  c[i] = IF Reads(chain, m, i) THEN From(chain, m, i) ELSE {0}
    <3>1. c[i - 1] = IF Reads(chain, m, i - 1) THEN From(chain, m, i - 1) ELSE {0}
      BY <2>1, <2>5 DEF SoundUpTo, c
    <3>2. m \in 1..i - 1 /\ m \in Plain(chain)
      BY <1>1, <1>3, <2>1 DEF PlainUpTo
    <3>3. m..i = (m..i - 1) \cup {i}
      BY <1>1, <3>2
    <3>4. From(chain, m, i) = From(chain, m, i - 1) \cup (IF e = "absent" THEN {} ELSE {i})
      BY <3>3 DEF From
    <3>5. m \in From(chain, m, i - 1)
      BY <1>1, <3>2 DEF From, Plain, IsPlain
    <3>6. From(chain, m, i - 1) \notin {{}, {0}}
      BY <3>2, <3>5
    <3>7. CASE e = "absent"
      <4>1. Reads(chain, m, i) <=> Reads(chain, m, i - 1)
        BY <3>4, <3>7 DEF Reads
      <4> QED BY <1>6, <3>1, <3>4, <3>7, <4>1
    <3>8. CASE e = "patch"
      <4>1. Reads(chain, m, i) <=> Reads(chain, m, i - 1)
        BY <3>4, <3>8 DEF Reads
      <4>2. CASE Reads(chain, m, i - 1)
        BY <1>6, <3>1, <3>4, <3>6, <3>8, <4>1, <4>2
      <4>3. CASE ~Reads(chain, m, i - 1)
        BY <1>6, <3>1, <3>8, <4>1, <4>3 DEF IsPatch
      <4> QED BY <4>2, <4>3
    <3>9. CASE e = "badpatch"
      <4>1. ~Reads(chain, m, i)
        BY <3>4, <3>9 DEF Reads
      <4>2. CASE Reads(chain, m, i - 1)
        BY <1>6, <3>1, <3>6, <3>9, <4>1, <4>2
      <4>3. CASE ~Reads(chain, m, i - 1)
        BY <1>6, <3>1, <3>9, <4>1, <4>3 DEF IsPatch
      <4> QED BY <4>2, <4>3
    <3> QED BY <2>3, <3>7, <3>8, <3>9 DEF IsPatch
  <2> QED BY <2>4, <2>5 DEF SoundUpTo, c
<1> QED BY <1>4, <1>5

\* And so for every prefix: there is no shortest one for which it fails.
LEMMA SoundAll ==
  ASSUME NEW chain \in Seq(EntryKinds)
  PROVE  SoundUpTo(chain, Len(chain))
<1> DEFINE Bad == {i \in 0..Len(chain) : ~SoundUpTo(chain, i)}
<1>1. Len(chain) \in Nat /\ Len(chain) \in 0..Len(chain) /\ Bad \in SUBSET Nat
  OBVIOUS
<1>2. Bad = {}
  <2> SUFFICES ASSUME Bad # {} PROVE FALSE
    OBVIOUS
  <2>1. PICK i \in Bad : \A j \in Bad : i <= j
    BY <1>1, LeastNatural
  <2>2. i # 0
    <3>1. PlainUpTo(chain, 0) = {}
      BY DEF PlainUpTo, Plain
    <3>2. Store!ContentsOf(chain)[0] = {}
      BY <1>1, ContentsExist
    <3>3. SoundUpTo(chain, 0)
      BY <3>1, <3>2 DEF SoundUpTo
    <3> QED BY <2>1, <3>3
  <2>3. i \in 1..Len(chain) /\ i - 1 \in 0..Len(chain) /\ ~(i <= i - 1)
    BY <1>1, <2>1, <2>2
  <2>4. SoundUpTo(chain, i - 1)
    BY <2>1, <2>3
  <2>5. SoundUpTo(chain, i)
    BY <2>3, <2>4, SoundStep
  <2> QED BY <2>1, <2>5
<1> QED BY <1>1, <1>2

\* What ReadFile looks for in one archive: a version that opens, that is not
\* empty, and that can be read.
Answers(chain) == Opened(chain) # {} /\ ~SizeIsZero(chain) /\ ReadSucceeds(chain)

\* An archive without patches answers with its own entry.
LEMMA SingleAnswers ==
  ASSUME NEW e \in EntryKinds
  PROVE  Answers(<<e>>) <=> e = "full"
<1> DEFINE c == <<e>>
<1>1. DOMAIN c = {1} /\ c[1] = e /\ {1} \in SUBSET Nat /\ 1 \in {1}
  OBVIOUS
<1> HIDE DEF c
<1>2. Max({1}) = 1 /\ Min({1}) = 1
  BY <1>1, MaxIs, MinIs
<1>3. CASE IsPlain(e)
  <2>1. Plain(c) = {1}
    BY <1>1, <1>3 DEF Plain
  <2>2. Opened(c) = {1}
    BY <1>1, <1>2, <1>3, <2>1 DEF Opened, IsPlain
  <2>3. Answers(c) <=> e = "full"
    BY <1>1, <1>2, <1>3, <2>2 DEF Answers, SizeIsZero, ReadSucceeds, IsPlain
  <2> QED BY <2>3 DEF c
<1>4. CASE ~IsPlain(e)
  <2>1. Plain(c) = {}
    BY <1>1, <1>4 DEF Plain
  <2>2. Opened(c) = {} /\ e # "full"
    BY <1>4, <2>1 DEF Opened, IsPlain
  <2>3. ~Answers(c)
    BY <2>2 DEF Answers
  <2> QED BY <2>2, <2>3 DEF c
<1> QED BY <1>3, <1>4

\* The library reads exactly the chains that have a content, and what it links
\* is that content: replacing and adding from the bottom, as TableStore does,
\* is the same as searching for the last complete entry, as StormLib does.
LEMMA AnswersIsContent ==
  ASSUME NEW chain \in Seq(EntryKinds)
  PROVE  /\ Answers(chain) <=> Store!HasContent(chain)
         /\ Answers(chain) => Store!Content(chain) = Opened(chain)
<1> DEFINE n == Len(chain)
           m == Max(Plain(chain))
<1>1. n \in Nat /\ DOMAIN chain = 1..n /\ Plain(chain) \in SUBSET (1..n)
      /\ Store!Content(chain) = Store!ContentsOf(chain)[n]
  BY DEF Plain, Store!Content
<1>2. PlainUpTo(chain, n) = Plain(chain)
  BY <1>1 DEF PlainUpTo
<1>3. CASE Plain(chain) = {}
  <2>1. Store!Content(chain) = {}
    BY <1>1, <1>2, <1>3, SoundAll DEF SoundUpTo
  <2>2. Opened(chain) = {}
    BY <1>3 DEF Opened
  <2> QED BY <2>1, <2>2 DEF Answers, Store!HasContent
<1>4. CASE Plain(chain) # {}
  <2>1. m \in Plain(chain) /\ m \in 1..n /\ IsPlain(chain[m]) /\ \A k \in Plain(chain) : k <= m
    BY <1>1, <1>4, MaxOfIndices DEF Plain
  <2>2. Opened(chain) = From(chain, m, n)
    <3>1. Opened(chain) = {k \in 1..n : k >= m /\ chain[k] # "absent"}
      BY <1>1, <1>4 DEF Opened
    <3> HIDE DEF m, n
    <3>2. \A k \in Int : k \in m..n <=> k \in 1..n /\ k >= m
      BY <1>1, <2>1
    <3> QED BY <1>1, <2>1, <3>1, <3>2 DEF From
  <2>3. Store!Content(chain) = IF Reads(chain, m, n) THEN Opened(chain) ELSE {0}
    BY <1>1, <1>2, <2>1, <2>2, SoundAll DEF SoundUpTo
  <2>4. /\ m \in Opened(chain) /\ Opened(chain) # {} /\ Min(Opened(chain)) = m
        /\ \A k \in Opened(chain) : k = m \/ IsPatch(chain[k])
        /\ Opened(chain) \in SUBSET (1..n)
    <3>1. m \in Opened(chain)
      BY <1>1, <2>1, <2>2 DEF From, IsPlain
    <3> QED BY <1>1, <3>1, OpenedFacts
  <2>5. ReadSucceeds(chain) <=> Reads(chain, m, n)
    BY <2>2, <2>4 DEF ReadSucceeds, Reads
  <2>6. ReadSucceeds(chain) => ~SizeIsZero(chain)
    <3>1. Max(Opened(chain)) \in Opened(chain)
      BY <1>1, <2>4, MaxOfIndices
    <3> QED BY <2>4, <3>1 DEF ReadSucceeds, SizeIsZero, IsPatch
  <2>7. Opened(chain) \notin {{}, {0}}
    BY <2>1, <2>4
  <2>8. Store!HasContent(chain) <=> Reads(chain, m, n)
    BY <2>3, <2>7 DEF Store!HasContent, Store!Unreadable
  <2> QED BY <2>3, <2>4, <2>5, <2>6, <2>8 DEF Answers
<1> QED BY <1>3, <1>4

-----------------------------------------------------------------------------
\* THE STORE
\*
\* A lookup goes down the archives that were planned, and passes over one only
\* if it does not answer.

\* The archives of every handle that Init keeps, and of the handle in hand.
HeldChain(a, patches, j) == [i \in 1..j + 1 |-> IF i = 1 THEN a ELSE patches[i - 1]]
ChainsOK ==
    /\ pc = "patching" =>
          handle.archives = HeldChain(ListOf(phase)[next], PatchesOf(phase), patched)
    /\ Len(m_mpqList) <= Planned
    /\ \A k \in 1..Len(m_mpqList) : m_mpqList[k].archives = PlannedChain(k)

\* A chain grows by one patch at a time to the archive with all of them.
LEMMA HeldChainFacts ==
  ASSUME NEW S, NEW a \in S, NEW patches \in Seq(S)
  PROVE  /\ HeldChain(a, patches, 0) = <<a>>
         /\ \A j \in 0..Len(patches) - 1 :
               Append(HeldChain(a, patches, j), patches[j + 1]) = HeldChain(a, patches, j + 1)
         /\ HeldChain(a, patches, Len(patches)) = <<a>> \o patches
         /\ <<a>> \o patches \in Seq(S) /\ Len(<<a>> \o patches) = Len(patches) + 1
<1> DEFINE n == Len(patches)
<1>1. n \in Nat /\ \A i \in 1..n : patches[i] \in S
  OBVIOUS
<1>2. HeldChain(a, patches, 0) = <<a>>
  <2>1. HeldChain(a, patches, 0) = [i \in 1..1 |-> a]
    BY DEF HeldChain
  <2> QED BY <2>1
<1>3. ASSUME NEW j \in 0..n - 1
      PROVE  Append(HeldChain(a, patches, j), patches[j + 1]) = HeldChain(a, patches, j + 1)
  <2> DEFINE s == HeldChain(a, patches, j)
             t == HeldChain(a, patches, j + 1)
  <2>1. s \in Seq(S) /\ Len(s) = j + 1 /\ \A i \in 1..j + 1 : s[i] = IF i = 1 THEN a ELSE patches[i - 1]
    <3>1. \A i \in 1..j + 1 : (IF i = 1 THEN a ELSE patches[i - 1]) \in S
      BY <1>1
    <3> QED BY <1>1, <3>1 DEF HeldChain
  <2>2. t \in Seq(S) /\ Len(t) = j + 2 /\ \A i \in 1..j + 2 : t[i] = IF i = 1 THEN a ELSE patches[i - 1]
    <3>1. \A i \in 1..(j + 1) + 1 : (IF i = 1 THEN a ELSE patches[i - 1]) \in S
      BY <1>1
    <3> QED BY <1>1, <3>1 DEF HeldChain
  <2> HIDE DEF s, t
  <2>3. patches[j + 1] \in S
    BY <1>1
  <2>4. /\ Append(s, patches[j + 1]) \in Seq(S) /\ Len(Append(s, patches[j + 1])) = j + 2
        /\ \A i \in 1..j + 2 : Append(s, patches[j + 1])[i] = t[i]
    <3> DEFINE x == patches[j + 1]
    <3>1. x \in S /\ j \in Nat
      BY <2>3
    <3>2. t[j + 2] = x
      <4>1. (j + 2) - 1 = j + 1 /\ j + 2 # 1 /\ j + 2 \in 1..j + 2
        BY <3>1
      <4> QED BY <2>2, <4>1
    <3> HIDE DEF x
    <3>3. /\ Append(s, x) \in Seq(S) /\ Len(Append(s, x)) = j + 2
          /\ \A i \in 1..j + 1 : Append(s, x)[i] = s[i]
          /\ Append(s, x)[j + 2] = x
      BY <2>1, <3>1
    <3>4. \A i \in 1..j + 1 : i \in 1..j + 2 /\ s[i] = t[i]
      BY <2>1, <2>2, <3>1
    <3>5. \A i \in 1..j + 2 : i \in 1..j + 1 \/ i = j + 2
      BY <3>1
    <3>6. \A i \in 1..j + 2 : Append(s, x)[i] = t[i]
      BY <3>2, <3>3, <3>4, <3>5
    <3> QED BY <3>3, <3>6 DEF x
  <2>5. Append(s, patches[j + 1]) = t
    BY <2>2, <2>4
  <2> QED BY <2>5 DEF s, t
<1>4. /\ <<a>> \o patches \in Seq(S) /\ Len(<<a>> \o patches) = n + 1
      /\ \A i \in 1..n + 1 : (<<a>> \o patches)[i] = IF i = 1 THEN a ELSE patches[i - 1]
  OBVIOUS
<1>5. HeldChain(a, patches, n) = <<a>> \o patches
  <2> DEFINE s == <<a>> \o patches
  <2> HIDE DEF s
  <2>1. s = [i \in 1..n + 1 |-> s[i]]
    BY <1>1, <1>4 DEF s
  <2>2. HeldChain(a, patches, n) = s
    BY <1>4, <2>1 DEF HeldChain, s
  <2> QED BY <2>2 DEF s
<1> QED BY <1>2, <1>3, <1>4, <1>5

\* Init attaches every patch of its list, in order, to every archive.
LEMMA ChainsStep ==
  ASSUME IInv, ChainsOK, [Next]_vars
  PROVE  ChainsOK'
<1>1. TypeOK
  BY DEF IInv
<1>2. /\ phase \in {"base", "locale"} /\ m_mpqList \in Seq(HandleType)
      /\ Len(m_mpqList) \in Nat /\ patched \in Nat
      /\ PatchesOf(phase) \in Seq(Archives) /\ ListOf(phase) \in Seq(Archives)
      /\ Len(PatchesOf(phase)) \in Nat
  <2>1. phase \in {"base", "locale"} /\ m_mpqList \in Seq(HandleType) /\ patched \in Nat
    BY <1>1 DEF TypeOK
  <2> QED BY <1>1, <2>1, PlanFacts
<1>3. CASE OpenArchive
  <2>1. /\ pc = "opening" /\ next <= Len(ListOf(phase))
        /\ handle'.archives = <<ListOf(phase)[next]>>
        /\ patched' = 0 /\ plan' = plan /\ phase' = phase /\ next' = next
        /\ m_mpqList' = m_mpqList
    BY <1>3 DEF OpenArchive, InitFrame, planVars
  <2>2. ListOf(phase)[next] \in Archives
    BY <1>1, <2>1, SerialFacts
  <2>3. handle'.archives = HeldChain(ListOf(phase)[next], PatchesOf(phase), 0)
    BY <1>2, <2>1, <2>2, HeldChainFacts
  <2> QED BY <2>1, <2>3 DEF ChainsOK, ListOf, PatchesOf, PlannedChain, Planned
<1>4. CASE ApplyPatch
  <2>1. /\ pc = "patching" /\ patched < Len(PatchesOf(phase))
        /\ handle' = [handle EXCEPT !.archives = Append(@, PatchesOf(phase)[patched + 1])]
        /\ patched' = patched + 1 /\ plan' = plan /\ phase' = phase /\ next' = next
        /\ m_mpqList' = m_mpqList /\ handle \in HandleType
    BY <1>1, <1>4 DEF ApplyPatch, InitFrame, planVars, TypeOK
  <2>2. next <= Len(ListOf(phase))
    BY <2>1 DEF IInv, ListsOK
  <2>3. ListOf(phase)[next] \in Archives
    BY <1>1, <2>2, SerialFacts
  <2>4. patched \in 0..Len(PatchesOf(phase)) - 1
    BY <1>2, <2>1
  <2>5. handle'.archives = Append(handle.archives, PatchesOf(phase)[patched + 1])
    BY <2>1 DEF HandleType
  <2>6. handle'.archives = HeldChain(ListOf(phase)[next], PatchesOf(phase), patched + 1)
    <3> DEFINE a == ListOf(phase)[next]
               p == PatchesOf(phase)
    <3>1. handle.archives = HeldChain(a, p, patched)
      BY <2>1 DEF ChainsOK
    <3>2. a \in Archives /\ p \in Seq(Archives) /\ patched \in 0..Len(p) - 1
      BY <1>2, <2>3, <2>4
    <3>3. handle'.archives = Append(HeldChain(a, p, patched), p[patched + 1])
      BY <2>5, <3>1
    <3> HIDE DEF a, p
    <3>4. Append(HeldChain(a, p, patched), p[patched + 1]) = HeldChain(a, p, patched + 1)
      BY <3>2, HeldChainFacts
    <3> QED BY <3>3, <3>4 DEF a, p
  <2> QED BY <2>1, <2>6 DEF ChainsOK, ListOf, PatchesOf, PlannedChain, Planned
<1>5. CASE PushBack
  <2>1. /\ pc = "patching" /\ patched = Len(PatchesOf(phase)) /\ pc' = "opening"
        /\ m_mpqList' = Append(m_mpqList, handle) /\ plan' = plan /\ handle \in HandleType
    BY <1>1, <1>5 DEF PushBack, InitFrame, planVars, TypeOK
  <2>2. next <= Len(ListOf(phase)) /\ Len(m_mpqList) = Serial(phase, next) - 1
    BY <2>1 DEF IInv, ListsOK
  <2>3. /\ ListOf(phase)[next] \in Archives /\ Serial(phase, next) \in 1..Planned
        /\ FirstOf(Serial(phase, next)) = ListOf(phase)[next]
    BY <1>1, <2>2, SerialFacts
  <2>4. handle.archives = <<ListOf(phase)[next]>> \o PatchesOf(phase)
    BY <1>2, <2>1, <2>3, HeldChainFacts DEF ChainsOK
  <2>5. PlannedChain(Serial(phase, next)) = <<ListOf(phase)[next]>> \o PatchesOf(phase)
    <3> DEFINE b == Len(plan.base)
               k == Serial(phase, next)
    <3>1. b \in Nat /\ next \in Nat \ {0}
      BY <1>1, PlanFacts DEF TypeOK
    <3>2. CASE phase = "base"
      <4>1. k = next /\ k <= b /\ PatchesOf(phase) = plan.basePatch /\ ListOf(phase) = plan.base
        BY <2>2, <3>2 DEF Serial, ListOf, PatchesOf
      <4> QED BY <4>1 DEF PlannedChain
    <3>3. CASE phase = "locale"
      <4>1. k = b + next /\ PatchesOf(phase) = plan.localePatch /\ ListOf(phase) = plan.locale
        BY <3>3 DEF Serial, ListOf, PatchesOf
      <4>2. ~(k <= b) /\ k - b = next
        BY <3>1, <4>1
      <4> QED BY <4>1, <4>2 DEF PlannedChain
    <3> QED BY <1>2, <3>2, <3>3
  <2>6. Planned \in Nat
    BY <1>1, PlanFacts
  <2>7. ASSUME NEW k \in 1..Len(m_mpqList')
        PROVE  m_mpqList'[k].archives = PlannedChain(k)
    <3>1. CASE k = Serial(phase, next)
      <4>1. m_mpqList'[k] = handle
        BY <1>2, <2>1, <2>2, <2>3, <2>6, <3>1
      <4> QED BY <2>4, <2>5, <3>1, <4>1
    <3>2. CASE k # Serial(phase, next)
      <4>1. k \in 1..Len(m_mpqList) /\ m_mpqList'[k] = m_mpqList[k]
        BY <1>2, <2>1, <2>2, <2>3, <2>6, <3>2
      <4> QED BY <4>1 DEF ChainsOK
    <3> QED BY <3>1, <3>2
  <2>8. Planned' = Planned /\ \A k : PlannedChain(k)' = PlannedChain(k)
    BY <2>1 DEF Planned, PlannedChain
  <2>9. Len(m_mpqList') <= Planned
    BY <1>2, <2>1, <2>2, <2>3, <2>6
  <2> QED BY <2>1, <2>7, <2>8, <2>9 DEF ChainsOK
<1>6. CASE Destroy
  <2>1. m_mpqList' = <<>> /\ pc' = "destroyed" /\ plan' = plan
    BY <1>6 DEF Destroy, InitFrame, planVars
  <2>2. Planned' \in Nat
    BY <1>1, <2>1, PlanFacts DEF Planned
  <2> QED BY <2>1, <2>2 DEF ChainsOK
<1>7. CASE ~(OpenArchive \/ ApplyPatch \/ PushBack \/ Destroy)
  <2>1. m_mpqList' = m_mpqList /\ plan' = plan
    BY <1>7 DEF Next, InitStep, OpenArchiveFails, ApplyPatchFails, ToLocale, InitDone, ReadFile,
           GetFileList, ListStep, ListArchive, ListDone, ReadStep, NotInArchive, OpenFile,
           SkipEmpty, AllocateBuffer, ReadData, ReadDataFails, CloseFile, ReadNothing, vars,
           initVars, planVars, InitFrame, LookupFrame
  <2>2. pc' = "patching" => UNCHANGED <<pc, handle, phase, next, patched>>
    BY <1>7 DEF Next, InitStep, OpenArchiveFails, ApplyPatchFails, ToLocale, InitDone, ReadFile,
           GetFileList, ListStep, ListArchive, ListDone, ReadStep, NotInArchive, OpenFile,
           SkipEmpty, AllocateBuffer, ReadData, ReadDataFails, CloseFile, ReadNothing, vars,
           initVars, planVars, InitFrame, LookupFrame
  <2> QED BY <2>1, <2>2 DEF ChainsOK, ListOf, PatchesOf, PlannedChain, Planned
<1> QED BY <1>3, <1>4, <1>5, <1>6, <1>7

LEMMA ChainsInit == WorldOK /\ Constructed => ChainsOK
<1>1. WorldOK => Planned \in Nat
  <2> SUFFICES ASSUME WorldOK PROVE Planned \in Nat
    OBVIOUS
  <2> DEFINE b == Len(plan.base)
             l == Len(plan.locale)
  <2>1. b \in Nat /\ l \in Nat /\ Planned = b + l
    BY DEF WorldOK, PlanType, Planned
  <2> HIDE DEF b, l
  <2> QED BY <2>1
<1> QED BY <1>1 DEF Constructed, ChainsOK

\* What the planned archive k holds for a name.
Held(k, n) == ChainOf(PlannedChain(k), n)

\* The archive a lookup stops at, or none, is the newest that answers.
IsAnswer(b, n) ==
    IF b = Nothing THEN \A k \in 1..Planned : ~Answers(Held(k, n))
    ELSE /\ b.archive \in 1..Planned /\ Answers(Held(b.archive, n))
         /\ b.parts = Opened(Held(b.archive, n))
         /\ \A k \in b.archive + 1..Planned : ~Answers(Held(k, n))

\* Where the lookup is: what it has passed, and what it has found.
LookupOK ==
    /\ Reading => \A k \in it + 1..Planned : ~Answers(Held(k, name))
    /\ pc = "sizing" => Opened(Held(it, name)) # {}
    /\ pc = "reading" => Opened(Held(it, name)) # {} /\ ~SizeIsZero(Held(it, name))
    /\ pc = "closing" =>
          IF buff = Nothing THEN ~Answers(Held(it, name))
          ELSE IsAnswer(buff, name) /\ buff.archive = it
    /\ InInit => name = NoName
    /\ pc \in {"ready", "listing"} /\ name # NoName => name \in Names /\ IsAnswer(buff, name)

\* What an archive holds is a chain of entries.
LEMMA HeldFacts ==
  ASSUME TypeOK, NEW k \in 1..Planned, NEW n \in Names
  PROVE  Held(k, n) \in Seq(EntryKinds) /\ Opened(Held(k, n)) \in SUBSET Nat
<1> DEFINE b == Len(plan.base)
           l == Len(plan.locale)
           a == PlannedChain(k)
<1>1. b \in Nat /\ l \in Nat /\ Planned = b + l /\ k \in Nat
  BY PlanFacts DEF Planned
<1>2. a \in Seq(Archives)
  <2>1. CASE k <= b
    <3>1. plan.base[k] \in Archives
      <4>1. k \in 1..b
        BY <1>1, <2>1
      <4> QED BY <4>1, PlanFacts
    <3>2. a = <<plan.base[k]>> \o plan.basePatch
      BY <2>1 DEF PlannedChain
    <3> QED BY <3>1, <3>2, PlanFacts, HeldChainFacts
  <2>2. CASE ~(k <= b)
    <3>1. plan.locale[k - b] \in Archives
      <4>1. k - b \in 1..l
        <5> HIDE DEF b, l
        <5> QED BY <1>1, <2>2
      <4> QED BY <4>1, PlanFacts
    <3>2. a = <<plan.locale[k - b]>> \o plan.localePatch
      BY <2>2 DEF PlannedChain
    <3> QED BY <3>1, <3>2, PlanFacts, HeldChainFacts
  <2> QED BY <2>1, <2>2
<1>3. \A i \in 1..Len(a) : content[a[i]][n] \in EntryKinds
  <2> HIDE DEF a
  <2>1. \A i \in 1..Len(a) : a[i] \in Archives
    BY <1>2
  <2> QED BY <2>1 DEF TypeOK, ContentType
<1>4. Held(k, n) = [i \in 1..Len(a) |-> content[a[i]][n]] /\ Len(a) \in Nat
  BY <1>2 DEF Held, ChainOf
<1> HIDE DEF a
<1>5. Held(k, n) \in Seq(EntryKinds)
  BY <1>3, <1>4
<1> QED BY <1>5 DEF Opened

\* The handle the lookup has come to holds the planned chain.
LEMMA HereIsHeld ==
  ASSUME IInv, ChainsOK, Reading, it > 0
  PROVE  /\ Here = Held(it, name) /\ it \in 1..Planned /\ Len(m_mpqList) = Planned
         /\ name \in Names /\ it \in Nat
<1>1. it \in Nat /\ it <= Len(m_mpqList) /\ Len(m_mpqList) = Planned /\ name \in Names
  BY DEF IInv, TypeOK, ReadOK, ListsOK, InUse
<1>2. Planned \in Nat
  BY PlanFacts DEF IInv
<1>3. it \in 1..Len(m_mpqList)
  BY <1>1, <1>2
<1>4. m_mpqList[it].archives = PlannedChain(it)
  BY <1>3 DEF ChainsOK
<1> QED BY <1>1, <1>3, <1>4 DEF Here, Held

\* The world does not change, nor what it answers.
LEMMA WorldStays ==
  ASSUME [Next]_vars
  PROVE  /\ UNCHANGED <<plan, content, listing>> /\ Planned' = Planned
         /\ PlannedChains' = PlannedChains
         /\ \A k, n : Held(k, n)' = Held(k, n)
         /\ \A b, n : IsAnswer(b, n)' = IsAnswer(b, n)
<1>1. UNCHANGED <<plan, content, listing>>
  BY DEF Next, InitStep, OpenArchive, OpenArchiveFails, ApplyPatch, ApplyPatchFails, PushBack,
         ToLocale, InitDone, Destroy, ReadFile, GetFileList, ListStep, ListArchive, ListDone,
         ReadStep, NotInArchive, OpenFile, SkipEmpty, AllocateBuffer, ReadData, ReadDataFails,
         CloseFile, ReadNothing, vars, planVars, InitFrame, LookupFrame
<1>2. Planned' = Planned /\ PlannedChains' = PlannedChains
  BY <1>1 DEF Planned, PlannedChains, PlannedChain
<1>3. \A k, n : Held(k, n)' = Held(k, n)
  BY <1>1 DEF Held, ChainOf, PlannedChain
<1>4. \A b, n : IsAnswer(b, n)' = IsAnswer(b, n)
  BY <1>2, <1>3 DEF IsAnswer
<1> QED BY <1>1, <1>2, <1>3, <1>4

\* A lookup passes only over archives that do not answer.
LEMMA LookupStep ==
  ASSUME IInv, ChainsOK, LookupOK, [Next]_vars
  PROVE  LookupOK'
<1>1. /\ Planned' = Planned /\ \A k, n : Held(k, n)' = Held(k, n)
      /\ \A b, n : IsAnswer(b, n)' = IsAnswer(b, n)
  BY WorldStays
<1>2. TypeOK /\ Planned \in Nat /\ it \in Nat
  BY PlanFacts DEF IInv, TypeOK
<1>3. ASSUME NEW n \in Names, ReadFile(n) PROVE LookupOK'
  <2>1. pc = "ready" /\ pc' = "finding" /\ name' = n /\ it' = Len(m_mpqList)
    BY <1>3 DEF ReadFile
  <2>2. Len(m_mpqList) = Planned
    BY <2>1 DEF IInv, ListsOK, InUse
  <2>3. \A k \in it' + 1..Planned' : FALSE
    BY <1>1, <1>2, <2>1, <2>2
  <2> QED BY <2>1, <2>3 DEF LookupOK, Reading, InInit
<1>4. CASE ReadStep
  <2>1. Reading /\ name' = name
    BY <1>4 DEF ReadStep, NotInArchive, OpenFile, SkipEmpty, AllocateBuffer, ReadData,
             ReadDataFails, CloseFile, ReadNothing, Reading, readVars
  <2>2. name \in Names /\ name # NoName
    BY <2>1, NamesAssumption DEF IInv, ReadOK
  <2>3. \A k \in it + 1..Planned : ~Answers(Held(k, name))
    BY <2>1 DEF LookupOK
  <2>4. ASSUME it > 0, ~Answers(Held(it, name))
        PROVE  \A k \in it - 1 + 1..Planned : ~Answers(Held(k, name))
    <3>1. \A k \in it - 1 + 1..Planned : k = it \/ k \in it + 1..Planned
      BY <1>2
    <3> QED BY <2>3, <2>4, <3>1
  <2>5. CASE NotInArchive
    <3>1. it > 0 /\ Opened(Here) = {} /\ it' = it - 1 /\ pc' = "finding"
      BY <2>5 DEF NotInArchive
    <3>2. ~Answers(Held(it, name))
      BY <2>1, <3>1, HereIsHeld DEF Answers
    <3> QED BY <1>1, <2>1, <2>4, <3>1, <3>2 DEF LookupOK, Reading, InInit
  <2>6. CASE OpenFile
    <3>1. it > 0 /\ Opened(Here) # {} /\ it' = it /\ pc' = "sizing"
      BY <2>6 DEF OpenFile
    <3>2. Opened(Held(it, name)) # {}
      BY <2>1, <3>1, HereIsHeld
    <3> QED BY <1>1, <2>1, <2>3, <3>1, <3>2 DEF LookupOK, Reading, InInit
  <2>7. CASE SkipEmpty
    <3>1. SizeIsZero(Here) /\ it' = it /\ pc' = "closing" /\ buff' = buff /\ pc = "sizing"
      BY <2>7 DEF SkipEmpty
    <3>2. it > 0 /\ buff = Nothing
      BY <3>1 DEF IInv, ReadOK
    <3>3. ~Answers(Held(it, name))
      BY <2>1, <3>1, <3>2, HereIsHeld DEF Answers
    <3> QED BY <1>1, <2>1, <2>3, <3>1, <3>2, <3>3 DEF LookupOK, Reading, InInit
  <2>8. CASE AllocateBuffer
    <3>1. ~SizeIsZero(Here) /\ it' = it /\ pc' = "reading" /\ pc = "sizing"
      BY <2>8 DEF AllocateBuffer
    <3>2. it > 0
      BY <3>1 DEF IInv, ReadOK
    <3>3. Opened(Held(it, name)) # {} /\ ~SizeIsZero(Held(it, name))
      BY <2>1, <3>1, <3>2, HereIsHeld DEF LookupOK
    <3> QED BY <1>1, <2>1, <2>3, <3>1, <3>3 DEF LookupOK, Reading, InInit
  <2>9. CASE ReadData
    <3>1. /\ ReadSucceeds(Here) /\ it' = it /\ pc' = "closing" /\ pc = "reading"
          /\ buff' = [archive |-> it, parts |-> Opened(Here)]
      BY <2>9 DEF ReadData
    <3>2. it > 0
      BY <3>1 DEF IInv, ReadOK
    <3>3. Here = Held(it, name) /\ it \in 1..Planned
      BY <2>1, <3>2, HereIsHeld
    <3>4. Answers(Held(it, name))
      BY <3>1, <3>3 DEF Answers, LookupOK
    <3>5. buff'.archive = it /\ buff'.parts = Opened(Held(it, name)) /\ buff' # Nothing
      BY <1>2, <3>1, <3>2, <3>3 DEF Nothing
    <3>6. IsAnswer(buff', name)
      BY <2>3, <3>3, <3>4, <3>5 DEF IsAnswer
    <3> QED BY <1>1, <2>1, <2>3, <3>1, <3>5, <3>6 DEF LookupOK, Reading, InInit
  <2>10. CASE ReadDataFails
    <3>1. ~ReadSucceeds(Here) /\ it' = it /\ pc' = "closing" /\ pc = "reading" /\ buff' = buff
      BY <2>10 DEF ReadDataFails
    <3>2. it > 0 /\ buff = Nothing
      BY <3>1 DEF IInv, ReadOK
    <3>3. ~Answers(Held(it, name))
      BY <2>1, <3>1, <3>2, HereIsHeld DEF Answers
    <3> QED BY <1>1, <2>1, <2>3, <3>1, <3>2, <3>3 DEF LookupOK, Reading, InInit
  <2>11. CASE CloseFile
    <3>1. pc = "closing" /\ buff' = buff
      BY <2>11 DEF CloseFile
    <3>2. CASE buff # Nothing
      <4>1. pc' = "ready" /\ IsAnswer(buff, name)
        BY <2>11, <3>1, <3>2 DEF CloseFile, LookupOK
      <4> QED BY <1>1, <2>1, <2>2, <3>1, <4>1 DEF LookupOK, Reading, InInit
    <3>3. CASE buff = Nothing
      <4>1. pc' = "finding" /\ it' = it - 1 /\ it > 0 /\ ~Answers(Held(it, name))
        BY <2>11, <3>1, <3>3 DEF CloseFile, LookupOK, IInv, ReadOK
      <4> QED BY <1>1, <2>1, <2>4, <4>1 DEF LookupOK, Reading, InInit
    <3> QED BY <3>2, <3>3
  <2>12. CASE ReadNothing
    <3>1. pc = "finding" /\ it = 0 /\ pc' = "ready" /\ buff' = buff
      BY <2>12 DEF ReadNothing, readVars
    <3>2. buff = Nothing
      BY <3>1 DEF IInv, ReadOK
    <3>3. IsAnswer(buff, name)
      <4>1. it + 1 = 1
        BY <3>1
      <4> QED BY <2>3, <3>2, <4>1 DEF IsAnswer
    <3> QED BY <1>1, <2>1, <2>2, <3>1, <3>3 DEF LookupOK, Reading, InInit
  <2> QED BY <1>4, <2>5, <2>6, <2>7, <2>8, <2>9, <2>10, <2>11, <2>12 DEF ReadStep
<1>5. CASE InitStep
  <2>1. /\ InInit /\ name' = name /\ pc' \in {"opening", "patching", "failed", "ready"}
    BY <1>5 DEF InitStep, OpenArchive, OpenArchiveFails, ApplyPatch, ApplyPatchFails, PushBack,
             ToLocale, InitDone, InitFrame, readVars, InInit
  <2>2. name = NoName
    BY <2>1 DEF LookupOK
  <2> QED BY <2>1, <2>2 DEF LookupOK, Reading, InInit
<1>6. CASE GetFileList \/ ListStep
  <2>1. /\ pc \in {"ready", "listing"} /\ pc' \in {"ready", "listing"}
        /\ name' = name /\ buff' = buff
    BY <1>6 DEF GetFileList, ListStep, ListArchive, ListDone, readVars
  <2> QED BY <1>1, <2>1 DEF LookupOK, Reading, InInit
<1>7. CASE Destroy
  <2>1. pc' = "destroyed"
    BY <1>7 DEF Destroy
  <2> QED BY <2>1 DEF LookupOK, Reading, InInit
<1>8. CASE UNCHANGED vars
  <2>1. UNCHANGED <<pc, it, name, buff>>
    BY <1>8 DEF vars, readVars
  <2> QED BY <1>1, <2>1 DEF LookupOK, Reading, InInit
<1> QED BY <1>3, <1>4, <1>5, <1>6, <1>7, <1>8 DEF Next

LEMMA LookupInit == Constructed => LookupOK
BY DEF Constructed, LookupOK, Reading, InInit

\* The chains that the store keeps for a name.
StoredFor(n) == [k \in DOMAIN PlannedChains |-> ChainOf(PlannedChains[k], n)]

\* The archive a lookup stops at is the one TableStore answers from.
LEMMA NewestIsAnswer ==
  ASSUME TypeOK, NEW n \in Names, NEW b \in [archive : Nat, parts : SUBSET Nat], IsAnswer(b, n)
  PROVE  Store!Newest(StoredFor(n)) = b
<1> DEFINE chains == StoredFor(n)
           readable == {k \in 1..Len(chains) : Store!HasContent(chains[k])}
<1>1. Planned \in Nat /\ Planned = Len(plan.base) + Len(plan.locale)
  BY PlanFacts DEF Planned
<1>2. DOMAIN chains = 1..Planned /\ \A k \in 1..Planned : chains[k] = Held(k, n)
  BY <1>1 DEF StoredFor, PlannedChains, Held
<1>3. Len(chains) = Planned
  <2> DEFINE E == Seq(EntryKinds)
             p == Planned
  <2>1. chains = [k \in 1..p |-> chains[k]] /\ p \in Nat
    BY <1>1 DEF StoredFor, PlannedChains
  <2>2. \A k \in 1..p : chains[k] \in E
    BY <1>2, HeldFacts
  <2> HIDE DEF chains, E, p
  <2>3. chains \in Seq(E)
    BY <2>1, <2>2
  <2>4. Len(chains) = p
    BY <2>1, <2>3
  <2> QED BY <2>4 DEF p
<1>4. \A k \in 1..Planned : /\ Store!HasContent(chains[k]) <=> Answers(Held(k, n))
                            /\ Answers(Held(k, n)) => Store!Content(chains[k]) = Opened(Held(k, n))
  BY <1>2, HeldFacts, AnswersIsContent
<1>5. readable = {k \in 1..Planned : Answers(Held(k, n))}
  BY <1>3, <1>4
<1>6. Store!Newest(chains) = IF readable = {} THEN Nothing
                             ELSE [archive |-> Max(readable),
                                   parts |-> Store!Content(chains[Max(readable)])]
  <2>1. \A S : Store!Max(S) = Max(S)
    BY DEF Store!Max, Max
  <2>2. Store!Nothing = Nothing
    BY DEF Store!Nothing, Nothing
  <2> QED BY <2>1, <2>2, Zenon DEF Store!Newest
<1> HIDE DEF chains, readable
<1>7. CASE b = Nothing
  BY <1>5, <1>6, <1>7 DEF IsAnswer, chains
<1>8. CASE b # Nothing
  <2>1. /\ b.archive \in 1..Planned /\ Answers(Held(b.archive, n))
        /\ b.parts = Opened(Held(b.archive, n))
        /\ \A k \in b.archive + 1..Planned : ~Answers(Held(k, n))
    BY <1>8 DEF IsAnswer
  <2>2. b.archive \in readable /\ readable \in SUBSET Nat
    BY <1>5, <2>1
  <2>3. \A k \in readable : k <= b.archive
    <3> DEFINE m == b.archive
    <3>1. m \in 1..Planned /\ \A k \in m + 1..Planned : k \notin readable
      BY <1>5, <2>1
    <3> HIDE DEF m
    <3>2. ASSUME NEW k \in readable PROVE k <= m
      <4> DEFINE p == Planned
      <4>1. p \in Nat /\ k \in 1..p /\ m \in 1..p
        BY <1>1, <1>5, <3>1
      <4>2. k \notin m + 1..p
        BY <3>1
      <4> HIDE DEF p
      <4> QED BY <4>1, <4>2
    <3> QED BY <3>2 DEF m
  <2>4. Max(readable) = b.archive
    BY <2>2, <2>3, MaxIs
  <2>5. Store!Newest(chains) = [archive |-> b.archive, parts |-> b.parts]
    BY <1>4, <1>6, <2>1, <2>2, <2>4
  <2> QED BY <2>5 DEF chains
<1> QED BY <1>7, <1>8

\* A call that returns is Answer, one that begins is Ask, and no other step
\* changes what the store shows.
LEMMA StoreStep ==
  ASSUME IInv, ChainsOK, LookupOK, [Next]_vars
  PROVE  [Store!Next]_(Store!vars)
<1> DEFINE st  == [n \in Names |-> StoredFor(n)]
           ask == IF Reading THEN name ELSE NoName
           ans == IF Reading THEN Nothing ELSE buff
<1>1. st' = st
  <2>1. \A n \in Names : StoredFor(n)' = StoredFor(n)
    BY WorldStays DEF StoredFor, ChainOf
  <2> QED BY <2>1
<1>2. st' = st /\ ask' = ask /\ ans' = ans => [Store!Next]_(Store!vars)
  <2>1. Store!vars = <<st, ask, ans>> /\ Store!vars' = <<st', ask', ans'>>
    BY DEF Store!vars, StoredFor
  <2> QED BY <2>1, Zenon
<1>3. \A n \in Names : Store!Ask(n) <=> ask = NoName /\ ask' = n /\ ans' = Nothing /\ st' = st
  BY DEF Store!Ask, Store!NoName, Store!Nothing, NoName, Nothing, StoredFor
<1>4. Store!Answer <=> ask # NoName /\ ans' = Store!Newest(st[ask]) /\ ask' = NoName /\ st' = st
  BY DEF Store!Answer, Store!NoName, NoName, StoredFor
<1> HIDE DEF st
<1>5. ASSUME NEW n \in Names, ReadFile(n) PROVE [Store!Next]_(Store!vars)
  <2>1. ~Reading /\ Reading' /\ name' = n
    BY <1>5 DEF ReadFile, Reading
  <2> QED BY <1>1, <1>3, <2>1 DEF Store!Next
<1>6. CASE ReadStep
  <2>1. Reading /\ name' = name /\ name \in Names /\ name # NoName
    <3>1. Reading /\ name' = name
      BY <1>6 DEF ReadStep, NotInArchive, OpenFile, SkipEmpty, AllocateBuffer, ReadData,
               ReadDataFails, CloseFile, ReadNothing, Reading, readVars
    <3> QED BY <3>1, NamesAssumption DEF IInv, ReadOK
  <2>2. CASE Reading'
    BY <1>1, <1>2, <2>1, <2>2
  <2>3. CASE ~Reading'
    <3>1. /\ (pc = "closing" /\ buff # Nothing) \/ (pc = "finding" /\ it = 0)
          /\ pc' = "ready" /\ buff' = buff
      BY <1>6, <2>3 DEF ReadStep, NotInArchive, OpenFile, SkipEmpty, AllocateBuffer, ReadData,
               ReadDataFails, CloseFile, ReadNothing, Reading, readVars
    <3>2. IsAnswer(buff, name)
      <4>1. LookupOK'
        BY LookupStep
      <4>2. IsAnswer(buff, name)'
        BY <2>1, <3>1, <4>1 DEF LookupOK
      <4>3. IsAnswer(buff, name)' <=> IsAnswer(buff, name)
        BY <2>1, <3>1, WorldStays DEF IsAnswer
      <4> QED BY <4>2, <4>3
    <3>3. TypeOK /\ buff \in [archive : Nat, parts : SUBSET Nat]
      BY DEF IInv, TypeOK
    <3>4. Store!Newest(StoredFor(name)) = buff
      BY <2>1, <3>2, <3>3, NewestIsAnswer
    <3>5. st[name] = StoredFor(name)
      BY <2>1 DEF st
    <3>6. Store!Answer
      BY <1>1, <1>4, <2>1, <2>3, <3>1, <3>4, <3>5
    <3> QED BY <3>6 DEF Store!Next
  <2> QED BY <2>2, <2>3
<1>7. CASE ~Reading /\ ~Reading' /\ buff' = buff
  BY <1>1, <1>2, <1>7
<1>8. CASE InitStep \/ GetFileList \/ ListStep \/ Destroy
  <2>1. ~Reading /\ ~Reading' /\ buff' = buff
    BY <1>8 DEF InitStep, OpenArchive, OpenArchiveFails, ApplyPatch, ApplyPatchFails, PushBack,
             ToLocale, InitDone, InitFrame, readVars, GetFileList, ListStep, ListArchive,
             ListDone, Destroy, Reading
  <2> QED BY <1>7, <2>1
<1>9. CASE UNCHANGED vars
  <2>1. UNCHANGED <<pc, name, buff>>
    BY <1>9 DEF vars, readVars
  <2>2. ask' = ask /\ ans' = ans
    BY <2>1 DEF Reading
  <2> QED BY <1>1, <1>2, <2>2
<1> QED BY <1>5, <1>6, <1>8, <1>9 DEF Next

LEMMA StoreInit == InitState => Store!Init
<1> SUFFICES ASSUME InitState PROVE Store!Init
  OBVIOUS
<1>1. pc = "opening" /\ buff = Nothing
  BY DEF InitState, Constructed
<1>2. ~Reading
  BY <1>1 DEF Reading
<1> QED BY <1>1, <1>2 DEF Store!Init, Store!NoName, Store!Nothing, NoName, Nothing

LEMMA LookupHolds == Spec => [](IInv /\ ChainsOK /\ LookupOK)
<1>1. InitState => IInv /\ ChainsOK /\ LookupOK
  BY InitStateInv, ChainsInit, LookupInit, WorldsAssumption DEF InitState, WorldType, WorldOK
<1>2. (IInv /\ ChainsOK /\ LookupOK) /\ [Next]_vars => (IInv /\ ChainsOK /\ LookupOK)'
  BY StepInv, ChainsStep, LookupStep
<1> QED BY <1>1, <1>2, PTL DEF Spec

\* ReadFile implements the store: whatever the archives and their patches hold,
\* a call that returns has the newest version that can be read, and nothing
\* only if there is none (ArchiveSet.cpp:104-144).  That every call returns
\* needs fairness, and is not part of it.
THEOREM ReadFileIsStore == Spec => Store!Safety
<1>1. (IInv /\ ChainsOK /\ LookupOK) /\ [Next]_vars => [Store!Next]_(Store!vars)
  BY StoreStep
<1> QED BY <1>1, StoreInit, LookupHolds, PTL DEF Spec, Store!Safety

=============================================================================
