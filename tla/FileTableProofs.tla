-------------------------- MODULE FileTableProofs --------------------------
(***************************************************************************)
(* Theorems about the hash table and the file table of an archive, for any  *)
(* size of the tables, any names and locales, and any hash function.        *)
(***************************************************************************)
EXTENDS FileTable, FiniteSetTheorems, WellFoundedInduction, TLAPS

-----------------------------------------------------------------------------
\* MINIMA AND MAXIMA

\* A set of naturals that is not empty has a least element: the order of the
\* naturals is well founded.
LEMMA LeastNatural ==
  ASSUME NEW T \in SUBSET Nat, T # {}
  PROVE  \E x \in T : \A y \in T : x <= y
<1> DEFINE Below == OpToRel(<, Nat)
<1>1. IsWellFoundedOn(Below, Nat)
  BY NatLessThanWellFounded
<1>2. \A x, y \in Nat : y < x => <<y, x>> \in Below
  BY DEF OpToRel
<1> HIDE DEF Below
<1>3. PICK x \in T : \A y \in T : ~(<<y, x>> \in Below)
  BY <1>1, WFMin
<1>4. ASSUME NEW y \in T
      PROVE  x <= y
  <2>1. x \in Nat /\ y \in Nat
    OBVIOUS
  <2>2. ~(y < x)
    BY <1>2, <1>3, <2>1
  <2> QED BY <2>1, <2>2
<1> QED BY <1>4

\* Min of the community modules is what its name says.
LEMMA MinOfNaturals ==
  ASSUME NEW S \in SUBSET Nat, S # {}
  PROVE  Min(S) \in S /\ \A x \in S : Min(S) <= x
BY LeastNatural DEF Min


-----------------------------------------------------------------------------
\* THE ORDER OF THE SLOTS

\* The places of a name are numbered from 0 on, and no two have one number.
LEMMA DistFacts ==
  ASSUME NEW h \in Slots
  PROVE  /\ \A s \in Slots : Dist(h, s) \in 0..H - 1
         /\ \A r, s \in Slots : Dist(h, r) = Dist(h, s) => r = s
<1>1. H \in Nat \ {0} /\ h \in 0..H - 1
  BY HAssumption DEF Slots
<1> QED BY <1>1 DEF Slots, Dist

\* First is the place of a set that is nearest to the home of a name.
LEMMA FirstFacts ==
  ASSUME NEW h \in Slots, NEW S \in SUBSET Slots, S # {}
  PROVE  First(h, S) \in S /\ \A r \in S : Dist(h, First(h, S)) <= Dist(h, r)
<1> DEFINE T == {Dist(h, s) : s \in S}
<1>1. T \in SUBSET Nat /\ T # {}
  BY DistFacts
<1>2. PICK d \in T : \A y \in T : d <= y
  BY <1>1, LeastNatural
<1>3. PICK s \in S : d = Dist(h, s)
  BY <1>2
<1>4. \A r \in S : Dist(h, s) <= Dist(h, r)
  BY <1>2, <1>3
<1> QED BY <1>4 DEF First

\* So is the one GetHashEntryLocale takes for a neutral file, from the other
\* end.
LEMMA LastFacts ==
  ASSUME NEW h \in Slots, NEW S \in SUBSET Slots, S # {}
  PROVE  \E s \in S : \A r \in S : Dist(h, r) <= Dist(h, s)
<1> DEFINE T == {H - Dist(h, s) : s \in S}
<1>1. \A s \in S : H - Dist(h, s) \in Nat
  BY DistFacts, HAssumption
<1>2. T \in SUBSET Nat /\ T # {}
  BY <1>1
<1>3. PICK d \in T : \A y \in T : d <= y
  BY <1>2, LeastNatural
<1>4. PICK s \in S : d = H - Dist(h, s)
  BY <1>3
<1>5. \A r \in S : H - Dist(h, s) <= H - Dist(h, r)
  BY <1>3, <1>4
<1>6. \A r \in S : Dist(h, r) <= Dist(h, s)
  BY <1>5, DistFacts, HAssumption
<1> QED BY <1>6

-----------------------------------------------------------------------------
\* THE TABLES

\* What a slot in use says of the file it leads to, and where it stands.
SlotOK(t, s) ==
    LET slot == t.hash[s]
    IN /\ slot.name \in Names /\ slot.locale \in Locales
       /\ slot.block \in 0..t.size - 1
       /\ t.files[slot.block].exists
       /\ t.files[slot.block].locale = slot.locale
       /\ t.files[slot.block].hashIndex = s
       /\ Reached(t, slot.name, s)

SameFile(t, r, s) == t.hash[r].name = t.hash[s].name /\ t.hash[r].locale = t.hash[s].locale

\* An entry without a file is clear, and there are only such entries behind
\* the end of the table.
EntryOK(t, e) == IF t.files[e].exists THEN e < t.size ELSE t.files[e].hashIndex = 0

TableInv(t) ==
    /\ t \in Tables
    /\ \A s \in UsedSlots(t) : SlotOK(t, s)
    /\ \A r, s \in UsedSlots(t) : SameFile(t, r, s) => r = s
    /\ \A e \in Slots : EntryOK(t, e)

\* The slots in use for a file: one, or none if the archive does not have it.
SlotsOf(t, n, lc) == {s \in UsedSlots(t) : t.hash[s].name = n /\ t.hash[s].locale = lc}

HomeOK == home \in [Names -> Slots]

\* A search by name and locale looks at all slots in use that have them.
LEMMA OfLocaleFacts ==
  ASSUME NEW t, TableInv(t), NEW n \in Names, NEW lc
  PROVE  /\ OfLocale(t, n, lc) = SlotsOf(t, n, lc)
         /\ OfLocale(t, n, lc) \in SUBSET Slots
         /\ \A s \in OfLocale(t, n, lc) : t.hash[s].block \in Slots /\ t.hash[s].block # NoEntry
<1>1. t.size \in 0..H /\ H \in Nat
  BY HAssumption DEF TableInv, Tables
<1>2. ASSUME NEW s \in OfLocale(t, n, lc)
      PROVE  s \in SlotsOf(t, n, lc)
  BY <1>1, <1>2 DEF OfLocale, HashEntries, SlotsOf, UsedSlots, Free, Deleted
<1>3. ASSUME NEW s \in SlotsOf(t, n, lc)
      PROVE  s \in OfLocale(t, n, lc)
  <2>1. s \in UsedSlots(t) /\ SlotOK(t, s) /\ t.hash[s].name = n /\ t.hash[s].locale = lc
    BY <1>3 DEF SlotsOf, TableInv
  <2> QED BY <2>1 DEF OfLocale, HashEntries, SlotOK, UsedSlots
<1>4. ASSUME NEW s \in OfLocale(t, n, lc)
      PROVE  s \in Slots /\ t.hash[s].block \in Slots /\ t.hash[s].block # NoEntry
  BY <1>1, <1>4 DEF OfLocale, HashEntries, Slots, NoEntry
<1> QED BY <1>2, <1>3, <1>4

\* GetHashEntryExact gives the slot of the file if it has one.
LEMMA ExactFacts ==
  ASSUME HomeOK, NEW t, TableInv(t), NEW n \in Names, NEW lc
  PROVE  /\ SlotsOf(t, n, lc) = {} <=> GetHashEntryExact(t, n, lc) = NoSlot
         /\ \A s \in SlotsOf(t, n, lc) : GetHashEntryExact(t, n, lc) = s
         /\ GetFileEntryExact(t, n, lc) = NoEntry <=> SlotsOf(t, n, lc) = {}
         /\ GetFileEntryExact(t, n, lc) # NoEntry =>
              \E s \in SlotsOf(t, n, lc) : GetFileEntryExact(t, n, lc) = t.hash[s].block
<1> DEFINE S == OfLocale(t, n, lc)
<1>1. /\ S = SlotsOf(t, n, lc) /\ S \in SUBSET Slots
      /\ \A s \in S : t.hash[s].block # NoEntry
  BY OfLocaleFacts
<1>2. home[n] \in Slots /\ \A s \in Slots : s # NoSlot
  BY HAssumption DEF HomeOK, Slots, NoSlot
<1>3. \A r, s \in S : r = s
  BY <1>1 DEF SlotsOf, TableInv, SameFile
<1>4. S # {} => First(home[n], S) \in S
  BY <1>1, <1>2, FirstFacts
<1> HIDE DEF S
<1>5. GetHashEntryExact(t, n, lc) = IF S = {} THEN NoSlot ELSE First(home[n], S)
  BY DEF GetHashEntryExact, S
<1>6. GetFileEntryExact(t, n, lc) = IF S = {} THEN NoEntry ELSE t.hash[First(home[n], S)].block
  BY <1>1, <1>2, <1>4, <1>5 DEF GetFileEntryExact, EntryOf
<1> QED BY <1>1, <1>2, <1>3, <1>4, <1>5, <1>6

\* GetFileEntryLocale gives the entry of some slot of the name, and nothing
\* only if the locale asked for is not there.
LEMMA LocaleFacts ==
  ASSUME HomeOK, NEW t, TableInv(t), NEW n \in Names, NEW lc
  PROVE  /\ GetFileEntryLocale(t, n, lc) = NoEntry => SlotsOf(t, n, lc) = {}
         /\ GetFileEntryLocale(t, n, lc) # NoEntry =>
              \E s \in UsedSlots(t) : /\ t.hash[s].name = n
                                      /\ GetFileEntryLocale(t, n, lc) = t.hash[s].block
<1> DEFINE S == OfLocale(t, n, lc)
           N == OfLocale(t, n, Neutral)
           g == GetHashEntryLocale(t, n, lc)
<1>1. /\ S = SlotsOf(t, n, lc) /\ S \in SUBSET Slots
      /\ N = SlotsOf(t, n, Neutral) /\ N \in SUBSET Slots
      /\ \A s \in S \cup N : t.hash[s].block # NoEntry
  BY OfLocaleFacts
<1>2. home[n] \in Slots /\ \A s \in Slots : s # NoSlot
  BY HAssumption DEF HomeOK, Slots, NoSlot
<1>3. S # {} => g \in S
  BY <1>1, <1>2, FirstFacts DEF GetHashEntryLocale
<1>4. S = {} /\ N # {} => g \in N
  <2> SUFFICES ASSUME S = {}, N # {} PROVE g \in N
    OBVIOUS
  <2>1. \E s \in N : \A r \in N : Dist(home[n], r) <= Dist(home[n], s)
    BY <1>1, <1>2, LastFacts
  <2>2. g = CHOOSE s \in N : \A r \in N : Dist(home[n], r) <= Dist(home[n], s)
    BY DEF GetHashEntryLocale
  <2> QED BY <2>1, <2>2
<1>5. S = {} /\ N = {} => g = NoSlot
  BY DEF GetHashEntryLocale
<1>6. GetFileEntryLocale(t, n, lc) = IF g = NoSlot THEN NoEntry ELSE t.hash[g].block
  BY DEF GetFileEntryLocale, EntryOf
<1>7. \A s \in S \cup N : s \in UsedSlots(t) /\ t.hash[s].name = n
  BY <1>1 DEF SlotsOf
<1> HIDE DEF S, N, g
<1> QED BY <1>1, <1>2, <1>3, <1>4, <1>5, <1>6, <1>7

\* Deleting the slot of an entry leaves the other slots as they were: none of
\* them leads to this entry, and a deleted slot does not end a search.
LEMMA ClearSlotFacts ==
  ASSUME NEW t, TableInv(t), NEW e \in Slots
  PROVE  LET u == ClearSlot(t, e)
             c == t.files[e].hashIndex
         IN /\ TableInv(u)
            /\ c \in Slots /\ u.hash[c].block = Deleted
            /\ UsedSlots(u) = UsedSlots(t) \ {c}
            /\ \A s \in UsedSlots(u) : u.hash[s] = t.hash[s]
            /\ \A s \in UsedSlots(u) : u.hash[s].block # e
            /\ u.files = t.files /\ u.size = t.size
<1> DEFINE u == ClearSlot(t, e)
           c == t.files[e].hashIndex
<1>1. /\ t.hash \in [Slots -> TypeOfHash] /\ t.files \in [Slots -> TypeOfEntry]
      /\ c \in Slots /\ t \in Tables
  BY DEF TableInv, Tables, TypeOfEntry
<1>2. ClearedHash(Deleted) \in TypeOfHash /\ ClearedHash(Deleted).block = Deleted
  BY DEF ClearedHash, TypeOfHash
<1>3. /\ u.hash = [t.hash EXCEPT ![c] = ClearedHash(Deleted)]
      /\ u.files = t.files /\ u.size = t.size /\ u \in Tables
  BY <1>1, <1>2 DEF ClearSlot, Tables
<1>4. \A s \in Slots : u.hash[s] = IF s = c THEN ClearedHash(Deleted) ELSE t.hash[s]
  BY <1>1, <1>3
<1> HIDE DEF u, c
<1>5. /\ UsedSlots(u) = UsedSlots(t) \ {c}
      /\ \A s \in UsedSlots(u) : u.hash[s] = t.hash[s]
      /\ u.hash[c].block = Deleted
  BY <1>1, <1>2, <1>4 DEF UsedSlots
<1>6. ASSUME NEW s \in UsedSlots(u)
      PROVE  SlotOK(u, s) /\ u.hash[s].block # e
  <2>1. s \in UsedSlots(t) /\ s # c /\ s \in Slots /\ u.hash[s] = t.hash[s]
    BY <1>5, <1>6 DEF UsedSlots
  <2>2. SlotOK(t, s)
    BY <2>1 DEF TableInv
  <2>3. \A r \in Slots : t.hash[r].block # Free => u.hash[r].block # Free
    BY <1>2, <1>4 DEF Deleted, Free
  <2>4. SlotOK(u, s)
    BY <1>3, <2>1, <2>2, <2>3 DEF SlotOK, Reached
  <2>5. u.hash[s].block # e
    BY <2>1, <2>2 DEF SlotOK, c
  <2> QED BY <2>4, <2>5
<1>7. \A r, s \in UsedSlots(u) : SameFile(u, r, s) => r = s
  BY <1>5 DEF TableInv, SameFile
<1>8. \A f \in Slots : EntryOK(u, f)
  BY <1>3 DEF TableInv, EntryOK
<1>9. TableInv(u)
  BY <1>3, <1>6, <1>7, <1>8 DEF TableInv
<1> QED BY <1>1, <1>3, <1>5, <1>6, <1>9 DEF u, c

\* So does clearing the entry as well.
LEMMA ClearFileEntryFacts ==
  ASSUME NEW t, TableInv(t), NEW e \in Slots
  PROVE  LET u == ClearFileEntry(t, e)
             c == t.files[e].hashIndex
         IN /\ TableInv(u)
            /\ c \in Slots
            /\ UsedSlots(u) = UsedSlots(t) \ {c}
            /\ \A s \in UsedSlots(u) : u.hash[s] = t.hash[s]
            /\ u.files = [t.files EXCEPT ![e] = ClearedEntry] /\ u.size = t.size
<1> DEFINE v == ClearSlot(t, e)
           u == ClearFileEntry(t, e)
           c == t.files[e].hashIndex
<1>1. /\ TableInv(v) /\ c \in Slots /\ UsedSlots(v) = UsedSlots(t) \ {c}
      /\ \A s \in UsedSlots(v) : v.hash[s] = t.hash[s]
      /\ \A s \in UsedSlots(v) : v.hash[s].block # e
      /\ v.files = t.files /\ v.size = t.size
  BY ClearSlotFacts
<1>2. ClearedEntry \in TypeOfEntry
  BY NamesAssumption, HAssumption DEF ClearedEntry, TypeOfEntry, Slots
<1>3. v \in Tables
  BY <1>1 DEF TableInv
<1>4. /\ u.hash = v.hash /\ u.size = v.size
      /\ u.files = [v.files EXCEPT ![e] = ClearedEntry] /\ u \in Tables
  BY <1>2, <1>3 DEF ClearFileEntry, Tables
<1>5. \A f \in Slots : u.files[f] = IF f = e THEN ClearedEntry ELSE v.files[f]
  BY <1>3, <1>4 DEF Tables
<1> HIDE DEF u, v, c
<1>6. UsedSlots(u) = UsedSlots(v)
  BY <1>4 DEF UsedSlots
<1>7. ASSUME NEW s \in UsedSlots(u)
      PROVE  SlotOK(u, s)
  <2>1. SlotOK(v, s) /\ v.hash[s].block # e
    BY <1>1, <1>6, <1>7 DEF TableInv
  <2>2. v.hash[s].block \in Slots
    BY <1>3, <2>1, HAssumption DEF SlotOK, Tables, Slots
  <2> QED BY <1>4, <1>5, <2>1, <2>2 DEF SlotOK, Reached
<1>8. \A r, s \in UsedSlots(u) : SameFile(u, r, s) => r = s
  BY <1>1, <1>4, <1>6 DEF TableInv, SameFile
<1>9. \A f \in Slots : EntryOK(u, f)
  BY <1>1, <1>4, <1>5 DEF TableInv, EntryOK, ClearedEntry
<1>10. TableInv(u)
  BY <1>4, <1>7, <1>8, <1>9 DEF TableInv
<1> QED BY <1>1, <1>4, <1>6, <1>10 DEF u, v, c

\* A table that ends behind its last file has all its files.
LEMMA ShrunkFacts ==
  ASSUME NEW t, TableInv(t)
  PROVE  LET u == Shrunk(t)
         IN TableInv(u) /\ u.hash = t.hash /\ u.files = t.files
<1> DEFINE S == {n \in 0..t.size : \A f \in 0..t.size - 1 : t.files[f].exists => f < n}
           u == Shrunk(t)
<1>1. t \in Tables /\ t.size \in 0..H /\ H \in Nat
  BY HAssumption DEF TableInv, Tables
<1>2. CASE \A f \in 0..t.size - 1 : ~t.files[f].exists
  BY <1>2 DEF Shrunk
<1>3. CASE ~ \A f \in 0..t.size - 1 : ~t.files[f].exists
  <2>1. S \in SUBSET Nat /\ t.size \in S
    BY <1>1
  <2>2. Min(S) \in S
    BY <2>1, MinOfNaturals
  <2>3. u = [t EXCEPT !.size = Min(S)]
    BY <1>3 DEF Shrunk
  <2> HIDE DEF u
  <2>4. u.hash = t.hash /\ u.files = t.files /\ u.size = Min(S) /\ u \in Tables
    BY <1>1, <2>2, <2>3 DEF Tables
  <2>5. Min(S) \in 0..H /\ \A f \in Slots : t.files[f].exists => f < Min(S)
    <3>1. Min(S) \in 0..t.size /\ \A f \in 0..t.size - 1 : t.files[f].exists => f < Min(S)
      BY <2>2
    <3>2. \A f \in Slots : t.files[f].exists => f \in 0..t.size - 1
      BY <1>1 DEF TableInv, EntryOK, Slots
    <3> QED BY <1>1, <3>1, <3>2
  <2>6. UsedSlots(u) = UsedSlots(t)
    BY <2>4 DEF UsedSlots
  <2> HIDE DEF S
  <2>7. ASSUME NEW s \in UsedSlots(u)
        PROVE  SlotOK(u, s)
    <3>1. SlotOK(t, s)
      BY <2>6, <2>7 DEF TableInv
    <3>2. t.hash[s].block \in Slots /\ t.files[t.hash[s].block].exists
      BY <1>1, <3>1 DEF SlotOK, Slots
    <3>3. t.hash[s].block \in 0..Min(S) - 1
      BY <1>1, <2>5, <3>2 DEF Slots
    <3> QED BY <2>4, <3>1, <3>3 DEF SlotOK, Reached
  <2>8. \A r, s \in UsedSlots(u) : SameFile(u, r, s) => r = s
    BY <2>4, <2>6 DEF TableInv, SameFile
  <2>9. \A f \in Slots : EntryOK(u, f)
    BY <2>4, <2>5 DEF TableInv, EntryOK
  <2>10. TableInv(u)
    BY <2>4, <2>7, <2>8, <2>9 DEF TableInv
  <2> QED BY <2>4, <2>10 DEF u
<1> QED BY <1>2, <1>3

\* Freeing an entry takes one slot out of use and leaves the others.
LEMMA FreeFileEntryFacts ==
  ASSUME NEW t, TableInv(t), NEW e \in Slots
  PROVE  LET u == FreeFileEntry(t, e)
         IN /\ TableInv(u)
            /\ UsedSlots(u) = UsedSlots(t) \ {t.files[e].hashIndex}
            /\ \A s \in UsedSlots(u) : u.hash[s] = t.hash[s]
            /\ \A f \in Slots \ {e} : u.files[f] = t.files[f]
<1> DEFINE v == ClearFileEntry(t, e)
<1>1. /\ TableInv(v) /\ UsedSlots(v) = UsedSlots(t) \ {t.files[e].hashIndex}
      /\ \A s \in UsedSlots(v) : v.hash[s] = t.hash[s]
      /\ v.files = [t.files EXCEPT ![e] = ClearedEntry]
  BY ClearFileEntryFacts
<1>2. t.files \in [Slots -> TypeOfEntry]
  BY DEF TableInv, Tables
<1>3. \A f \in Slots \ {e} : v.files[f] = t.files[f]
  BY <1>1, <1>2
<1> HIDE DEF v
<1>4. TableInv(Shrunk(v)) /\ Shrunk(v).hash = v.hash /\ Shrunk(v).files = v.files
  BY <1>1, ShrunkFacts
<1>5. FreeFileEntry(t, e) = Shrunk(v)
  BY DEF FreeFileEntry, v
<1> QED BY <1>1, <1>3, <1>4, <1>5 DEF UsedSlots

\* What a table has in addition to another: at most one slot, for this file.
Added(t, u, n, lc, e) ==
    /\ \A s \in UsedSlots(t) : s \in UsedSlots(u) /\ u.hash[s] = t.hash[s]
    /\ \A s \in UsedSlots(u) \ UsedSlots(t) :
          u.hash[s] = [name |-> n, locale |-> lc, block |-> e]

\* An entry with a file that no slot leads to gets a slot where a search for
\* its name and locale comes to it, if any slot is not in use.
LEMMA AllocateHashEntryFacts ==
  ASSUME HomeOK, NEW t, TableInv(t), NEW n \in Names, NEW lc \in Locales,
         NEW e \in Slots, t.files[e].exists, t.files[e].locale = lc,
         \A s \in UsedSlots(t) : t.hash[s].block # e,
         SlotsOf(t, n, lc) = {}
  PROVE  LET u == AllocateHashEntry(t, e, n, lc)
         IN /\ TableInv(u)
            /\ Added(t, u, n, lc, e)
            /\ (\E s \in Slots : s \notin UsedSlots(t)) => SlotsOf(u, n, lc) # {}
            /\ \A f \in Slots \ {e} : u.files[f] = t.files[f]
<1> DEFINE u == AllocateHashEntry(t, e, n, lc)
           U == Usable(t, n, lc)
           slot == [name |-> n, locale |-> lc, block |-> e]
<1>1. /\ t.hash \in [Slots -> TypeOfHash] /\ t.files \in [Slots -> TypeOfEntry]
      /\ t \in Tables /\ t.size \in 0..H /\ H \in Nat /\ home[n] \in Slots
  BY HAssumption DEF TableInv, Tables, HomeOK
<1>2. U = {s \in Slots : s \notin UsedSlots(t)}
  BY DEF Usable, SlotsOf, UsedSlots
<1>3. CASE U = {}
  <2>1. u = t
    BY <1>3 DEF AllocateHashEntry
  <2> QED BY <1>2, <1>3, <2>1 DEF Added
<1>4. CASE U # {}
  <2> DEFINE s == First(home[n], U)
  <2>1. s \in U /\ \A r \in U : Dist(home[n], s) <= Dist(home[n], r)
    BY <1>1, <1>2, <1>4, FirstFacts
  <2>2. u = [t EXCEPT !.hash[s] = slot, !.files[e].hashIndex = s]
    BY <1>4 DEF AllocateHashEntry
  <2>3. s \in Slots /\ s \notin UsedSlots(t)
    BY <1>2, <2>1
  <2> HIDE DEF s, u
  <2>4. slot \in TypeOfHash
    BY DEF TypeOfHash
  <2>5. /\ u.hash = [t.hash EXCEPT ![s] = slot]
        /\ u.files = [t.files EXCEPT ![e].hashIndex = s]
        /\ u.size = t.size /\ u \in Tables
    <3>1. /\ u.hash = [t.hash EXCEPT ![s] = slot]
          /\ u.files = [t.files EXCEPT ![e].hashIndex = s]
          /\ u.size = t.size
      BY <1>1, <2>2 DEF Tables
    <3>2. u.hash \in [Slots -> TypeOfHash]
      BY <1>1, <2>3, <2>4, <3>1
    <3>3. u.files \in [Slots -> TypeOfEntry]
      BY <1>1, <2>3, <3>1 DEF TypeOfEntry
    <3>4. u = [hash |-> u.hash, files |-> u.files, size |-> u.size]
      BY <1>1, <2>2 DEF Tables
    <3> QED BY <1>1, <3>1, <3>2, <3>3, <3>4 DEF Tables
  <2> HIDE DEF slot
  <2>6. \A r \in Slots : u.hash[r] = IF r = s THEN slot ELSE t.hash[r]
    BY <1>1, <2>5
  <2>7. \A f \in Slots : u.files[f] = IF f = e THEN [t.files[e] EXCEPT !.hashIndex = s]
                                      ELSE t.files[f]
    BY <1>1, <2>5
  <2>8. /\ u.files[e].exists /\ u.files[e].locale = lc /\ u.files[e].hashIndex = s
    <3>1. t.files[e] \in TypeOfEntry
      BY <1>1
    <3> QED BY <2>7, <3>1 DEF TypeOfEntry
  <2>9. slot.name = n /\ slot.locale = lc /\ slot.block = e /\ slot.block \notin {Free, Deleted}
    BY <1>1, HAssumption DEF slot, Slots, Free, Deleted
  <2>10. UsedSlots(u) = UsedSlots(t) \cup {s}
    BY <2>3, <2>6, <2>9 DEF UsedSlots
  <2>11. \A r \in UsedSlots(t) : r # s /\ u.hash[r] = t.hash[r]
    BY <2>3, <2>6 DEF UsedSlots
  <2>12. \A r \in Slots : t.hash[r].block # Free => u.hash[r].block # Free
    BY <2>6, <2>9
  <2>13. ASSUME NEW r \in UsedSlots(t)
         PROVE  SlotOK(u, r)
    <3>1. SlotOK(t, r) /\ t.hash[r].block # e /\ u.hash[r] = t.hash[r]
      BY <2>11, <2>13 DEF TableInv
    <3>2. t.hash[r].block \in Slots
      BY <1>1, <3>1 DEF SlotOK, Slots
    <3> QED BY <2>5, <2>7, <2>12, <3>1, <3>2 DEF SlotOK, Reached
  <2>14. SlotOK(u, s)
    <3>1. \A r \in Slots : r \in U \/ t.hash[r].block # Free
      BY <1>2 DEF UsedSlots
    <3>2. \A r \in Slots : Dist(home[n], r) <= Dist(home[n], s) =>
                              r = s \/ t.hash[r].block # Free
      BY <1>1, <2>1, <2>3, <3>1, DistFacts
    <3>3. Reached(u, n, s)
      BY <2>6, <2>9, <3>2 DEF Reached
    <3>4. e \in 0..t.size - 1
      BY <1>1 DEF TableInv, EntryOK, Slots
    <3> QED BY <2>3, <2>5, <2>6, <2>8, <2>9, <3>3, <3>4 DEF SlotOK
  <2>15. \A q, r \in UsedSlots(u) : SameFile(u, q, r) => q = r
    <3>1. \A q \in UsedSlots(t) : ~(t.hash[q].name = n /\ t.hash[q].locale = lc)
      BY DEF SlotsOf
    <3>2. u.hash[s] = slot
      BY <2>3, <2>6
    <3> QED BY <2>9, <2>10, <2>11, <3>1, <3>2 DEF TableInv, SameFile
  <2>16. \A f \in Slots : EntryOK(u, f)
    BY <1>1, <2>5, <2>7, <2>8 DEF TableInv, EntryOK
  <2>17. TableInv(u)
    BY <2>5, <2>10, <2>13, <2>14, <2>15, <2>16 DEF TableInv
  <2>18. Added(t, u, n, lc, e)
    BY <2>3, <2>6, <2>10, <2>11 DEF Added, slot
  <2>19. s \in SlotsOf(u, n, lc)
    BY <2>3, <2>6, <2>9, <2>10 DEF SlotsOf
  <2> QED BY <2>7, <2>17, <2>18, <2>19 DEF u
<1> QED BY <1>3, <1>4

\* While an entry has no file there is a slot that is not in use: the entry
\* of a slot leads back to it, so no two slots have the same one.
LEMMA SpareSlot ==
  ASSUME NEW t, TableInv(t), \E e \in Slots : ~t.files[e].exists
  PROVE  \E s \in Slots : s \notin UsedSlots(t)
<1> SUFFICES ASSUME \A s \in Slots : s \in UsedSlots(t)
             PROVE  FALSE
  OBVIOUS
<1>1. PICK e \in Slots : ~t.files[e].exists
  OBVIOUS
<1> DEFINE T == Slots \ {e}
           f == [s \in Slots |-> t.hash[s].block]
<1>2. \A s \in Slots : SlotOK(t, s) /\ t.hash[s].block \in Slots
  <2>1. t.size \in 0..H /\ H \in Nat
    BY HAssumption DEF TableInv, Tables
  <2> QED BY <2>1 DEF TableInv, SlotOK, Slots
<1>3. f \in [Slots -> T]
  BY <1>1, <1>2 DEF SlotOK
<1>4. IsFiniteSet(Slots)
  BY HAssumption, FS_Interval DEF Slots
<1>5. /\ IsFiniteSet(T) /\ Cardinality(T) \in Nat /\ Cardinality(Slots) \in Nat
      /\ Cardinality(T) < Cardinality(Slots)
  <2>1. T \in SUBSET Slots
    OBVIOUS
  <2>2. /\ IsFiniteSet(T) /\ Cardinality(T) <= Cardinality(Slots)
        /\ Cardinality(T) = Cardinality(Slots) => Slots = T
    BY <1>4, <2>1, FS_Subset
  <2>3. Slots # T
    OBVIOUS
  <2>4. Cardinality(T) \in Nat /\ Cardinality(Slots) \in Nat
    BY <1>4, <2>2, FS_CardinalityType
  <2> QED BY <2>2, <2>3, <2>4
<1> HIDE DEF T, f
<1>6. PICK x, y \in Slots : x # y /\ f[x] = f[y]
  BY ONLY <1>3, <1>4, <1>5, FS_PigeonHole, Zenon
<1>7. t.hash[x].block = t.hash[y].block
  BY <1>6 DEF f
<1> QED BY <1>2, <1>6, <1>7 DEF SlotOK

\* The slots in use of one table, except those in X, are in use in another for
\* the same files.
Kept(t, u, X) == \A s \in UsedSlots(t) \ X : s \in UsedSlots(u) /\ u.hash[s] = t.hash[s]

\* The entry that is given to a new file has none, and only slot 0 can have
\* gone out of use when it was cleared.
LEMMA FindFreeFileEntryFacts ==
  ASSUME NEW t, TableInv(t), NEW e, e = FindFreeFileEntry(t), e # NoEntry
  PROVE  LET u == FreeEntryCleared(t)
         IN /\ e \in Slots /\ e \in 0..t.size
            /\ TableInv(u) /\ u.size = t.size
            /\ ~u.files[e].exists
            /\ Kept(t, u, {0}) /\ Kept(u, t, {})
<1> DEFINE u == FreeEntryCleared(t)
           F == FreeEntries(t)
<1>1. t.size \in 0..H /\ H \in Nat /\ t.files \in [Slots -> TypeOfEntry]
  BY HAssumption DEF TableInv, Tables
<1>2. CASE F = {}
  <2>1. e = t.size /\ t.size < H /\ u = t
    BY <1>2 DEF FindFreeFileEntry, FreeEntryCleared
  <2>2. e \in Slots /\ e \in 0..t.size /\ ~t.files[e].exists
    BY <1>1, <2>1 DEF Slots, TableInv, EntryOK
  <2>3. Kept(t, t, {0}) /\ Kept(t, t, {})
    BY DEF Kept
  <2> HIDE DEF u
  <2> QED BY <2>1, <2>2, <2>3 DEF u
<1>3. CASE F # {}
  <2>1. F \in SUBSET Nat /\ F \in SUBSET Slots
    BY <1>1 DEF FreeEntries, Slots
  <2>2. e = Min(F) /\ e \in F /\ u = ClearFileEntry(t, e)
    BY <1>3, <2>1, MinOfNaturals DEF FindFreeFileEntry, FreeEntryCleared
  <2>3. e \in Slots /\ e \in 0..t.size /\ t.files[e].hashIndex = 0
    <3>1. e \in Slots /\ e \in 0..t.size - 1 /\ ~t.files[e].exists
      BY <2>1, <2>2 DEF FreeEntries
    <3>2. EntryOK(t, e)
      BY <3>1 DEF TableInv
    <3> QED BY <1>1, <3>1, <3>2 DEF EntryOK
  <2> HIDE DEF u
  <2>4. /\ TableInv(u)
        /\ UsedSlots(u) = UsedSlots(t) \ {t.files[e].hashIndex}
        /\ \A s \in UsedSlots(u) : u.hash[s] = t.hash[s]
        /\ u.files = [t.files EXCEPT ![e] = ClearedEntry] /\ u.size = t.size
    BY <2>2, <2>3, ClearFileEntryFacts
  <2>5. ~u.files[e].exists
    BY <1>1, <2>3, <2>4 DEF ClearedEntry
  <2>6. Kept(t, u, {0}) /\ Kept(u, t, {})
    BY <2>3, <2>4 DEF Kept
  <2> QED BY <2>3, <2>4, <2>5, <2>6 DEF u
<1> QED BY <1>2, <1>3

\* A new file is entered completely: it has an entry, and a slot that leads
\* there.
LEMMA AllocateFileEntryFacts ==
  ASSUME HomeOK, NEW t, TableInv(t), NEW e, e = FindFreeFileEntry(t), e # NoEntry,
         NEW n \in Names, NEW lc \in Locales, SlotsOf(t, n, lc) = {}
  PROVE  LET u == AllocateFileEntry(t, e, n, lc)
         IN /\ e \in Slots
            /\ TableInv(u)
            /\ SlotsOf(u, n, lc) # {}
            /\ Kept(t, u, {0})
            /\ \A s \in UsedSlots(u) :
                  \/ s \in UsedSlots(t) /\ u.hash[s] = t.hash[s]
                  \/ u.hash[s] = [name |-> n, locale |-> lc, block |-> e]
<1> DEFINE c == FreeEntryCleared(t)
           entry == [exists |-> TRUE, locale |-> lc, hashIndex |-> c.files[e].hashIndex]
           size == IF e = t.size THEN t.size + 1 ELSE t.size
           v == [c EXCEPT !.files[e] = entry, !.size = size]
           u == AllocateHashEntry(v, e, n, lc)
<1>1. /\ e \in Slots /\ e \in 0..t.size /\ TableInv(c) /\ c.size = t.size
      /\ ~c.files[e].exists /\ Kept(t, c, {0}) /\ Kept(c, t, {})
  BY FindFreeFileEntryFacts
<1>2. u = AllocateFileEntry(t, e, n, lc)
  BY DEF AllocateFileEntry
<1> HIDE DEF c
<1>3. /\ c \in Tables /\ c.files \in [Slots -> TypeOfEntry] /\ t.size \in 0..H /\ H \in Nat
  BY <1>1, HAssumption DEF TableInv, Tables
<1>4. entry \in TypeOfEntry /\ size \in 0..H /\ e < size /\ t.size <= size
  <2>1. c.files[e].hashIndex \in Slots
    BY <1>1, <1>3 DEF TypeOfEntry
  <2>2. entry \in TypeOfEntry
    BY <2>1 DEF TypeOfEntry
  <2>3. size \in 0..H /\ e < size /\ t.size <= size
    BY <1>1, <1>3 DEF Slots
  <2> QED BY <2>2, <2>3
<1>5. entry.exists /\ entry.locale = lc
  OBVIOUS
<1> HIDE DEF entry, size
<1>6. /\ v.hash = c.hash /\ v.size = size /\ v \in Tables
      /\ v.files = [c.files EXCEPT ![e] = entry]
  <2>1. v.hash = c.hash /\ v.size = size /\ v.files = [c.files EXCEPT ![e] = entry]
    BY <1>3 DEF Tables
  <2>2. v.files \in [Slots -> TypeOfEntry]
    BY <1>1, <1>3, <1>4, <2>1
  <2>3. v = [hash |-> c.hash, files |-> [c.files EXCEPT ![e] = entry], size |-> size]
    <3> DEFINE w == [c EXCEPT !.files[e] = entry]
    <3>1. w = [hash |-> w.hash, files |-> w.files, size |-> w.size]
      BY <1>3 DEF Tables
    <3>2. w.hash = c.hash /\ w.files = [c.files EXCEPT ![e] = entry]
      BY <1>3 DEF Tables
    <3>3. v = [w EXCEPT !.size = size]
      OBVIOUS
    <3> HIDE DEF v, w
    <3>4. v = [hash |-> w.hash, files |-> w.files, size |-> size]
      BY <3>1, <3>3
    <3> QED BY <3>2, <3>4
  <2> QED BY <1>3, <1>4, <2>1, <2>2, <2>3 DEF Tables
<1>7. \A f \in Slots : v.files[f] = IF f = e THEN entry ELSE c.files[f]
  BY <1>3, <1>6
<1> HIDE DEF v
<1>8. UsedSlots(v) = UsedSlots(c)
  BY <1>6 DEF UsedSlots
<1>9. ASSUME NEW s \in UsedSlots(v)
      PROVE  SlotOK(v, s) /\ v.hash[s].block # e
  <2>1. SlotOK(c, s)
    BY <1>1, <1>8, <1>9 DEF TableInv
  <2>2. c.hash[s].block # e
    BY <1>1, <2>1 DEF SlotOK
  <2>3. c.hash[s].block \in Slots /\ c.hash[s].block \in 0..size - 1
    BY <1>1, <1>3, <1>4, <2>1 DEF SlotOK, Slots
  <2> QED BY <1>6, <1>7, <2>1, <2>2, <2>3 DEF SlotOK, Reached
<1>10. \A r, s \in UsedSlots(v) : SameFile(v, r, s) => r = s
  BY <1>1, <1>6, <1>8 DEF TableInv, SameFile
<1>11. \A f \in Slots : EntryOK(v, f)
  <2>1. \A f \in Slots : EntryOK(c, f)
    BY <1>1 DEF TableInv
  <2>2. \A f \in Slots : f < t.size => f < size
    BY <1>3, <1>4 DEF Slots
  <2> QED BY <1>1, <1>4, <1>5, <1>6, <1>7, <2>1, <2>2 DEF EntryOK
<1>12. TableInv(v)
  BY <1>6, <1>9, <1>10, <1>11 DEF TableInv
<1>13. SlotsOf(v, n, lc) = {}
  BY <1>1, <1>6, <1>8 DEF SlotsOf, Kept
<1>14. v.files[e].exists /\ v.files[e].locale = lc
  BY <1>1, <1>5, <1>7
<1>15. \E s \in Slots : s \notin UsedSlots(v)
  BY <1>1, <1>8, SpareSlot
<1>16. /\ TableInv(u) /\ Added(v, u, n, lc, e) /\ SlotsOf(u, n, lc) # {}
  BY <1>1, <1>9, <1>12, <1>13, <1>14, <1>15, AllocateHashEntryFacts
<1> HIDE DEF u
<1>17. Kept(t, u, {0})
  BY <1>1, <1>6, <1>8, <1>16 DEF Kept, Added
<1>18. ASSUME NEW s \in UsedSlots(u)
       PROVE  \/ s \in UsedSlots(t) /\ u.hash[s] = t.hash[s]
              \/ u.hash[s] = [name |-> n, locale |-> lc, block |-> e]
  BY <1>1, <1>6, <1>8, <1>16, <1>18 DEF Kept, Added
<1> QED BY <1>1, <1>2, <1>16, <1>17, <1>18

\* Taking the list file out takes out nothing else.
LEMMA InvalidatedFacts ==
  ASSUME HomeOK, NEW t, TableInv(t)
  PROVE  LET u == Invalidated(t)
         IN /\ TableInv(u)
            /\ Kept(u, t, {})
            /\ \A s \in UsedSlots(t) : t.hash[s].name # ListName => s \in UsedSlots(u)
            /\ invListfile \/ SlotsOf(u, ListName, Neutral) = {}
<1> DEFINE u == Invalidated(t)
           e == GetFileEntryExact(t, ListName, Neutral)
<1>1. CASE invListfile \/ e = NoEntry
  <2>1. u = t
    BY <1>1 DEF Invalidated
  <2>2. invListfile \/ SlotsOf(t, ListName, Neutral) = {}
    BY <1>1, NamesAssumption, ExactFacts
  <2> HIDE DEF u
  <2> QED BY <2>1, <2>2 DEF Kept, u
<1>2. CASE ~invListfile /\ e # NoEntry
  <2>1. u = FreeFileEntry(t, e)
    BY <1>2 DEF Invalidated
  <2>2. PICK s \in SlotsOf(t, ListName, Neutral) : e = t.hash[s].block
    BY <1>2, NamesAssumption, ExactFacts
  <2>3. s \in UsedSlots(t) /\ SlotOK(t, s) /\ t.hash[s].name = ListName /\ t.hash[s].locale = Neutral
    BY <2>2 DEF SlotsOf, TableInv
  <2>4. e \in Slots /\ t.files[e].hashIndex = s
    BY <2>2, <2>3, HAssumption DEF SlotOK, Slots, TableInv, Tables
  <2> HIDE DEF u, e
  <2>5. /\ TableInv(u) /\ UsedSlots(u) = UsedSlots(t) \ {s}
        /\ \A r \in UsedSlots(u) : u.hash[r] = t.hash[r]
    BY <2>1, <2>4, FreeFileEntryFacts
  <2>6. SlotsOf(u, ListName, Neutral) = {}
    BY <2>3, <2>5 DEF SlotsOf, TableInv, SameFile
  <2> QED BY <2>3, <2>5, <2>6 DEF Kept, u
<1> QED BY <1>1, <1>2

\* Adding the list file costs no other file its slot, except that in slot 0.
LEMMA ListFileSavedFacts ==
  ASSUME HomeOK, NEW t, TableInv(t), SlotsOf(t, ListName, Neutral) = {}, NEW ok \in BOOLEAN
  PROVE  LET u == ListFileSaved(t, ok)
         IN /\ TableInv(u)
            /\ Kept(t, u, {0})
            /\ \A s \in UsedSlots(u) :
                  \/ s \in UsedSlots(t) /\ u.hash[s] = t.hash[s]
                  \/ u.hash[s].name = ListName
            /\ FindFreeFileEntry(t) = NoEntry \/ ~ok => SlotsOf(u, ListName, Neutral) = {}
<1> DEFINE u == ListFileSaved(t, ok)
           e == FindFreeFileEntry(t)
           v == AllocateFileEntry(t, e, ListName, Neutral)
<1>1. CASE e = NoEntry
  <2>1. u = t
    BY <1>1 DEF ListFileSaved
  <2> HIDE DEF u
  <2> QED BY <2>1 DEF Kept, u
<1>2. CASE e # NoEntry
  <2>1. /\ e \in Slots /\ TableInv(v) /\ SlotsOf(v, ListName, Neutral) # {}
        /\ Kept(t, v, {0})
        /\ \A s \in UsedSlots(v) :
              \/ s \in UsedSlots(t) /\ v.hash[s] = t.hash[s]
              \/ v.hash[s] = [name |-> ListName, locale |-> Neutral, block |-> e]
    BY <1>2, NamesAssumption, AllocateFileEntryFacts
  <2>2. u = IF ok THEN v ELSE FreeFileEntry(v, e)
    BY <1>2 DEF ListFileSaved
  <2> HIDE DEF u, v, e
  <2>3. CASE ok
    BY <1>2, <2>1, <2>2, <2>3 DEF u, e
  <2>4. CASE ~ok
    <3>1. PICK s \in SlotsOf(v, ListName, Neutral) : TRUE
      BY <2>1
    <3>2. s \in UsedSlots(v) /\ v.hash[s].name = ListName /\ v.hash[s].locale = Neutral
      BY <3>1 DEF SlotsOf
    <3>3. s \notin UsedSlots(t) \/ v.hash[s] # t.hash[s]
      BY <3>2 DEF SlotsOf
    <3>4. v.hash[s].block = e
      BY <2>1, <3>2, <3>3
    <3>5. v.files[e].hashIndex = s
      BY <2>1, <3>2, <3>4 DEF TableInv, SlotOK
    <3>6. /\ TableInv(u) /\ UsedSlots(u) = UsedSlots(v) \ {s}
          /\ \A r \in UsedSlots(u) : u.hash[r] = v.hash[r]
      BY <2>1, <2>2, <2>4, <3>5, FreeFileEntryFacts
    <3>7. SlotsOf(u, ListName, Neutral) = {}
      BY <2>1, <3>2, <3>6 DEF SlotsOf, TableInv, SameFile
    <3>8. Kept(t, u, {0})
      BY <2>1, <3>3, <3>6 DEF Kept
    <3>9. \A r \in UsedSlots(u) : \/ r \in UsedSlots(t) /\ u.hash[r] = t.hash[r]
                                  \/ u.hash[r].name = ListName
      BY <2>1, <3>6
    <3> QED BY <3>6, <3>7, <3>8, <3>9 DEF u, e
  <2> QED BY <2>3, <2>4
<1> QED BY <1>1, <1>2

\* Closing and opening an archive keeps every slot that is in use.
LEMMA RebuiltFacts ==
  ASSUME NEW t, TableInv(t)
  PROVE  LET u == Rebuilt(t)
         IN TableInv(u) /\ Kept(t, u, {}) /\ Kept(u, t, {})
<1> DEFINE u == Rebuilt(t)
           ofFile(s) == t.hash[s].block \in 0..t.size - 1 /\ t.files[t.hash[s].block].exists
           slotOf(e) == {s \in Slots : ofFile(s) /\ t.hash[s].block = e}
           entry(e) == IF slotOf(e) = {} THEN ClearedEntry
                       ELSE [exists |-> TRUE, locale |-> t.hash[Max(slotOf(e))].locale,
                             hashIndex |-> Max(slotOf(e))]
           slot(s) == IF t.hash[s].block \in 0..t.size - 1 /\ ~ofFile(s)
                      THEN ClearedHash(Deleted) ELSE t.hash[s]
<1>1. /\ t.hash \in [Slots -> TypeOfHash] /\ t.files \in [Slots -> TypeOfEntry]
      /\ t.size \in 0..H /\ H \in Nat
  BY HAssumption DEF TableInv, Tables
<1>2. /\ u.hash = [s \in Slots |-> slot(s)] /\ u.files = [e \in Slots |-> entry(e)]
      /\ u.size = t.size
  BY DEF Rebuilt
<1>3. \A s \in UsedSlots(t) : ofFile(s) /\ t.hash[s].block \in Slots
  BY <1>1 DEF TableInv, SlotOK, Slots
<1>4. \A s \in Slots : ofFile(s) => s \in UsedSlots(t)
  BY <1>1 DEF UsedSlots, Free, Deleted
<1>5. \A s \in Slots : slot(s) = t.hash[s]
  <2>1. \A s \in Slots : t.hash[s].block \in 0..t.size - 1 => s \in UsedSlots(t)
    BY <1>1 DEF UsedSlots, Free, Deleted
  <2> QED BY <1>3, <2>1
<1>6. u.hash = t.hash
  BY <1>1, <1>2, <1>5
<1>7. ASSUME NEW s \in UsedSlots(t)
      PROVE  slotOf(t.hash[s].block) = {s}
  BY <1>3, <1>4, <1>7 DEF TableInv, SlotOK, UsedSlots
<1>8. \A s \in UsedSlots(t) : Max(slotOf(t.hash[s].block)) = s
  <2>1. \A s \in Slots : Max({s}) = s
    BY <1>1 DEF Max, Slots
  <2> QED BY <1>7, <2>1 DEF UsedSlots
<1>9. \A s \in UsedSlots(t) :
        entry(t.hash[s].block) = [exists |-> TRUE, locale |-> t.hash[s].locale, hashIndex |-> s]
  BY <1>7, <1>8
<1>10. \A e \in Slots : \/ entry(e) = ClearedEntry
                        \/ \E s \in UsedSlots(t) : t.hash[s].block = e
  BY <1>4
<1> HIDE DEF u, entry, slot, slotOf, ofFile
<1>11. \A s \in UsedSlots(t) : u.files[t.hash[s].block] =
                                 [exists |-> TRUE, locale |-> t.hash[s].locale, hashIndex |-> s]
  BY <1>2, <1>3, <1>9
<1>12. UsedSlots(u) = UsedSlots(t)
  BY <1>6 DEF UsedSlots
<1>13. ASSUME NEW s \in UsedSlots(u)
       PROVE  SlotOK(u, s)
  <2>1. SlotOK(t, s)
    BY <1>12, <1>13 DEF TableInv
  <2>2. u.files[t.hash[s].block] = [exists |-> TRUE, locale |-> t.hash[s].locale, hashIndex |-> s]
    BY <1>11, <1>12, <1>13
  <2> QED BY <1>2, <1>6, <2>1, <2>2 DEF SlotOK, Reached
<1>14. ASSUME NEW e \in Slots
       PROVE  u.files[e] \in TypeOfEntry /\ EntryOK(u, e)
  <2>1. ClearedEntry \in TypeOfEntry
    BY NamesAssumption, HAssumption DEF ClearedEntry, TypeOfEntry, Slots
  <2>2. CASE entry(e) = ClearedEntry
    <3>1. u.files[e] = ClearedEntry
      BY <1>2, <2>2
    <3> QED BY <2>1, <3>1 DEF ClearedEntry, EntryOK
  <2>3. CASE \E s \in UsedSlots(t) : t.hash[s].block = e
    <3>1. PICK s \in UsedSlots(t) : t.hash[s].block = e
      BY <2>3
    <3>2. SlotOK(t, s) /\ s \in Slots
      BY <3>1 DEF TableInv, UsedSlots
    <3>3. e < t.size /\ t.hash[s].locale \in Locales
      BY <1>1, <3>1, <3>2 DEF SlotOK
    <3>4. u.files[e] = [exists |-> TRUE, locale |-> t.hash[s].locale, hashIndex |-> s]
      BY <1>11, <3>1
    <3>5. u.files[e] \in TypeOfEntry
      BY <3>2, <3>3, <3>4 DEF TypeOfEntry
    <3>6. u.files[e].exists
      BY <3>4
    <3>7. u.size = t.size
      BY <1>2
    <3> QED BY <3>3, <3>5, <3>6, <3>7 DEF EntryOK
  <2> QED BY <1>10, <2>2, <2>3
<1>15. u \in Tables
  <2>1. u.files \in [Slots -> TypeOfEntry]
    BY <1>2, <1>14
  <2>2. u = [hash |-> u.hash, files |-> u.files, size |-> u.size]
    BY DEF u, Rebuilt
  <2> QED BY <1>1, <1>2, <1>6, <2>1, <2>2 DEF Tables
<1>16. \A r, s \in UsedSlots(u) : SameFile(u, r, s) => r = s
  BY <1>6, <1>12 DEF TableInv, SameFile
<1>17. TableInv(u)
  BY <1>13, <1>14, <1>15, <1>16 DEF TableInv
<1>18. Kept(t, u, {}) /\ Kept(u, t, {})
  BY <1>6, <1>12 DEF Kept
<1> QED BY <1>17, <1>18 DEF u

-----------------------------------------------------------------------------
\* THE INVARIANT

\* A file of the user that has a slot is held.
Listed(t, h) ==
    \A s \in UsedSlots(t) : t.hash[s].name \in User =>
        <<t.hash[s].name, t.hash[s].locale>> \in h

\* With MPQ_FLAG_INV_LISTFILE there is no list file.
NoList(t, inv) == inv => SlotsOf(t, ListName, Neutral) = {}

\* The entry that is written to has the slot of the file that is added.
Writing(t, w, f) ==
    w # NoEntry =>
        t.hash[t.files[w].hashIndex] = [name |-> f[1], locale |-> f[2], block |-> w]

IInv ==
    /\ TypeOK
    /\ TableInv(mpq)
    /\ Listed(mpq, held)
    /\ NoList(mpq, invListfile)
    /\ Writing(mpq, writing, adding)

\* What a step does to the files that have a slot: KeepsFiles, said of slots.
KeepsSlots ==
    \A f \in held' :
        \/ f \in held /\ SlotsOf(mpq, f[1], f[2]) = {}
        \/ SlotsOf(mpq', f[1], f[2]) # {}
        \/ 0 \in SlotsOf(mpq, f[1], f[2])

\* A step that makes the table u keeps the invariant if u does.
LEMMA StepKeepsInv ==
  ASSUME IInv, NEW u, TableInv(u), mpq' = u, home' = home,
         invListfile' \in BOOLEAN, writing' \in Slots \cup {NoEntry},
         adding' \in Names \X Locales, held' \subseteq User \X Locales,
         Listed(u, held'), NoList(u, invListfile'), Writing(u, writing', adding')
  PROVE  IInv'
<1>1. u \in Tables
  BY DEF TableInv
<1>2. TypeOK'
  BY <1>1 DEF IInv, TypeOK
<1>3. TableInv(mpq)'
  BY DEF TableInv, UsedSlots, SlotOK, Reached, SameFile, EntryOK
<1>4. Listed(mpq, held)' /\ NoList(mpq, invListfile)' /\ Writing(mpq, writing, adding)'
  BY DEF Listed, NoList, Writing, UsedSlots, SlotsOf
<1> QED BY <1>2, <1>3, <1>4 DEF IInv

\* The table without its list file, as the changes of an archive begin with.
LEMMA InvalidatedStep ==
  ASSUME IInv
  PROVE  LET t == Invalidated(mpq)
         IN /\ HomeOK /\ TableInv(t)
            /\ Listed(t, held) /\ NoList(t, TRUE)
            /\ Kept(t, mpq, {})
            /\ \A f \in held : SlotsOf(mpq, f[1], f[2]) \subseteq SlotsOf(t, f[1], f[2])
<1> DEFINE t == Invalidated(mpq)
<1>1. HomeOK /\ TableInv(mpq) /\ held \subseteq User \X Locales
  BY DEF IInv, TypeOK, HomeOK
<1>2. /\ TableInv(t) /\ Kept(t, mpq, {})
      /\ \A s \in UsedSlots(mpq) : mpq.hash[s].name # ListName => s \in UsedSlots(t)
      /\ invListfile \/ SlotsOf(t, ListName, Neutral) = {}
  BY <1>1, InvalidatedFacts
<1> HIDE DEF t
<1>3. Listed(t, held)
  BY <1>2 DEF IInv, Listed, Kept
<1>4. NoList(t, TRUE)
  BY <1>2 DEF IInv, NoList, Kept, SlotsOf
<1>5. ASSUME NEW f \in held, NEW s \in SlotsOf(mpq, f[1], f[2])
      PROVE  s \in SlotsOf(t, f[1], f[2])
  <2>1. f[1] # ListName
    BY <1>1, <1>5 DEF User
  <2>2. s \in UsedSlots(mpq) /\ mpq.hash[s].name = f[1] /\ mpq.hash[s].locale = f[2]
    BY <1>5 DEF SlotsOf
  <2>3. s \in UsedSlots(t)
    BY <1>2, <2>1, <2>2
  <2> QED BY <1>2, <2>2, <2>3 DEF SlotsOf, Kept
<1> QED BY <1>1, <1>2, <1>3, <1>4, <1>5 DEF t

-----------------------------------------------------------------------------
\* THE STEPS

LEMMA CreateFileStep ==
  ASSUME IInv, NEW n \in User, NEW lc \in Locales, NEW replace \in BOOLEAN,
         CreateFile(n, lc, replace)
  PROVE  IInv' /\ KeepsSlots
<1> DEFINE t == Invalidated(mpq)
           old == GetFileEntryExact(t, n, lc)
           e == FindFreeFileEntry(t)
<1>1. /\ HomeOK /\ TableInv(t) /\ Listed(t, held) /\ NoList(t, TRUE)
      /\ \A f \in held : SlotsOf(mpq, f[1], f[2]) \subseteq SlotsOf(t, f[1], f[2])
  BY InvalidatedStep
<1>2. /\ n \in Names /\ n # ListName /\ <<n, lc>> \in Names \X Locales
      /\ held \subseteq User \X Locales /\ home' = home /\ invListfile' = TRUE
      /\ writing = NoEntry /\ adding \in Names \X Locales
  BY DEF User, CreateFile, Idle, IInv, TypeOK
<1>3. \/ old # NoEntry /\ mpq' = t /\ writing' = old /\ adding' = <<n, lc>> /\ held' = held
      \/ /\ old = NoEntry /\ e # NoEntry /\ mpq' = AllocateFileEntry(t, e, n, lc)
         /\ writing' = e /\ adding' = <<n, lc>> /\ held' = held \cup {<<n, lc>>}
      \/ mpq' = t /\ writing' = writing /\ adding' = adding /\ held' = held
  BY DEF CreateFile
<1> HIDE DEF t, old, e
<1>4. ASSUME mpq' = t, held' = held
      PROVE  KeepsSlots
  BY <1>1, <1>4 DEF KeepsSlots
<1>5. CASE old # NoEntry /\ mpq' = t /\ writing' = old /\ adding' = <<n, lc>> /\ held' = held
  <2>1. PICK s \in SlotsOf(t, n, lc) : old = t.hash[s].block
    BY <1>1, <1>2, <1>5, ExactFacts DEF old
  <2>2. /\ s \in UsedSlots(t) /\ SlotOK(t, s) /\ t.hash[s].name = n /\ t.hash[s].locale = lc
        /\ t.hash[s] \in TypeOfHash /\ t.size \in 0..H
    BY <1>1, <2>1 DEF SlotsOf, TableInv, Tables, UsedSlots
  <2>3. old \in Slots /\ t.files[old].hashIndex = s
    BY <2>1, <2>2, HAssumption DEF SlotOK, Slots
  <2>4. t.hash[s] = [name |-> n, locale |-> lc, block |-> old]
    BY <2>1, <2>2 DEF TypeOfHash
  <2>5. Writing(t, writing', adding')
    BY <1>5, <2>3, <2>4 DEF Writing
  <2>6. IInv'
    BY <1>1, <1>2, <1>5, <2>3, <2>5, StepKeepsInv
  <2> QED BY <1>4, <1>5, <2>6
<1>6. CASE /\ old = NoEntry /\ e # NoEntry /\ mpq' = AllocateFileEntry(t, e, n, lc)
           /\ writing' = e /\ adding' = <<n, lc>> /\ held' = held \cup {<<n, lc>>}
  <2> DEFINE u == AllocateFileEntry(t, e, n, lc)
  <2>1. SlotsOf(t, n, lc) = {}
    BY <1>1, <1>2, <1>6, ExactFacts DEF old
  <2>2. /\ e \in Slots /\ TableInv(u) /\ SlotsOf(u, n, lc) # {} /\ Kept(t, u, {0})
        /\ \A s \in UsedSlots(u) : \/ s \in UsedSlots(t) /\ u.hash[s] = t.hash[s]
                                   \/ u.hash[s] = [name |-> n, locale |-> lc, block |-> e]
    BY <1>1, <1>2, <1>6, <2>1, AllocateFileEntryFacts DEF e
  <2>3. mpq' = u
    BY <1>6
  <2> HIDE DEF u
  <2>4. Listed(u, held')
    BY <1>1, <1>6, <2>2 DEF Listed
  <2>5. NoList(u, TRUE)
    BY <1>1, <1>2, <2>2 DEF NoList, SlotsOf
  <2>6. Writing(u, e, <<n, lc>>)
    <3>1. PICK s \in SlotsOf(u, n, lc) : TRUE
      BY <2>2
    <3>2. s \in UsedSlots(u) /\ u.hash[s].name = n /\ u.hash[s].locale = lc
      BY <3>1 DEF SlotsOf
    <3>3. ~(s \in UsedSlots(t) /\ u.hash[s] = t.hash[s])
      BY <2>1, <3>2 DEF SlotsOf
    <3>4. u.hash[s] = [name |-> n, locale |-> lc, block |-> e]
      BY <2>2, <3>2, <3>3
    <3>5. u.files[e].hashIndex = s
      BY <2>2, <3>2, <3>4 DEF TableInv, SlotOK
    <3> QED BY <3>4, <3>5 DEF Writing
  <2>7. held' \subseteq User \X Locales
    BY <1>2, <1>6
  <2>8. IInv'
    BY <1>2, <1>6, <2>2, <2>3, <2>4, <2>5, <2>6, <2>7, StepKeepsInv
  <2>9. ASSUME NEW f \in held'
        PROVE  \/ f \in held /\ SlotsOf(mpq, f[1], f[2]) = {}
               \/ SlotsOf(mpq', f[1], f[2]) # {}
               \/ 0 \in SlotsOf(mpq, f[1], f[2])
    <3>1. CASE f = <<n, lc>>
      BY <2>2, <2>3, <3>1
    <3>2. CASE f # <<n, lc>>
      <4>1. f \in held
        BY <1>6, <2>9, <3>2
      <4>2. SUFFICES ASSUME NEW s \in SlotsOf(mpq, f[1], f[2]), s # 0
                     PROVE  s \in SlotsOf(u, f[1], f[2])
        BY <2>3, <4>1
      <4>3. s \in SlotsOf(t, f[1], f[2])
        BY <1>1, <4>1, <4>2
      <4> QED BY <2>2, <4>2, <4>3 DEF SlotsOf, Kept
    <3> QED BY <3>1, <3>2
  <2> QED BY <2>8, <2>9 DEF KeepsSlots
<1>7. CASE mpq' = t /\ writing' = writing /\ adding' = adding /\ held' = held
  <2>1. Writing(t, writing', adding')
    BY <1>2, <1>7 DEF Writing
  <2>2. IInv'
    BY <1>1, <1>2, <1>7, <2>1, StepKeepsInv
  <2> QED BY <1>4, <1>7, <2>2
<1> QED BY <1>3, <1>5, <1>6, <1>7

\* Freeing the entry of a file takes this file out and no other.
LEMMA FreedFacts ==
  ASSUME NEW t, TableInv(t), NEW h, Listed(t, h), NEW s \in UsedSlots(t), NEW e,
         e = t.hash[s].block
  PROVE  LET u == FreeFileEntry(t, e)
             f == <<t.hash[s].name, t.hash[s].locale>>
         IN /\ TableInv(u) /\ Kept(u, t, {}) /\ Kept(t, u, {s})
            /\ Listed(u, h \ {f})
<1> DEFINE u == FreeFileEntry(t, e)
           f == <<t.hash[s].name, t.hash[s].locale>>
<1>1. SlotOK(t, s) /\ t.size \in 0..H /\ H \in Nat
  BY HAssumption DEF TableInv, Tables
<1>2. e \in Slots /\ t.files[e].hashIndex = s
  BY <1>1 DEF SlotOK, Slots
<1>3. /\ TableInv(u) /\ UsedSlots(u) = UsedSlots(t) \ {s}
      /\ \A r \in UsedSlots(u) : u.hash[r] = t.hash[r]
  BY <1>2, FreeFileEntryFacts
<1> HIDE DEF u
<1>4. Listed(u, h \ {f})
  BY <1>3 DEF Listed, TableInv, SameFile
<1>5. Kept(u, t, {}) /\ Kept(t, u, {s})
  BY <1>3 DEF Kept
<1> QED BY <1>3, <1>4, <1>5 DEF u

LEMMA FinishFileStep ==
  ASSUME IInv, FinishFile
  PROVE  IInv' /\ KeepsSlots
<1>1. /\ HomeOK /\ TableInv(mpq) /\ Listed(mpq, held) /\ NoList(mpq, invListfile)
      /\ Writing(mpq, writing, adding) /\ writing \in Slots /\ adding \in Names \X Locales
      /\ held \subseteq User \X Locales /\ invListfile \in BOOLEAN
      /\ home' = home /\ invListfile' = invListfile
      /\ writing' = NoEntry /\ adding' \in Names \X Locales
  BY NamesAssumption DEF IInv, TypeOK, HomeOK, FinishFile, Idle, NoFile
<1>2. \A t : Writing(t, writing', adding')
  BY <1>1 DEF Writing
<1>3. CASE UNCHANGED <<mpq, held>>
  <2>1. IInv'
    BY <1>1, <1>2, <1>3, StepKeepsInv
  <2>2. KeepsSlots
    BY <1>3 DEF KeepsSlots
  <2> QED BY <2>1, <2>2
<1>4. CASE mpq' = FreeFileEntry(mpq, writing) /\ held' = held \ {adding}
  <2> DEFINE s == mpq.files[writing].hashIndex
             u == FreeFileEntry(mpq, writing)
  <2>1. /\ s \in Slots
        /\ mpq.hash[s] = [name |-> adding[1], locale |-> adding[2], block |-> writing]
    <3>1. s \in Slots
      BY <1>1 DEF TableInv, Tables, TypeOfEntry
    <3>2. writing # NoEntry
      BY <1>1, HAssumption DEF Slots, NoEntry
    <3> QED BY <1>1, <3>1, <3>2 DEF Writing
  <2> HIDE DEF s
  <2>2. s \in UsedSlots(mpq) /\ writing = mpq.hash[s].block
    BY <1>1, <2>1, HAssumption DEF UsedSlots, Slots, Free, Deleted
  <2>3. <<mpq.hash[s].name, mpq.hash[s].locale>> = adding
    BY <1>1, <2>1
  <2>4. /\ TableInv(u) /\ Kept(u, mpq, {}) /\ Kept(mpq, u, {s})
        /\ Listed(u, held \ {adding})
    BY <1>1, <2>2, <2>3, FreedFacts
  <2> HIDE DEF u
  <2>5. NoList(u, invListfile)
    BY <1>1, <2>4 DEF NoList, SlotsOf, Kept
  <2>6. IInv'
    <3>1. mpq' = u /\ held' = held \ {adding}
      BY <1>4 DEF u
    <3> QED BY <1>1, <1>2, <2>4, <2>5, <3>1, StepKeepsInv
  <2>7. ASSUME NEW f \in held', SlotsOf(mpq, f[1], f[2]) # {}
        PROVE  SlotsOf(u, f[1], f[2]) # {}
    <3>1. f # adding /\ f \in User \X Locales
      BY <1>1, <1>4, <2>7
    <3>2. PICK r \in SlotsOf(mpq, f[1], f[2]) : TRUE
      BY <2>7
    <3>3. r # s
      BY <2>3, <3>1, <3>2 DEF SlotsOf
    <3> QED BY <2>4, <3>2, <3>3 DEF SlotsOf, Kept
  <2>8. KeepsSlots
    BY <1>4, <2>7 DEF KeepsSlots, u
  <2> QED BY <2>6, <2>8
<1> QED BY <1>3, <1>4 DEF FinishFile

LEMMA RemoveFileStep ==
  ASSUME IInv, NEW n \in User, NEW lc \in Locales, RemoveFile(n, lc)
  PROVE  IInv' /\ KeepsSlots
<1> DEFINE t == Invalidated(mpq)
           e == GetFileEntryExact(mpq, n, lc)
           u == FreeFileEntry(t, e)
<1>1. /\ HomeOK /\ TableInv(t) /\ Listed(t, held) /\ NoList(t, TRUE) /\ Kept(t, mpq, {})
      /\ \A f \in held : SlotsOf(mpq, f[1], f[2]) \subseteq SlotsOf(t, f[1], f[2])
  BY InvalidatedStep
<1>2. /\ TableInv(mpq) /\ n \in Names /\ Listed(mpq, held)
      /\ held \subseteq User \X Locales /\ home' = home /\ invListfile' = TRUE
      /\ writing' = NoEntry /\ adding' \in Names \X Locales
      /\ e # NoEntry /\ mpq' = u /\ held' = held \ {<<n, lc>>}
  BY DEF User, RemoveFile, Idle, IInv, TypeOK
<1> HIDE DEF t
<1>3. PICK s \in SlotsOf(mpq, n, lc) : e = mpq.hash[s].block
  BY <1>1, <1>2, ExactFacts
<1>4. <<n, lc>> \in held
  BY <1>2, <1>3 DEF SlotsOf, Listed
<1>5. s \in SlotsOf(t, n, lc)
  BY <1>1, <1>3, <1>4
<1>6. /\ s \in UsedSlots(t) /\ t.hash[s].block = e
      /\ <<t.hash[s].name, t.hash[s].locale>> = <<n, lc>>
  BY <1>1, <1>3, <1>5 DEF SlotsOf, Kept
<1> HIDE DEF e
<1>7. /\ TableInv(u) /\ Kept(u, t, {}) /\ Kept(t, u, {s})
      /\ Listed(u, held \ {<<n, lc>>})
  BY <1>1, <1>6, FreedFacts
<1> HIDE DEF u
<1>8. NoList(u, TRUE) /\ Writing(u, NoEntry, adding')
  BY <1>1, <1>7 DEF NoList, SlotsOf, Kept, Writing
<1>9. IInv'
  BY <1>2, <1>7, <1>8, StepKeepsInv
<1>10. ASSUME NEW f \in held', SlotsOf(mpq, f[1], f[2]) # {}
       PROVE  SlotsOf(u, f[1], f[2]) # {}
  <2>1. f # <<n, lc>> /\ f \in held /\ f = <<f[1], f[2]>>
    BY <1>2, <1>10
  <2>2. PICK r \in SlotsOf(t, f[1], f[2]) : TRUE
    BY <1>1, <1>10, <2>1
  <2>3. r # s
    BY <1>6, <2>1, <2>2 DEF SlotsOf
  <2> QED BY <1>7, <2>2, <2>3 DEF SlotsOf, Kept
<1>11. KeepsSlots
  BY <1>2, <1>10 DEF KeepsSlots
<1> QED BY <1>9, <1>11

LEMMA RenameFileStep ==
  ASSUME IInv, NEW n \in User, NEW lc \in Locales, NEW new \in User, RenameFile(n, lc, new)
  PROVE  IInv' /\ KeepsSlots
<1> DEFINE e == GetFileEntryLocale(mpq, n, lc)
           locale == mpq.files[e].locale
           v == ClearSlot(mpq, e)
           w == AllocateHashEntry(v, e, new, locale)
           u == Invalidated(w)
<1>1. /\ HomeOK /\ TableInv(mpq) /\ Listed(mpq, held) /\ NoList(mpq, invListfile)
      /\ n \in Names /\ new \in Names /\ n # ListName /\ new # ListName
      /\ held \subseteq User \X Locales /\ home' = home /\ invListfile' = TRUE
      /\ writing' = NoEntry /\ adding' \in Names \X Locales
  BY DEF User, RenameFile, Idle, IInv, TypeOK, HomeOK
<1>2. /\ e # NoEntry /\ GetFileEntryLocale(mpq, new, locale) = NoEntry /\ mpq' = u
      /\ held' = (held \ {<<n, locale>>}) \cup {<<new, locale>>}
  BY DEF RenameFile
<1>3. PICK s \in UsedSlots(mpq) : mpq.hash[s].name = n /\ e = mpq.hash[s].block
  BY <1>1, <1>2, LocaleFacts
<1> HIDE DEF e
<1>4. SlotOK(mpq, s) /\ mpq.size \in 0..H /\ H \in Nat
  BY <1>1, HAssumption DEF TableInv, Tables
<1>5. /\ e \in Slots /\ mpq.files[e].exists /\ mpq.files[e].hashIndex = s
      /\ mpq.hash[s].locale = locale /\ locale \in Locales
  BY <1>3, <1>4 DEF SlotOK, Slots
<1>6. SlotsOf(mpq, new, locale) = {}
  BY <1>1, <1>2, LocaleFacts
<1> HIDE DEF locale
<1>7. /\ TableInv(v) /\ UsedSlots(v) = UsedSlots(mpq) \ {s} /\ s \in Slots
      /\ \A r \in UsedSlots(v) : v.hash[r] = mpq.hash[r] /\ v.hash[r].block # e
      /\ v.files = mpq.files
  BY <1>1, <1>5, ClearSlotFacts
<1> HIDE DEF v
<1>8. SlotsOf(v, new, locale) = {}
  BY <1>6, <1>7 DEF SlotsOf
<1>9. v.files[e].exists /\ v.files[e].locale = locale
  BY <1>5, <1>7 DEF locale
<1>10. TableInv(w) /\ Added(v, w, new, locale, e) /\ SlotsOf(w, new, locale) # {}
  <2>1. \E r \in Slots : r \notin UsedSlots(v)
    BY <1>7
  <2> QED BY <1>1, <1>5, <1>7, <1>8, <1>9, <2>1, AllocateHashEntryFacts
<1> HIDE DEF w
<1>11. /\ TableInv(u) /\ Kept(u, w, {})
       /\ \A r \in UsedSlots(w) : w.hash[r].name # ListName => r \in UsedSlots(u)
       /\ invListfile \/ SlotsOf(u, ListName, Neutral) = {}
  BY <1>1, <1>10, InvalidatedFacts
<1> HIDE DEF u
<1>12. NoList(u, TRUE)
  BY <1>1, <1>7, <1>10, <1>11 DEF NoList, SlotsOf, Kept, Added
<1>13. Listed(u, held')
  <2>1. ASSUME NEW r \in UsedSlots(u), u.hash[r].name \in User
        PROVE  <<u.hash[r].name, u.hash[r].locale>> \in held'
    <3>1. r \in UsedSlots(w) /\ u.hash[r] = w.hash[r]
      BY <1>11, <2>1 DEF Kept
    <3>2. CASE r \in UsedSlots(v)
      <4>1. r \in UsedSlots(mpq) /\ r # s /\ u.hash[r] = mpq.hash[r]
        BY <1>7, <1>10, <3>1, <3>2 DEF Added
      <4>2. <<u.hash[r].name, u.hash[r].locale>> \in held
        BY <1>1, <2>1, <4>1 DEF Listed
      <4>3. <<u.hash[r].name, u.hash[r].locale>> # <<n, locale>>
        BY <1>1, <1>3, <1>5, <4>1 DEF TableInv, SameFile
      <4> QED BY <1>2, <4>2, <4>3
    <3>3. CASE r \notin UsedSlots(v)
      <4>1. u.hash[r] = [name |-> new, locale |-> locale, block |-> e]
        BY <1>10, <3>1, <3>3 DEF Added
      <4> QED BY <1>2, <4>1
    <3> QED BY <3>2, <3>3
  <2> QED BY <2>1 DEF Listed
<1>14. held' \subseteq User \X Locales
  BY <1>1, <1>2, <1>5
<1>15. Writing(u, NoEntry, adding')
  BY DEF Writing
<1>16. IInv'
  BY <1>1, <1>2, <1>11, <1>12, <1>13, <1>14, <1>15, StepKeepsInv
<1>17. ASSUME NEW f \in held', f \notin held \/ SlotsOf(mpq, f[1], f[2]) # {}
       PROVE  SlotsOf(u, f[1], f[2]) # {}
  <2>1. f[1] # ListName /\ f = <<f[1], f[2]>>
    BY <1>14, <1>17 DEF User
  <2>2. SUFFICES SlotsOf(w, f[1], f[2]) # {}
    BY <1>11, <2>1 DEF SlotsOf, Kept
  <2>3. CASE f = <<new, locale>>
    BY <1>10, <2>3
  <2>4. CASE f # <<new, locale>>
    <3>1. f # <<n, locale>> /\ f \in held
      BY <1>2, <1>17, <2>4
    <3>2. PICK r \in SlotsOf(mpq, f[1], f[2]) : TRUE
      BY <1>17, <3>1
    <3>3. r # s
      BY <1>3, <1>5, <2>1, <3>1, <3>2 DEF SlotsOf
    <3>4. r \in UsedSlots(v) /\ v.hash[r] = mpq.hash[r]
      BY <1>7, <3>2, <3>3 DEF SlotsOf
    <3> QED BY <1>10, <3>2, <3>4 DEF SlotsOf, Added
  <2> QED BY <2>3, <2>4
<1>18. KeepsSlots
  BY <1>2, <1>17 DEF KeepsSlots
<1> QED BY <1>16, <1>18

LEMMA SetFileLocaleStep ==
  ASSUME IInv, NEW n \in User, NEW lc \in Locales, NEW new \in Locales,
         SetFileLocale(n, lc, new)
  PROVE  IInv' /\ KeepsSlots
<1> DEFINE e == GetFileEntryLocale(mpq, n, lc)
           locale == mpq.files[e].locale
           u == [mpq EXCEPT !.files[e].locale = new,
                            !.hash[mpq.files[e].hashIndex].locale = new]
<1>1. /\ HomeOK /\ TableInv(mpq) /\ Listed(mpq, held) /\ NoList(mpq, invListfile)
      /\ n \in Names /\ n # ListName
      /\ held \subseteq User \X Locales /\ home' = home
      /\ invListfile' = invListfile /\ invListfile \in BOOLEAN
      /\ writing' = NoEntry /\ adding' \in Names \X Locales
  BY DEF User, SetFileLocale, Idle, IInv, TypeOK, HomeOK
<1>2. /\ e # NoEntry /\ GetFileEntryExact(mpq, n, new) = NoEntry /\ mpq' = u
      /\ held' = (held \ {<<n, locale>>}) \cup {<<n, new>>}
  BY DEF SetFileLocale
<1>3. PICK s \in UsedSlots(mpq) : mpq.hash[s].name = n /\ e = mpq.hash[s].block
  BY <1>1, <1>2, LocaleFacts
<1> HIDE DEF e
<1>4. /\ SlotOK(mpq, s) /\ mpq \in Tables /\ mpq.size \in 0..H /\ H \in Nat /\ s \in Slots
      /\ mpq.hash \in [Slots -> TypeOfHash] /\ mpq.files \in [Slots -> TypeOfEntry]
  BY <1>1, HAssumption DEF TableInv, Tables, UsedSlots
<1>5. /\ e \in Slots /\ mpq.files[e].exists /\ mpq.files[e].hashIndex = s
      /\ mpq.hash[s].locale = locale /\ locale \in Locales
  BY <1>3, <1>4 DEF SlotOK, Slots
<1>6. SlotsOf(mpq, n, new) = {}
  BY <1>1, <1>2, ExactFacts
<1> HIDE DEF locale
<1>7. /\ u.hash = [mpq.hash EXCEPT ![s].locale = new]
      /\ u.files = [mpq.files EXCEPT ![e].locale = new] /\ u.size = mpq.size
  BY <1>4, <1>5 DEF Tables
<1>8. u = [hash |-> u.hash, files |-> u.files, size |-> u.size]
  <2> DEFINE w == [mpq EXCEPT !.files[e].locale = new]
             x == [w.hash EXCEPT ![mpq.files[e].hashIndex].locale = new]
  <2>1. w = [hash |-> w.hash, files |-> w.files, size |-> w.size]
    BY <1>4 DEF Tables
  <2>2. u = [w EXCEPT !.hash = x]
    OBVIOUS
  <2> HIDE DEF u, w, x
  <2>3. u = [hash |-> x, files |-> w.files, size |-> w.size]
    BY <2>1, <2>2
  <2> QED BY <2>3
<1> HIDE DEF u
<1>9. u \in Tables
  <2>1. u.hash \in [Slots -> TypeOfHash]
    BY <1>4, <1>7 DEF TypeOfHash
  <2>2. u.files \in [Slots -> TypeOfEntry]
    BY <1>4, <1>5, <1>7 DEF TypeOfEntry
  <2> QED BY <1>4, <1>7, <1>8, <2>1, <2>2 DEF Tables
<1>10. /\ \A r \in Slots : /\ u.hash[r].name = mpq.hash[r].name
                           /\ u.hash[r].block = mpq.hash[r].block
                           /\ u.hash[r].locale = IF r = s THEN new ELSE mpq.hash[r].locale
       /\ \A f \in Slots : /\ u.files[f].exists = mpq.files[f].exists
                           /\ u.files[f].hashIndex = mpq.files[f].hashIndex
                           /\ u.files[f].locale = IF f = e THEN new ELSE mpq.files[f].locale
  <2>1. ASSUME NEW r \in Slots
        PROVE  /\ u.hash[r].name = mpq.hash[r].name
               /\ u.hash[r].block = mpq.hash[r].block
               /\ u.hash[r].locale = IF r = s THEN new ELSE mpq.hash[r].locale
    <3>1. mpq.hash[r] \in TypeOfHash
      BY <1>4
    <3>2. u.hash[r] = IF r = s THEN [mpq.hash[r] EXCEPT !.locale = new] ELSE mpq.hash[r]
      BY <1>4, <1>7
    <3> QED BY <3>1, <3>2 DEF TypeOfHash
  <2>2. ASSUME NEW f \in Slots
        PROVE  /\ u.files[f].exists = mpq.files[f].exists
               /\ u.files[f].hashIndex = mpq.files[f].hashIndex
               /\ u.files[f].locale = IF f = e THEN new ELSE mpq.files[f].locale
    <3>1. mpq.files[f] \in TypeOfEntry
      BY <1>4
    <3>2. u.files[f] = IF f = e THEN [mpq.files[f] EXCEPT !.locale = new] ELSE mpq.files[f]
      BY <1>4, <1>7
    <3> QED BY <3>1, <3>2 DEF TypeOfEntry
  <2> QED BY <2>1, <2>2
<1>11. UsedSlots(u) = UsedSlots(mpq)
  BY <1>10 DEF UsedSlots
<1>12. ASSUME NEW r \in UsedSlots(u)
       PROVE  SlotOK(u, r)
  <2>1. SlotOK(mpq, r) /\ r \in Slots
    BY <1>1, <1>11, <1>12 DEF TableInv, UsedSlots
  <2>2. mpq.hash[r].block \in Slots /\ (mpq.hash[r].block = e <=> r = s)
    BY <1>3, <1>4, <1>5, <2>1 DEF SlotOK, Slots
  <2>3. Reached(u, u.hash[r].name, r)
    BY <1>10, <2>1 DEF SlotOK, Reached
  <2> QED BY <1>7, <1>10, <2>1, <2>2, <2>3 DEF SlotOK
<1>13. \A q, r \in UsedSlots(u) : SameFile(u, q, r) => q = r
  <2>1. \A r \in UsedSlots(mpq) : ~(mpq.hash[r].name = n /\ mpq.hash[r].locale = new)
    BY <1>6 DEF SlotsOf
  <2> QED BY <1>1, <1>3, <1>10, <1>11, <2>1 DEF TableInv, SameFile, UsedSlots
<1>14. TableInv(u)
  BY <1>1, <1>7, <1>9, <1>10, <1>12, <1>13 DEF TableInv, EntryOK
<1>15. Listed(u, held')
  <2>1. ASSUME NEW r \in UsedSlots(u), u.hash[r].name \in User
        PROVE  <<u.hash[r].name, u.hash[r].locale>> \in held'
    <3>1. CASE r = s
      BY <1>2, <1>3, <1>4, <1>10, <3>1
    <3>2. CASE r # s
      <4>1. /\ r \in UsedSlots(mpq) /\ u.hash[r].name = mpq.hash[r].name
            /\ u.hash[r].locale = mpq.hash[r].locale
        BY <1>10, <1>11, <2>1, <3>2 DEF UsedSlots
      <4>2. <<u.hash[r].name, u.hash[r].locale>> \in held
        BY <1>1, <2>1, <4>1 DEF Listed
      <4>3. <<u.hash[r].name, u.hash[r].locale>> # <<n, locale>>
        BY <1>1, <1>3, <1>5, <3>2, <4>1 DEF TableInv, SameFile
      <4> QED BY <1>2, <4>2, <4>3
    <3> QED BY <3>1, <3>2
  <2> QED BY <2>1 DEF Listed
<1>16. NoList(u, invListfile)
  BY <1>1, <1>3, <1>10, <1>11 DEF NoList, SlotsOf, UsedSlots
<1>17. held' \subseteq User \X Locales
  BY <1>1, <1>2
<1>18. Writing(u, NoEntry, adding')
  BY DEF Writing
<1>19. IInv'
  BY <1>1, <1>2, <1>14, <1>15, <1>16, <1>17, <1>18, StepKeepsInv
<1>20. ASSUME NEW f \in held', f \notin held \/ SlotsOf(mpq, f[1], f[2]) # {}
       PROVE  SlotsOf(u, f[1], f[2]) # {}
  <2>1. f = <<f[1], f[2]>>
    BY <1>17, <1>20
  <2>2. CASE f = <<n, new>>
    BY <1>3, <1>4, <1>10, <1>11, <2>2 DEF SlotsOf
  <2>3. CASE f # <<n, new>>
    <3>1. f # <<n, locale>> /\ f \in held
      BY <1>2, <1>20, <2>3
    <3>2. PICK r \in SlotsOf(mpq, f[1], f[2]) : TRUE
      BY <1>20, <3>1
    <3>3. r # s /\ r \in Slots
      BY <1>3, <1>5, <2>1, <3>1, <3>2 DEF SlotsOf, UsedSlots
    <3> QED BY <1>10, <1>11, <3>2, <3>3 DEF SlotsOf
  <2> QED BY <2>2, <2>3
<1>21. KeepsSlots
  BY <1>2, <1>20 DEF KeepsSlots
<1> QED BY <1>19, <1>21

\* What SFileFlushArchive makes of the tables.
LEMMA FlushedFacts ==
  ASSUME IInv, NEW ok \in BOOLEAN
  PROVE  LET u == Flushed(ok)
         IN /\ TableInv(u) /\ Listed(u, held)
            /\ \A f \in held : \A s \in SlotsOf(mpq, f[1], f[2]) :
                  s = 0 \/ s \in SlotsOf(u, f[1], f[2])
            /\ invListfile /\ (FindFreeFileEntry(mpq) = NoEntry \/ ~ok) => NoList(u, TRUE)
<1> DEFINE u == Flushed(ok)
<1>1. /\ HomeOK /\ TableInv(mpq) /\ Listed(mpq, held) /\ NoList(mpq, invListfile)
  BY DEF IInv, TypeOK, HomeOK
<1>2. CASE ~invListfile
  <2>1. u = mpq
    BY <1>2 DEF Flushed
  <2> QED BY <1>1, <1>2, <2>1
<1>3. CASE invListfile
  <2>1. u = ListFileSaved(mpq, ok)
    BY <1>3 DEF Flushed
  <2>2. SlotsOf(mpq, ListName, Neutral) = {}
    BY <1>1, <1>3 DEF NoList
  <2> HIDE DEF u
  <2>3. /\ TableInv(u) /\ Kept(mpq, u, {0})
        /\ \A s \in UsedSlots(u) : \/ s \in UsedSlots(mpq) /\ u.hash[s] = mpq.hash[s]
                                   \/ u.hash[s].name = ListName
        /\ FindFreeFileEntry(mpq) = NoEntry \/ ~ok => SlotsOf(u, ListName, Neutral) = {}
    BY <1>1, <2>1, <2>2, ListFileSavedFacts
  <2>4. Listed(u, held)
    BY <1>1, <2>3 DEF Listed, User
  <2>5. \A f \in held : \A s \in SlotsOf(mpq, f[1], f[2]) : s = 0 \/ s \in SlotsOf(u, f[1], f[2])
    BY <2>3 DEF SlotsOf, Kept
  <2> QED BY <2>3, <2>4, <2>5 DEF NoList, u
<1> QED BY <1>2, <1>3

LEMMA FlushArchiveStep ==
  ASSUME IInv, NEW ok \in BOOLEAN, FlushArchive(ok)
  PROVE  IInv' /\ KeepsSlots
<1> DEFINE u == Flushed(ok)
<1>1. /\ TableInv(u) /\ Listed(u, held)
      /\ \A f \in held : \A s \in SlotsOf(mpq, f[1], f[2]) :
            s = 0 \/ s \in SlotsOf(u, f[1], f[2])
      /\ invListfile /\ (FindFreeFileEntry(mpq) = NoEntry \/ ~ok) => NoList(u, TRUE)
  BY FlushedFacts
<1>2. /\ mpq' = u /\ home' = home /\ writing' = NoEntry /\ writing' = writing
      /\ adding' \in Names \X Locales /\ held' = held /\ held \subseteq User \X Locales
      /\ invListfile = TRUE /\ invListfile' \in BOOLEAN
      /\ invListfile' => FindFreeFileEntry(mpq) = NoEntry \/ ~ok
  BY DEF FlushArchive, Idle, IInv, TypeOK
<1> HIDE DEF u
<1>3. NoList(u, invListfile')
  BY <1>1, <1>2 DEF NoList
<1>4. Writing(u, writing', adding')
  BY <1>2 DEF Writing
<1>5. IInv'
  BY <1>1, <1>2, <1>3, <1>4, StepKeepsInv
<1>6. KeepsSlots
  BY <1>1, <1>2 DEF KeepsSlots
<1> QED BY <1>5, <1>6

LEMMA ReopenStep ==
  ASSUME IInv, NEW ok \in BOOLEAN, Reopen(ok)
  PROVE  IInv' /\ KeepsSlots
<1> DEFINE t == Flushed(ok)
           u == Rebuilt(t)
<1>1. /\ TableInv(t) /\ Listed(t, held)
      /\ \A f \in held : \A s \in SlotsOf(mpq, f[1], f[2]) :
            s = 0 \/ s \in SlotsOf(t, f[1], f[2])
  BY FlushedFacts
<1>2. /\ mpq' = u /\ home' = home /\ writing' = NoEntry
      /\ adding' \in Names \X Locales /\ held' = held /\ held \subseteq User \X Locales
      /\ invListfile' = FALSE
  BY DEF Reopen, Idle, IInv, TypeOK
<1> HIDE DEF t
<1>3. TableInv(u) /\ Kept(t, u, {}) /\ Kept(u, t, {})
  BY <1>1, RebuiltFacts
<1> HIDE DEF u
<1>4. /\ Listed(u, held) /\ NoList(u, FALSE) /\ Writing(u, NoEntry, adding')
      /\ \A f \in held : \A s \in SlotsOf(mpq, f[1], f[2]) :
            s = 0 \/ s \in SlotsOf(u, f[1], f[2])
  BY <1>1, <1>3 DEF Listed, NoList, Writing, SlotsOf, Kept
<1>5. IInv'
  BY <1>2, <1>3, <1>4, StepKeepsInv
<1>6. KeepsSlots
  BY <1>2, <1>4 DEF KeepsSlots
<1> QED BY <1>5, <1>6

\* Every step keeps the invariant and the slots of the files that stay.
LEMMA NextStep ==
  ASSUME IInv, [Next]_vars
  PROVE  IInv' /\ KeepsSlots
<1>1. CASE UNCHANGED vars
  <2>1. IInv'
    BY <1>1 DEF IInv, vars, TypeOK, TableInv, UsedSlots, SlotOK, Reached, SameFile, EntryOK,
                Listed, NoList, Writing, SlotsOf
  <2>2. KeepsSlots
    BY <1>1 DEF KeepsSlots, vars
  <2> QED BY <2>1, <2>2
<1>2. CASE \E n \in User, lc \in Locales, replace \in BOOLEAN : CreateFile(n, lc, replace)
  BY <1>2, CreateFileStep
<1>3. CASE FinishFile
  BY <1>3, FinishFileStep
<1>4. CASE \E n \in User, lc \in Locales : RemoveFile(n, lc)
  BY <1>4, RemoveFileStep
<1>5. CASE \E n \in User, lc \in Locales, new \in User : RenameFile(n, lc, new)
  BY <1>5, RenameFileStep
<1>6. CASE \E n \in User, lc \in Locales, new \in Locales : SetFileLocale(n, lc, new)
  BY <1>6, SetFileLocaleStep
<1>7. CASE \E ok \in BOOLEAN : FlushArchive(ok) \/ Reopen(ok)
  BY <1>7, FlushArchiveStep, ReopenStep
<1> QED BY <1>1, <1>2, <1>3, <1>4, <1>5, <1>6, <1>7 DEF Next

LEMMA InitInv == Init => IInv
<1> SUFFICES ASSUME Init PROVE IInv
  OBVIOUS
<1>1. /\ H \in Nat \ {0} /\ ListName \in Names /\ Neutral \in Locales
      /\ home \in [Names -> Slots]
  BY NamesAssumption, HAssumption DEF Init, Slots
<1>2. /\ mpq.hash = [s \in Slots |-> ClearedHash(Free)]
      /\ mpq.files = [e \in Slots |-> ClearedEntry] /\ mpq.size = 0
      /\ \A s \in Slots : mpq.hash[s].block = Free
      /\ \A e \in Slots : ~mpq.files[e].exists /\ mpq.files[e].hashIndex = 0
  BY DEF Init, ClearedHash, ClearedEntry
<1>3. mpq \in Tables
  <2>1. ClearedHash(Free) \in TypeOfHash
    BY DEF ClearedHash, TypeOfHash
  <2>2. ClearedEntry \in TypeOfEntry
    BY <1>1 DEF ClearedEntry, TypeOfEntry, Slots
  <2>3. 0 \in 0..H
    BY <1>1
  <2> QED BY <2>1, <2>2, <2>3 DEF Init, Tables
<1>4. UsedSlots(mpq) = {}
  BY <1>2 DEF UsedSlots
<1>5. TableInv(mpq)
  BY <1>2, <1>3, <1>4 DEF TableInv, EntryOK
<1>6. TypeOK
  BY <1>1, <1>3 DEF Init, TypeOK, NoFile
<1>7. Listed(mpq, held) /\ NoList(mpq, invListfile) /\ Writing(mpq, writing, adding)
  BY <1>4 DEF Init, Listed, NoList, Writing, SlotsOf
<1> QED BY <1>5, <1>6, <1>7 DEF IInv

LEMMA Inductive == Spec => []IInv
<1>1. IInv /\ [Next]_vars => IInv'
  BY NextStep
<1> QED BY InitInv, <1>1, PTL DEF Spec

-----------------------------------------------------------------------------
\* THE THEOREMS

\* The tables and the other variables keep their types.
THEOREM TypeCorrect == Spec => []TypeOK
<1>1. IInv => TypeOK
  BY DEF IInv
<1> QED BY Inductive, <1>1, PTL

\* After any number of calls every slot in use is found under its name and
\* locale and leads to an entry that has the file and leads back.
THEOREM SlotsCorrect == Spec => []SlotsFindFiles
<1>1. IInv => SlotsFindFiles
  <2> SUFFICES ASSUME IInv, NEW s \in UsedSlots(mpq)
               PROVE  LET slot == mpq.hash[s]
                      IN /\ GetHashEntryExact(mpq, slot.name, slot.locale) = s
                         /\ mpq.files[slot.block].exists
                         /\ mpq.files[slot.block].locale = slot.locale
                         /\ mpq.files[slot.block].hashIndex = s
    BY DEF SlotsFindFiles
  <2>1. HomeOK /\ TableInv(mpq) /\ SlotOK(mpq, s)
    BY DEF IInv, TypeOK, HomeOK, TableInv
  <2>2. s \in SlotsOf(mpq, mpq.hash[s].name, mpq.hash[s].locale)
    BY DEF SlotsOf
  <2>3. mpq.hash[s].name \in Names
    BY <2>1 DEF SlotOK
  <2>4. GetHashEntryExact(mpq, mpq.hash[s].name, mpq.hash[s].locale) = s
    BY <2>1, <2>2, <2>3, ExactFacts
  <2> QED BY <2>1, <2>4 DEF SlotOK
<1> QED BY Inductive, <1>1, PTL

\* What a search finds, in terms of slots.
FoundBySlot ==
    /\ Found(mpq) = {f \in User \X Locales : SlotsOf(mpq, f[1], f[2]) # {}}
    /\ \A f \in User \X Locales : \A s \in SlotsOf(mpq, f[1], f[2]) :
          GetHashEntryExact(mpq, f[1], f[2]) = s
    /\ held \subseteq User \X Locales

LEMMA FoundFacts == IInv => FoundBySlot
<1> SUFFICES ASSUME IInv PROVE FoundBySlot
  OBVIOUS
<1>1. HomeOK /\ TableInv(mpq) /\ held \subseteq User \X Locales
  BY DEF IInv, TypeOK, HomeOK
<1>2. ASSUME NEW f \in User \X Locales
      PROVE  /\ GetFileEntryExact(mpq, f[1], f[2]) = NoEntry <=> SlotsOf(mpq, f[1], f[2]) = {}
             /\ \A s \in SlotsOf(mpq, f[1], f[2]) : GetHashEntryExact(mpq, f[1], f[2]) = s
  <2>1. f[1] \in Names
    BY <1>2 DEF User
  <2> QED BY <1>1, <2>1, ExactFacts
<1> QED BY <1>1, <1>2 DEF FoundBySlot, Found

\* Only files that were added and not removed since are found.
THEOREM OnlyHeld == Spec => []FindsOnlyHeld
<1>1. IInv => FindsOnlyHeld
  <2> SUFFICES ASSUME IInv, NEW f \in Found(mpq) PROVE f \in held
    BY DEF FindsOnlyHeld
  <2>1. f \in User \X Locales /\ SlotsOf(mpq, f[1], f[2]) # {}
    BY FoundFacts DEF FoundBySlot
  <2>2. f = <<f[1], f[2]>> /\ f[1] \in User
    BY <2>1
  <2> QED BY <2>1, <2>2 DEF IInv, Listed, SlotsOf
<1> QED BY Inductive, <1>1, PTL

\* No call but the removal of a file loses it, if it is not in slot 0; and a
\* file that was added, renamed or given a locale can be found.
THEOREM FilesKept == Spec => KeepsFiles
<1>1. IInv /\ FoundBySlot /\ FoundBySlot' /\ [Next]_vars =>
        [\A f \in held' :
          \/ f \in held \ Found(mpq)
          \/ f \in Found(mpq')
          \/ GetHashEntryExact(mpq, f[1], f[2]) = 0]_vars
  <2> SUFFICES ASSUME IInv, FoundBySlot, FoundBySlot', [Next]_vars, NEW f \in held'
               PROVE  \/ f \in held \ Found(mpq)
                      \/ f \in Found(mpq')
                      \/ GetHashEntryExact(mpq, f[1], f[2]) = 0
    OBVIOUS
  <2>1. \/ f \in held /\ SlotsOf(mpq, f[1], f[2]) = {}
        \/ SlotsOf(mpq', f[1], f[2]) # {}
        \/ 0 \in SlotsOf(mpq, f[1], f[2])
    BY NextStep DEF KeepsSlots
  <2>2. f \in User \X Locales
    BY DEF FoundBySlot
  <2>3. home' = home
    BY DEF Next, vars, CreateFile, FinishFile, RemoveFile, RenameFile, SetFileLocale,
           FlushArchive, Reopen
  <2>4. SlotsOf(mpq', f[1], f[2]) # {} => f \in Found(mpq)'
    BY <2>2 DEF FoundBySlot, SlotsOf, UsedSlots
  <2>5. Found(mpq)' = Found(mpq')
    BY <2>3 DEF Found, GetFileEntryExact, EntryOf, GetHashEntryExact, OfLocale,
                HashEntries, Reached
  <2> QED BY <2>1, <2>2, <2>4, <2>5 DEF FoundBySlot
<1>2. Spec => []FoundBySlot
  BY Inductive, FoundFacts, PTL
<1> QED BY Inductive, <1>1, <1>2, PTL DEF Spec, KeepsFiles

=============================================================================
