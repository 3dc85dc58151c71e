------------------------ MODULE ClientArchivesProofs ------------------------
(***************************************************************************)
(* Theorems about the lists of archives and the lookups in the archives     *)
(* they name, for any locales, any archives on disk, whatever they hold, and *)
(* any client.                                                              *)
(***************************************************************************)
EXTENDS ClientArchives, TLAPS

-----------------------------------------------------------------------------
\* MINIMA AND MAXIMA

\* A lower bound in the set is its minimum.
LEMMA MinIs ==
  ASSUME NEW S \in SUBSET Nat, NEW m \in S, \A x \in S : m <= x
  PROVE  Min(S) = m
<1>1. Min(S) \in S /\ \A x \in S : Min(S) <= x
  BY DEF Min
<1>2. Min(S) \in Nat /\ m \in Nat /\ Min(S) <= m /\ m <= Min(S)
  BY <1>1
<1> QED BY <1>2

\* Appending to a sequence adds one element.
LEMMA RangeOfAppend ==
  ASSUME NEW D, NEW s \in Seq(D), NEW x \in D
  PROVE  Range(Append(s, x)) = Range(s) \cup {x}
<1>1. /\ DOMAIN Append(s, x) = 1..Len(s) + 1 /\ DOMAIN s = 1..Len(s) /\ Len(s) \in Nat
      /\ \A k \in 1..Len(s) : Append(s, x)[k] = s[k]
      /\ Append(s, x)[Len(s) + 1] = x
  OBVIOUS
<1> QED BY <1>1 DEF Range


-----------------------------------------------------------------------------
\* THE INVARIANT

Scanning == {CLASSIC, TBC, WOTLK}

Types ==
    /\ disk \in Disks /\ m_core \in Cores
    /\ pc \in {"locale", "lists", "scanning", "done"}
    /\ i \in Nat /\ m_curLocale \in Int /\ result \in BOOLEAN
    /\ m_list \in [Lists -> Seq(PathType)]

\* The index of the language that the code has found: the first on disk.
IsFirst(k) ==
    /\ k \in 0..Len(Locales) - 1 /\ LocaleAt(k) \in disk
    /\ \A j \in 0..k - 1 : LocaleAt(j) \notin disk

Searching ==
    /\ pc = "locale" => /\ m_core # CLASSIC /\ ~result
                        /\ i \in 0..Len(Locales) /\ \A j \in 0..i - 1 : LocaleAt(j) \notin disk
    /\ pc \in {"locale", "lists"} => \A l \in Lists : m_list[l] = << >>
    /\ pc \in {"lists", "scanning"} /\ m_core # CLASSIC => IsFirst(m_curLocale)
    /\ pc \in {"lists", "scanning"} => ~result
    /\ pc = "done" /\ m_core # CLASSIC /\ result => IsFirst(m_curLocale)
    /\ pc = "done" /\ m_core # CLASSIC /\ ~result =>
          \A j \in 0..Len(Locales) - 1 : LocaleAt(j) \notin disk

\* The patches with a number below n in one directory.
PatchesBelow(d, n) == {Patch(d, k) : k \in {k \in 1..n - 1 : Patch(d, k) \in disk}}

\* Where the two scans are: the patches with numbers below these were listed.
BaseEnd == IF pc = "scanning" /\ prefix = Data THEN i ELSE LastPatch + 1
LocaleEnd == IF pc = "scanning" THEN i ELSE LastPatch + 1
LocaleBegun == m_core # CLASSIC /\ (pc = "done" \/ prefix # Data)

Listing ==
    (pc = "scanning" \/ (pc = "done" /\ result)) /\ m_core \in Scanning =>
        /\ Range(m_list.base) = Range(BaseFiles) \cup PatchesBelow(Data, BaseEnd)
        /\ Range(m_list.locale) =
              IF LocaleBegun THEN {LocaleArchive(curLocale)} \cup PatchesBelow(curLocale, LocaleEnd)
              ELSE {}
        /\ m_list.basePatch = << >> /\ m_list.localePatch = << >>

Places ==
    /\ pc = "scanning" => /\ m_core \in Scanning /\ i \in 1..LastPatch + 1
                          /\ prefix = Data \/ (m_core # CLASSIC /\ prefix = curLocale)

\* The lists of the other clients are of the language too.
ByHand ==
    pc = "done" /\ result /\ m_core \notin Scanning =>
        \A p \in Named : p.dir \in {Data, curLocale}

IInv == Types /\ Searching /\ Places /\ Listing /\ ByHand

-----------------------------------------------------------------------------
\* PATHS

LEMMA CoreFacts ==
  ASSUME m_core \in Cores
  PROVE  m_core \in 0..6 /\ (m_core \notin Scanning => m_core >= CATA)
BY CoresAssumption DEF Scanning, CLASSIC, TBC, WOTLK, CATA

\* The language that was found is one of m_listLocale, and no place in Data.
LEMMA CurLocaleFacts ==
  ASSUME IsFirst(m_curLocale)
  PROVE  /\ curLocale \in Directories /\ curLocale # Data
         /\ LocaleArchive(curLocale) \in disk
<1>1. /\ Locales \in Seq(STRING) /\ m_curLocale + 1 \in 1..Len(Locales)
      /\ Data \notin Range(Locales)
  BY LocalesAssumption DEF IsFirst
<1>2. curLocale \in Range(Locales)
  BY <1>1 DEF curLocale, Range
<1> QED BY <1>1, <1>2 DEF Directories, IsFirst, LocaleAt, curLocale

LEMMA PathFacts ==
  ASSUME NEW d \in Directories
  PROVE  /\ LocaleArchive(d) \in PathType
         /\ \A n \in Nat : Patch(d, n) \in PathType /\ Update(d, n) \in PathType
         /\ \A s \in RequiredStems : Base(s) \in PathType
<1>1. LocaleArchive(d) \in PathType
  BY DEF PathType, LocaleArchive, Stems
<1>2. \A n \in Nat : Patch(d, n) \in PathType /\ Update(d, n) \in PathType
  BY DEF PathType, Patch, Update, Stems
<1>3. \A s \in RequiredStems : Base(s) \in PathType
  BY DEF PathType, Base, Stems, Directories
<1> QED BY <1>1, <1>2, <1>3

\* The archives that every installation of a client has: in Data, and none
\* of them has the name of a patch.
LEMMA BaseFacts ==
  ASSUME m_core \in 0..3
  PROVE  /\ BaseStems \in Seq(RequiredStems) /\ BaseFiles \in Seq(PathType)
         /\ \A p \in Range(BaseFiles) : p.dir = Data /\ p.stem # "patch"
<1>1. BaseStems \in Seq(RequiredStems)
  <2>1. CASE m_core = 0
    <3>1. BaseStems = <<"wmo", "terrain", "model", "dbc">>
      BY <2>1 DEF BaseStems, CLASSIC, TBC, WOTLK, CATA
    <3> QED BY <3>1 DEF RequiredStems
  <2>2. CASE m_core = 1
    <3>1. BaseStems = <<"common", "expansion">>
      BY <2>2 DEF BaseStems, CLASSIC, TBC, WOTLK, CATA
    <3> QED BY <3>1 DEF RequiredStems
  <2>3. CASE m_core = 2
    <3>1. BaseStems = <<"common", "expansion", "common-2", "lichking">>
      BY <2>3 DEF BaseStems, CLASSIC, TBC, WOTLK, CATA
    <3> QED BY <3>1 DEF RequiredStems
  <2>4. CASE m_core = 3
    <3>1. BaseStems = <<"art", "expansion1", "expansion2", "expansion3", "world", "world2">>
      BY <2>4 DEF BaseStems, CLASSIC, TBC, WOTLK, CATA
    <3> QED BY <3>1 DEF RequiredStems
  <2> QED BY <2>1, <2>2, <2>3, <2>4
<1>2. \A k \in DOMAIN BaseStems : BaseStems[k] \in RequiredStems
  BY <1>1
<1>3. Data \in Directories
  BY DEF Directories
<1>4. \A k \in DOMAIN BaseStems : Base(BaseStems[k]) \in PathType
  BY <1>2, <1>3, PathFacts
<1>5. BaseFiles \in Seq(PathType)
  BY <1>1, <1>4 DEF BaseFiles
<1>6. ASSUME NEW p \in Range(BaseFiles)
      PROVE  p.dir = Data /\ p.stem # "patch"
  <2>1. PICK k \in DOMAIN BaseStems : p = Base(BaseStems[k])
    BY DEF Range, BaseFiles
  <2>2. p.dir = Data /\ p.stem \in RequiredStems
    BY <1>2, <2>1 DEF Base
  <2> QED BY <2>2 DEF RequiredStems
<1> QED BY <1>1, <1>5, <1>6

LEMMA SameFiles == m_core' = m_core => BaseFiles' = BaseFiles
<1>1. m_core' = m_core => BaseStems' = BaseStems
  BY Zenon DEF BaseStems
<1> QED BY <1>1, Zenon DEF BaseFiles

\* The three updates of CATA in one directory.
LEMMA UpdatesFacts ==
  ASSUME NEW d \in Directories
  PROVE  Updates(d) \in Seq(PathType) /\ \A p \in Range(Updates(d)) : p.dir = d
<1>1. Update(d, 15211) \in PathType /\ Update(d, 15354) \in PathType /\ Update(d, 15595) \in PathType
  BY PathFacts
<1>2. Updates(d) \in Seq(PathType)
  BY <1>1 DEF Updates
<1>3. \A p \in Range(Updates(d)) : p.dir = d
  BY DEF Updates, Range, Update
<1> QED BY <1>2, <1>3

\* One more number of the scan.
LEMMA NextPatch ==
  ASSUME NEW n \in Nat \ {0}, NEW d
  PROVE  PatchesBelow(d, n + 1) =
            PatchesBelow(d, n) \cup (IF Patch(d, n) \in disk THEN {Patch(d, n)} ELSE {})
<1>1. 1..(n + 1) - 1 = 1..n - 1 \cup {n}
  OBVIOUS
<1> QED BY <1>1 DEF PatchesBelow

\* What is listed is on disk and has the name of a patch.
LEMMA ListedPatches ==
  ASSUME NEW d, NEW n, NEW p \in PatchesBelow(d, n)
  PROVE  p.dir = d /\ p.stem = "patch" /\ p \in disk /\ p.number \in 1..n - 1
<1>1. PICK k \in 1..n - 1 : p = Patch(d, k) /\ p \in disk
  BY DEF PatchesBelow
<1> QED BY <1>1 DEF Patch

-----------------------------------------------------------------------------
\* THE STEPS

LEMMA InitInv == FeederInit => IInv
<1> SUFFICES ASSUME FeederInit PROVE IInv
  OBVIOUS
<1>1. Types
  <2>1. m_curLocale \in Int /\ i \in Nat
    BY DEF FeederInit
  <2>2. m_list \in [Lists -> Seq(PathType)]
    BY DEF FeederInit
  <2> QED BY <2>1, <2>2 DEF FeederInit, Types
<1>2. Searching
  BY LocalesAssumption DEF FeederInit, Searching
<1> QED BY <1>1, <1>2 DEF FeederInit, IInv, Places, Listing, ByHand

\* The loop over the languages stops at the first one that is on disk.
LEMMA SearchInv == IInv /\ (FoundLocale \/ NextLocale \/ NoLocale) => IInv'
<1> SUFFICES ASSUME IInv, FoundLocale \/ NextLocale \/ NoLocale PROVE IInv'
  OBVIOUS
<1>1. /\ pc = "locale" /\ m_core # CLASSIC /\ ~result
      /\ i \in 0..Len(Locales) /\ Len(Locales) \in Nat
      /\ \A j \in 0..i - 1 : LocaleAt(j) \notin disk
      /\ \A l \in Lists : m_list[l] = << >>
      /\ UNCHANGED <<disk, m_core, prefix, m_list>>
  BY LocalesAssumption DEF IInv, Searching, FoundLocale, NextLocale, NoLocale
<1>2. CASE FoundLocale
  <2>1. pc' = "lists" /\ m_curLocale' = i /\ i' = i /\ result' = result /\ i < Len(Locales)
    BY <1>2 DEF FoundLocale
  <2>2. IsFirst(m_curLocale)'
    BY <1>1, <1>2, <2>1 DEF FoundLocale, IsFirst, LocaleAt
  <2>3. Types' /\ Searching'
    BY <1>1, <2>1, <2>2 DEF IInv, Types, Searching
  <2> QED BY <1>1, <2>1, <2>3 DEF IInv, Places, Listing, ByHand
<1>3. CASE NextLocale
  <2>1. pc' = "locale" /\ m_curLocale' = m_curLocale /\ i' = i + 1 /\ result' = result
        /\ i < Len(Locales) /\ LocaleAt(i) \notin disk
    BY <1>1, <1>3 DEF NextLocale
  <2>2. \A j \in 0..i' - 1 : LocaleAt(j)' \notin disk'
    BY <1>1, <2>1 DEF LocaleAt
  <2>3. Types' /\ Searching'
    BY <1>1, <2>1, <2>2 DEF IInv, Types, Searching
  <2> QED BY <1>1, <2>1, <2>3 DEF IInv, Places, Listing, ByHand
<1>4. CASE NoLocale
  <2>1. pc' = "done" /\ m_curLocale' = m_curLocale /\ i' = i /\ result' = FALSE /\ i = Len(Locales)
    BY <1>4 DEF NoLocale
  <2>2. \A j \in 0..Len(Locales) - 1 : LocaleAt(j)' \notin disk'
    BY <1>1, <2>1 DEF LocaleAt
  <2>3. Types' /\ Searching'
    BY <1>1, <2>1, <2>2 DEF IInv, Types, Searching
  <2> QED BY <1>1, <2>1, <2>3 DEF IInv, Places, Listing, ByHand
<1> QED BY <1>2, <1>3, <1>4

LEMMA EmptyRange == Range(<< >>) = {}
BY DEF Range

LEMMA FillBaseInv == IInv /\ FillBase => IInv'
<1> SUFFICES ASSUME IInv, FillBase PROVE IInv'
  OBVIOUS
<1>1. /\ pc = "lists" /\ m_core \in Scanning /\ m_core \in 0..3 /\ ~result
      /\ m_core # CLASSIC => IsFirst(m_curLocale)
      /\ m_list' = [m_list EXCEPT !.base = BaseFiles]
      /\ prefix' = Data /\ i' = 1 /\ pc' = "scanning"
      /\ \A l \in Lists : m_list[l] = << >>
      /\ m_list \in [Lists -> Seq(PathType)]
      /\ UNCHANGED <<disk, m_core, m_curLocale, result>>
  BY DEF IInv, Types, Searching, FillBase, Scanning, CLASSIC, TBC, WOTLK
<1>2. BaseFiles' = BaseFiles /\ BaseFiles \in Seq(PathType)
  BY <1>1, BaseFacts, SameFiles
<1>3. /\ m_list'.base = BaseFiles /\ m_list'.locale = << >>
      /\ m_list'.basePatch = << >> /\ m_list'.localePatch = << >>
      /\ m_list' \in [Lists -> Seq(PathType)]
  BY <1>1, <1>2 DEF Lists
<1>4. Types'
  BY <1>1, <1>3 DEF IInv, Types
<1>5. IsFirst(m_curLocale)' <=> IsFirst(m_curLocale)
  BY <1>1 DEF IsFirst, LocaleAt
<1>6. Searching'
  BY <1>1, <1>5 DEF Searching
<1>7. Places' /\ ByHand'
  BY <1>1 DEF Places, ByHand, LastPatch
<1>8. PatchesBelow(Data, BaseEnd)' = {} /\ ~LocaleBegun'
  BY <1>1 DEF PatchesBelow, BaseEnd, LocaleBegun
<1>9. Listing'
  BY <1>1, <1>2, <1>3, <1>8, EmptyRange DEF Listing
<1> QED BY <1>4, <1>6, <1>7, <1>9 DEF IInv

\* The lists that are written out.
LEMMA FillByHandInv == IInv /\ FillByHand => IInv'
<1> SUFFICES ASSUME IInv, FillByHand PROVE IInv'
  OBVIOUS
<1>1. /\ pc = "lists" /\ m_core = 3 /\ m_core # CLASSIC /\ m_core \notin Scanning
      /\ IsFirst(m_curLocale)
      /\ m_list' = [m_list EXCEPT !.base = BaseFiles, !.basePatch = Updates(Data),
                                  !.locale = <<LocaleArchive(curLocale)>>,
                                  !.localePatch = Updates(curLocale)]
      /\ m_list \in [Lists -> Seq(PathType)]
      /\ result' = TRUE /\ pc' = "done"
      /\ UNCHANGED <<disk, m_core, i, prefix, m_curLocale>>
  BY DEF IInv, Types, Searching, FillByHand, Scanning, CLASSIC, TBC, WOTLK, CATA
<1>2. /\ curLocale' = curLocale /\ curLocale \in Directories /\ Data \in Directories
      /\ LocaleArchive(curLocale) \in PathType
  BY <1>1, CurLocaleFacts, PathFacts DEF curLocale, Directories
<1>3. /\ BaseFiles \in Seq(PathType) /\ \A p \in Range(BaseFiles) : p.dir = Data
      /\ Updates(Data) \in Seq(PathType) /\ \A p \in Range(Updates(Data)) : p.dir = Data
      /\ Updates(curLocale) \in Seq(PathType)
      /\ \A p \in Range(Updates(curLocale)) : p.dir = curLocale
  BY <1>1, <1>2, BaseFacts, UpdatesFacts
<1>4. m_list' \in [Lists -> Seq(PathType)]
  <2>1. <<LocaleArchive(curLocale)>> \in Seq(PathType)
    BY <1>2
  <2> DEFINE a == BaseFiles
             b == Updates(Data)
             c == <<LocaleArchive(curLocale)>>
             d == Updates(curLocale)
  <2>2. a \in Seq(PathType) /\ b \in Seq(PathType) /\ c \in Seq(PathType) /\ d \in Seq(PathType)
    BY <1>3, <2>1
  <2>3. m_list' = [m_list EXCEPT !.base = a, !.basePatch = b, !.locale = c, !.localePatch = d]
    BY <1>1
  <2> HIDE DEF a, b, c, d
  <2> QED BY <1>1, <2>2, <2>3 DEF Lists
<1>5. Types'
  BY <1>1, <1>4 DEF IInv, Types
<1>6. Searching'
  BY <1>1 DEF Searching, IsFirst, LocaleAt
<1>7. ByHand'
  <2>1. \A p \in Range(<<LocaleArchive(curLocale)>>) : p.dir = curLocale
    BY DEF Range, LocaleArchive
  <2>2. \A l \in Lists : \A p \in Range(m_list'[l]) : p.dir \in {Data, curLocale}
    BY <1>1, <1>3, <2>1 DEF Lists
  <2> QED BY <1>2, <2>2 DEF ByHand, Named
<1>8. Places' /\ Listing'
  BY <1>1 DEF Places, Listing
<1> QED BY <1>5, <1>6, <1>7, <1>8 DEF IInv

\* Newer clients have no lists at all.
LEMMA FillNothingInv == IInv /\ FillNothing => IInv'
<1> SUFFICES ASSUME IInv, FillNothing PROVE IInv'
  OBVIOUS
<1>1. /\ pc = "lists" /\ m_core \in 0..6 /\ m_core > 3 /\ m_core # CLASSIC
      /\ m_core \notin Scanning
      /\ IsFirst(m_curLocale) /\ \A l \in Lists : m_list[l] = << >>
      /\ result' = TRUE /\ pc' = "done"
      /\ UNCHANGED <<disk, m_core, i, prefix, m_curLocale, m_list>>
  BY CoreFacts DEF IInv, Types, Searching, FillNothing, Scanning, CLASSIC, TBC, WOTLK, CATA
<1>2. Types'
  BY <1>1 DEF IInv, Types
<1>3. Searching'
  BY <1>1 DEF Searching, IsFirst, LocaleAt
<1>4. Named' = {}
  BY <1>1, EmptyRange DEF Named
<1> QED BY <1>1, <1>2, <1>3, <1>4 DEF IInv, Places, Listing, ByHand

\* One number of scan_patches.
LEMMA ScanPatchInv == IInv /\ ScanPatch => IInv'
<1> SUFFICES ASSUME IInv, ScanPatch PROVE IInv'
  OBVIOUS
<1> DEFINE q == Patch(prefix, i)
<1>1. /\ pc = "scanning" /\ i \in 1..LastPatch /\ i \in Nat \ {0} /\ ~result
      /\ i + 1 \in 1..LastPatch + 1
      /\ m_core \in Scanning /\ (m_core # CLASSIC => IsFirst(m_curLocale))
      /\ prefix = Data \/ (m_core # CLASSIC /\ prefix = curLocale)
      /\ m_list' = IF q \in disk THEN [m_list EXCEPT ![Scanned] = Append(@, q)] ELSE m_list
      /\ m_list \in [Lists -> Seq(PathType)] /\ Scanned \in Lists
      /\ i' = i + 1 /\ UNCHANGED <<disk, m_core, pc, prefix, m_curLocale, result>>
  BY DEF IInv, Types, Searching, Places, ScanPatch, LastPatch, Scanned, Lists
<1>2. prefix \in Directories /\ curLocale' = curLocale /\ (m_core # CLASSIC => curLocale # Data)
  BY <1>1, CurLocaleFacts DEF Directories, curLocale
<1>3. q \in PathType
  BY <1>1, <1>2, PathFacts
<1>4. /\ m_list' \in [Lists -> Seq(PathType)]
      /\ Range(m_list'[Scanned]) =
            Range(m_list[Scanned]) \cup (IF q \in disk THEN {q} ELSE {})
      /\ \A l \in Lists \ {Scanned} : m_list'[l] = m_list[l]
  <2>1. m_list[Scanned] \in Seq(PathType)
    BY <1>1
  <2>2. Append(m_list[Scanned], q) \in Seq(PathType)
    BY <1>3, <2>1
  <2>3. Range(Append(m_list[Scanned], q)) = Range(m_list[Scanned]) \cup {q}
    BY <1>3, <2>1, RangeOfAppend
  <2> QED BY <1>1, <2>2, <2>3
<1>5. Types' /\ Searching' /\ Places' /\ ByHand'
  <2>1. Types'
    BY <1>1, <1>4 DEF IInv, Types
  <2>2. Searching'
    BY <1>1 DEF Searching, IsFirst, LocaleAt
  <2>3. Places' /\ ByHand'
    BY <1>1, <1>2 DEF Places, ByHand, LastPatch
  <2> QED BY <2>1, <2>2, <2>3
<1>6. /\ BaseFiles' = BaseFiles
      /\ \A d : PatchesBelow(d, i + 1) =
                 PatchesBelow(d, i) \cup (IF Patch(d, i) \in disk THEN {Patch(d, i)} ELSE {})
      /\ \A d, n : PatchesBelow(d, n)' = PatchesBelow(d, n)
  BY <1>1, SameFiles, NextPatch DEF PatchesBelow
<1>7. /\ Range(m_list.base) = Range(BaseFiles) \cup PatchesBelow(Data, BaseEnd)
      /\ Range(m_list.locale) =
            IF LocaleBegun THEN {LocaleArchive(curLocale)} \cup PatchesBelow(curLocale, LocaleEnd)
            ELSE {}
      /\ m_list.basePatch = << >> /\ m_list.localePatch = << >>
  BY <1>1 DEF IInv, Listing
<1>8. CASE prefix = Data
  <2>1. Scanned = "base" /\ BaseEnd = i /\ BaseEnd' = i + 1 /\ ~LocaleBegun /\ ~LocaleBegun'
    BY <1>1, <1>8 DEF Scanned, BaseEnd, LocaleBegun
  <2>2. /\ Range(m_list'.base) = Range(m_list.base) \cup (IF q \in disk THEN {q} ELSE {})
        /\ m_list'.locale = m_list.locale
        /\ m_list'.basePatch = << >> /\ m_list'.localePatch = << >>
    BY <1>4, <1>7, <2>1 DEF Lists
  <2>3. Range(m_list'.base) = Range(BaseFiles) \cup PatchesBelow(Data, i + 1)
    BY <1>6, <1>7, <1>8, <2>1, <2>2
  <2>4. Listing'
    BY <1>6, <1>7, <2>1, <2>2, <2>3 DEF Listing
  <2> QED BY <1>5, <2>4 DEF IInv
<1>9. CASE prefix # Data
  <2>1. /\ Scanned = "locale" /\ prefix = curLocale /\ m_core # CLASSIC
        /\ BaseEnd' = BaseEnd /\ LocaleEnd = i /\ LocaleEnd' = i + 1
        /\ LocaleBegun /\ LocaleBegun'
    BY <1>1, <1>9 DEF Scanned, BaseEnd, LocaleEnd, LocaleBegun
  <2>2. /\ Range(m_list'.locale) = Range(m_list.locale) \cup (IF q \in disk THEN {q} ELSE {})
        /\ m_list'.base = m_list.base
        /\ m_list'.basePatch = << >> /\ m_list'.localePatch = << >>
    BY <1>4, <1>7, <2>1 DEF Lists
  <2>3. Range(m_list'.locale) = {LocaleArchive(curLocale)} \cup PatchesBelow(curLocale, i + 1)
    BY <1>6, <1>7, <2>1, <2>2
  <2>4. LocaleArchive(curLocale)' = LocaleArchive(curLocale)
    BY <1>2 DEF LocaleArchive
  <2>5. PatchesBelow(curLocale, LocaleEnd)' = PatchesBelow(curLocale, i + 1)
    BY <1>1, <1>2, <2>1 DEF PatchesBelow
  <2>6. PatchesBelow(Data, BaseEnd)' = PatchesBelow(Data, BaseEnd)
    BY <1>1, <2>1 DEF PatchesBelow
  <2>7. Listing'
    BY <1>6, <1>7, <2>1, <2>2, <2>3, <2>4, <2>5, <2>6 DEF Listing
  <2> QED BY <1>5, <2>7 DEF IInv
<1> QED BY <1>8, <1>9

\* The patches of Data are done, those of the language follow.
LEMMA ToLocalePatchesInv == IInv /\ ToLocalePatches => IInv'
<1> SUFFICES ASSUME IInv, ToLocalePatches PROVE IInv'
  OBVIOUS
<1>1. /\ pc = "scanning" /\ i = LastPatch + 1 /\ prefix = Data /\ ~result
      /\ m_core \in Scanning /\ m_core # CLASSIC /\ IsFirst(m_curLocale)
      /\ m_list' = [m_list EXCEPT !.locale = <<LocaleArchive(curLocale)>>]
      /\ m_list \in [Lists -> Seq(PathType)]
      /\ prefix' = curLocale /\ i' = 1
      /\ UNCHANGED <<disk, m_core, pc, m_curLocale, result>>
  BY DEF IInv, Types, Searching, Places, ToLocalePatches, LastPatch
<1>2. /\ curLocale' = curLocale /\ curLocale # Data /\ curLocale \in Directories
      /\ LocaleArchive(curLocale) \in PathType /\ BaseFiles' = BaseFiles
  BY <1>1, CurLocaleFacts, PathFacts, SameFiles DEF curLocale
<1>3. /\ m_list' \in [Lists -> Seq(PathType)]
      /\ m_list'.base = m_list.base /\ m_list'.locale = <<LocaleArchive(curLocale)>>
      /\ m_list'.basePatch = m_list.basePatch /\ m_list'.localePatch = m_list.localePatch
  <2>1. <<LocaleArchive(curLocale)>> \in Seq(PathType)
    BY <1>2
  <2> QED BY <1>1, <2>1 DEF Lists
<1>4. Types' /\ Searching' /\ Places' /\ ByHand'
  <2>1. Types'
    BY <1>1, <1>3 DEF IInv, Types
  <2>2. Searching'
    BY <1>1 DEF Searching, IsFirst, LocaleAt
  <2>3. Places' /\ ByHand'
    BY <1>1, <1>2 DEF Places, ByHand, LastPatch
  <2> QED BY <2>1, <2>2, <2>3
<1>5. /\ Range(m_list.base) = Range(BaseFiles) \cup PatchesBelow(Data, LastPatch + 1)
      /\ m_list.basePatch = << >> /\ m_list.localePatch = << >>
  BY <1>1 DEF IInv, Listing, BaseEnd
<1>6. /\ BaseEnd' = LastPatch + 1 /\ LocaleEnd' = 1 /\ LocaleBegun'
      /\ \A d, n : PatchesBelow(d, n)' = PatchesBelow(d, n)
      /\ PatchesBelow(curLocale, 1) = {}
  BY <1>1, <1>2 DEF BaseEnd, LocaleEnd, LocaleBegun, PatchesBelow
<1>7. Range(<<LocaleArchive(curLocale)>>) = {LocaleArchive(curLocale)}
  BY DEF Range
<1>8. PatchesBelow(Data, BaseEnd)' = PatchesBelow(Data, LastPatch + 1)
      /\ PatchesBelow(curLocale, LocaleEnd)' = {}
      /\ LocaleArchive(curLocale)' = LocaleArchive(curLocale)
  BY <1>1, <1>2, <1>6 DEF PatchesBelow, LocaleArchive
<1>9. Listing'
  BY <1>2, <1>3, <1>5, <1>6, <1>7, <1>8 DEF Listing
<1> QED BY <1>4, <1>9 DEF IInv

\* Both scans are done.
LEMMA ScanDoneInv == IInv /\ ScanDone => IInv'
<1> SUFFICES ASSUME IInv, ScanDone PROVE IInv'
  OBVIOUS
<1>1. /\ pc = "scanning" /\ i = LastPatch + 1 /\ pc' = "done" /\ result'
      /\ prefix # Data \/ m_core = CLASSIC
      /\ m_core # CLASSIC => prefix = curLocale
      /\ m_core = CLASSIC => prefix = Data
      /\ m_core \in Scanning /\ (m_core # CLASSIC => IsFirst(m_curLocale))
      /\ UNCHANGED <<disk, m_core, i, prefix, m_curLocale, m_list>>
  BY DEF IInv, Types, Searching, Places, ScanDone, LastPatch
<1>2. Types' /\ Searching' /\ Places' /\ ByHand'
  <2>1. Types'
    BY <1>1 DEF IInv, Types, ScanDone
  <2>2. Searching'
    BY <1>1 DEF Searching, IsFirst, LocaleAt
  <2>3. Places' /\ ByHand'
    BY <1>1 DEF Places, ByHand
  <2> QED BY <2>1, <2>2, <2>3
<1>3. /\ BaseEnd' = LastPatch + 1 /\ LocaleEnd' = LastPatch + 1
      /\ BaseEnd = LastPatch + 1 /\ LocaleEnd = LastPatch + 1
      /\ LocaleBegun' = LocaleBegun /\ BaseFiles' = BaseFiles /\ curLocale' = curLocale
  BY <1>1, SameFiles DEF BaseEnd, LocaleEnd, LocaleBegun, curLocale
<1>4. /\ Range(m_list.base) = Range(BaseFiles) \cup PatchesBelow(Data, BaseEnd)
      /\ Range(m_list.locale) =
            IF LocaleBegun THEN {LocaleArchive(curLocale)} \cup PatchesBelow(curLocale, LocaleEnd)
            ELSE {}
      /\ m_list.basePatch = << >> /\ m_list.localePatch = << >>
  BY <1>1 DEF IInv, Listing
<1>5. PatchesBelow(Data, BaseEnd)' = PatchesBelow(Data, BaseEnd)
      /\ PatchesBelow(curLocale, LocaleEnd)' = PatchesBelow(curLocale, LocaleEnd)
      /\ LocaleArchive(curLocale)' = LocaleArchive(curLocale)
  BY <1>1, <1>3 DEF PatchesBelow, LocaleArchive
<1>6. Listing'
  BY <1>1, <1>3, <1>4, <1>5 DEF Listing
<1> QED BY <1>2, <1>6 DEF IInv

\* What is done with the archives leaves the lists alone.
LEMMA UnchangedInv == IInv /\ UNCHANGED feederVars => IInv'
<1> SUFFICES ASSUME IInv, UNCHANGED feederVars PROVE IInv'
  OBVIOUS
<1>1. UNCHANGED <<disk, m_core, pc, i, prefix, m_curLocale, m_list, result>>
  BY DEF feederVars
<1>2. Types' /\ Places'
  BY <1>1 DEF IInv, Types, Places, curLocale
<1>3. Searching'
  BY <1>1 DEF IInv, Searching, IsFirst, LocaleAt
<1>4. /\ BaseEnd' = BaseEnd /\ LocaleEnd' = LocaleEnd
      /\ LocaleBegun' = LocaleBegun /\ BaseFiles' = BaseFiles /\ curLocale' = curLocale
  BY <1>1, SameFiles DEF BaseEnd, LocaleEnd, LocaleBegun, curLocale
<1>5. PatchesBelow(Data, BaseEnd)' = PatchesBelow(Data, BaseEnd)
      /\ PatchesBelow(curLocale, LocaleEnd)' = PatchesBelow(curLocale, LocaleEnd)
      /\ LocaleArchive(curLocale)' = LocaleArchive(curLocale)
  BY <1>1, <1>4 DEF PatchesBelow, LocaleArchive
<1>6. Listing'
  BY <1>1, <1>4, <1>5 DEF IInv, Listing
<1>7. ByHand'
  BY <1>1, <1>4 DEF IInv, ByHand, Named
<1> QED BY <1>2, <1>3, <1>6, <1>7 DEF IInv

LEMMA StepInv == IInv /\ [Next]_vars => IInv'
<1> SUFFICES ASSUME IInv, [Next]_vars PROVE IInv'
  OBVIOUS
<1>1. CASE FeederStep
  BY <1>1, SearchInv, FillBaseInv, FillByHandInv, FillNothingInv, ScanPatchInv,
     ToLocalePatchesInv, ScanDoneInv DEF FeederStep, FeederNext
<1>2. CASE UNCHANGED feederVars
  BY <1>2, UnchangedInv
<1>3. FeederStep \/ UNCHANGED feederVars
  BY DEF Next, OpenArchive, ApplyPatch, InitFails, InitGoesOn, ReadFile, ReadStep, Destroy,
         SetFrame, vars
<1> QED BY <1>1, <1>2, <1>3

LEMMA InvariantHolds == Spec => []IInv
<1>1. Init => IInv
  BY InitInv DEF Init
<1> QED BY <1>1, StepInv, PTL DEF Spec

-----------------------------------------------------------------------------
\* THEOREMS

\* The archives that Init names are those of the first language on disk, and
\* it fails only if there is none.
THEOREM LanguageIsFirst == Spec => []OneLocale
<1>1. IInv => OneLocale
  <2> SUFFICES ASSUME IInv, pc = "done", m_core # CLASSIC PROVE
        /\ result <=> Installed # {}
        /\ result => \A p \in Named : p.dir \in {Data, Locales[Min(Installed)]}
    BY DEF OneLocale
  <2>1. Locales \in Seq(STRING) /\ Len(Locales) \in Nat /\ DOMAIN Locales = 1..Len(Locales)
    BY LocalesAssumption
  <2>2. Installed \in SUBSET Nat
    BY <2>1 DEF Installed
  <2>3. CASE ~result
    <3>1. \A j \in 0..Len(Locales) - 1 : LocaleAt(j) \notin disk
      BY <2>3 DEF IInv, Searching
    <3>2. Installed = {}
      <4>1. \A k \in 1..Len(Locales) : k - 1 \in 0..Len(Locales) - 1 /\ (k - 1) + 1 = k
        BY <2>1
      <4>2. \A k \in 1..Len(Locales) : LocaleArchive(Locales[k]) \notin disk
        BY <3>1, <4>1 DEF LocaleAt
      <4> QED BY <2>1, <4>2 DEF Installed
    <3> QED BY <2>3, <3>2
  <2>4. CASE result
    <3>1. IsFirst(m_curLocale)
      BY <2>4 DEF IInv, Searching
    <3> DEFINE m == m_curLocale + 1
    <3>2. m \in Installed
      BY <2>1, <3>1 DEF IsFirst, LocaleAt, Installed
    <3>3. \A k \in Installed : m <= k
      <4> SUFFICES ASSUME NEW k \in Installed, ~(m <= k) PROVE FALSE
        OBVIOUS
      <4>1. k - 1 \in 0..m_curLocale - 1 /\ (k - 1) + 1 = k
        BY <2>1, <3>1 DEF IsFirst, Installed
      <4> QED BY <3>1, <4>1 DEF IsFirst, LocaleAt, Installed
    <3>4. Min(Installed) = m
      BY <2>2, <3>2, <3>3, MinIs
    <3>5. \A p \in Named : p.dir \in {Data, curLocale}
      <4>1. CASE m_core \in Scanning
        <5>1. /\ Range(m_list.base) = Range(BaseFiles) \cup PatchesBelow(Data, BaseEnd)
              /\ Range(m_list.locale) = {LocaleArchive(curLocale)} \cup PatchesBelow(curLocale, LocaleEnd)
              /\ Range(m_list.basePatch) = {} /\ Range(m_list.localePatch) = {}
          BY <2>4, <4>1, EmptyRange DEF IInv, Listing, LocaleBegun
        <5>2. \A p \in Range(BaseFiles) : p.dir = Data
          BY <4>1, BaseFacts DEF Scanning, CLASSIC, TBC, WOTLK
        <5>3. \A d, n : \A p \in PatchesBelow(d, n) : p.dir = d
          BY ListedPatches
        <5>4. LocaleArchive(curLocale).dir = curLocale
          BY DEF LocaleArchive
        <5>5. Named = Range(m_list.base) \cup Range(m_list.locale)
          BY <5>1 DEF Named, Lists
        <5> QED BY <5>1, <5>2, <5>3, <5>4, <5>5
      <4>2. CASE m_core \notin Scanning
        BY <2>4, <4>2 DEF IInv, ByHand
      <4> QED BY <4>1, <4>2
    <3> QED BY <2>4, <3>2, <3>4, <3>5 DEF curLocale
  <2> QED BY <2>3, <2>4 DEF IInv, Types
<1> QED BY <1>1, InvariantHolds, PTL

\* The lists have every patch of the client and the language on disk, and no
\* other, however many numbers are missing between them.
THEOREM PatchesFound == Spec => []PatchesComplete
<1>1. IInv => PatchesComplete
  <2> SUFFICES ASSUME IInv, pc = "done", result, m_core \in Scanning PROVE
        {p \in Named : p.stem = "patch"} =
        {p \in disk : /\ p.stem = "patch" /\ p.number \in 1..8
                      /\ p.dir = Data \/ (m_core # CLASSIC /\ p.dir = curLocale)}
    BY DEF PatchesComplete, Scanning
  <2> DEFINE Local == IF m_core # CLASSIC THEN PatchesBelow(curLocale, 9) ELSE {}
             Found == PatchesBelow(Data, 9) \cup Local
             Sought == {p \in disk : /\ p.stem = "patch" /\ p.number \in 1..8
                                     /\ p.dir = Data \/ (m_core # CLASSIC /\ p.dir = curLocale)}
  <2>1. /\ Range(m_list.base) = Range(BaseFiles) \cup PatchesBelow(Data, 9)
        /\ Range(m_list.locale) =
              IF m_core # CLASSIC THEN {LocaleArchive(curLocale)} \cup PatchesBelow(curLocale, 9)
              ELSE {}
        /\ Range(m_list.basePatch) = {} /\ Range(m_list.localePatch) = {}
    BY EmptyRange DEF IInv, Listing, LocaleBegun, BaseEnd, LocaleEnd, LastPatch
  <2>2. Named = Range(m_list.base) \cup Range(m_list.locale)
    BY <2>1 DEF Named, Lists
  <2>3. \A p \in Range(BaseFiles) : p.stem # "patch"
    BY BaseFacts DEF Scanning, CLASSIC, TBC, WOTLK
  <2>4. \A d : LocaleArchive(d).stem # "patch"
    BY DEF LocaleArchive
  <2>5. \A d : \A p \in PatchesBelow(d, 9) :
            p \in disk /\ p.stem = "patch" /\ p.number \in 1..8 /\ p.dir = d
    BY ListedPatches
  <2>6. {p \in Named : p.stem = "patch"} = Found
    <3>1. CASE m_core # CLASSIC
      BY <2>1, <2>2, <2>3, <2>4, <2>5, <3>1
    <3>2. CASE m_core = CLASSIC
      BY <2>1, <2>2, <2>3, <2>5, <3>2
    <3> QED BY <3>1, <3>2
  <2>7. Found \subseteq Sought
    BY <2>5
  <2>8. Sought \subseteq Found
    <3> SUFFICES ASSUME NEW p \in Sought PROVE p \in Found
      OBVIOUS
    <3>1. p \in PathType
      BY DisksAssumption DEF IInv, Types
    <3>2. p = Patch(p.dir, p.number)
      BY <3>1 DEF PathType, Patch
    <3>3. p \in PatchesBelow(p.dir, 9)
      BY <3>2 DEF PatchesBelow
    <3> QED BY <3>3
  <2> QED BY <2>6, <2>7, <2>8
<1> QED BY <1>1, InvariantHolds, PTL

-----------------------------------------------------------------------------
\* THE LISTS WHOLE

\* A list whose numbers do not fall, and one whose numbers are below n.
InOrder(s) == \A j, k \in DOMAIN s : j <= k => s[j].number <= s[k].number
NumbersBelow(s, n) == \A k \in DOMAIN s : s[k].number < n

\* What else the feeder keeps: the ranges of its variables, lists of archives
\* that exist for this client, numbers in order, and the lists of CATA whole.
Ranges ==
    /\ i \in 0..Len(Locales) \cup 1..LastPatch + 1
    /\ prefix \in Directories
    /\ m_curLocale \in -1..Len(Locales) - 1
    /\ m_core = CLASSIC => m_curLocale = 0

InArchives == m_list \in [Lists -> Seq(Archives)]

Ordered ==
    m_core \in Scanning =>
        /\ InOrder(m_list.base) /\ InOrder(m_list.locale)
        /\ pc = "scanning" => NumbersBelow(m_list[Scanned], i)

WrittenOut ==
    pc = "done" /\ result /\ m_core \notin Scanning =>
        IF m_core = CATA
        THEN /\ m_list.base = BaseFiles /\ m_list.basePatch = Updates(Data)
             /\ m_list.locale = <<LocaleArchive(curLocale)>>
             /\ m_list.localePatch = Updates(curLocale)
        ELSE \A l \in Lists : m_list[l] = << >>

Filled == Ranges /\ InArchives /\ Ordered /\ WrittenOut

\* The next number goes to the end.
LEMMA AppendInOrder ==
  ASSUME NEW s \in Seq(PathType), NEW n \in Nat, NEW q \in PathType, q.number = n,
         InOrder(s), NumbersBelow(s, n)
  PROVE  InOrder(Append(s, q)) /\ NumbersBelow(Append(s, q), n + 1)
<1>1. /\ Len(s) \in Nat /\ DOMAIN s = 1..Len(s)
      /\ \A k \in 1..Len(s) : s[k].number \in Nat
  <2>1. Len(s) \in Nat /\ DOMAIN s = 1..Len(s) /\ \A k \in 1..Len(s) : s[k] \in PathType
    OBVIOUS
  <2>2. \A p \in PathType : p.number \in Nat
    BY DEF PathType
  <2> QED BY <2>1, <2>2
<1> DEFINE t == Append(s, q)
           m == Len(s)
<1>2. /\ DOMAIN t = 1..m + 1 /\ t[m + 1] = q /\ \A k \in 1..m : t[k] = s[k]
  OBVIOUS
<1> HIDE DEF t, m
<1>3. m \in Nat /\ \A k \in 1..m + 1 : k \in 1..m \/ k = m + 1
  BY <1>1 DEF m
<1>4. \A k \in 1..m : t[k].number < n /\ t[k].number \in Nat
  BY <1>1, <1>2 DEF NumbersBelow, m
<1>5. NumbersBelow(t, n + 1)
  BY <1>2, <1>3, <1>4 DEF NumbersBelow
<1>6. InOrder(t)
  <2> SUFFICES ASSUME NEW j \in 1..m + 1, NEW k \in 1..m + 1, j <= k
               PROVE  t[j].number <= t[k].number
    BY <1>2 DEF InOrder
  <2>1. CASE k = m + 1
    BY <1>2, <1>3, <1>4, <2>1
  <2>2. CASE k \in 1..m
    <3>1. j \in 1..m
      BY <1>3, <2>2
    <3>2. s[j].number <= s[k].number
      BY <1>1, <2>2, <3>1 DEF InOrder, m
    <3> QED BY <1>2, <2>2, <3>1, <3>2
  <2> QED BY <1>3, <2>1, <2>2
<1> QED BY <1>5, <1>6 DEF t

\* What the lists name are archives of the model.
LEMMA ArchivesFacts ==
  /\ \A d \in Directories : LocaleArchive(d) \in Archives /\ Range(Updates(d)) \subseteq Archives
  /\ \A s \in RequiredStems : Base(s) \in Archives
  /\ \A d \in Disks : d \subseteq Archives
<1>1. \A d \in Directories : LocaleArchive(d) \in Archives /\ Range(Updates(d)) \subseteq Archives
  <2> SUFFICES ASSUME NEW d \in Directories
               PROVE  LocaleArchive(d) \in Archives /\ Range(Updates(d)) \subseteq Archives
    OBVIOUS
  <2> DEFINE W == {LocaleArchive(d)} \cup Range(Updates(d))
             All == {{LocaleArchive(e)} \cup Range(Updates(e)) : e \in Directories}
  <2>1. W \in All
    OBVIOUS
  <2>2. W \subseteq UNION All
    BY <2>1
  <2>3. UNION All \subseteq Archives
    BY DEF Archives
  <2> QED BY <2>2, <2>3
<1>2. \A s \in RequiredStems : Base(s) \in Archives
  BY DEF Archives
<1>3. \A d \in Disks : d \subseteq Archives
  BY DEF Archives
<1> QED BY <1>1, <1>2, <1>3

\* So are the lists that are written out, and the base archives have no number.
LEMMA FilledArchives ==
  /\ m_core \in 0..3 => BaseFiles \in Seq(Archives) /\ InOrder(BaseFiles) /\ NumbersBelow(BaseFiles, 1)
  /\ \A d \in Directories : Updates(d) \in Seq(Archives) /\ <<LocaleArchive(d)>> \in Seq(Archives)
<1>1. ASSUME m_core \in 0..3
      PROVE  BaseFiles \in Seq(Archives) /\ InOrder(BaseFiles) /\ NumbersBelow(BaseFiles, 1)
  <2>1. BaseStems \in Seq(RequiredStems)
    BY <1>1, BaseFacts
  <2>2. \A k \in DOMAIN BaseStems : Base(BaseStems[k]) \in Archives /\ Base(BaseStems[k]).number = 0
    BY <2>1, ArchivesFacts DEF Base
  <2>3. BaseFiles \in Seq(Archives)
    BY <2>1, <2>2 DEF BaseFiles
  <2>4. \A k \in DOMAIN BaseFiles : BaseFiles[k].number = 0
    BY <2>2 DEF BaseFiles
  <2> QED BY <2>3, <2>4 DEF InOrder, NumbersBelow
<1>2. ASSUME NEW d \in Directories
      PROVE  Updates(d) \in Seq(Archives) /\ <<LocaleArchive(d)>> \in Seq(Archives)
  <2>1. Update(d, 15211) \in Archives /\ Update(d, 15354) \in Archives /\ Update(d, 15595) \in Archives
    <3>1. Range(Updates(d)) \subseteq Archives
      BY ArchivesFacts
    <3> DEFINE a == Update(d, 15211)
               b == Update(d, 15354)
               c == Update(d, 15595)
    <3>2. Updates(d) = <<a, b, c>>
      BY DEF Updates
    <3> HIDE DEF a, b, c
    <3>3. \A x \in {1, 2, 3} : <<a, b, c>>[x] \in Range(<<a, b, c>>)
      BY DEF Range
    <3>4. a \in Range(<<a, b, c>>) /\ b \in Range(<<a, b, c>>) /\ c \in Range(<<a, b, c>>)
      BY <3>3
    <3>5. a \in Archives /\ b \in Archives /\ c \in Archives
      BY <3>1, <3>2, <3>4
    <3> QED BY <3>5 DEF a, b, c
  <2>2. LocaleArchive(d) \in Archives
    BY ArchivesFacts
  <2> QED BY <2>1, <2>2 DEF Updates
<1> QED BY <1>1, <1>2

\* One lemma per action, as for IInv.
LEMMA FilledInit == FeederInit => Filled
<1> SUFFICES ASSUME FeederInit PROVE Filled
  OBVIOUS
<1>1. Len(Locales) \in Nat \ {0}
  BY LocalesAssumption
<1>2. Ranges
  BY <1>1 DEF FeederInit, Ranges, Directories, LastPatch, CLASSIC
<1>3. InArchives
  BY DEF FeederInit, InArchives
<1>4. Ordered
  BY DEF FeederInit, Ordered, Lists, InOrder
<1>5. WrittenOut
  BY DEF FeederInit, WrittenOut
<1> QED BY <1>2, <1>3, <1>4, <1>5 DEF Filled

LEMMA SearchFilled == IInv /\ Filled /\ (FoundLocale \/ NextLocale \/ NoLocale) => Filled'
<1> SUFFICES ASSUME IInv, Filled, FoundLocale \/ NextLocale \/ NoLocale PROVE Filled'
  OBVIOUS
<1>1. /\ pc = "locale" /\ m_core # CLASSIC /\ ~result
      /\ i \in 0..Len(Locales) /\ Len(Locales) \in Nat
      /\ \A l \in Lists : m_list[l] = << >>
      /\ UNCHANGED <<disk, m_core, prefix, m_list>>
  BY LocalesAssumption DEF IInv, Searching, FoundLocale, NextLocale, NoLocale
<1>2. /\ i' \in 0..Len(Locales) /\ m_curLocale' \in -1..Len(Locales) - 1
      /\ pc' # "scanning" /\ (pc' = "done" => ~result')
  BY <1>1 DEF Filled, Ranges, FoundLocale, NextLocale, NoLocale
<1>3. Ranges' /\ InArchives'
  BY <1>1, <1>2 DEF Filled, Ranges, InArchives
<1>4. Ordered' /\ WrittenOut'
  BY <1>1, <1>2 DEF Filled, Ordered, WrittenOut
<1> QED BY <1>3, <1>4 DEF Filled

LEMMA FillBaseFilled == IInv /\ Filled /\ FillBase => Filled'
<1> SUFFICES ASSUME IInv, Filled, FillBase PROVE Filled'
  OBVIOUS
<1>1. /\ pc = "lists" /\ m_core \in Scanning /\ m_core \in 0..3
      /\ m_list' = [m_list EXCEPT !.base = BaseFiles]
      /\ prefix' = Data /\ i' = 1 /\ pc' = "scanning"
      /\ \A l \in Lists : m_list[l] = << >>
      /\ m_list \in [Lists -> Seq(Archives)]
      /\ UNCHANGED <<disk, m_core, m_curLocale, result>>
  BY DEF IInv, Types, Searching, FillBase, Scanning, CLASSIC, TBC, WOTLK, Filled, InArchives
<1>2. BaseFiles \in Seq(Archives) /\ InOrder(BaseFiles) /\ NumbersBelow(BaseFiles, 1)
  BY <1>1, FilledArchives
<1>3. m_list' \in [Lists -> Seq(Archives)] /\ m_list'.base = BaseFiles /\ m_list'.locale = << >>
  BY <1>1, <1>2 DEF Lists
<1>4. Ranges'
  BY <1>1 DEF Filled, Ranges, LastPatch, Directories
<1>5. Scanned' = "base" /\ InOrder(<< >>)
  BY <1>1 DEF Scanned, InOrder
<1>6. Ordered'
  BY <1>1, <1>2, <1>3, <1>5 DEF Ordered
<1> QED BY <1>1, <1>3, <1>4, <1>6 DEF Filled, InArchives, WrittenOut

LEMMA FillByHandFilled == IInv /\ Filled /\ FillByHand => Filled'
<1> SUFFICES ASSUME IInv, Filled, FillByHand PROVE Filled'
  OBVIOUS
<1>1. /\ pc = "lists" /\ m_core = 3 /\ m_core # CLASSIC /\ m_core \notin Scanning
      /\ IsFirst(m_curLocale) /\ m_core = CATA
      /\ m_list' = [m_list EXCEPT !.base = BaseFiles, !.basePatch = Updates(Data),
                                  !.locale = <<LocaleArchive(curLocale)>>,
                                  !.localePatch = Updates(curLocale)]
      /\ m_list \in [Lists -> Seq(Archives)]
      /\ result' = TRUE /\ pc' = "done"
      /\ UNCHANGED <<disk, m_core, i, prefix, m_curLocale>>
  BY DEF IInv, Types, Searching, FillByHand, Scanning, CLASSIC, TBC, WOTLK, CATA, Filled, InArchives
<1>2. curLocale' = curLocale /\ curLocale \in Directories /\ Data \in Directories
      /\ BaseFiles' = BaseFiles
  BY <1>1, CurLocaleFacts, SameFiles DEF curLocale, Directories
<1> DEFINE a == BaseFiles
           b == Updates(Data)
           c == <<LocaleArchive(curLocale)>>
           d == Updates(curLocale)
<1>3. a \in Seq(Archives) /\ b \in Seq(Archives) /\ c \in Seq(Archives) /\ d \in Seq(Archives)
  BY <1>1, <1>2, FilledArchives
<1>4. m_list' = [m_list EXCEPT !.base = a, !.basePatch = b, !.locale = c, !.localePatch = d]
  BY <1>1
<1>5. a' = a /\ b' = b /\ c' = c /\ d' = d
  BY <1>2 DEF Updates, LocaleArchive, Update
<1>6. /\ m_list' \in [Lists -> Seq(Archives)]
      /\ m_list'.base = a /\ m_list'.basePatch = b /\ m_list'.locale = c /\ m_list'.localePatch = d
  <2> HIDE DEF a, b, c, d
  <2>1. m_list.base \in Seq(Archives)
    BY <1>1 DEF Lists
  <2>2. m_list' \in [Lists -> Seq(Archives)]
    BY <1>1, <1>3, <1>4
  <2> QED BY <1>1, <1>4, <2>2 DEF Lists
<1>7. Ranges' /\ InArchives' /\ Ordered'
  BY <1>1, <1>6 DEF Filled, Ranges, InArchives, Ordered
<1>8. WrittenOut'
  BY <1>1, <1>5, <1>6 DEF WrittenOut
<1> QED BY <1>7, <1>8 DEF Filled

LEMMA FillNothingFilled == IInv /\ Filled /\ FillNothing => Filled'
<1> SUFFICES ASSUME IInv, Filled, FillNothing PROVE Filled'
  OBVIOUS
<1>1. /\ pc = "lists" /\ m_core > 3 /\ m_core \in 0..6
      /\ \A l \in Lists : m_list[l] = << >>
      /\ pc' = "done" /\ UNCHANGED <<disk, m_core, i, prefix, m_curLocale, m_list>>
  BY CoreFacts DEF IInv, Types, Searching, FillNothing, CATA
<1>2. Ranges' /\ InArchives'
  BY <1>1 DEF Filled, Ranges, InArchives
<1>3. Ordered' /\ WrittenOut'
  BY <1>1 DEF Ordered, WrittenOut, Scanning, CLASSIC, TBC, WOTLK, CATA
<1> QED BY <1>2, <1>3 DEF Filled

LEMMA ScanPatchFilled == IInv /\ Filled /\ ScanPatch => Filled'
<1> SUFFICES ASSUME IInv, Filled, ScanPatch PROVE Filled'
  OBVIOUS
<1> DEFINE q == Patch(prefix, i)
           s == m_list[Scanned]
<1>1. /\ pc = "scanning" /\ i \in 1..LastPatch /\ i \in Nat
      /\ i + 1 \in 1..LastPatch + 1 /\ m_core \in Scanning
      /\ m_list' = IF q \in disk THEN [m_list EXCEPT ![Scanned] = Append(@, q)] ELSE m_list
      /\ m_list \in [Lists -> Seq(PathType)] /\ m_list \in [Lists -> Seq(Archives)]
      /\ Scanned \in {"base", "locale"} /\ disk \in Disks
      /\ i' = i + 1 /\ pc' = "scanning" /\ UNCHANGED <<disk, m_core, prefix, m_curLocale, result>>
  BY DEF IInv, Types, Places, ScanPatch, LastPatch, Scanned, Filled, InArchives
<1>2. /\ q \in PathType /\ q.number = i /\ Scanned' = Scanned /\ Scanned \in Lists
      /\ s \in Seq(PathType) /\ s \in Seq(Archives)
  BY <1>1, PathFacts DEF Filled, Ranges, Patch, Scanned, Lists
<1>3. InOrder(m_list.base) /\ InOrder(m_list.locale) /\ NumbersBelow(s, i) /\ InOrder(s)
  BY <1>1 DEF Filled, Ordered
<1>4. Ranges'
  BY <1>1 DEF Filled, Ranges
<1>5. CASE q \in disk
  <2> DEFINE t == Append(s, q)
  <2>1. q \in Archives
    BY <1>1, <1>5, ArchivesFacts
  <2>2. t \in Seq(Archives) /\ InOrder(t) /\ NumbersBelow(t, i + 1)
    BY <1>1, <1>2, <1>3, <2>1, AppendInOrder
  <2>3. m_list' = [m_list EXCEPT ![Scanned] = t]
    BY <1>1, <1>5
  <2> HIDE DEF t
  <2>4. /\ m_list' \in [Lists -> Seq(Archives)] /\ m_list'[Scanned] = t
        /\ \A l \in Lists \ {Scanned} : m_list'[l] = m_list[l]
    BY <1>1, <1>2, <2>2, <2>3
  <2>5. InOrder(m_list'.base) /\ InOrder(m_list'.locale)
    BY <1>1, <1>3, <2>2, <2>4 DEF Lists
  <2>6. Ordered' /\ InArchives' /\ WrittenOut'
    BY <1>1, <1>2, <2>2, <2>4, <2>5 DEF Ordered, InArchives, WrittenOut
  <2> QED BY <1>4, <2>6 DEF Filled
<1>6. CASE q \notin disk
  <2>1. NumbersBelow(s, i + 1)
    <3>1. \A k \in DOMAIN s : s[k] \in PathType
      BY <1>2
    <3>2. \A p \in PathType : p.number \in Nat
      BY DEF PathType
    <3>3. \A k \in DOMAIN s : s[k].number \in Nat
      BY <3>1, <3>2
    <3> HIDE DEF s
    <3> QED BY <1>1, <1>3, <3>3 DEF NumbersBelow
  <2>2. m_list' = m_list
    BY <1>1, <1>6
  <2>3. Ordered' /\ InArchives' /\ WrittenOut'
    BY <1>1, <1>2, <1>3, <2>1, <2>2 DEF Ordered, InArchives, WrittenOut
  <2> QED BY <1>4, <2>3 DEF Filled
<1> QED BY <1>5, <1>6

LEMMA ToLocalePatchesFilled == IInv /\ Filled /\ ToLocalePatches => Filled'
<1> SUFFICES ASSUME IInv, Filled, ToLocalePatches PROVE Filled'
  OBVIOUS
<1> DEFINE c == <<LocaleArchive(curLocale)>>
<1>1. /\ pc = "scanning" /\ m_core \in Scanning /\ m_core # CLASSIC /\ IsFirst(m_curLocale)
      /\ m_list' = [m_list EXCEPT !.locale = c]
      /\ m_list \in [Lists -> Seq(Archives)]
      /\ prefix' = curLocale /\ i' = 1 /\ pc' = "scanning"
      /\ UNCHANGED <<disk, m_core, m_curLocale, result>>
      /\ InOrder(m_list.base)
  BY DEF IInv, Searching, Places, ToLocalePatches, Filled, InArchives, Ordered
<1>2. curLocale # Data /\ curLocale \in Directories /\ c \in Seq(Archives)
  BY <1>1, CurLocaleFacts, FilledArchives
<1>3. InOrder(c) /\ NumbersBelow(c, 1)
  <2>1. DOMAIN c = {1} /\ c[1].number = 0
    BY DEF LocaleArchive
  <2> HIDE DEF c
  <2> QED BY <2>1 DEF InOrder, NumbersBelow
<1> HIDE DEF c
<1>4. m_list' \in [Lists -> Seq(Archives)] /\ m_list'.base = m_list.base /\ m_list'.locale = c
  BY <1>1, <1>2 DEF Lists
<1>5. Ranges'
  BY <1>1, <1>2 DEF Filled, Ranges, LastPatch
<1>6. Scanned' = "locale"
  BY <1>1, <1>2 DEF Scanned
<1>7. Ordered' /\ InArchives' /\ WrittenOut'
  BY <1>1, <1>3, <1>4, <1>6 DEF Ordered, InArchives, WrittenOut
<1> QED BY <1>5, <1>7 DEF Filled

LEMMA ScanDoneFilled == IInv /\ Filled /\ ScanDone => Filled'
<1> SUFFICES ASSUME IInv, Filled, ScanDone PROVE Filled'
  OBVIOUS
<1>1. /\ m_core \in Scanning /\ pc' = "done"
      /\ UNCHANGED <<disk, m_core, i, prefix, m_curLocale, m_list>>
  BY DEF IInv, Places, ScanDone
<1>2. Ranges' /\ InArchives' /\ Ordered' /\ WrittenOut'
  BY <1>1 DEF Filled, Ranges, InArchives, Ordered, WrittenOut
<1> QED BY <1>2 DEF Filled

LEMMA UnchangedFilled == Filled /\ UNCHANGED feederVars => Filled'
<1> SUFFICES ASSUME Filled, UNCHANGED feederVars PROVE Filled'
  OBVIOUS
<1>1. UNCHANGED <<disk, m_core, pc, i, prefix, m_curLocale, m_list, result>>
  BY DEF feederVars
<1>2. BaseFiles' = BaseFiles /\ curLocale' = curLocale /\ Scanned' = Scanned
  BY <1>1, SameFiles DEF curLocale, Scanned
<1>3. LocaleArchive(curLocale)' = LocaleArchive(curLocale) /\ Updates(curLocale)' = Updates(curLocale)
      /\ Updates(Data)' = Updates(Data)
  BY <1>2 DEF LocaleArchive, Updates, Update
<1>4. Ranges' /\ InArchives' /\ Ordered'
  BY <1>1, <1>2 DEF Filled, Ranges, InArchives, Ordered
<1>5. WrittenOut'
  BY <1>1, <1>2, <1>3 DEF Filled, WrittenOut
<1> QED BY <1>4, <1>5 DEF Filled

LEMMA FilledStep == IInv /\ Filled /\ [Next]_vars => Filled'
<1> SUFFICES ASSUME IInv, Filled, [Next]_vars PROVE Filled'
  OBVIOUS
<1>1. CASE FeederStep
  BY <1>1, SearchFilled, FillBaseFilled, FillByHandFilled, FillNothingFilled, ScanPatchFilled,
     ToLocalePatchesFilled, ScanDoneFilled DEF FeederStep, FeederNext
<1>2. CASE UNCHANGED feederVars
  BY <1>2, UnchangedFilled
<1>3. FeederStep \/ UNCHANGED feederVars
  BY DEF Next, OpenArchive, ApplyPatch, InitFails, InitGoesOn, ReadFile, ReadStep, Destroy,
         SetFrame, vars
<1> QED BY <1>1, <1>2, <1>3

-----------------------------------------------------------------------------
\* THE SET OF ARCHIVES

\* The theorems about the set, for the set that this client opens.
SP == INSTANCE ArchiveSetProofs WITH
    Archives <- Archives, Names <- ItemNames, Worlds <- {}, MaxCalls <- 1,
    pc <- setPc, plan <- m_list,
    content <- [a \in Archives |->
                   [n \in ItemNames |-> IF a \in disk THEN held[a] ELSE "absent"]],
    listing <- [a \in Archives |-> {}]

\* Both instances are of the same set: their definitions agree.
LEMMA SameParts ==
  /\ Set!InitFrame <=> SP!InitFrame
  /\ Set!LookupFrame <=> SP!LookupFrame
  /\ \A p : Set!ListOf(p) = SP!ListOf(p) /\ Set!PatchesOf(p) = SP!PatchesOf(p)
  /\ \A p, n : Set!Serial(p, n) = SP!Serial(p, n)
  /\ Set!KeptHandles = SP!KeptHandles
  /\ Set!Here = SP!Here /\ Set!Nothing = SP!Nothing
<1>1. (Set!InitFrame <=> SP!InitFrame) /\ (Set!LookupFrame <=> SP!LookupFrame)
  BY DEF Set!InitFrame, SP!InitFrame, Set!LookupFrame, SP!LookupFrame, Set!planVars, SP!planVars,
         Set!readVars, SP!readVars, Set!initVars, SP!initVars, Set!listVars, SP!listVars
<1>2. \A p : Set!ListOf(p) = SP!ListOf(p) /\ Set!PatchesOf(p) = SP!PatchesOf(p)
  BY DEF Set!ListOf, SP!ListOf, Set!PatchesOf, SP!PatchesOf
<1>3. \A p, n : Set!Serial(p, n) = SP!Serial(p, n)
  BY DEF Set!Serial, SP!Serial
<1>4. Set!KeptHandles = SP!KeptHandles
  BY DEF Set!KeptHandles, SP!KeptHandles, Set!Range, SP!Range
<1>5. Set!Here = SP!Here /\ Set!Nothing = SP!Nothing
  BY DEF Set!Here, SP!Here, Set!ChainOf, SP!ChainOf, Set!Nothing, SP!Nothing
<1> QED BY <1>1, <1>2, <1>3, <1>4, <1>5

\* And so do their chains of entries.
LEMMA SameChains ==
  \A c : /\ Set!Opened(c) = SP!Opened(c) /\ (Set!SizeIsZero(c) <=> SP!SizeIsZero(c))
         /\ (Set!ReadSucceeds(c) <=> SP!ReadSucceeds(c))
<1>1. \A c : Set!Opened(c) = SP!Opened(c)
  BY DEF Set!Opened, SP!Opened, Set!Plain, SP!Plain, Set!IsPlain, SP!IsPlain, Set!Max, SP!Max
<1> QED BY <1>1 DEF Set!SizeIsZero, SP!SizeIsZero, Set!ReadSucceeds, SP!ReadSucceeds,
         Set!Max, SP!Max, Set!Min, SP!Min

\* Their steps are the same steps.
LEMMA SameSteps ==
  /\ Set!OpenArchive => SP!OpenArchive
  /\ Set!ApplyPatch => SP!ApplyPatch
  /\ Set!OpenArchiveFails => SP!OpenArchiveFails
  /\ Set!ApplyPatchFails => SP!ApplyPatchFails
  /\ Set!PushBack => SP!PushBack
  /\ Set!ToLocale => SP!ToLocale
  /\ Set!InitDone => SP!InitDone
  /\ \A n : Set!ReadFile(n) => SP!ReadFile(n)
  /\ Set!Destroy => SP!Destroy
<1>1. Set!OpenArchive => SP!OpenArchive
  BY SameParts DEF Set!OpenArchive, SP!OpenArchive
<1>2. Set!ApplyPatch => SP!ApplyPatch
  BY SameParts DEF Set!ApplyPatch, SP!ApplyPatch
<1>3. /\ Set!OpenArchiveFails => SP!OpenArchiveFails
      /\ Set!ApplyPatchFails => SP!ApplyPatchFails
  BY SameParts DEF Set!OpenArchiveFails, SP!OpenArchiveFails, Set!ApplyPatchFails,
                   SP!ApplyPatchFails, Set!initVars, SP!initVars
<1>4. Set!PushBack => SP!PushBack
  BY SameParts DEF Set!PushBack, SP!PushBack
<1>5. (Set!ToLocale => SP!ToLocale) /\ (Set!InitDone => SP!InitDone)
  BY SameParts DEF Set!ToLocale, SP!ToLocale, Set!InitDone, SP!InitDone, Set!initVars, SP!initVars
<1>6. \A n : Set!ReadFile(n) => SP!ReadFile(n)
  BY SameParts DEF Set!ReadFile, SP!ReadFile, Set!planVars, SP!planVars, Set!initVars, SP!initVars,
                   Set!listVars, SP!listVars
<1>7. Set!Destroy => SP!Destroy
  BY SameParts DEF Set!Destroy, SP!Destroy
<1> QED BY <1>1, <1>2, <1>3, <1>4, <1>5, <1>6, <1>7

LEMMA SameReads == Set!ReadStep => SP!ReadStep
<1>1. Set!NotInArchive => SP!NotInArchive
  BY SameParts, SameChains DEF Set!NotInArchive, SP!NotInArchive, Set!listVars, SP!listVars
<1>2. Set!OpenFile => SP!OpenFile
  BY SameParts, SameChains DEF Set!OpenFile, SP!OpenFile, Set!listVars, SP!listVars
<1>3. Set!SkipEmpty => SP!SkipEmpty
  BY SameParts, SameChains DEF Set!SkipEmpty, SP!SkipEmpty, Set!listVars, SP!listVars
<1>4. Set!AllocateBuffer => SP!AllocateBuffer
  BY SameParts, SameChains DEF Set!AllocateBuffer, SP!AllocateBuffer, Set!listVars, SP!listVars
<1>5. Set!ReadData => SP!ReadData
  BY SameParts, SameChains DEF Set!ReadData, SP!ReadData, Set!listVars, SP!listVars
<1>6. Set!ReadDataFails => SP!ReadDataFails
  BY SameParts, SameChains DEF Set!ReadDataFails, SP!ReadDataFails, Set!listVars, SP!listVars
<1>7. Set!CloseFile => SP!CloseFile
  BY SameParts, SameChains DEF Set!CloseFile, SP!CloseFile, Set!listVars, SP!listVars
<1>8. Set!ReadNothing => SP!ReadNothing
  BY SameParts DEF Set!ReadNothing, SP!ReadNothing, Set!listVars, SP!listVars, Set!readVars, SP!readVars
<1> QED BY <1>1, <1>2, <1>3, <1>4, <1>5, <1>6, <1>7, <1>8 DEF Set!ReadStep, SP!ReadStep

\* Until the lists are made, the set is as it was constructed.
Waiting == ~Fed => SP!Constructed

\* Every step of the composition is a step of the set, or leaves it as constructed.
LEMMA SetSteps ==
  ASSUME Types, Waiting, [Next]_vars
  PROVE  Waiting' /\ ([SP!Next]_(SP!vars) \/ SP!Constructed')
<1>1. CASE FeederStep
  <2>1. ~Fed
    BY <1>1 DEF FeederStep, FeederNext, Fed, FoundLocale, NextLocale, NoLocale, FillBase, FillByHand,
             FillNothing, ScanPatch, ToLocalePatches, ScanDone
  <2>2. SP!Constructed'
    <3>1. UNCHANGED <<setPc, phase, next, patched, handle, m_mpqList, open,
                      name, it, size, buff, files, buffers, list, ok, calls>>
      BY <1>1 DEF FeederStep, setVars
    <3> QED BY <2>1, <3>1 DEF Waiting, SP!Constructed, SP!NoHandle, SP!NoName, SP!Nothing
  <2> QED BY <2>2 DEF Waiting
<1>2. ASSUME Fed, SetFrame, SP!Next
      PROVE  Waiting' /\ [SP!Next]_(SP!vars)
  <2>1. Fed'
    BY <1>2 DEF Fed, SetFrame, feederVars
  <2> QED BY <1>2, <2>1 DEF Waiting
<1>3. OpenArchive \/ ApplyPatch \/ InitFails \/ InitGoesOn => Fed /\ SetFrame /\ SP!Next
  BY SameSteps DEF OpenArchive, ApplyPatch, InitFails, InitGoesOn, SP!Next, SP!InitStep
<1>4. ReadFile \/ ReadStep \/ Destroy => Fed /\ SetFrame /\ SP!Next
  BY SameSteps, SameReads DEF ReadFile, ReadStep, Destroy, SP!Next
<1>5. CASE UNCHANGED vars
  <2>1. UNCHANGED <<disk, m_core, pc, i, prefix, m_curLocale, m_list, result, held,
                    setPc, phase, next, patched, handle, m_mpqList, open,
                    name, it, size, buff, files, buffers, list, ok, calls>>
    BY <1>5 DEF vars, setVars, feederVars
  <2>2. UNCHANGED SP!vars
    BY <2>1 DEF SP!vars, SP!planVars, SP!initVars, SP!readVars, SP!listVars
  <2>3. Waiting'
    BY <2>1 DEF Waiting, Fed, SP!Constructed, SP!NoHandle, SP!NoName, SP!Nothing
  <2> QED BY <2>2, <2>3
<1> QED BY <1>1, <1>2, <1>3, <1>4, <1>5 DEF Next

\* What is on disk does not change.
HeldOK == held \in [disk -> EntryKinds]

LEMMA HeldInit == Init => HeldOK
BY ClientsAssumption DEF Init, HeldOK, FeederInit

LEMMA HeldStep == HeldOK /\ [Next]_vars => HeldOK'
<1> SUFFICES ASSUME HeldOK, [Next]_vars PROVE HeldOK'
  OBVIOUS
<1>1. UNCHANGED <<disk, held>>
  BY DEF Next, FeederStep, FeederNext, FoundLocale, NextLocale, NoLocale, FillBase, FillByHand,
         FillNothing, ScanPatch, ToLocalePatches, ScanDone, OpenArchive, ApplyPatch, InitFails,
         InitGoesOn, ReadFile, ReadStep, Destroy, SetFrame, feederVars, vars
<1> QED BY <1>1 DEF HeldOK

\* The lists are ones that a set of archives can begin with.
LEMMA WorldHolds == Filled /\ HeldOK => SP!WorldOK
<1> SUFFICES ASSUME Filled, HeldOK PROVE SP!WorldOK
  OBVIOUS
<1>1. m_list \in SP!PlanType
  BY DEF Filled, InArchives, Lists, SP!PlanType
<1>2. [a \in Archives |-> [n \in ItemNames |-> IF a \in disk THEN held[a] ELSE "absent"]]
         \in SP!ContentType
  <2>1. \A a \in Archives : (IF a \in disk THEN held[a] ELSE "absent") \in SP!EntryKinds
    BY DEF HeldOK, EntryKinds, SP!EntryKinds
  <2> QED BY <2>1 DEF SP!ContentType
<1>3. [a \in Archives |-> {}] \in SP!ListingType
  BY DEF SP!ListingType
<1> QED BY <1>1, <1>2, <1>3 DEF SP!WorldOK

\* The invariant of the set, carried over.
SetOK == SP!IInv /\ SP!ChainsOK /\ SP!LookupOK

LEMMA SetBegins == SP!WorldOK /\ SP!Constructed => SetOK
<1>1. "none" \notin ItemNames /\ 1 \in Nat
  BY DEF ItemNames
<1> QED BY <1>1, SP!ConstructedInv, SP!ChainsInit, SP!LookupInit DEF SetOK, SP!NoName

LEMMA SetGoesOn == SetOK /\ [SP!Next]_(SP!vars) => SetOK'
<1>1. "none" \notin ItemNames /\ 1 \in Nat
  BY DEF ItemNames
<1> QED BY <1>1, SP!StepInv, SP!ChainsStep, SP!LookupStep DEF SetOK, SP!NoName

\* The invariant of the composition.
LEMMA SetHolds == Spec => [](IInv /\ Filled /\ HeldOK /\ Waiting /\ SetOK)
<1>1. Init => IInv /\ Filled /\ HeldOK /\ Waiting /\ SP!Constructed
  <2>1. Set!Constructed <=> SP!Constructed
    BY DEF Set!Constructed, SP!Constructed, Set!NoHandle, SP!NoHandle, Set!NoName, SP!NoName,
           Set!Nothing, SP!Nothing
  <2> QED BY <2>1, InitInv, FilledInit, HeldInit DEF Init, Waiting
<1>2. IInv /\ [Next]_vars => IInv'
  BY StepInv
<1>3. IInv /\ Filled /\ [Next]_vars => Filled'
  BY FilledStep
<1>4. HeldOK /\ [Next]_vars => HeldOK'
  BY HeldStep
<1>5. IInv /\ Waiting /\ [Next]_vars =>
         Waiting' /\ ([SP!Next]_(SP!vars) \/ SP!Constructed')
  BY SetSteps DEF IInv
<1>6. Filled /\ HeldOK => SP!WorldOK
  BY WorldHolds
<1>7. SP!WorldOK /\ SP!Constructed => SetOK
  BY SetBegins
<1>8. SetOK /\ [SP!Next]_(SP!vars) => SetOK'
  BY SetGoesOn
<1> QED BY <1>1, <1>2, <1>3, <1>4, <1>5, <1>6, <1>7, <1>8, PTL DEF Spec

-----------------------------------------------------------------------------
\* THEOREMS ABOUT BOTH

\* The variables of both parts keep their types.
THEOREM TypeCorrect == Spec => []TypeOK
<1>1. SP!TypeOK => Set!TypeOK
  BY SameParts DEF SP!TypeOK, Set!TypeOK, SP!PlanType, Set!PlanType, SP!ContentType,
         Set!ContentType, SP!EntryKinds, Set!EntryKinds, SP!ListingType, Set!ListingType,
         SP!HandleType, Set!HandleType, SP!NoName, Set!NoName
<1>2. IInv /\ Filled /\ HeldOK /\ SetOK => TypeOK
  <2> SUFFICES ASSUME IInv, Filled, HeldOK, SetOK PROVE TypeOK
    OBVIOUS
  <2>1. Set!TypeOK
    BY <1>1 DEF SetOK, SP!IInv
  <2>2. pc \in {"lists", "scanning"} => m_curLocale >= 0
    BY DEF IInv, Searching, IsFirst, Filled, Ranges, CLASSIC
  <2>3. FeederTypeOK
    BY <2>2 DEF FeederTypeOK, IInv, Types, Filled, Ranges
  <2> QED BY <2>1, <2>3 DEF TypeOK, HeldOK
<1> QED BY <1>2, SetHolds, PTL

\* Before the lists are made no archive is open.
LEMMA FedIfOpen ==
  ASSUME Waiting, m_mpqList # << >> \/ name # Set!NoName
  PROVE  pc = "done" /\ result
BY DEF Waiting, Fed, SP!Constructed, SP!NoName, Set!NoName

\* An archive in front of its patches.
LEMMA InFront ==
  ASSUME NEW S, NEW a \in S, NEW u \in Seq(S)
  PROVE  /\ Len(<<a>> \o u) = Len(u) + 1
         /\ \A k \in 1..Len(u) + 1 : (<<a>> \o u)[k] = IF k = 1 THEN a ELSE u[k - 1]
OBVIOUS

\* An archive with the three updates of its directory.
UpdatedIn(c, d) ==
    /\ Len(c) = 4 /\ c[1].dir = d
    /\ \A k \in 2..4 : /\ c[k].dir = d
                       /\ \A j \in 2..k - 1 : c[j].number < c[k].number

LEMMA UpdatedChain ==
  ASSUME NEW d, NEW a, a.dir = d
  PROVE  UpdatedIn(<<a>> \o Updates(d), d)
<1> DEFINE u1 == Update(d, 15211)
           u2 == Update(d, 15354)
           u3 == Update(d, 15595)
<1>1. /\ u1.dir = d /\ u2.dir = d /\ u3.dir = d
      /\ u1.number = 15211 /\ u2.number = 15354 /\ u3.number = 15595
  BY DEF Update
<1>2. Updates(d) = <<u1, u2, u3>>
  BY DEF Updates
<1> HIDE DEF u1, u2, u3
<1> DEFINE S == {a, u1, u2, u3}
           u == <<u1, u2, u3>>
           c == <<a>> \o u
<1>3. u \in Seq(S) /\ Len(u) = 3 /\ u[1] = u1 /\ u[2] = u2 /\ u[3] = u3 /\ a \in S
  OBVIOUS
<1> HIDE DEF S, u
<1>4. Len(c) = 4 /\ c[1] = a /\ c[2] = u1 /\ c[3] = u2 /\ c[4] = u3
  <2>0. a \in S /\ u \in Seq(S)
    BY <1>3
  <2>1. /\ Len(<<a>> \o u) = Len(u) + 1
        /\ \A k \in 1..Len(u) + 1 : (<<a>> \o u)[k] = IF k = 1 THEN a ELSE u[k - 1]
    BY <2>0, InFront
  <2>2. Len(c) = 4 /\ \A k \in 1..4 : c[k] = IF k = 1 THEN a ELSE u[k - 1]
    BY <1>3, <2>1
  <2> HIDE DEF c
  <2>3. c[1] = a /\ c[2] = u[1] /\ c[3] = u[2] /\ c[4] = u[3]
    BY <2>2
  <2> QED BY <1>3, <2>2, <2>3
<1> HIDE DEF c
<1>5. \A k \in 2..4 : k = 2 \/ k = 3 \/ k = 4
  OBVIOUS
<1>6. \A k \in 2..4 : c[k].dir = d
  BY <1>1, <1>4, <1>5
<1>7. \A k \in 2..4 : \A j \in 2..k - 1 : c[j].number < c[k].number
  <2> SUFFICES ASSUME NEW k \in 2..4, NEW j \in 2..k - 1
               PROVE  c[j].number < c[k].number
    OBVIOUS
  <2>1. (k = 3 /\ j = 2) \/ (k = 4 /\ (j = 2 \/ j = 3))
    OBVIOUS
  <2> QED BY <1>1, <1>4, <2>1
<1>8. UpdatedIn(c, d)
  BY <1>4, <1>6, <1>7 DEF UpdatedIn
<1> QED BY <1>2, <1>8 DEF c, u

\* What Init has opened are the planned chains.
LEMMA OpenedChains ==
  ASSUME SetOK, NEW h \in Range(m_mpqList)
  PROVE  \E k \in 1..Len(m_list.base) + Len(m_list.locale) :
            h.archives = IF k <= Len(m_list.base) THEN <<m_list.base[k]>> \o m_list.basePatch
                         ELSE <<m_list.locale[k - Len(m_list.base)]>> \o m_list.localePatch
<1>1. m_mpqList \in Seq(SP!HandleType) /\ m_list \in SP!PlanType
  BY DEF SetOK, SP!IInv, SP!TypeOK
<1>2. PICK k \in 1..Len(m_mpqList) : h = m_mpqList[k]
  BY <1>1 DEF Range
<1> DEFINE b == Len(m_list.base)
           l == Len(m_list.locale)
<1>3. b \in Nat /\ l \in Nat /\ Len(m_mpqList) \in Nat
  BY <1>1 DEF SP!PlanType
<1>4. Len(m_mpqList) <= b + l /\ h.archives = SP!PlannedChain(k)
  BY <1>2 DEF SetOK, SP!ChainsOK, SP!Planned
<1> HIDE DEF b, l
<1>5. k \in 1..b + l
  BY <1>2, <1>3, <1>4
<1> QED BY <1>4, <1>5 DEF SP!PlannedChain, b, l

\* Every archive of CATA has all the updates of its directory, in order.
THEOREM UpdatesAttached == Spec => []UpdatesFollowArchive
<1>1. IInv /\ Filled /\ Waiting /\ SetOK => UpdatesFollowArchive
  <2> SUFFICES ASSUME IInv, Filled, Waiting, SetOK, NEW h \in Range(m_mpqList)
               PROVE  /\ \A k \in 2..Len(h.archives) :
                            /\ h.archives[k].dir = h.archives[1].dir
                            /\ \A j \in 2..k - 1 : h.archives[j].number < h.archives[k].number
                      /\ Len(h.archives) = IF m_core = CATA THEN 4 ELSE 1
    BY DEF UpdatesFollowArchive
  <2> DEFINE b == Len(m_list.base)
             l == Len(m_list.locale)
  <2>1. pc = "done" /\ result
    <3>1. m_mpqList # << >>
      BY EmptyRange
    <3> QED BY <3>1, FedIfOpen
  <2>2. PICK k \in 1..b + l :
            h.archives = IF k <= b THEN <<m_list.base[k]>> \o m_list.basePatch
                         ELSE <<m_list.locale[k - b]>> \o m_list.localePatch
    BY OpenedChains
  <2>3. /\ m_list.base \in Seq(Archives) /\ m_list.locale \in Seq(Archives)
        /\ b \in Nat /\ l \in Nat
    BY DEF Filled, InArchives, Lists
  <2>4. CASE m_core \in Scanning
    <3>1. m_list.basePatch = << >> /\ m_list.localePatch = << >> /\ m_core # CATA
      BY <2>1, <2>4 DEF IInv, Listing, Scanning, CLASSIC, TBC, WOTLK, CATA
    <3>2. Len(h.archives) = 1
      BY <2>2, <3>1
    <3> QED BY <3>1, <3>2
  <2>5. CASE m_core = CATA
    <3>1. m_core \notin Scanning /\ m_core \in 0..3 /\ m_core # CLASSIC
      BY <2>5 DEF Scanning, CLASSIC, TBC, WOTLK, CATA
    <3>2. /\ m_list.base = BaseFiles /\ m_list.basePatch = Updates(Data)
          /\ m_list.locale = <<LocaleArchive(curLocale)>>
          /\ m_list.localePatch = Updates(curLocale)
      BY <2>1, <2>5, <3>1 DEF Filled, WrittenOut
    <3>3. curLocale \in Directories /\ Data \in Directories
      BY <2>1, <3>1, CurLocaleFacts DEF IInv, Searching, Directories
    <3>4. \A p \in Range(BaseFiles) : p.dir = Data
      BY <3>1, BaseFacts
    <3>5. CASE k <= b
      <4>1. k \in 1..b
        <5> HIDE DEF b, l
        <5> QED BY <2>3, <3>5
      <4>2. m_list.base[k].dir = Data
        BY <2>3, <3>2, <3>4, <4>1 DEF Range
      <4>3. h.archives = <<m_list.base[k]>> \o Updates(Data)
        BY <2>2, <3>2, <3>5
      <4>4. UpdatedIn(h.archives, Data)
        BY <4>2, <4>3, UpdatedChain
      <4> QED BY <2>5, <4>4 DEF UpdatedIn
    <3>6. CASE ~(k <= b)
      <4>1. k - b \in 1..l
        <5> HIDE DEF b, l
        <5> QED BY <2>3, <3>6
      <4>2. l = 1
        BY <3>2
      <4>3. k - b = 1
        BY <4>1, <4>2
      <4>4. h.archives = <<LocaleArchive(curLocale)>> \o Updates(curLocale)
        <5>1. m_list.locale[k - b] = LocaleArchive(curLocale)
          BY <3>2, <4>3
        <5> QED BY <2>2, <3>2, <3>6, <5>1
      <4>5. LocaleArchive(curLocale).dir = curLocale
        BY DEF LocaleArchive
      <4>6. UpdatedIn(h.archives, curLocale)
        BY <4>4, <4>5, UpdatedChain
      <4> QED BY <2>5, <4>6 DEF UpdatedIn
    <3> QED BY <3>5, <3>6
  <2>6. CASE m_core \notin Scanning /\ m_core # CATA
    <3>1. m_list.base = << >> /\ m_list.locale = << >>
      BY <2>1, <2>6 DEF Filled, WrittenOut, Lists
    <3>2. b = 0 /\ l = 0
      BY <3>1
    <3> QED BY <3>2
  <2> QED BY <2>4, <2>5, <2>6
<1> QED BY <1>1, SetHolds, PTL

\* What the lookup asks of a planned archive without patches.
LEMMA AnswerIsFull ==
  ASSUME Filled, HeldOK, m_list.basePatch = << >>, m_list.localePatch = << >>,
         NEW k \in 1..Len(m_list.base) + Len(m_list.locale), NEW n \in ItemNames
  PROVE  /\ SP!FirstOf(k) \in Archives /\ SP!PlannedChain(k) = <<SP!FirstOf(k)>>
         /\ SP!Answers(SP!Held(k, n)) <=> SP!FirstOf(k) \in disk /\ held[SP!FirstOf(k)] = "full"
<1> DEFINE b == Len(m_list.base)
           l == Len(m_list.locale)
           a == SP!FirstOf(k)
           e == IF a \in disk THEN held[a] ELSE "absent"
<1>1. /\ m_list.base \in Seq(Archives) /\ m_list.locale \in Seq(Archives)
      /\ b \in Nat /\ l \in Nat
  BY DEF Filled, InArchives, Lists
<1>2. k \in 1..b \/ (~(k <= b) /\ k - b \in 1..l)
  <2>1. k \in 1..b + l
    OBVIOUS
  <2> HIDE DEF b, l
  <2> QED BY <1>1, <2>1
<1>3. a \in Archives
  BY <1>1, <1>2 DEF SP!FirstOf
<1>4. SP!PlannedChain(k) = <<a>>
  BY <1>1, <1>2, <1>3 DEF SP!FirstOf, SP!PlannedChain
<1>5. SP!Held(k, n) = <<e>>
  BY <1>3, <1>4 DEF SP!Held, SP!ChainOf
<1>6. e \in SP!EntryKinds
  BY DEF HeldOK, EntryKinds, SP!EntryKinds
<1>7. SP!Answers(<<e>>) <=> e = "full"
  <2> HIDE DEF e
  <2>1. "none" \notin ItemNames /\ 1 \in Nat
    BY DEF ItemNames
  <2> QED BY <1>6, <2>1, SP!SingleAnswers DEF SP!NoName
<1> QED BY <1>3, <1>4, <1>5, <1>7

\* The planned archives belong to the client and its language.
LEMMA PlannedFacts ==
  ASSUME IInv, Filled, pc = "done", result, m_core \in Scanning
  PROVE  /\ m_list.basePatch = << >> /\ m_list.localePatch = << >>
         /\ \A p \in disk : OfClient(p) <=> p \in Range(m_list.base) \cup Range(m_list.locale)
         /\ \A p \in Range(m_list.base) \cup Range(m_list.locale) : OfClient(p)
         /\ \A p \in Range(m_list.base) : p.dir = Data
         /\ \A p \in Range(m_list.locale) : p.dir # Data
         /\ InOrder(m_list.base) /\ InOrder(m_list.locale)
<1>1. /\ Range(m_list.base) = Range(BaseFiles) \cup PatchesBelow(Data, 9)
      /\ Range(m_list.locale) =
            IF m_core # CLASSIC THEN {LocaleArchive(curLocale)} \cup PatchesBelow(curLocale, 9)
            ELSE {}
      /\ m_list.basePatch = << >> /\ m_list.localePatch = << >>
  BY DEF IInv, Listing, LocaleBegun, BaseEnd, LocaleEnd, LastPatch
<1>2. \A p \in Range(BaseFiles) : p.dir = Data
  BY BaseFacts DEF Scanning, CLASSIC, TBC, WOTLK
<1>3. \A d : \A p \in PatchesBelow(d, 9) :
          p \in disk /\ p.stem = "patch" /\ p.number \in 1..8 /\ p.dir = d
  BY ListedPatches
<1>4. \A p \in disk : p.stem = "patch" /\ p.number \in 1..8 => p \in PatchesBelow(p.dir, 9)
  <2> SUFFICES ASSUME NEW p \in disk, p.stem = "patch", p.number \in 1..8
               PROVE  p \in PatchesBelow(p.dir, 9)
    OBVIOUS
  <2>1. p \in PathType
    BY DisksAssumption DEF IInv, Types
  <2>2. p = Patch(p.dir, p.number)
    BY <2>1 DEF PathType, Patch
  <2> QED BY <2>2 DEF PatchesBelow
<1>5. m_core # CLASSIC => curLocale # Data
  BY CurLocaleFacts DEF IInv, Searching
<1>6. LocaleArchive(curLocale).dir = curLocale
  BY DEF LocaleArchive
<1>7. \A p \in Range(m_list.base) \cup Range(m_list.locale) : OfClient(p)
  BY <1>1, <1>3 DEF OfClient
<1>8. \A p \in disk : OfClient(p) => p \in Range(m_list.base) \cup Range(m_list.locale)
  <2> SUFFICES ASSUME NEW p \in disk, OfClient(p)
               PROVE  p \in Range(m_list.base) \cup Range(m_list.locale)
    OBVIOUS
  <2>1. CASE p \in Range(BaseFiles)
    BY <1>1, <2>1
  <2>2. CASE m_core # CLASSIC /\ p = LocaleArchive(curLocale)
    BY <1>1, <2>2
  <2>3. CASE /\ p.stem = "patch" /\ p.number \in 1..8
             /\ p.dir = Data \/ (m_core # CLASSIC /\ p.dir = curLocale)
    BY <1>1, <1>4, <2>3
  <2> QED BY <2>1, <2>2, <2>3 DEF OfClient
<1>9. \A p \in Range(m_list.base) : p.dir = Data
  BY <1>1, <1>2, <1>3
<1>10. \A p \in Range(m_list.locale) : p.dir # Data
  BY <1>1, <1>3, <1>5, <1>6
<1>11. InOrder(m_list.base) /\ InOrder(m_list.locale)
  BY DEF Filled, Ordered
<1> QED BY <1>1, <1>7, <1>8, <1>9, <1>10, <1>11

\* An archive in one list is a planned archive, before those of the locale if
\* it is in the list of Data.
LEMMA PlannedPlace ==
  ASSUME Filled, NEW p \in Range(m_list.base) \cup Range(m_list.locale)
  PROVE  \E k \in 1..Len(m_list.base) + Len(m_list.locale) : SP!FirstOf(k) = p
<1> DEFINE b == Len(m_list.base)
           l == Len(m_list.locale)
<1>1. /\ m_list.base \in Seq(Archives) /\ m_list.locale \in Seq(Archives)
      /\ b \in Nat /\ l \in Nat
  BY DEF Filled, InArchives, Lists
<1>2. CASE p \in Range(m_list.base)
  <2>1. PICK k \in 1..b : m_list.base[k] = p
    BY <1>1, <1>2 DEF Range
  <2>2. SP!FirstOf(k) = p
    BY <2>1 DEF SP!FirstOf
  <2>3. k \in 1..b + l
    <3> HIDE DEF b, l
    <3> QED BY <1>1, <2>1
  <2> QED BY <2>2, <2>3
<1>3. CASE p \in Range(m_list.locale)
  <2>1. PICK j \in 1..l : m_list.locale[j] = p
    BY <1>1, <1>3 DEF Range
  <2> DEFINE k == b + j
  <2>2. k \in 1..b + l /\ ~(k <= b) /\ k - b = j
    <3> HIDE DEF b, l
    <3> QED BY <1>1, <2>1
  <2>3. SP!FirstOf(k) = p
    BY <2>1, <2>2 DEF SP!FirstOf
  <2> QED BY <2>2, <2>3
<1> QED BY <1>2, <1>3

\* Of two planned archives the later one is not the older, by their names.
LEMMA LaterNotOlder ==
  ASSUME IInv, Filled, pc = "done", result, m_core \in Scanning,
         NEW j \in 1..Len(m_list.base) + Len(m_list.locale),
         NEW k \in 1..Len(m_list.base) + Len(m_list.locale), j <= k
  PROVE  ~Newer(SP!FirstOf(j), SP!FirstOf(k))
<1> DEFINE b == Len(m_list.base)
           l == Len(m_list.locale)
           p == SP!FirstOf(j)
           q == SP!FirstOf(k)
<1>1. /\ m_list.base \in Seq(PathType) /\ m_list.locale \in Seq(PathType)
      /\ b \in Nat /\ l \in Nat
  BY DEF IInv, Types, Lists
<1>2. /\ \A x \in Range(m_list.base) : x.dir = Data
      /\ \A x \in Range(m_list.locale) : x.dir # Data
      /\ InOrder(m_list.base) /\ InOrder(m_list.locale)
  BY PlannedFacts
<1>3. \A x \in PathType : x.number \in Nat
  BY DEF PathType
<1>4. j \in 1..b + l /\ k \in 1..b + l
  OBVIOUS
<1>5. CASE k <= b
  <2>1. j \in 1..b /\ k \in 1..b /\ j <= b
    <3> HIDE DEF b, l
    <3> QED BY <1>1, <1>4, <1>5
  <2>2. p = m_list.base[j] /\ q = m_list.base[k]
    BY <1>5, <2>1 DEF SP!FirstOf
  <2>3. p.dir = Data /\ q.dir = Data
    BY <1>1, <1>2, <2>1, <2>2 DEF Range
  <2>4. /\ m_list.base[j] \in PathType /\ m_list.base[k] \in PathType
        /\ m_list.base[j].number <= m_list.base[k].number
    BY <1>1, <1>2, <2>1 DEF InOrder
  <2> HIDE DEF p, q
  <2>5. ~Newer(p, q)
    <3>1. p.number \in Nat /\ q.number \in Nat /\ p.number <= q.number
      BY <1>3, <2>2, <2>4
    <3> QED BY <2>3, <3>1 DEF Newer
  <2> QED BY <2>5 DEF p, q
<1>6. CASE ~(k <= b) /\ j <= b
  <2>1. j \in 1..b /\ k - b \in 1..l
    <3> HIDE DEF b, l
    <3> QED BY <1>1, <1>4, <1>6
  <2>2. p = m_list.base[j] /\ q = m_list.locale[k - b]
    BY <1>6, <2>1 DEF SP!FirstOf
  <2>3. p.dir = Data /\ q.dir # Data
    BY <1>1, <1>2, <2>1, <2>2 DEF Range
  <2> HIDE DEF p, q
  <2>4. ~Newer(p, q)
    BY <2>3 DEF Newer
  <2> QED BY <2>4 DEF p, q
<1>7. CASE ~(k <= b) /\ ~(j <= b)
  <2>1. j - b \in 1..l /\ k - b \in 1..l /\ j - b <= k - b
    <3> HIDE DEF b, l
    <3> QED BY <1>1, <1>4, <1>7
  <2>2. p = m_list.locale[j - b] /\ q = m_list.locale[k - b]
    BY <1>7, <2>1 DEF SP!FirstOf
  <2>3. p.dir # Data /\ q.dir # Data
    BY <1>1, <1>2, <2>1, <2>2 DEF Range
  <2>4. /\ m_list.locale[j - b] \in PathType /\ m_list.locale[k - b] \in PathType
        /\ m_list.locale[j - b].number <= m_list.locale[k - b].number
    <3> DEFINE x == j - b
               y == k - b
               s == m_list.locale
    <3>1. x \in DOMAIN s /\ y \in DOMAIN s /\ x <= y /\ s \in Seq(PathType) /\ InOrder(s)
      BY <1>1, <1>2, <2>1
    <3> HIDE DEF x, y, s
    <3>2. s[x] \in PathType /\ s[y] \in PathType /\ s[x].number <= s[y].number
      BY <3>1 DEF InOrder
    <3> QED BY <3>2 DEF x, y, s
  <2> HIDE DEF p, q
  <2>5. ~Newer(p, q)
    <3>1. p.number \in Nat /\ q.number \in Nat /\ p.number <= q.number
      BY <1>3, <2>2, <2>4
    <3> QED BY <2>3, <3>1 DEF Newer
  <2> QED BY <2>5 DEF p, q
<1> QED BY <1>5, <1>6, <1>7

\* A lookup is answered from the newest archive, by the names of the archives
\* on disk, that holds the table in readable form.
THEOREM NewestAnswers == Spec => []NewestByNumber
<1>1. IInv /\ Filled /\ HeldOK /\ Waiting /\ SetOK => NewestByNumber
  <2> SUFFICES ASSUME IInv, Filled, HeldOK, Waiting, SetOK,
                      setPc = "ready", name # Set!NoName, m_core \in Scanning
               PROVE  IF buff = Set!Nothing THEN Readable = {}
                      ELSE LET source == m_mpqList[buff.archive].archives[1]
                           IN  source \in Readable /\ \A p \in Readable : ~Newer(p, source)
    BY DEF NewestByNumber, Scanning
  <2> DEFINE b == Len(m_list.base)
             l == Len(m_list.locale)
  <2>1. pc = "done" /\ result
    BY FedIfOpen
  <2>2. /\ m_list.basePatch = << >> /\ m_list.localePatch = << >>
        /\ \A p \in disk : OfClient(p) <=> p \in Range(m_list.base) \cup Range(m_list.locale)
        /\ \A p \in Range(m_list.base) \cup Range(m_list.locale) : OfClient(p)
    BY <2>1, PlannedFacts
  <2>3. name \in ItemNames /\ SP!IsAnswer(buff, name) /\ SP!Planned = b + l
    BY DEF SetOK, SP!LookupOK, SP!NoName, Set!NoName, SP!Planned
  <2>4. \A k \in 1..b + l :
           /\ SP!PlannedChain(k) = <<SP!FirstOf(k)>>
           /\ SP!Answers(SP!Held(k, name)) <=>
                 SP!FirstOf(k) \in disk /\ held[SP!FirstOf(k)] = "full"
    BY <2>2, <2>3, AnswerIsFull
  <2>5. \A p \in Readable : \E k \in 1..b + l :
           SP!FirstOf(k) = p /\ SP!Answers(SP!Held(k, name))
    <3> SUFFICES ASSUME NEW p \in Readable
                 PROVE  \E k \in 1..b + l : SP!FirstOf(k) = p /\ SP!Answers(SP!Held(k, name))
      OBVIOUS
    <3>1. p \in disk /\ OfClient(p) /\ held[p] = "full"
      BY DEF Readable
    <3>2. PICK k \in 1..b + l : SP!FirstOf(k) = p
      BY <2>2, <3>1, PlannedPlace
    <3> QED BY <2>4, <3>1, <3>2
  <2>6. CASE buff = Set!Nothing
    <3>1. \A k \in 1..b + l : ~SP!Answers(SP!Held(k, name))
      BY <2>3, <2>6, SameParts DEF SP!IsAnswer
    <3>2. Readable = {}
      BY <2>5, <3>1
    <3> QED BY <2>6, <3>2
  <2>7. CASE buff # Set!Nothing
    <3> DEFINE m == buff.archive
               source == m_mpqList[m].archives[1]
    <3>1. /\ m \in 1..b + l /\ SP!Answers(SP!Held(m, name))
          /\ \A k \in m + 1..b + l : ~SP!Answers(SP!Held(k, name))
      BY <2>3, <2>7, SameParts DEF SP!IsAnswer
    <3>2. b \in Nat /\ l \in Nat
      BY DEF IInv, Types, Lists
    <3>3. source = SP!FirstOf(m)
      <4>1. Len(m_mpqList) = b + l
        BY <2>3 DEF SetOK, SP!IInv, SP!ListsOK, SP!InUse
      <4>2. m_mpqList[m].archives = SP!PlannedChain(m)
        BY <3>1, <4>1 DEF SetOK, SP!ChainsOK
      <4>3. m_mpqList[m].archives = <<SP!FirstOf(m)>>
        BY <2>4, <3>1, <4>2
      <4> HIDE DEF m
      <4> QED BY <4>3
    <3>4. source \in disk /\ held[source] = "full"
      BY <2>4, <3>1, <3>3
    <3>5. source \in Range(m_list.base) \cup Range(m_list.locale)
      <4>1. m \in 1..b \/ (~(m <= b) /\ m - b \in 1..l)
        <5> HIDE DEF b, l, m
        <5> QED BY <3>1, <3>2
      <4>2. m_list.base \in Seq(PathType) /\ m_list.locale \in Seq(PathType)
        BY DEF IInv, Types, Lists
      <4> QED BY <3>3, <4>1, <4>2 DEF SP!FirstOf, Range
    <3>6. source \in Readable
      BY <2>2, <3>4, <3>5 DEF Readable
    <3>7. ASSUME NEW p \in Readable
          PROVE  ~Newer(p, source)
      <4>1. PICK k \in 1..b + l : SP!FirstOf(k) = p /\ SP!Answers(SP!Held(k, name))
        BY <2>5
      <4>2. k <= m
        <5>1. ~(k \in m + 1..b + l)
          BY <3>1, <4>1
        <5> HIDE DEF b, l, m
        <5> QED BY <3>1, <3>2, <4>1, <5>1
      <4>3. ~Newer(SP!FirstOf(k), SP!FirstOf(m))
        BY <2>1, <3>1, <4>2, LaterNotOlder
      <4> QED BY <3>3, <4>1, <4>3
    <3> QED BY <2>7, <3>6, <3>7
  <2> QED BY <2>6, <2>7
<1> QED BY <1>1, SetHolds, PTL
=============================================================================
