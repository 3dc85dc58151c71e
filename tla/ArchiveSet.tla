----------------------------- MODULE ArchiveSet -----------------------------
(***************************************************************************)
(* The set of open MPQ archives (ArchiveSet.cpp): Init opens the archives   *)
(* FileListFeeder named and attaches their patches, ReadFile looks a name   *)
(* up from the newest archive to the oldest, GetFileList collects names,    *)
(* and the destructor closes the archives.                                  *)
(*                                                                         *)
(* Every call of the library is a step of its own, and may fail where the   *)
(* library may.  Its resources are counted: the archive handles, the file   *)
(* handles and the buffers that are allocated and not freed yet.            *)
(***************************************************************************)
EXTENDS PatchChain, SequencesExt

CONSTANTS
    Archives, Names,
    Worlds,     \* what Init can find, see WorldType
    MaxCalls    \* bound: calls of ReadFile and GetFileList

\* A world: the four lists FileListFeeder::Init leaves, the entries of the
\* archives on disk, and the names in their list files.
PlanType == [base : Seq(Archives), basePatch : Seq(Archives),
             locale : Seq(Archives), localePatch : Seq(Archives)]
ContentType == [Archives -> [Names -> EntryKinds]]
ListingType == [Archives -> SUBSET Names]
WorldType == [plan : PlanType, content : ContentType, listing : ListingType]

NoName == "none"
ASSUME NamesAssumption == NoName \notin Names
ASSUME WorldsAssumption == \A w \in Worlds : w \in WorldType
ASSUME MaxCallsAssumption == MaxCalls \in Nat

VARIABLES
    plan, content, listing,  \* the world Init finds, it does not change
    pc,
    phase,      \* "base" or "locale", the list Init works on
    next,       \* index of the archive to open next, or of the one just opened
    patched,    \* patches of the list attached to it
    handle,     \* the archive opened last, with the patches attached to it
    m_mpqList,  \* the handles Init keeps, newest archive last
    open,       \* identities of the archive handles that are open
    name, it,   \* ReadFile: the name, and the index in m_mpqList it has come to
    size,       \* ReadFile: the caller's size argument
    buff,       \* ReadFile: the version whose bytes it has in a buffer, or Nothing
    files,      \* file handles open now
    buffers,    \* buffers allocated and not deleted
    list, ok,   \* GetFileList: the set being filled, and its result
    calls

planVars == <<plan, content, listing>>
initVars == <<phase, next, patched, handle, m_mpqList>>
readVars == <<name, it, size, buff, files, buffers>>
listVars == <<list, ok>>
vars == <<planVars, initVars, readVars, listVars, pc, open, calls>>

Nothing == [archive |-> 0, parts |-> {}]
HandleType == [id : Nat, archives : Seq(Archives)]
NoHandle == [id |-> 0, archives |-> <<>>]

\* What the steps inside Init leave alone, and those inside the two lookups.
InitFrame == UNCHANGED <<planVars, readVars, listVars, calls>>
LookupFrame == UNCHANGED <<planVars, initVars, open, calls>>

-----------------------------------------------------------------------------
\* Init

ListOf(p) == IF p = "base" THEN plan.base ELSE plan.locale
PatchesOf(p) == IF p = "base" THEN plan.basePatch ELSE plan.localePatch

\* A handle is the serial number of the archive among all Init opens.
Serial(p, n) == IF p = "base" THEN n ELSE Len(plan.base) + n

\* SFileOpenArchive on the next archive of the list.
OpenArchive ==
    /\ pc = "opening" /\ next <= Len(ListOf(phase))
    /\ handle' = [id |-> Serial(phase, next), archives |-> <<ListOf(phase)[next]>>]
    /\ open' = open \cup {Serial(phase, next)}
    /\ patched' = 0
    /\ pc' = "patching"
    /\ InitFrame
    /\ UNCHANGED <<phase, next, m_mpqList>>

OpenArchiveFails ==
    /\ pc = "opening" /\ next <= Len(ListOf(phase))
    /\ pc' = "failed"
    /\ InitFrame
    /\ UNCHANGED <<initVars, open>>

\* SFileOpenPatchArchive: the patch goes to the end of the handle's chain.
ApplyPatch ==
    /\ pc = "patching" /\ patched < Len(PatchesOf(phase))
    /\ handle' = [handle EXCEPT !.archives = Append(@, PatchesOf(phase)[patched + 1])]
    /\ patched' = patched + 1
    /\ InitFrame
    /\ UNCHANGED <<pc, phase, next, m_mpqList, open>>

\* The handle of the archive is not in m_mpqList yet, and Init returns.
ApplyPatchFails ==
    /\ pc = "patching" /\ patched < Len(PatchesOf(phase))
    /\ pc' = "failed"
    /\ InitFrame
    /\ UNCHANGED <<initVars, open>>

Bug_PushBack_Front ==
    /\ pc = "patching" /\ patched = Len(PatchesOf(phase))
    /\ m_mpqList' = <<handle>> \o m_mpqList
    /\ next' = next + 1
    /\ pc' = "opening"
    /\ InitFrame
    /\ UNCHANGED <<phase, patched, handle, open>>

PushBack ==
    /\ pc = "patching" /\ patched = Len(PatchesOf(phase))
    /\ m_mpqList' = Append(m_mpqList, handle)
    /\ next' = next + 1
    /\ pc' = "opening"
    /\ InitFrame
    /\ UNCHANGED <<phase, patched, handle, open>>

ToLocale ==
    /\ pc = "opening" /\ phase = "base" /\ next > Len(plan.base)
    /\ phase' = "locale" /\ next' = 1
    /\ InitFrame
    /\ UNCHANGED <<pc, patched, handle, m_mpqList, open>>

InitDone ==
    /\ pc = "opening" /\ phase = "locale" /\ next > Len(plan.locale)
    /\ pc' = "ready"
    /\ InitFrame
    /\ UNCHANGED <<initVars, open>>

\* The destructor, after a failed Init too: SFileCloseArchive on every handle
\* of the list, which also frees the patches attached to it.
KeptHandles == {h.id : h \in Range(m_mpqList)}

Bug_Destroy_AllButLast ==
    /\ pc \in {"ready", "failed"}
    /\ open' = open \ {m_mpqList[k].id : k \in 1..Len(m_mpqList) - 1}
    /\ m_mpqList' = <<>>
    /\ pc' = "destroyed"
    /\ InitFrame
    /\ UNCHANGED <<phase, next, patched, handle>>

Destroy ==
    /\ pc \in {"ready", "failed"}
    /\ open' = open \ KeptHandles
    /\ m_mpqList' = <<>>
    /\ pc' = "destroyed"
    /\ InitFrame
    /\ UNCHANGED <<phase, next, patched, handle>>

-----------------------------------------------------------------------------
\* ReadFile

\* What the archives behind a handle hold for a name.
ChainOf(archives, n) == [i \in 1..Len(archives) |-> content[archives[i]][n]]
Here == ChainOf(m_mpqList[it].archives, name)

\* The caller's stream has deleted the buffer of its previous call.
ReadFile(n) ==
    /\ pc = "ready" /\ calls < MaxCalls
    /\ name' = n
    /\ it' = Len(m_mpqList)
    /\ size' = 0 /\ buff' = Nothing /\ buffers' = 0
    /\ pc' = "finding"
    /\ calls' = calls + 1
    /\ UNCHANGED <<planVars, initVars, listVars, open, files>>

\* SFileOpenFileEx finds no version in this archive: continue with an older.
NotInArchive ==
    /\ pc = "finding" /\ it > 0 /\ Opened(Here) = {}
    /\ it' = it - 1
    /\ LookupFrame /\ UNCHANGED <<listVars, pc>>
    /\ UNCHANGED <<name, size, buff, files, buffers>>

OpenFile ==
    /\ pc = "finding" /\ it > 0 /\ Opened(Here) # {}
    /\ files' = files + 1
    /\ pc' = "sizing"
    /\ LookupFrame /\ UNCHANGED listVars
    /\ UNCHANGED <<name, it, size, buff, buffers>>

Bug_SkipEmpty_Closes ==
    /\ pc = "sizing" /\ SizeIsZero(Here)
    /\ size' = 0
    /\ files' = files - 1
    /\ pc' = "closing"
    /\ LookupFrame /\ UNCHANGED listVars
    /\ UNCHANGED <<name, it, buff, buffers>>

\* An entry of size 0 is passed over; `continue` leaves the do ... while (0).
SkipEmpty ==
    /\ pc = "sizing" /\ SizeIsZero(Here)
    /\ size' = 0
    /\ pc' = "closing"
    /\ LookupFrame /\ UNCHANGED listVars
    /\ UNCHANGED <<name, it, buff, files, buffers>>

AllocateBuffer ==
    /\ pc = "sizing" /\ ~SizeIsZero(Here)
    /\ size' = 1
    /\ buffers' = buffers + 1
    /\ pc' = "reading"
    /\ LookupFrame /\ UNCHANGED listVars
    /\ UNCHANGED <<name, it, buff, files>>

\* SFileReadFile succeeds: buff now holds the bytes of this version.
ReadData ==
    /\ pc = "reading" /\ ReadSucceeds(Here)
    /\ buff' = [archive |-> it, parts |-> Opened(Here)]
    /\ pc' = "closing"
    /\ LookupFrame /\ UNCHANGED listVars
    /\ UNCHANGED <<name, it, size, files, buffers>>

Bug_ReadDataFails_KeepsBuffer ==
    /\ pc = "reading" /\ ~ReadSucceeds(Here)
    /\ pc' = "closing"
    /\ LookupFrame /\ UNCHANGED <<listVars, readVars>>

\* The read fails: the buffer is deleted, size keeps the size of this version.
ReadDataFails ==
    /\ pc = "reading" /\ ~ReadSucceeds(Here)
    /\ buffers' = buffers - 1
    /\ pc' = "closing"
    /\ LookupFrame /\ UNCHANGED listVars
    /\ UNCHANGED <<name, it, size, buff, files>>

\* SFileCloseFile, then `break` with a buffer and the next archive without.
CloseFile ==
    /\ pc = "closing"
    /\ files' = files - 1
    /\ IF buff # Nothing
       THEN pc' = "ready" /\ UNCHANGED it
       ELSE pc' = "finding" /\ it' = it - 1
    /\ LookupFrame /\ UNCHANGED listVars
    /\ UNCHANGED <<name, size, buff, buffers>>

\* No archive is left: ReadFile returns NULL.
ReadNothing ==
    /\ pc = "finding" /\ it = 0
    /\ pc' = "ready"
    /\ LookupFrame /\ UNCHANGED <<listVars, readVars>>

-----------------------------------------------------------------------------
\* GetFileList: the archives again from the newest to the oldest, each with
\* its own list file.  The list files of attached patches are not searched.

GetFileList ==
    /\ pc = "ready" /\ calls < MaxCalls
    /\ list' = {} /\ ok' = FALSE
    /\ it' = Len(m_mpqList)
    /\ pc' = "listing"
    /\ calls' = calls + 1
    /\ UNCHANGED <<planVars, initVars, open, name, size, buff, files, buffers>>

Listed(h) == listing[h.archives[1]]

Bug_ListArchive_StopsAtNone ==
    /\ pc = "listing" /\ it > 0
    /\ list' = list \cup Listed(m_mpqList[it])
    /\ ok' = (ok \/ Listed(m_mpqList[it]) # {})
    /\ it' = IF Listed(m_mpqList[it]) = {} THEN 0 ELSE it - 1
    /\ LookupFrame /\ UNCHANGED pc
    /\ UNCHANGED <<name, size, buff, files, buffers>>

\* SListFileFindFirstFile gives no search handle when nothing matches.
ListArchive ==
    /\ pc = "listing" /\ it > 0
    /\ list' = list \cup Listed(m_mpqList[it])
    /\ ok' = (ok \/ Listed(m_mpqList[it]) # {})
    /\ it' = it - 1
    /\ LookupFrame /\ UNCHANGED pc
    /\ UNCHANGED <<name, size, buff, files, buffers>>

ListDone ==
    /\ pc = "listing" /\ it = 0
    /\ pc' = "ready"
    /\ LookupFrame /\ UNCHANGED <<listVars, readVars>>

-----------------------------------------------------------------------------
\* The set as Init begins: nothing is open.
Constructed ==
    /\ pc = "opening" /\ phase = "base" /\ next = 1 /\ patched = 0
    /\ handle = NoHandle /\ m_mpqList = <<>> /\ open = {}
    /\ name = NoName /\ it = 0 /\ size = 0 /\ buff = Nothing
    /\ files = 0 /\ buffers = 0
    /\ list = {} /\ ok = FALSE /\ calls = 0

InitState ==
    /\ \E w \in Worlds : plan = w.plan /\ content = w.content /\ listing = w.listing
    /\ Constructed

InitStep ==
    \/ OpenArchive \/ OpenArchiveFails \/ ApplyPatch \/ ApplyPatchFails
    \/ PushBack \/ ToLocale \/ InitDone
ReadStep ==
    \/ NotInArchive \/ OpenFile \/ SkipEmpty \/ AllocateBuffer
    \/ ReadData \/ ReadDataFails \/ CloseFile \/ ReadNothing
ListStep == ListArchive \/ ListDone

\* The destroyed set is gone; nothing happens to it any more.
Next ==
    \/ InitStep
    \/ \E n \in Names : ReadFile(n)
    \/ ReadStep
    \/ GetFileList \/ ListStep
    \/ Destroy

\* No step inside a call waits for anything: a call that began goes on.
Spec == InitState /\ [][Next]_vars /\ WF_vars(ReadStep)

-----------------------------------------------------------------------------
\* The variables have their types.
TypeOK ==
    /\ plan \in PlanType /\ content \in ContentType /\ listing \in ListingType
    /\ pc \in {"opening", "patching", "failed", "ready", "finding", "sizing",
               "reading", "closing", "listing", "destroyed"}
    /\ phase \in {"base", "locale"}
    /\ next \in 1..Len(ListOf(phase)) + 1
    /\ patched \in Nat
    /\ handle \in HandleType /\ m_mpqList \in Seq(HandleType)
    /\ open \subseteq 1..Len(plan.base) + Len(plan.locale)
    /\ name \in Names \cup {NoName} /\ it \in Nat /\ size \in {0, 1}
    /\ buff \in [archive : Nat, parts : SUBSET Nat]
    /\ files \in Nat /\ buffers \in Nat
    /\ list \subseteq Names /\ ok \in BOOLEAN
    /\ calls \in 0..MaxCalls

\* All the archives and patches FileListFeeder named, in its order.
PlannedChain(k) ==
    IF k <= Len(plan.base) THEN <<plan.base[k]>> \o plan.basePatch
    ELSE <<plan.locale[k - Len(plan.base)]>> \o plan.localePatch
PlannedChains == [k \in 1..Len(plan.base) + Len(plan.locale) |-> PlannedChain(k)]

\* ReadFile implements the store of tables: every call is answered with the
\* newest version that the planned archives, each with its patches, hold in
\* readable form, and with nothing only when none of them holds one.
Reading == pc \in {"finding", "sizing", "reading", "closing"}
Store == INSTANCE TableStore WITH
    store  <- [n \in Names |-> [k \in DOMAIN PlannedChains |->
                                   ChainOf(PlannedChains[k], n)]],
    asked  <- IF Reading THEN name ELSE NoName,
    answer <- IF Reading THEN Nothing ELSE buff
ImplementsStore == Store!Spec

\* Whenever no call is running, ReadFile has closed every file it opened, in
\* whichever archive it stopped, and of the buffers it allocated only the one
\* it returned is left, with a size to go with it.
ReadReleasesAll ==
    pc \in {"ready", "destroyed"} =>
        /\ files = 0
        /\ buffers = IF buff = Nothing THEN 0 ELSE 1
        /\ buff # Nothing => size > 0

\* While the set is in use every open archive is one that the destructor will
\* close.  After the destructor only the archive whose patch could not be
\* attached can still be open: Init returned before it was in the list.
ArchivesAccounted ==
    /\ pc \in {"ready", "listing"} \/ Reading => open = KeptHandles
    /\ pc = "destroyed" /\ open # {} =>
           open = {handle.id} /\ patched < Len(PatchesOf(phase))

\* When it has passed the last archive, GetFileList has every name that the
\* list file of an opened archive names, and true if there is any.
ListIsComplete ==
    pc = "listing" /\ it = 0 =>
        /\ list = UNION {listing[a] : a \in Range(plan.base) \cup Range(plan.locale)}
        /\ ok <=> list # {}

\* StormLib.h:190 says that a deletion marker means "that the file no longer
\* exists": a name whose newest entry is a marker should not be found.
Deleted(chain) == Opened(chain) # {} /\ SizeIsZero(chain)
HasEntry(n) == {k \in DOMAIN PlannedChains : Opened(ChainOf(PlannedChains[k], n)) # {}}
DeletedStaysDeleted ==
    pc = "ready" /\ name # NoName /\ HasEntry(name) # {} =>
        (Deleted(ChainOf(PlannedChains[Max(HasEntry(name))], name)) => buff = Nothing)

=============================================================================
