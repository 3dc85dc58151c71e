----------------------------- MODULE FileTable ------------------------------
(***************************************************************************)
(* The two tables in which StormLib finds the files of an archive that has  *)
(* no HET table (SBaseCommon.cpp, SBaseFileTable.cpp), and the operations   *)
(* that change them (SFileAddFile.cpp, SFileListFile.cpp, SFileOpenArchive  *)
(* .cpp).                                                                   *)
(*                                                                         *)
(* The hash table is open-addressed: the slots of a name begin at its home  *)
(* and end at the first free one, with deleted slots on the way.  A slot    *)
(* has the index of the file's entry in the file table, and the entry has   *)
(* the index of its slot.  HashString is a function `home' from names to     *)
(* slots; the two other hashes of a name are the name.                      *)
(***************************************************************************)
EXTENDS Integers, FiniteSetsExt

CONSTANTS
    Names,      \* file names
    ListName,   \* LISTFILE_NAME, which the archive itself adds and removes
    Locales,
    Neutral,    \* LANG_NEUTRAL
    H,          \* dwHashTableSize, and with it dwMaxFileCount
    Homes       \* what HashString and the mask of the table can be

ASSUME NamesAssumption == ListName \in Names /\ Neutral \in Locales
ASSUME HAssumption == H \in Nat \ {0} /\ Homes \subseteq [Names -> 0..H - 1]

VARIABLES
    home,           \* dwIndex & dwHashTableSizeMask of every name
    mpq,            \* pHashTable, pFileTable and dwFileTableSize
    invListfile,    \* MPQ_FLAG_INV_LISTFILE: there is no list file
    writing,        \* the entry of the file that is being added, or NoEntry
    adding,         \* its name and locale
    held            \* the files that were added and not removed

vars == <<home, mpq, invListfile, writing, adding, held>>

Slots == 0..H - 1
Free == -1
Deleted == -2
NoEntry == -1
NoSlot == -1
NoName == "no name"
ClearedHash(b) == [name |-> NoName, locale |-> NoName, block |-> b]
ClearedEntry == [exists |-> FALSE, locale |-> Neutral, hashIndex |-> 0]
User == Names \ {ListName}
NoFile == <<ListName, Neutral>>

\* The places of a name are counted from its home, around the end.
Dist(h, s) == IF s >= h THEN s - h ELSE s - h + H
First(h, S) == CHOOSE s \in S : \A r \in S : Dist(h, s) <= Dist(h, r)

-----------------------------------------------------------------------------
\* The slots GetFirstHashEntry and GetNextHashEntry give for a name.
Reached(t, n, s) == \A r \in Slots : Dist(home[n], r) <= Dist(home[n], s) =>
                                        t.hash[r].block # Free
HashEntries(t, n) == {s \in Slots : /\ t.hash[s].name = n
                                    /\ t.hash[s].block \in 0..t.size - 1
                                    /\ Reached(t, n, s)}
OfLocale(t, n, lc) == {s \in HashEntries(t, n) : t.hash[s].locale = lc}

GetHashEntryExact(t, n, lc) ==
    IF OfLocale(t, n, lc) = {} THEN NoSlot ELSE First(home[n], OfLocale(t, n, lc))

\* The last neutral entry stands in for a missing locale.
GetHashEntryLocale(t, n, lc) ==
    IF OfLocale(t, n, lc) # {} THEN First(home[n], OfLocale(t, n, lc))
    ELSE IF OfLocale(t, n, Neutral) = {} THEN NoSlot
    ELSE CHOOSE s \in OfLocale(t, n, Neutral) :
            \A r \in OfLocale(t, n, Neutral) : Dist(home[n], r) <= Dist(home[n], s)

EntryOf(t, s) == IF s = NoSlot THEN NoEntry ELSE t.hash[s].block
GetFileEntryExact(t, n, lc) == EntryOf(t, GetHashEntryExact(t, n, lc))
GetFileEntryLocale(t, n, lc) == EntryOf(t, GetHashEntryLocale(t, n, lc))

-----------------------------------------------------------------------------
\* AllocateHashEntry: the first slot that is free, deleted or has this name
\* and locale; with none the table stays as it is.
Bug_Usable_OnlyFree(t, n, lc) ==
    {s \in Slots : \/ t.hash[s].block = Free
                   \/ t.hash[s].name = n /\ t.hash[s].locale = lc}
Usable(t, n, lc) ==
    {s \in Slots : \/ t.hash[s].block \in {Free, Deleted}
                   \/ t.hash[s].name = n /\ t.hash[s].locale = lc}

AllocateHashEntry(t, e, n, lc) ==
    IF Usable(t, n, lc) = {} THEN t
    ELSE LET s == First(home[n], Usable(t, n, lc))
         IN [t EXCEPT !.hash[s] = [name |-> n, locale |-> lc, block |-> e],
                      !.files[e].hashIndex = s]

\* RenameFileEntry and ClearFileEntry mark the slot of an entry as deleted;
\* the second zeroes the entry as well.
Bug_ClearSlot_Frees(t, e) == [t EXCEPT !.hash[t.files[e].hashIndex] = ClearedHash(Free)]
ClearSlot(t, e) == [t EXCEPT !.hash[t.files[e].hashIndex] = ClearedHash(Deleted)]
Bug_ClearFileEntry_NoIndex(t, e) ==
    [ClearSlot(t, e) EXCEPT !.files[e] = [ClearedEntry EXCEPT !.hashIndex = NoSlot]]
Bug_ClearFileEntry_KeepsSlot(t, e) == [t EXCEPT !.files[e] = ClearedEntry]
ClearFileEntry(t, e) == [ClearSlot(t, e) EXCEPT !.files[e] = ClearedEntry]

\* FreeFileEntry: the table then ends behind its last file, unless it has none.
Shrunk(t) ==
    IF \A f \in 0..t.size - 1 : ~t.files[f].exists THEN t
    ELSE [t EXCEPT !.size = Min({n \in 0..t.size :
                        \A f \in 0..t.size - 1 : t.files[f].exists => f < n})]
FreeFileEntry(t, e) == Shrunk(ClearFileEntry(t, e))

\* FindFreeFileEntry: the first entry in the table without a file, which is
\* cleared once more, or else the one behind the table.
FreeEntries(t) == {e \in 0..t.size - 1 : ~t.files[e].exists}
FindFreeFileEntry(t) ==
    IF FreeEntries(t) # {} THEN Min(FreeEntries(t))
    ELSE IF t.size < H THEN t.size ELSE NoEntry
FreeEntryCleared(t) ==
    IF FreeEntries(t) # {} THEN ClearFileEntry(t, Min(FreeEntries(t))) ELSE t

\* AllocateFileEntry for a name that is not in the table, and the rest of
\* SFileAddFile_Init, which sets MPQ_FILE_EXISTS.
AllocateFileEntry(t, e, n, lc) ==
    LET cleared == FreeEntryCleared(t)
        filled == [cleared EXCEPT !.files[e] = [exists |-> TRUE, locale |-> lc,
                                                hashIndex |-> cleared.files[e].hashIndex],
                                  !.size = IF e = t.size THEN t.size + 1 ELSE t.size]
    IN AllocateHashEntry(filled, e, n, lc)

\* InvalidateInternalFiles
Invalidated(t) ==
    LET e == GetFileEntryExact(t, ListName, Neutral)
    IN IF invListfile \/ e = NoEntry THEN t ELSE FreeFileEntry(t, e)

-----------------------------------------------------------------------------
TypeOfHash == [name : Names \cup {NoName}, locale : Locales \cup {NoName},
               block : Slots \cup {Free, Deleted}]
TypeOfEntry == [exists : BOOLEAN, locale : Locales, hashIndex : Slots]
Tables == [hash : [Slots -> TypeOfHash], files : [Slots -> TypeOfEntry], size : 0..H]

\* SFileCreateArchive
Init ==
    /\ home \in Homes
    /\ mpq = [hash |-> [s \in Slots |-> ClearedHash(Free)],
              files |-> [e \in Slots |-> ClearedEntry], size |-> 0]
    /\ invListfile = TRUE
    /\ writing = NoEntry /\ adding = NoFile
    /\ held = {}

\* SFileAddFileEx creates a file, writes to it and finishes it; there are no
\* other calls in between.
Idle == writing = NoEntry

\* SFileCreateFile.  With the file there already it is replaced if the caller
\* asks for it.
CreateFile(n, lc, replace) ==
    LET t == Invalidated(mpq)
        old == GetFileEntryExact(t, n, lc)
        e == FindFreeFileEntry(t)
    IN /\ Idle
       /\ invListfile' = TRUE
       /\ \/ /\ old # NoEntry /\ replace
             /\ mpq' = t
             /\ writing' = old /\ adding' = <<n, lc>>
             /\ UNCHANGED held
          \/ /\ old = NoEntry /\ e # NoEntry
             /\ mpq' = AllocateFileEntry(t, e, n, lc)
             /\ writing' = e /\ adding' = <<n, lc>>
             /\ held' = held \cup {<<n, lc>>}
          \/ /\ IF old = NoEntry THEN e = NoEntry ELSE ~replace
             /\ mpq' = t
             /\ UNCHANGED <<writing, adding, held>>
       /\ UNCHANGED home

\* SFileAddFile_Finish.  A file that could not be written goes, also the one
\* that it was to replace.
FinishFile ==
    /\ ~Idle
    /\ \/ UNCHANGED <<mpq, held>>
       \/ mpq' = FreeFileEntry(mpq, writing) /\ held' = held \ {adding}
    /\ writing' = NoEntry /\ adding' = NoFile
    /\ UNCHANGED <<home, invListfile>>

\* SFileRemoveFile
RemoveFile(n, lc) ==
    LET e == GetFileEntryExact(mpq, n, lc)
    IN /\ Idle /\ e # NoEntry /\ mpq.files[e].exists
       /\ mpq' = FreeFileEntry(Invalidated(mpq), e)
       /\ invListfile' = TRUE
       /\ held' = held \ {<<n, lc>>}
       /\ UNCHANGED <<home, writing, adding>>

\* SFileRenameFile with RenameFileEntry; here the list file goes last.
RenameFile(n, lc, new) ==
    LET e == GetFileEntryLocale(mpq, n, lc)
        locale == mpq.files[e].locale
    IN /\ Idle /\ e # NoEntry
       /\ GetFileEntryLocale(mpq, new, locale) = NoEntry
       /\ mpq' = Invalidated(AllocateHashEntry(ClearSlot(mpq, e), e, new, locale))
       /\ invListfile' = TRUE
       /\ held' = (held \ {<<n, locale>>}) \cup {<<new, locale>>}
       /\ UNCHANGED <<home, writing, adding>>

\* SFileSetFileLocale on a file opened by its name.
SetFileLocale(n, lc, new) ==
    LET e == GetFileEntryLocale(mpq, n, lc)
        locale == mpq.files[e].locale
    IN /\ Idle /\ e # NoEntry /\ mpq.files[e].exists
       /\ locale # new /\ GetFileEntryExact(mpq, n, new) = NoEntry
       /\ mpq' = [mpq EXCEPT !.files[e].locale = new,
                             !.hash[mpq.files[e].hashIndex].locale = new]
       /\ held' = (held \ {<<n, locale>>}) \cup {<<n, new>>}
       /\ UNCHANGED <<home, invListfile, writing, adding>>

\* SListFileSaveToMpq adds the list file as any other; it can find no room, or
\* not be written (ok is FALSE) and then goes again.
ListFileSaved(t, ok) ==
    LET e == FindFreeFileEntry(t)
        new == AllocateFileEntry(t, e, ListName, Neutral)
    IN IF e = NoEntry THEN t ELSE IF ok THEN new ELSE FreeFileEntry(new, e)

Flushed(ok) == IF invListfile THEN ListFileSaved(mpq, ok) ELSE mpq

\* SFileFlushArchive.  Whether the flag stays set after a failed write depends
\* on the line that failed: only the result of the first one is looked at.
FlushArchive(ok) ==
    /\ Idle /\ invListfile
    /\ mpq' = Flushed(ok)
    /\ IF FindFreeFileEntry(mpq) = NoEntry THEN UNCHANGED invListfile
       ELSE invListfile' \in (IF ok THEN {FALSE} ELSE BOOLEAN)
    /\ UNCHANGED <<home, writing, adding, held>>

\* BuildFileTable_Classic: entries are filled from the slots that lead to
\* them, and a slot that leads to no file is deleted.
Rebuilt(t) ==
    LET ofFile(s) == t.hash[s].block \in 0..t.size - 1 /\ t.files[t.hash[s].block].exists
        slotOf(e) == {s \in Slots : ofFile(s) /\ t.hash[s].block = e}
    IN [hash |-> [s \in Slots |-> IF t.hash[s].block \in 0..t.size - 1 /\ ~ofFile(s)
                                  THEN ClearedHash(Deleted) ELSE t.hash[s]],
        files |-> [e \in Slots |->
            IF slotOf(e) = {} THEN ClearedEntry
            ELSE [exists |-> TRUE, locale |-> t.hash[Max(slotOf(e))].locale,
                  hashIndex |-> Max(slotOf(e))]],
        size |-> t.size]

\* SFileCloseArchive and SFileOpenArchive
Reopen(ok) ==
    /\ Idle
    /\ mpq' = Rebuilt(Flushed(ok))
    /\ invListfile' = FALSE
    /\ UNCHANGED <<home, writing, adding, held>>

Next ==
    \/ \E n \in User, lc \in Locales, replace \in BOOLEAN : CreateFile(n, lc, replace)
    \/ FinishFile
    \/ \E n \in User, lc \in Locales : RemoveFile(n, lc)
    \/ \E n \in User, lc \in Locales, new \in User : RenameFile(n, lc, new)
    \/ \E n \in User, lc \in Locales, new \in Locales : SetFileLocale(n, lc, new)
    \/ \E ok \in BOOLEAN : FlushArchive(ok) \/ Reopen(ok)

Spec == Init /\ [][Next]_vars

-----------------------------------------------------------------------------
\* The variables have their types.
TypeOK ==
    /\ home \in [Names -> Slots]
    /\ mpq \in Tables
    /\ invListfile \in BOOLEAN
    /\ writing \in Slots \cup {NoEntry}
    /\ adding \in Names \X Locales
    /\ held \subseteq User \X Locales

UsedSlots(t) == {s \in Slots : t.hash[s].block \notin {Free, Deleted}}

\* Every slot that is in use is found under the name and locale it has, and
\* leads to an entry in the table that has a file of this locale and leads
\* back: no slot on the way from the home of a name ever becomes free again,
\* no name gets two slots in one locale, no entry is given to a second file.
SlotsFindFiles ==
    \A s \in UsedSlots(mpq) :
        LET slot == mpq.hash[s]
        IN /\ GetHashEntryExact(mpq, slot.name, slot.locale) = s
           /\ mpq.files[slot.block].exists
           /\ mpq.files[slot.block].locale = slot.locale
           /\ mpq.files[slot.block].hashIndex = s

Found(t) == {f \in User \X Locales : GetFileEntryExact(t, f[1], f[2]) # NoEntry}

\* What is found was added and not removed since, whatever was renamed, given
\* another locale or replaced on the way.
FindsOnlyHeld == Found(mpq) \subseteq held

\* A file that was found is found after every later call that does not remove
\* it, and so is one that has just been added, renamed or given a locale;
\* the one exception is a file in slot 0 of the hash table.
KeepsFiles ==
    [][\A f \in held' :
          \/ f \in held \ Found(mpq)
          \/ f \in Found(mpq')
          \/ GetHashEntryExact(mpq, f[1], f[2]) = 0]_vars

\* StormLib.h:193 says of MPQ_FILE_EXISTS: "Set if file exists, reset when the
\* file was deleted", and line 148 of the mark of a slot: "Block index for
\* deleted entry in the hash table".  So a file that was not deleted is found.
NothingLost == held \subseteq Found(mpq)

=============================================================================
