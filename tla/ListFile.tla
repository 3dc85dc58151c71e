------------------------------ MODULE ListFile ------------------------------
(***************************************************************************)
(* The search of an archive's list file for the names that match a mask     *)
(* (SFileListFile.cpp, CheckWildCard of SFileFindFile.cpp), from the first  *)
(* call of ArchiveSet::GetFileList for an archive to its last.              *)
(*                                                                         *)
(* The list file is read through a cache of one block, and a block through  *)
(* the sectors of the archive; neither ends where a line does.  A line is   *)
(* put together character by character, so that it can run over the end of  *)
(* the cache, and any block can be unreadable.                              *)
(***************************************************************************)
EXTENDS MpqFile, SequencesExt

CONSTANTS
    Texts,      \* the list files, sequences of characters
    Sectors,    \* the sector sizes of archives
    CacheSize,  \* CACHE_BUFFER_SIZE
    MaxChars,   \* sizeof(cFileName), with the 0 at the end
    Mask        \* the mask, as a sequence of characters, without "?"

ASSUME TextsAssumption == \A t \in Texts : t \in Seq(STRING)
ASSUME SectorsAssumption == Sectors \subseteq Nat \ {0}
ASSUME SizesAssumption == CacheSize \in Nat \ {0} /\ MaxChars \in Nat \ {0, 1}
\* The block of the cache and the sectors of archives are powers of two.
ASSUME BlocksAssumption ==
    \A s \in Sectors : CacheSize % s = 0 \/ s % CacheSize = 0
ASSUME MaskAssumption == Mask \in Seq(STRING) /\ \A i \in DOMAIN Mask : Mask[i] # "?"

VARIABLES
    text,           \* the list file of the archive
    pc,
    loop,           \* of ReadListFileLine: "skip" or "copy"
    Buffer, pPos,   \* the cache, and how many of its characters are used
    cachePos,       \* dwFilePos of the cache
    szLine,         \* the positions of the characters of the line so far
    szExtraString,  \* how many of them are before the last "~", or NoExtra
    list,           \* the names given to the caller, as positions
    files,          \* open file handles
    unread          \* the blocks whose read gave nothing

lineVars == <<loop, szLine, szExtraString>>
cacheVars == <<Buffer, pPos, cachePos>>
vars == <<fileVars, text, pc, lineVars, cacheVars, list, files, unread>>

NoExtra == -1
Blank == {" ", "\n"}        \* the characters up to 0x20
Char(p) == text[p + 1]
TextOf(name) == [i \in 1..Len(name) |-> Char(name[i])]

-----------------------------------------------------------------------------
\* CheckWildCard: behind a star the text up to the next star is looked for,
\* and the first place where it stands is taken for good.
Occurs(sub, s, i) == SubSeq(s, i, i + Len(sub) - 1) = sub
Places(sub, s, from) == {i \in from..Len(s) - Len(sub) + 1 : Occurs(sub, s, i)}
NonStar(m, from) == {k \in from..Len(m) : m[k] # "*"}
RunEnd(m, from) == Min({k \in from..Len(m) : k = Len(m) \/ m[k + 1] = "*"})

\* fits[j] is the set of places from which s fits what the mask has from j on.
CheckWildCard(s, m) ==
    LET fits[j \in 1..Len(m) + 1] ==
          IF j = Len(m) + 1 THEN {Len(s) + 1}
          ELSE IF m[j] # "*" THEN {i \in 1..Len(s) : s[i] = m[j] /\ i + 1 \in fits[j + 1]}
          ELSE IF NonStar(m, j) = {} THEN 1..Len(s) + 1
          ELSE LET k == Min(NonStar(m, j))
                   sub == SubSeq(m, k, RunEnd(m, k))
               IN {i \in 1..Len(s) + 1 :
                      /\ Places(sub, s, i) # {}
                      /\ Min(Places(sub, s, i)) + Len(sub) \in fits[RunEnd(m, k) + 1]}
    IN m # <<>> /\ 1 \in fits[1]

-----------------------------------------------------------------------------
\* SListFileFindFirstFile opens the list file and CreateListFileCache reads
\* its first block.
FindFirstFile ==
    /\ pc = "idle"
    /\ files' = files + 1
    /\ StartRead(0, CacheSize)
    /\ pc' = "creating"
    /\ UNCHANGED <<text, lineVars, cacheVars, list, unread>>

NewLine == loop' = "skip" /\ szLine' = <<>> /\ szExtraString' = NoExtra

CacheCreated ==
    /\ pc = "creating" /\ ~reading /\ fetched # <<>>
    /\ Buffer' = fetched /\ pPos' = 0 /\ cachePos' = 0
    /\ NewLine
    /\ pc' = "line"
    /\ UNCHANGED <<fileVars, text, list, files, unread>>

\* The first block is unreadable, or the file is empty: the cache is freed
\* with its file, and the caller gets no search handle.
CacheFails ==
    /\ pc = "creating" /\ ~reading /\ fetched = <<>>
    /\ files' = files - 1
    /\ unread' = unread \cup {0}
    /\ pc' = "closed"
    /\ UNCHANGED <<fileVars, text, lineVars, cacheVars, list>>

\* ReloadListFileCache, called by either loop with the cache used up, moves
\* on by a block before it knows whether there is one.
CacheUsed == pc = "line" /\ pPos = Len(Buffer)
LineFull == Len(szLine) >= MaxChars - 1
NeedsBlock == CacheUsed /\ (loop = "copy" => ~LineFull)

\* It gives nothing: the first loop goes over to the second, which will call
\* it again, and the second ends the line.
NothingLoaded ==
    IF loop = "skip"
    THEN loop' = "copy" /\ pc' = "line"
    ELSE pc' = "ended" /\ UNCHANGED loop

ReloadAtEnd ==
    /\ NeedsBlock /\ cachePos + CacheSize >= fileSize
    /\ cachePos' = cachePos + CacheSize
    /\ NothingLoaded
    /\ UNCHANGED <<fileVars, text, Buffer, pPos, szLine, szExtraString, list, files, unread>>

Reload ==
    /\ NeedsBlock /\ cachePos + CacheSize < fileSize
    /\ cachePos' = cachePos + CacheSize
    /\ StartRead(cachePos + CacheSize, CacheSize)
    /\ pc' = "loading"
    /\ UNCHANGED <<text, lineVars, Buffer, pPos, list, files, unread>>

Reloaded ==
    /\ pc = "loading" /\ ~reading /\ fetched # <<>>
    /\ Buffer' = fetched /\ pPos' = 0
    /\ pc' = "line"
    /\ UNCHANGED <<fileVars, text, lineVars, cachePos, list, files, unread>>

Bug_ReloadFails_GoesOn ==
    /\ pc = "loading" /\ ~reading /\ fetched = <<>>
    /\ unread' = unread \cup {cachePos}
    /\ pc' = "line"
    /\ UNCHANGED <<fileVars, text, lineVars, cacheVars, list, files>>

Bug_ReloadFails_Retries ==
    /\ pc = "loading" /\ ~reading /\ fetched = <<>>
    /\ cachePos' = cachePos - CacheSize
    /\ pc' = "line"
    /\ UNCHANGED <<fileVars, text, lineVars, Buffer, pPos, list, files, unread>>

ReloadFails ==
    /\ pc = "loading" /\ ~reading /\ fetched = <<>>
    /\ unread' = unread \cup {cachePos}
    /\ NothingLoaded
    /\ UNCHANGED <<fileVars, text, szLine, szExtraString, cacheVars, list, files>>

-----------------------------------------------------------------------------
\* ReadListFileLine

HasChar == pc = "line" /\ pPos < Len(Buffer)
Next1 == Buffer[pPos + 1]   \* the position of the character at pPos

SkipBlank ==
    /\ HasChar /\ loop = "skip"
    /\ IF Char(Next1) \in Blank THEN pPos' = pPos + 1 /\ UNCHANGED loop
       ELSE loop' = "copy" /\ UNCHANGED pPos
    /\ UNCHANGED <<fileVars, text, pc, Buffer, cachePos, szLine, szExtraString, list, files, unread>>

\* szExtraString is the place of the last "~".
Bug_CopyChar_FirstTilde ==
    /\ HasChar /\ loop = "copy" /\ ~LineFull /\ Char(Next1) # "\n"
    /\ szExtraString' = IF Char(Next1) = "~" /\ szExtraString = NoExtra
                        THEN Len(szLine) ELSE szExtraString
    /\ szLine' = Append(szLine, Next1)
    /\ pPos' = pPos + 1
    /\ UNCHANGED <<fileVars, text, pc, loop, Buffer, cachePos, list, files, unread>>

Bug_CopyChar_TooLong ==
    /\ HasChar /\ loop = "copy" /\ Char(Next1) # "\n"
    /\ szExtraString' = IF Char(Next1) = "~" THEN Len(szLine) ELSE szExtraString
    /\ szLine' = Append(szLine, Next1)
    /\ pPos' = pPos + 1
    /\ UNCHANGED <<fileVars, text, pc, loop, Buffer, cachePos, list, files, unread>>

CopyChar ==
    /\ HasChar /\ loop = "copy" /\ ~LineFull /\ Char(Next1) # "\n"
    /\ szExtraString' = IF Char(Next1) = "~" THEN Len(szLine) ELSE szExtraString
    /\ szLine' = Append(szLine, Next1)
    /\ pPos' = pPos + 1
    /\ UNCHANGED <<fileVars, text, pc, loop, Buffer, cachePos, list, files, unread>>

LineEnds ==
    /\ pc = "line" /\ loop = "copy"
    /\ LineFull \/ (HasChar /\ Char(Next1) = "\n")
    /\ pc' = "ended"
    /\ UNCHANGED <<fileVars, text, lineVars, cacheVars, list, files, unread>>

\* What is behind the last "~" is cut off if it begins with a "P".
IsPatchInfo == /\ szExtraString # NoExtra
               /\ szExtraString + 2 <= Len(szLine)
               /\ Char(szLine[szExtraString + 2]) = "P"
Name == IF IsPatchInfo THEN SubSeq(szLine, 1, szExtraString) ELSE szLine

-----------------------------------------------------------------------------
\* The loops of SListFileFindFirstFile and SListFileFindNextFile: a line that
\* matches goes to the caller, who asks for the next at once.
Match ==
    /\ pc = "ended" /\ Name # <<>>
    /\ list' = IF CheckWildCard(TextOf(Name), Mask) THEN list \cup {Name} ELSE list
    /\ NewLine
    /\ pc' = "line"
    /\ UNCHANGED <<fileVars, text, cacheVars, files, unread>>

\* An empty line: there are no more names.  With none found the search frees
\* itself, and otherwise the caller closes it.
NoMoreFiles ==
    /\ pc = "ended" /\ Name = <<>>
    /\ files' = files - 1
    /\ pc' = "closed"
    /\ UNCHANGED <<fileVars, text, lineVars, cacheVars, list, unread>>

-----------------------------------------------------------------------------
Init ==
    /\ text \in Texts /\ sectorSize \in Sectors /\ fileSize = Len(text)
    /\ OpenedFile
    /\ pc = "idle" /\ loop = "skip"
    /\ Buffer = <<>> /\ pPos = 0 /\ cachePos = 0
    /\ szLine = <<>> /\ szExtraString = NoExtra
    /\ list = {} /\ files = 0 /\ unread = {}

FileStep == ReadStep /\ UNCHANGED <<text, pc, lineVars, cacheVars, list, files, unread>>
Next ==
    \/ FindFirstFile \/ CacheCreated \/ CacheFails
    \/ ReloadAtEnd \/ Reload \/ Reloaded \/ ReloadFails
    \/ SkipBlank \/ CopyChar \/ LineEnds
    \/ Match \/ NoMoreFiles
    \/ FileStep

\* One thread, which waits for nothing.
Spec == Init /\ [][Next]_vars /\ WF_vars(Next)

-----------------------------------------------------------------------------
\* The variables have their types.
TypeOK ==
    /\ FileTypeOK
    /\ text \in Seq(STRING)
    /\ pc \in {"idle", "creating", "line", "loading", "ended", "closed"}
    /\ loop \in {"skip", "copy"}
    /\ Buffer \in Seq(Int) /\ pPos \in 0..Len(Buffer) /\ cachePos \in Nat
    /\ szLine \in Seq(Int) /\ Len(szLine) < MaxChars
    /\ szExtraString \in 0..Len(szLine) - 1 \cup {NoExtra}
    /\ list \subseteq Seq(Int) /\ files \in {0, 1} /\ unread \subseteq Nat

\* The characters the cache still has to give are those of the file behind
\* its position, and all of them up to the end of the block, whatever loads
\* of sectors have failed before: a failed load leaves a sector buffer that is
\* not what its position says, and no later block may be taken from it.
CacheShowsFile ==
    pPos < Len(Buffer) /\ pc # "loading" =>
        Buffer = Bytes(cachePos, Smaller(CacheSize, fileSize - cachePos))

\* A name stands in one piece in one line of the list file: text from before
\* and behind an unreadable block is never put together.
NamesInOnePiece ==
    \A name \in list :
        /\ name = Bytes(name[1], Len(name))
        /\ \A i \in 1..Len(name) : name[i] \in 0..fileSize - 1 /\ Char(name[i]) # "\n"

\* The names of a list file, from its text alone: a line begins at its first
\* visible character and ends before the newline or with the file; what is
\* behind its last "~" is not part of the name if it begins with a "P".
BeginsLine(p) ==
    /\ Char(p) \notin Blank
    /\ \A q \in 0..p - 1 : Char(q) \notin Blank => \E r \in q..p : Char(r) = "\n"
LineBegins == {p \in 0..fileSize - 1 : BeginsLine(p)}
LineLength(p) == Min({n \in 1..fileSize - p : p + n = fileSize \/ Char(p + n) = "\n"})
Tildes(p) == {k \in 0..LineLength(p) - 1 : Char(p + k) = "~"}
HasPatchInfo(p) == /\ Tildes(p) # {}
                   /\ Max(Tildes(p)) + 1 < LineLength(p)
                   /\ Char(p + Max(Tildes(p)) + 1) = "P"
NameLength(p) == IF HasPatchInfo(p) THEN Max(Tildes(p)) ELSE LineLength(p)
NameAt(p) == Bytes(p, NameLength(p))

\* A mask in the usual sense: a star stands for any text.
Glob(s, m) ==
    LET fits[j \in 1..Len(m) + 1] ==
          IF j = Len(m) + 1 THEN {Len(s) + 1}
          ELSE IF m[j] = "*" THEN {i \in 1..Len(s) + 1 : \E k \in fits[j + 1] : i <= k}
          ELSE {i \in 1..Len(s) : s[i] = m[j] /\ i + 1 \in fits[j + 1]}
    IN 1 \in fits[1]

\* Lines that are not too long and not empty of a name, and names in which
\* each text of the mask stands once, as an extension does.
RunBegins(m) == {k \in DOMAIN m : m[k] # "*" /\ (k = 1 \/ m[k - 1] = "*")}
MaskTexts == {SubSeq(Mask, k, RunEnd(Mask, k)) : k \in RunBegins(Mask)}
WellFormed ==
    \A p \in LineBegins :
        /\ LineLength(p) < MaxChars /\ NameLength(p) > 0
        /\ \A t \in MaskTexts : Cardinality(Places(t, TextOf(NameAt(p)), 1)) <= 1

\* When every block could be read, exactly the names of the list file that
\* match the mask have been listed, wherever blocks and sectors end.
ListsEveryName ==
    pc = "closed" /\ unread = {} /\ WellFormed =>
        list = {NameAt(p) : p \in {q \in LineBegins : Glob(TextOf(NameAt(q)), Mask)}}

\* The search comes to its end, whatever cannot be read, and then the list
\* file is closed: each of the three ways to end gives back its handle once.
SearchEnds == <>[](pc = "closed" /\ files = 0)

=============================================================================
