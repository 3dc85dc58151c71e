------------------------------ MODULE MpqFile ------------------------------
(***************************************************************************)
(* Reading a file of an archive that is stored in sectors: SFileReadFile    *)
(* and SFileSetFilePointer on one open file (SFileReadFile.cpp).            *)
(*                                                                         *)
(* A byte is the position in the file it comes from, so that what a reader  *)
(* gets can be compared with what it asked for.  The file handle keeps the  *)
(* sector it loaded last and the position of that sector; any load can      *)
(* fail.  A module that reads a file extends this one.                      *)
(***************************************************************************)
EXTENDS Integers, Sequences, FiniteSetsExt

VARIABLES
    fileSize, sectorSize,   \* dwDataSize, and dwSectorSize of the archive
    filePos,                \* dwFilePos of the handle
    pbFileSector,           \* the bytes of the sector loaded last
    dwSectorOffs,           \* where it begins, or InvalidPos
    reading,                \* a call of SFileReadFile is running
    bytesToRead,            \* what it still has to copy
    sectorPos,              \* the sector it has come to
    fetched                 \* the bytes it has copied, its result when it ends

fileConst == <<fileSize, sectorSize>>
sectorVars == <<pbFileSector, dwSectorOffs>>
readVars == <<reading, bytesToRead, sectorPos, fetched>>
fileVars == <<fileConst, filePos, sectorVars, readVars>>

InvalidPos == -1
Junk == -1

\* n bytes of the file from position p on; the bytes of the sector at p; what
\* a load that failed half-way can leave in the buffer.
Bytes(p, n) == [i \in 1..n |-> p + i - 1]
Smaller(a, b) == IF a < b THEN a ELSE b
SectorBytes(p) == Bytes(p, Smaller(sectorSize, fileSize - p))
JunkSector == [i \in 1..sectorSize |-> Junk]

FileTypeOK ==
    /\ fileSize \in Nat /\ sectorSize \in Nat \ {0}
    /\ filePos \in Nat
    /\ pbFileSector \in Seq(Int) /\ dwSectorOffs \in Nat \cup {InvalidPos}
    /\ reading \in BOOLEAN /\ bytesToRead \in Nat /\ sectorPos \in Nat
    /\ fetched \in Seq(Int)

\* SFileOpenFileEx: a new handle, its sector buffer not loaded yet.
OpenedFile ==
    /\ filePos = 0 /\ pbFileSector = <<>> /\ dwSectorOffs = InvalidPos
    /\ reading = FALSE /\ bytesToRead = 0 /\ sectorPos = 0 /\ fetched = <<>>

-----------------------------------------------------------------------------
\* SFileSetFilePointer to p, and then SFileReadFile of n bytes, cut at the end
\* of the file.
StartRead(p, n) ==
    /\ ~reading /\ reading' = TRUE
    /\ filePos' = p
    /\ bytesToRead' = IF p < fileSize THEN Smaller(n, fileSize - p) ELSE 0
    /\ sectorPos' = p - (p % sectorSize)
    /\ fetched' = <<>>
    /\ UNCHANGED <<fileConst, sectorVars>>

\* The three parts of a read: the rest of a sector it begins inside of, whole
\* sectors straight to the caller, and the beginning of the last sector.
InFirst == reading /\ bytesToRead > 0 /\ fetched = <<>> /\ filePos % sectorSize # 0
InMiddle == reading /\ ~InFirst /\ bytesToRead >= sectorSize
InLast == reading /\ ~InFirst /\ 0 < bytesToRead /\ bytesToRead < sectorSize

\* The sector the handle has, or loads now.
LoadSector ==
    IF dwSectorOffs = sectorPos THEN UNCHANGED sectorVars
    ELSE pbFileSector' = SectorBytes(sectorPos) /\ dwSectorOffs' = sectorPos

\* Copy n bytes from place `from` of the sector, and go on behind it.
Copy(from, n) ==
    /\ fetched' = fetched \o SubSeq(pbFileSector', from + 1, from + n)
    /\ bytesToRead' = bytesToRead - n
    /\ sectorPos' = sectorPos + Smaller(sectorSize, fileSize - sectorPos)
    /\ UNCHANGED <<fileConst, filePos, reading>>

FirstSector ==
    /\ InFirst
    /\ LoadSector
    /\ LET from == filePos % sectorSize
       IN Copy(from, Smaller(Smaller(sectorSize, fileSize - sectorPos) - from, bytesToRead))

MiddleSectors ==
    /\ InMiddle
    /\ LET n == bytesToRead - (bytesToRead % sectorSize)
       IN /\ fetched' = fetched \o Bytes(sectorPos, n)
          /\ bytesToRead' = bytesToRead - n
          /\ sectorPos' = sectorPos + n
    /\ UNCHANGED <<fileConst, filePos, sectorVars, reading>>

LastSector ==
    /\ InLast
    /\ LoadSector
    /\ Copy(0, bytesToRead)

\* ReadMpqSectors fails: the call gives no bytes.  The sector buffer can have
\* been written to, and keeps the position of the sector it had before.
Bug_ReadFails_TakesPos ==
    /\ InMiddle \/ ((InFirst \/ InLast) /\ dwSectorOffs # sectorPos)
    /\ fetched' = <<>> /\ bytesToRead' = 0 /\ reading' = FALSE
    /\ IF InMiddle THEN UNCHANGED sectorVars
       ELSE pbFileSector' = JunkSector /\ dwSectorOffs' = sectorPos
    /\ UNCHANGED <<fileConst, filePos, sectorPos>>

ReadFails ==
    /\ InMiddle \/ ((InFirst \/ InLast) /\ dwSectorOffs # sectorPos)
    /\ fetched' = <<>> /\ bytesToRead' = 0 /\ reading' = FALSE
    /\ \/ UNCHANGED pbFileSector
       \/ (~InMiddle /\ pbFileSector' = JunkSector)
    /\ UNCHANGED <<fileConst, filePos, dwSectorOffs, sectorPos>>

ReadDone ==
    /\ reading /\ bytesToRead = 0
    /\ reading' = FALSE
    /\ filePos' = filePos + Len(fetched)
    /\ UNCHANGED <<fileConst, sectorVars, bytesToRead, sectorPos, fetched>>

ReadStep == FirstSector \/ MiddleSectors \/ LastSector \/ ReadFails \/ ReadDone

=============================================================================
