------------------------------ MODULE DBCFile ------------------------------
(***************************************************************************)
(* One DBCFile or DB2File object (DBFile.cpp, DBFile.h) with the stream it  *)
(* owns.  ExtractDBC makes one object of each class and opens every table   *)
(* of the listing with it, so the model is about reuse: any sequence of     *)
(* open and write calls on one object.                                      *)
(*                                                                         *)
(* open is modelled read by read.  A header word is four bytes, stored into *)
(* a size_t that reset() zeroed; a read cut short by the end of the file    *)
(* fills only the low bytes and still counts as a success.                  *)
(***************************************************************************)
EXTENDS MPQStream, Sequences, SequencesExt

CONSTANTS
    ByteMod,     \* values of a byte, 256 in the code
    FieldMod,    \* values of a header word, ByteMod^4
    Files,       \* the archived files a call can be given, see FileType
    StaleSizes,  \* what a failed ReadFile can leave in m_size
    MaxOpens     \* bound: calls of open with one object

Classes == {"DBC", "DB2"}
WordBytes == 4

\* The words open reads after the magic number, in the order of its reads.
DBCWords == <<"recordCount", "fieldCount", "recordSize", "stringSize">>
DB2Words == <<"recordCount", "fieldCount", "recordSize", "stringSize",
              "table_hash", "build", "timestamp", "minId", "maxId", "locale",
              "copyTableSize">>
Words(c) == IF c = "DBC" THEN DBCWords ELSE DB2Words
WordNames == Range(DB2Words)

\* The literal in the size check of each open.
HeaderSize(c) == IF c = "DBC" THEN 20 ELSE 48

\* A file of an archive: its path there, its size, whether its first word is
\* the magic number of a class, and the header words it holds.
FileType == [path : Seq(STRING), size : Nat, magic : Classes \cup {"other"},
             word : [WordNames -> 0..FieldMod - 1]]
NoFile == [path |-> <<>>, size |-> 0, magic |-> "other",
           word |-> [w \in WordNames |-> 0]]
NoName == ""

Bug_BaseName_Directory(path) == path[1]

\* The part of the archive's name after the last backslash.
BaseName(path) == Last(path)

ASSUME ByteModAssumption  == ByteMod \in Nat \ {0, 1}
ASSUME FieldModAssumption ==
    /\ FieldMod = ByteMod * ByteMod * ByteMod * ByteMod
    /\ FieldMod > 48            \* a word can hold the size of either header
ASSUME FilesAssumption    ==
    \A f \in Files : f \in FileType /\ f.size > 0 /\ f.path # <<>>
ASSUME StaleSizesAssumption == StaleSizes \subseteq Nat
ASSUME MaxOpensAssumption == MaxOpens \in Nat

VARIABLES
    class,        \* which of the two classes the object is of
    pc,           \* "idle", "magic", "words" or "check"
    file,         \* the file the last call of open was given
    next,         \* index of the next header word to read
    hdr,          \* the members recordCount, fieldCount, ...
    recordData, stringTable,
    m_name,
    ret,          \* what the last open returned
    opens,        \* calls of open so far: the serial of the last buffer
    out           \* the output directory: base name -> what was written

objectVars == <<hdr, recordData, stringTable, m_name>>
vars == <<streamVars, objectVars, class, pc, file, next, ret, opens, out>>

ZeroHeader == [w \in WordNames |-> 0]
Names == {Last(f.path) : f \in Files}

\* What the output directory holds under a name: no file, the first bytes of a
\* buffer (fopen truncated it, fwrite stopped early), or a whole buffer.
OutputType == [state : {"absent", "partial", "whole"}, of : Files \cup {NoFile}]
Absent  == [state |-> "absent", of |-> NoFile]
Partial == [state |-> "partial", of |-> NoFile]
Whole(f) == [state |-> "whole", of |-> f]

-----------------------------------------------------------------------------
\* A read of k < 4 bytes leaves the other bytes of a zeroed member zero.
ByteWeight == <<1, ByteMod, ByteMod * ByteMod, ByteMod * ByteMod * ByteMod>>
LowBytes(v, k) == IF k = WordBytes THEN v ELSE v % ByteWeight[k + 1]

Bug_Reset_KeepsRecordData ==
    /\ hdr' = ZeroHeader
    /\ stringTable' = NullPointer
    /\ m_name' = NoName
    /\ UNCHANGED recordData

Bug_Reset_KeepsName ==
    /\ hdr' = ZeroHeader
    /\ recordData' = NullPointer
    /\ stringTable' = NullPointer
    /\ UNCHANGED m_name

\* reset: DB2File's override zeroes its seven members as well.
Reset ==
    /\ hdr' = ZeroHeader
    /\ recordData' = NullPointer
    /\ stringTable' = NullPointer
    /\ m_name' = NoName

\* open, up to the allocation of the buffer.
OpenFound(f) ==
    /\ pc = "idle" /\ opens < MaxOpens
    /\ Reset
    /\ OpenStream(opens + 1, f.size)
    /\ opens' = opens + 1
    /\ file' = f /\ next' = 1 /\ pc' = "magic"
    /\ UNCHANGED <<class, ret, out>>

\* open of a name no archive gives a buffer for: ReadFile returned NULL.
OpenMissing(stale) ==
    /\ pc = "idle" /\ opens < MaxOpens
    /\ Reset
    /\ OpenStream(NULL, stale)
    /\ opens' = opens + 1
    /\ file' = NoFile /\ ret' = FALSE
    /\ UNCHANGED <<class, pc, next, out>>

\* `continue` in the do ... while (0): open returns, recordData still NULL.
Return(result) == pc' = "idle" /\ ret' = result

\* The first word, compared with the magic number of the object's class.
ReadMagic ==
    /\ pc = "magic"
    /\ Read(WordBytes, 1)
    /\ IF /\ ItemsRead(WordBytes, 1) = 1
          /\ BytesOfLastItem(WordBytes, 1) = WordBytes
          /\ file.magic = class
       THEN pc' = "words" /\ UNCHANGED ret
       ELSE Return(FALSE)
    /\ UNCHANGED <<objectVars, class, file, next, opens, out>>

\* One more word into its member; read reports 0 items only once m_eof is set.
ReadWord ==
    /\ pc = "words" /\ ~m_eof
    /\ Read(WordBytes, 1)
    /\ LET w == Words(class)[next]
       IN  hdr' = [hdr EXCEPT ![w] =
                     LowBytes(file.word[w], BytesOfLastItem(WordBytes, 1))]
    /\ next' = next + 1
    /\ pc' = IF next = Len(Words(class)) THEN "check" ELSE "words"
    /\ UNCHANGED <<recordData, stringTable, m_name, class, file, ret, opens, out>>

ReadWordFails ==
    /\ pc = "words" /\ m_eof
    /\ Read(WordBytes, 1)
    /\ Return(FALSE)
    /\ UNCHANGED <<objectVars, class, file, next, opens, out>>

\* recordSize * recordCount + stringSize + 20 (or 48), as a size_t.
RecordBytes == (hdr["recordSize"] * hdr["recordCount"]) % SizeMod

Bug_ClaimedSize_NoHeader == (RecordBytes + hdr["stringSize"]) % SizeMod

ClaimedSize == (RecordBytes + hdr["stringSize"] + HeaderSize(class)) % SizeMod

SizeCheckFails ==
    /\ pc = "check" /\ ClaimedSize > m_size
    /\ Return(FALSE)
    /\ UNCHANGED <<objectVars, streamVars, class, file, next, opens, out>>

\* The pointers are taken at the cursor; with nothing after the header,
\* getBuffer(true) is NULL, open returns false, and stringTable is an offset
\* from NULL.
SizeCheckPasses ==
    /\ pc = "check" /\ ClaimedSize <= m_size
    /\ recordData' = BufferAtCursor
    /\ stringTable' = [BufferAtCursor EXCEPT !.off = @ + RecordBytes]
    /\ IF BufferAtCursor # NullPointer
       THEN m_name' = BaseName(file.path) /\ Return(TRUE)
       ELSE UNCHANGED m_name /\ Return(FALSE)
    /\ UNCHANGED <<hdr, streamVars, class, file, next, opens, out>>

-----------------------------------------------------------------------------
\* write(path): without a name the path is that of the directory itself,
\* which fopen refuses; with one, fopen truncates what was there, and fwrite
\* puts the whole buffer of the stream, header included, or stops early.
WriteOutcomes == {"refused", "short", "whole"}
Written(outcome) == IF outcome = "whole" THEN Whole(file) ELSE Partial

Write(outcome) ==
    /\ pc = "idle"
    /\ out' = IF m_name = NoName \/ outcome = "refused" THEN out
              ELSE [out EXCEPT ![m_name] = Written(outcome)]
    /\ UNCHANGED <<streamVars, objectVars, class, pc, file, next, ret, opens>>

-----------------------------------------------------------------------------
Init ==
    /\ StreamInit
    /\ class \in Classes
    /\ pc = "idle" /\ file = NoFile /\ next = 1 /\ ret = FALSE /\ opens = 0
    /\ hdr = ZeroHeader /\ recordData = NullPointer
    /\ stringTable = NullPointer /\ m_name = NoName
    /\ out = [n \in Names |-> Absent]

ReadStep == ReadMagic \/ ReadWord \/ ReadWordFails \/ SizeCheckFails \/ SizeCheckPasses

Next ==
    \/ \E f \in Files : OpenFound(f)
    \/ \E size \in StaleSizes : OpenMissing(size)
    \/ ReadStep
    \/ \E outcome \in WriteOutcomes : Write(outcome)

Spec == Init /\ [][Next]_vars

-----------------------------------------------------------------------------
\* The members have their types, on every path of open.
TypeOK ==
    /\ StreamTypeOK
    /\ class \in Classes
    /\ pc \in {"idle", "magic", "words", "check"}
    /\ file \in Files \cup {NoFile}
    /\ next \in 1..12
    /\ hdr \in [WordNames -> Nat]
    /\ recordData \in PointerType
    /\ stringTable \in PointerType
    /\ m_name \in Names \cup {NoName}
    /\ ret \in BOOLEAN
    /\ opens \in 0..MaxOpens
    /\ out \in [Names -> OutputType]

\* Where getRecord(id) points (DBFile.cpp:138): all accessors of Record read
\* from there on.
RecordAt(id) == [recordData EXCEPT !.off = @ + id * hdr["recordSize"]]

\* Whenever the object hands out records, each record and the string block
\* lie inside the buffer the stream owns now, never in the buffer of an
\* earlier open that MPQStream::open deleted.
TableInBounds ==
    recordData # NullPointer =>
        /\ m_buff # NULL
        /\ recordData.buff = m_buff /\ stringTable.buff = m_buff
        /\ \A id \in 0..hdr["recordCount"] - 1 :
              RecordAt(id).off + hdr["recordSize"] <= stringTable.off
        /\ stringTable.off + hdr["stringSize"] <= m_size

\* What a file must be for open to return true, without size_t: the magic
\* number of the class, a complete header with something after it, and room
\* for the records and strings the header claims.
IsTable(f, c) ==
    /\ f.magic = c
    /\ f.size > HeaderSize(c)
    /\ HeaderSize(c) + f.word["recordSize"] * f.word["recordCount"]
         + f.word["stringSize"] <= f.size

\* The size check cannot wrap when size_t holds the product of two words, as
\* in a 64-bit build.
Is64Bit == FieldMod * FieldMod <= SizeMod

\* open returns true for exactly those files, whatever was opened before and
\* although a header read cut short by the end of the file reports success.
OpenAcceptsTables ==
    pc = "idle" => (ret <=> IsTable(file, class))

\* After open returned, the object describes the file of that call (its name
\* and its header words) or, when open failed, no file at all: nothing of the
\* table opened before shows through.
ObjectIsFresh ==
    pc = "idle" =>
        IF ret
        THEN /\ m_name = Last(file.path)
             /\ \A i \in 1..Len(Words(class)) :
                   hdr[Words(class)[i]] = file.word[Words(class)[i]]
        ELSE recordData = NullPointer /\ m_name = NoName

\* write puts a table where its own name says, complete or truncated: never a
\* rejected file, never one table's bytes under the name of another.
OutputsAreTables ==
    \A n \in Names : out[n].state = "whole" =>
        IsTable(out[n].of, class) /\ Last(out[n].of.path) = n

=============================================================================
