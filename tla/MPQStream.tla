----------------------------- MODULE MPQStream -----------------------------
(***************************************************************************)
(* The cursor over one file held in memory (MPQStream.cpp, MPQStream.h).    *)
(*                                                                         *)
(* The stream owns at most one buffer, the copy of an archived file that    *)
(* ArchiveSet::ReadFile allocated.  What the bytes are does not matter      *)
(* here: a buffer is the serial number of its allocation, so that a pointer *)
(* into a buffer that was deleted can be told from one into its successor.  *)
(* A module that uses a stream extends this one and conjoins its actions.   *)
(***************************************************************************)
EXTENDS Integers

CONSTANT SizeMod            \* 2^w for the w bits of the build's size_t

ASSUME SizeModAssumption == SizeMod \in Nat \ {0}

VARIABLES m_buff,           \* serial of the buffer the stream owns, or NULL
          m_pos, m_size,    \* cursor and size, both size_t
          m_eof

streamVars == <<m_buff, m_pos, m_size, m_eof>>

NULL == 0

StreamTypeOK ==
    /\ m_buff \in Nat
    /\ m_pos  \in Nat
    /\ m_size \in Nat
    /\ m_eof  \in BOOLEAN

-----------------------------------------------------------------------------
\* The constructor: no buffer, and m_eof still FALSE.
StreamInit ==
    /\ m_buff = NULL
    /\ m_pos  = 0
    /\ m_size = 0
    /\ m_eof  = FALSE

\* open: the old buffer goes first, then ReadFile gives a new one or NULL.
\* ReadFile writes its size argument before it knows whether the read will
\* succeed, so `size` can be positive although `buff` is NULL.
OpenStream(buff, size) ==
    /\ m_buff' = buff
    /\ m_size' = size
    /\ m_pos'  = 0
    /\ m_eof'  = FALSE

\* The items of `bytes` bytes (bytes > 0) that lie wholly before the end.
WholeItems(bytes) == (m_size - m_pos) \div bytes

\* The number of items read() reports: a last, shortened item counts as one.
ItemsRead(bytes, num) ==
    IF m_eof THEN 0
    ELSE IF WholeItems(bytes) < num THEN WholeItems(bytes) + 1 ELSE num

\* The bytes of the last item that reach its destination.
BytesOfLastItem(bytes, num) ==
    IF WholeItems(bytes) < num THEN (m_size - m_pos) % bytes ELSE bytes

Bug_Read_EofOnNextCall(bytes, num) ==
    /\ m_eof' = (m_eof \/ m_pos > m_size)
    /\ m_pos' = m_pos + ItemsRead(bytes, num) * bytes
    /\ UNCHANGED <<m_buff, m_size>>

\* read: an exhausted stream changes nothing; otherwise the cursor moves by
\* whole items, past the end when the last one was cut short, and only a
\* shortened item sets m_eof: ending exactly at m_size does not.
Read(bytes, num) ==
    /\ m_eof' = (m_eof \/ WholeItems(bytes) < num)
    /\ m_pos' = m_pos + ItemsRead(bytes, num) * bytes
    /\ UNCHANGED <<m_buff, m_size>>

Bug_SeekTo_KeepsEof(pos) == m_pos' = pos /\ UNCHANGED <<m_buff, m_size, m_eof>>

\* seek, with size_t arithmetic.
SeekTo(pos) ==
    /\ m_pos' = pos
    /\ m_eof' = (pos >= m_size)
    /\ UNCHANGED <<m_buff, m_size>>

Seek(offset, isRelative) ==
    SeekTo(IF isRelative THEN (m_pos + offset) % SizeMod ELSE offset)

\* A pointer into a buffer: which one, and how far in.
PointerType == [buff : Nat, off : Nat]
NullPointer == [buff |-> NULL, off |-> 0]

Bug_BufferAtCursor_AtEnd ==
    IF m_pos <= m_size THEN [buff |-> m_buff, off |-> m_pos] ELSE NullPointer

\* getBuffer(true): the address of the cursor, NULL at or past the end.
BufferAtCursor ==
    IF m_pos < m_size THEN [buff |-> m_buff, off |-> m_pos] ELSE NullPointer

-----------------------------------------------------------------------------
\* While m_eof is FALSE the cursor has not passed the end, so the difference
\* m_size - m_pos that read() computes cannot wrap to a huge size_t.
CursorInBounds == m_eof \/ m_pos <= m_size

=============================================================================
