---------------------------- MODULE BuildNumber ----------------------------
(***************************************************************************)
(* Which client is it: _openWoWExe, _getBuildNumber, the table of known     *)
(* builds and GetCoreAndBuildNumber (Utils.cpp).                            *)
(*                                                                         *)
(* The executable is a sequence of bytes, of which only those in the text   *)
(* "WoW [Rel", the digits and the minus sign are told apart (the blank in   *)
(* the text stands for white space).  The scanner reads byte by byte, one   *)
(* step per fread, and never goes back.                                     *)
(***************************************************************************)
EXTENDS Integers, Sequences, FiniteSets, Functions

CONSTANTS
    Executables,    \* the files that can be there under one of the three names
    SkipLength,     \* bytes jumped over at the start, 3300 * 128 in the code
    JunkBytes       \* what memory that was never written can hold

Text == <<"W", "o", "W", " ", "[", "R", "e", "l">>
Digits == <<"0", "1", "2", "3", "4", "5", "6", "7", "8", "9">>
Bytes == Range(Text) \cup Range(Digits) \cup {"-", "other"}
GapLength == 12         \* sizeof(jumpBytesBuffer2)
NumberLength == 5       \* bytes of buildNumber that are used

ASSUME ExecutablesAssumption == Executables \subseteq Seq(Bytes)
ASSUME SkipAssumption == SkipLength \in Nat
ASSUME JunkAssumption == JunkBytes \subseteq Bytes /\ JunkBytes # {}

VARIABLES
    exe,                \* the executable, a sequence of bytes
    step,
    fpos,               \* bytes of the file read so far
    byteSearchBuffer,
    matched,            \* bytes of the text that have been matched
    found,              \* bBuildFound
    iBuild,             \* what _getBuildNumber returns
    core                \* what _getCoreNumberFromBuild returns

versionVars == <<exe, step, fpos, byteSearchBuffer, matched, found, iBuild, core>>

Size == Len(exe)
Least(m, n) == IF m <= n THEN m ELSE n

-----------------------------------------------------------------------------
\* No file under any of the names: 0, and not the -1 of a search that failed.
NoExecutable ==
    /\ step = "open"
    /\ iBuild' = 0
    /\ step' = "build"
    /\ UNCHANGED <<exe, fpos, byteSearchBuffer, matched, found, core>>

OpenWoWExe(file) ==
    /\ step = "open"
    /\ exe' = file
    /\ step' = "skip"
    /\ UNCHANGED <<fpos, byteSearchBuffer, matched, found, iBuild, core>>

Bug_Skip_OneMore ==
    /\ step = "skip"
    /\ fpos' = Least(Size, SkipLength + 1)
    /\ step' = "scan"
    /\ UNCHANGED <<exe, byteSearchBuffer, matched, found, iBuild, core>>

Bug_Skip_PastEnd ==
    /\ step = "skip"
    /\ fpos' = SkipLength
    /\ step' = "scan"
    /\ UNCHANGED <<exe, byteSearchBuffer, matched, found, iBuild, core>>

\* The jump is read, not sought; a shorter file is read to its end.
Skip ==
    /\ step = "skip"
    /\ fpos' = Least(Size, SkipLength)
    /\ step' = "scan"
    /\ UNCHANGED <<exe, byteSearchBuffer, matched, found, iBuild, core>>

\* The condition of the loop: one byte, which is dropped unless it is a W.
Scan ==
    /\ step = "scan" /\ fpos < Size
    /\ byteSearchBuffer' = exe[fpos + 1]
    /\ fpos' = fpos + 1
    /\ IF exe[fpos + 1] = Text[1] THEN step' = "match" /\ matched' = 1
       ELSE UNCHANGED <<step, matched>>
    /\ UNCHANGED <<exe, found, iBuild, core>>

ScanEnds ==
    /\ step = "scan" /\ fpos = Size
    /\ step' = "build"
    /\ UNCHANGED <<exe, fpos, byteSearchBuffer, matched, found, iBuild, core>>

\* A nested read.  At the end of the file it leaves the buffer as it was.  A
\* byte that does not fit is gone: the search goes on behind it.
NextByte == IF fpos < Size THEN exe[fpos + 1] ELSE byteSearchBuffer
Match ==
    /\ step = "match"
    /\ byteSearchBuffer' = NextByte
    /\ fpos' = Least(Size, fpos + 1)
    /\ IF NextByte = Text[matched + 1]
       THEN /\ matched' = matched + 1
            /\ found' = (matched + 1 = Len(Text))
            /\ step' = IF matched + 1 = Len(Text) THEN "number" ELSE "match"
       ELSE step' = "scan" /\ matched' = 0 /\ UNCHANGED found
    /\ UNCHANGED <<exe, iBuild, core>>

IsDigit(byte) == byte \in Range(Digits)
DigitValue(byte) == (CHOOSE i \in 1..10 : Digits[i] = byte) - 1

\* The first word of the bytes, up to white space, and the number it starts
\* with, after a minus sign or none; atoi of anything else is 0.
Blanks(bytes) == Cardinality({i \in 1..Len(bytes) : \A j \in 1..i : bytes[j] = " "})
Word(bytes) == SubSeq(bytes, Blanks(bytes) + 1, Len(bytes))
Sign(word) == IF word # << >> /\ word[1] = "-" THEN 1 ELSE 0
Lead(word, sign) ==
    Cardinality({i \in sign + 1..Len(word) : \A j \in sign + 1..i : IsDigit(word[j])})
Magnitude(word, sign, length) ==
    LET value[n \in 0..length] ==
            IF n = 0 THEN 0 ELSE 10 * value[n - 1] + DigitValue(word[sign + n])
    IN  value[length]
Atoi(bytes) ==
    LET word == Word(bytes)
        sign == Sign(word)
        size == Magnitude(word, sign, Lead(word, sign))
    IN  IF sign = 1 THEN -size ELSE size

Bug_BytesAfter_Short(p, junk) ==
    [i \in 1..NumberLength |->
        IF p + GapLength + i <= Size THEN exe[p + GapLength + i - 1] ELSE junk[i]]

\* The bytes of buildNumber when the file is at p: those behind the end of the
\* file were never written.
BytesAfter(p, junk) ==
    [i \in 1..NumberLength |->
        IF p + GapLength + i <= Size THEN exe[p + GapLength + i] ELSE junk[i]]

ReadNumber(junk) ==
    /\ step = "number"
    /\ iBuild' = Atoi(BytesAfter(fpos, junk))
    /\ fpos' = Least(Size, fpos + GapLength + NumberLength + 1)
    /\ step' = "build"
    /\ UNCHANGED <<exe, byteSearchBuffer, matched, found, core>>

-----------------------------------------------------------------------------
\* The client of each known build; every other number is no client.
KnownBuilds == {5875, 6005, 6141, 8606, 12340, 15595, 18414, 20726, 20740}

Bug_CoreOf_Default(build) ==
    CASE build = 8606  -> 1
      [] build = 12340 -> 2
      [] build = 15595 -> 3
      [] build = 18414 -> 4
      [] build = 20726 -> 5
      [] build = 20740 -> 6
      [] OTHER         -> 0

CoreOf(build) ==
    CASE build \in {5875, 6005, 6141} -> 0
      [] build = 8606  -> 1
      [] build = 12340 -> 2
      [] build = 15595 -> 3
      [] build = 18414 -> 4
      [] build = 20726 -> 5
      [] build = 20740 -> 6
      [] OTHER         -> -1

\* GetCoreAndBuildNumber returns core # -1.
FindCore ==
    /\ step = "build"
    /\ core' = CoreOf(iBuild)
    /\ step' = "done"
    /\ UNCHANGED <<exe, fpos, byteSearchBuffer, matched, found, iBuild>>

-----------------------------------------------------------------------------
VersionInit ==
    /\ exe = << >> /\ step = "open" /\ fpos = 0 /\ byteSearchBuffer \in JunkBytes
    /\ matched = 0 /\ found = FALSE /\ iBuild = -1 /\ core = -1

VersionNext ==
    \/ NoExecutable
    \/ \E file \in Executables : OpenWoWExe(file)
    \/ Skip \/ Scan \/ ScanEnds \/ Match
    \/ \E junk \in [1..NumberLength -> JunkBytes] : ReadNumber(junk)
    \/ FindCore

\* One thread that waits for nothing.
VersionSpec == VersionInit /\ [][VersionNext]_versionVars /\ WF_versionVars(VersionNext)

-----------------------------------------------------------------------------
\* PROPERTIES

\* What five characters can say: five digits, or four behind a minus sign.
NumberRange == 1 - 10 * 1000..10 * (10 * 1000) - 1

\* The variables have their types; the file position stays in the file.
VersionTypeOK ==
    /\ exe \in Seq(Bytes)
    /\ step \in {"open", "skip", "scan", "match", "number", "build", "done"}
    /\ fpos \in 0..Size /\ byteSearchBuffer \in Bytes
    /\ matched \in 0..Len(Text) /\ found \in BOOLEAN
    /\ iBuild \in NumberRange /\ core \in -1..6

\* The places behind the jump where the text begins, and those before which
\* nothing can distract the scanner: no W in the bytes a false start can eat.
Occurs == {p \in SkipLength + 1..Size - Len(Text) + 1 :
              SubSeq(exe, p, p + Len(Text) - 1) = Text}
Clean == {p \in Occurs : \A q \in SkipLength + 1..p - 1 :
              q > p - Len(Text) => exe[q] # "W"}

\* The search ends with the text found if it stands anywhere behind the jump
\* without a W close before it: an abandoned match costs only the bytes it ate.
FindsCleanText == step = "done" /\ Clean # {} => found

\* The text as Utils.cpp:59-60 has it: the search locates it wherever it is.
\* (The code misses it when a false start runs into it, as in "WoWoW [Rel".)
FindsText == step = "done" /\ Occurs # {} => found

\* The number returned is the one that follows an occurrence of the text by
\* the width of the gap, unless the file ends before its last byte.
NumberAt(p) == Atoi(SubSeq(exe, p, p + NumberLength - 1))
NumberBegins(p) == p + Len(Text) + GapLength
ReturnsTheNumber ==
    step = "done" /\ found =>
        \E p \in Occurs :
            NumberBegins(p) + NumberLength - 1 <= Size => iBuild = NumberAt(NumberBegins(p))

\* A client is reported only if its executable names the build: never for a
\* missing file and never for one without the text, whichever of 0 and -1 the
\* search returned.  (A file that ends inside the number may name any build.)
ClientOnlyIfNamed ==
    step = "done" /\ core # -1 =>
        \E p \in Occurs :
            \/ NumberBegins(p) + NumberLength - 1 > Size
            \/ NumberAt(NumberBegins(p)) \in KnownBuilds
=============================================================================
