------------------------- MODULE BuildNumberProofs -------------------------
(***************************************************************************)
(* Theorems about the search for the build number, for executables of any   *)
(* length and any jump over their start.                                    *)
(***************************************************************************)
EXTENDS BuildNumber, SequenceTheorems, FiniteSetTheorems, TLAPS

-----------------------------------------------------------------------------
\* THE TEXT

LEMMA SeqOfBytes ==
  ASSUME NEW S, NEW s \in Seq(S), \A k \in 1..Len(s) : s[k] \in Bytes
  PROVE  s \in Seq(Bytes)
OBVIOUS

\* A part of a sequence of bytes, byte by byte.
LEMMA PartFacts ==
  ASSUME NEW s \in Seq(Bytes), NEW m \in 1..Len(s), NEW n \in m..Len(s)
  PROVE  /\ SubSeq(s, m, n) \in Seq(Bytes) /\ Len(SubSeq(s, m, n)) = n - m + 1
         /\ \A k \in 1..n - m + 1 : SubSeq(s, m, n)[k] = s[m + k - 1]
<1>1. m \in Int /\ n \in Int /\ m <= n /\ \A k \in m..n : s[k] \in Bytes
  BY ElementOfSeq
<1> QED BY <1>1, SubSeqProperties

\* A byte that was matched is not the next one of the text: what is left in the
\* buffer at the end of the file matches nothing.
LEMMA TextFacts ==
  /\ Len(Text) = 8 /\ Text \in Seq(Bytes) /\ Text[1] = "W"
  /\ \A k \in 1..7 : Text[k] # Text[k + 1]
<1>1. Len(Text) = 8
  BY DEF Text
<1>2. DOMAIN Text = 1..8
  BY DEF Text
<1>3. Text \in Seq(Bytes)
  <2>1. \A k \in 1..8 : Text[k] \in Bytes
    BY <1>2 DEF Bytes, Range
  <2>2. Text \in Seq({"W", "o", " ", "[", "R", "e", "l"})
    BY DEF Text
  <2> QED BY <1>1, <2>1, <2>2, SeqOfBytes
<1>4. Text[1] = "W"
  BY DEF Text
<1>5. /\ Text[1] # Text[2] /\ Text[2] # Text[3] /\ Text[3] # Text[4] /\ Text[4] # Text[5]
      /\ Text[5] # Text[6] /\ Text[6] # Text[7] /\ Text[7] # Text[8]
  BY DEF Text
<1>6. \A k \in 1..7 : Text[k] # Text[k + 1]
  BY <1>5
<1> QED BY <1>1, <1>3, <1>4, <1>6

\* The text stands at a place when its bytes do.
LEMMA OccursFacts ==
  ASSUME exe \in Seq(Bytes), SkipLength \in Nat, NEW p \in SkipLength + 1..Size - 7
  PROVE  p \in Occurs <=> \A k \in 1..8 : exe[p + k - 1] = Text[k]
<1>1. p \in 1..Len(exe) /\ p + 7 \in p..Len(exe) /\ (p + 7) - p + 1 = 8
  BY DEF Size
<1> DEFINE sub == SubSeq(exe, p, p + 7)
           q == p + 7
<1>2. /\ SubSeq(exe, p, q) \in Seq(Bytes) /\ Len(SubSeq(exe, p, q)) = q - p + 1
      /\ \A k \in 1..q - p + 1 : SubSeq(exe, p, q)[k] = exe[p + k - 1]
  <2> HIDE DEF q
  <2> QED BY <1>1, PartFacts DEF q
<1>3. sub \in Seq(Bytes) /\ Len(sub) = 8 /\ \A k \in 1..8 : sub[k] = exe[p + k - 1]
  BY <1>1, <1>2
<1> HIDE DEF sub
<1>4. sub = Text <=> \A k \in 1..8 : sub[k] = Text[k]
  BY <1>3, TextFacts, SeqEqual
<1>5. p \in Occurs <=> sub = Text
  <2>1. p + Len(Text) - 1 = p + 7 /\ Size - Len(Text) + 1 = Size - 7
    BY TextFacts DEF Size
  <2> QED BY <2>1 DEF Occurs, sub
<1> QED BY <1>3, <1>4, <1>5

\* A place that is clean and what is before it.
LEMMA CleanFacts ==
  ASSUME exe \in Seq(Bytes), NEW p \in Clean
  PROVE  /\ p \in SkipLength + 1..Size - 7 /\ p \in Nat /\ Size \in Nat /\ SkipLength \in Nat
         /\ \A k \in 1..8 : exe[p + k - 1] = Text[k]
         /\ \A q \in SkipLength + 1..p - 1 : q > p - 8 => exe[q] # "W"
<1>1. p \in SkipLength + 1..Size - 8 + 1 /\ SkipLength \in Nat /\ Size \in Nat
  BY SkipAssumption, TextFacts DEF Clean, Occurs, Size
<1>2. p \in SkipLength + 1..Size - 7 /\ p \in Nat
  BY <1>1
<1>3. p \in Occurs
  BY DEF Clean
<1>4. \A q \in SkipLength + 1..p - 1 : q > p - 8 => exe[q] # "W"
  BY TextFacts DEF Clean
<1> QED BY <1>1, <1>2, <1>3, <1>4, OccursFacts

-----------------------------------------------------------------------------
\* THE INVARIANT

Types ==
    /\ exe \in Seq(Bytes)
    /\ step \in {"open", "skip", "scan", "match", "number", "build", "done"}
    /\ fpos \in 0..Size /\ matched \in 0..8 /\ found \in BOOLEAN

\* The bytes that were matched are the last ones read, behind the jump.
Position ==
    /\ step \in {"open", "skip", "scan", "match"} => ~found
    /\ step = "open" => exe = << >>
    /\ step \in {"scan", "match"} => fpos = Size \/ fpos >= SkipLength
    /\ step = "match" =>
          /\ matched \in 1..7 /\ fpos - matched >= SkipLength
          /\ byteSearchBuffer = Text[matched]
          /\ \A k \in 1..matched : exe[fpos - matched + k] = Text[k]
    /\ step = "number" => found /\ fpos - 7 \in Occurs

\* A place with nothing to distract the scanner before it is not passed.
NotPassed ==
    /\ step = "scan" => \A p \in Clean : fpos < p
    /\ step = "match" => \A p \in Clean : fpos - matched < p
    /\ step \in {"build", "done"} /\ ~found => Clean = {}

NumberFollows ==
    \E p \in Occurs : NumberBegins(p) + NumberLength - 1 <= Size => iBuild = NumberAt(NumberBegins(p))

Result ==
    /\ step \in {"open", "skip", "scan", "match"} => iBuild = -1
    /\ step \in {"build", "done"} => IF found THEN NumberFollows ELSE iBuild \in {0, -1}
    /\ step = "done" => core = CoreOf(iBuild)

VersionInv == Types /\ Position /\ NotPassed /\ Result

-----------------------------------------------------------------------------
\* THE STEPS

\* The buffer may hold anything at first.
LEMMA VersionInitInv == VersionInit => VersionInv
<1> SUFFICES ASSUME VersionInit PROVE VersionInv
  OBVIOUS
<1>1. Types
  <2>1. Size = 0 /\ exe \in Seq(Bytes)
    BY DEF VersionInit, Size
  <2>2. 0 \in 0..Size
    BY <2>1
  <2>3. step = "open" /\ fpos = 0 /\ matched = 0 /\ found = FALSE
    BY DEF VersionInit
  <2>4. found \in BOOLEAN
    BY <2>3, Zenon
  <2>5. matched \in 0..8 /\ fpos \in 0..Size
    BY <2>2, <2>3
  <2> QED BY <2>1, <2>3, <2>4, <2>5 DEF Types
<1> QED BY <1>1 DEF VersionInit, VersionInv, Position, NotPassed, Result

LEMMA NoExecutableInv == VersionInv /\ NoExecutable => VersionInv'
<1> SUFFICES ASSUME VersionInv, NoExecutable PROVE VersionInv'
  OBVIOUS
<1>1. /\ step = "open" /\ iBuild' = 0 /\ step' = "build" /\ exe = << >> /\ ~found
      /\ UNCHANGED <<exe, fpos, byteSearchBuffer, matched, found>>
  BY DEF VersionInv, Position, NoExecutable
<1>2. Types'
  BY <1>1 DEF VersionInv, Types, Size
<1>3. Clean' = {}
  <2>1. Size' = 0
    BY <1>1 DEF Size
  <2> QED BY <2>1, TextFacts, SkipAssumption DEF Clean, Occurs
<1> QED BY <1>1, <1>2, <1>3 DEF VersionInv, Position, NotPassed, Result

LEMMA OpenWoWExeInv == ASSUME VersionInv, NEW f \in Executables, OpenWoWExe(f) PROVE VersionInv'
<1>1. /\ step = "open" /\ exe' = f /\ step' = "skip" /\ ~found /\ iBuild = -1
      /\ UNCHANGED <<fpos, byteSearchBuffer, matched, found, iBuild, core>>
  BY DEF VersionInv, Position, Result, OpenWoWExe
<1>2. f \in Seq(Bytes)
  BY ExecutablesAssumption
<1>3. fpos = 0
  BY <1>1 DEF VersionInv, Position, Types, Size
<1>4. Types'
  BY <1>1, <1>2, <1>3 DEF VersionInv, Types, Size
<1> QED BY <1>1, <1>4 DEF VersionInv, Position, NotPassed, Result

LEMMA SkipInv == VersionInv /\ Skip => VersionInv'
<1> SUFFICES ASSUME VersionInv, Skip PROVE VersionInv'
  OBVIOUS
<1>1. /\ step = "skip" /\ fpos' = Least(Size, SkipLength) /\ step' = "scan" /\ ~found /\ iBuild = -1
      /\ UNCHANGED <<exe, byteSearchBuffer, matched, found, iBuild, core>>
  BY DEF VersionInv, Position, Result, Skip
<1>2. Size' = Size /\ Size \in Nat /\ SkipLength \in Nat /\ Clean' = Clean
  BY <1>1, SkipAssumption DEF VersionInv, Types, Size, Clean, Occurs
<1>3. fpos' \in 0..Size /\ fpos' <= SkipLength /\ (fpos' = Size \/ fpos' >= SkipLength)
  BY <1>1, <1>2 DEF Least
<1>4. Types'
  BY <1>1, <1>2, <1>3 DEF VersionInv, Types
<1>5. Position' /\ Result'
  BY <1>1, <1>2, <1>3 DEF Position, Result
<1>6. \A p \in Clean : fpos' < p
  BY <1>2, <1>3, CleanFacts DEF VersionInv, Types
<1>7. NotPassed'
  BY <1>1, <1>2, <1>6 DEF NotPassed
<1> QED BY <1>4, <1>5, <1>7 DEF VersionInv

LEMMA ScanInv == VersionInv /\ Scan => VersionInv'
<1> SUFFICES ASSUME VersionInv, Scan PROVE VersionInv'
  OBVIOUS
<1>1. /\ step = "scan" /\ fpos < Size /\ byteSearchBuffer' = exe[fpos + 1] /\ fpos' = fpos + 1
      /\ IF exe[fpos + 1] = Text[1] THEN step' = "match" /\ matched' = 1
         ELSE step' = step /\ matched' = matched
      /\ UNCHANGED <<exe, found, iBuild, core>>
  BY DEF Scan
<1>2. /\ Size' = Size /\ Size \in Nat /\ SkipLength \in Nat /\ Clean' = Clean
      /\ fpos \in Nat /\ fpos + 1 \in 0..Size /\ fpos >= SkipLength /\ ~found /\ iBuild = -1
      /\ matched \in 0..8
  BY <1>1, SkipAssumption DEF VersionInv, Types, Position, Result, Size, Clean, Occurs
<1>3. Types'
  BY <1>1, <1>2 DEF VersionInv, Types
<1>4. \A p \in Clean : fpos < p
  BY <1>1 DEF VersionInv, NotPassed
<1>5. CASE exe[fpos + 1] = Text[1]
  <2>1. /\ step' = "match" /\ matched' = 1 /\ fpos' - matched' = fpos
        /\ \A k \in 1..matched' : exe'[fpos' - matched' + k] = Text[k]
    BY <1>1, <1>2, <1>5
  <2>2. Position'
    BY <1>1, <1>2, <1>5, <2>1 DEF Position
  <2>3. NotPassed' /\ Result'
    BY <1>1, <1>2, <1>4, <2>1 DEF NotPassed, Result
  <2> QED BY <1>3, <2>2, <2>3 DEF VersionInv
<1>6. CASE exe[fpos + 1] # Text[1]
  <2>1. step' = "scan"
    BY <1>1, <1>6
  <2>2. \A p \in Clean : fpos + 1 < p
    <3> SUFFICES ASSUME NEW p \in Clean PROVE fpos + 1 # p
      BY <1>2, <1>4, CleanFacts DEF VersionInv, Types
    <3>1. exe[p] = Text[1]
      <4>1. p \in Nat /\ p + 1 - 1 = p /\ 1 \in 1..8
        BY CleanFacts DEF VersionInv, Types
      <4>2. exe[p + 1 - 1] = Text[1]
        BY <4>1, CleanFacts DEF VersionInv, Types
      <4> QED BY <4>1, <4>2
    <3> QED BY <1>6, <3>1
  <2>3. Position' /\ NotPassed' /\ Result'
    BY <1>1, <1>2, <2>1, <2>2 DEF Position, NotPassed, Result
  <2> QED BY <1>3, <2>3 DEF VersionInv
<1> QED BY <1>5, <1>6

LEMMA ScanEndsInv == VersionInv /\ ScanEnds => VersionInv'
<1> SUFFICES ASSUME VersionInv, ScanEnds PROVE VersionInv'
  OBVIOUS
<1>1. /\ step = "scan" /\ fpos = Size /\ step' = "build" /\ ~found /\ iBuild = -1
      /\ UNCHANGED <<exe, fpos, byteSearchBuffer, matched, found, iBuild, core>>
  BY DEF VersionInv, Position, Result, ScanEnds
<1>2. \A p \in Clean : fpos < p
  BY <1>1 DEF VersionInv, NotPassed
<1>3. Clean = {}
  BY <1>1, <1>2, CleanFacts DEF VersionInv, Types
<1>4. Types' /\ Clean' = Clean
  BY <1>1 DEF VersionInv, Types, Size, Clean, Occurs
<1> QED BY <1>1, <1>3, <1>4 DEF VersionInv, Position, NotPassed, Result

\* A byte that fits brings the match on; one that does not costs the bytes that
\* the false start ate, and no more.
LEMMA MatchInv == VersionInv /\ Match => VersionInv'
<1> SUFFICES ASSUME VersionInv, Match PROVE VersionInv'
  OBVIOUS
<1> DEFINE s == fpos - matched + 1
<1>1. /\ step = "match" /\ byteSearchBuffer' = NextByte /\ fpos' = Least(Size, fpos + 1)
      /\ IF NextByte = Text[matched + 1]
         THEN /\ matched' = matched + 1
              /\ found' = (matched + 1 = Len(Text))
              /\ step' = IF matched + 1 = Len(Text) THEN "number" ELSE "match"
         ELSE step' = "scan" /\ matched' = 0 /\ found' = found
      /\ UNCHANGED <<exe, iBuild, core>>
  BY DEF Match
<1>2. /\ matched \in 1..7 /\ fpos - matched >= SkipLength /\ byteSearchBuffer = Text[matched]
      /\ \A k \in 1..matched : exe[fpos - matched + k] = Text[k]
      /\ ~found /\ iBuild = -1
  BY <1>1 DEF VersionInv, Position, Result
<1>3. /\ Size' = Size /\ Size \in Nat /\ SkipLength \in Nat /\ Clean' = Clean /\ Occurs' = Occurs
      /\ fpos \in Nat /\ fpos <= Size /\ exe \in Seq(Bytes)
  BY <1>1, SkipAssumption DEF VersionInv, Types, Size, Clean, Occurs
<1>4. fpos' \in 0..Size /\ fpos' <= fpos + 1 /\ fpos' >= fpos
  BY <1>1, <1>3 DEF Least
<1>5. \A p \in Clean : s <= p /\ p \in Nat /\ p <= Size - 7
  <2>1. \A p \in Clean : fpos - matched < p
    BY <1>1 DEF VersionInv, NotPassed
  <2> QED BY <1>2, <1>3, <2>1, CleanFacts
<1>6. CASE NextByte = Text[matched + 1]
  <2>1. fpos < Size
    <3> SUFFICES ASSUME ~(fpos < Size) PROVE FALSE
      OBVIOUS
    <3>1. NextByte = Text[matched]
      BY <1>2 DEF NextByte
    <3> QED BY <1>2, <1>6, <3>1, TextFacts
  <2>2. exe[fpos + 1] = Text[matched + 1] /\ fpos' = fpos + 1
    BY <1>1, <1>3, <1>6, <2>1 DEF NextByte, Least
  <2>3. /\ matched' = matched + 1 /\ matched' \in 2..8 /\ fpos' - matched' = fpos - matched
        /\ \A k \in 1..matched' : exe[fpos' - matched' + k] = Text[k]
    <3>1. matched' = matched + 1 /\ matched' \in 2..8 /\ fpos' - matched' = fpos - matched
      BY <1>1, <1>2, <1>3, <1>6, <2>2
    <3>2. ASSUME NEW k \in 1..matched + 1 PROVE exe[fpos - matched + k] = Text[k]
      <4>1. CASE k \in 1..matched
        BY <1>2, <4>1
      <4>2. CASE k = matched + 1
        <5>1. fpos - matched + k = fpos + 1
          BY <1>2, <1>3, <4>2
        <5> QED BY <2>2, <4>2, <5>1
      <4> QED BY <1>2, <4>1, <4>2
    <3> QED BY <3>1, <3>2
  <2>4. CASE matched = 7
    <3>1. found' = TRUE /\ step' = "number"
      <4>1. matched + 1 = Len(Text)
        BY <2>4, TextFacts
      <4>2. (matched + 1 = Len(Text)) = TRUE
        BY <4>1
      <4> QED BY <1>1, <1>6, <4>1, <4>2, Zenon
    <3> DEFINE p == fpos' - 7
    <3>2. p \in SkipLength + 1..Size - 7 /\ fpos' - matched' = p - 1
      BY <1>2, <1>3, <1>4, <2>2, <2>3, <2>4
    <3>3. \A k \in 1..8 : exe[p + k - 1] = Text[k]
      <4>1. \A k \in 1..8 : p + k - 1 = fpos' - matched' + k
        BY <1>4, <2>3, <2>4
      <4> QED BY <2>3, <2>4, <4>1
    <3>4. p \in Occurs
      BY <1>3, <3>2, <3>3, OccursFacts
    <3>5. Types'
      BY <1>1, <1>3, <1>4, <2>3, <3>1 DEF VersionInv, Types
    <3>6. Position'
      BY <1>3, <3>1, <3>4 DEF Position
    <3> QED BY <3>1, <3>5, <3>6 DEF VersionInv, NotPassed, Result
  <2>5. CASE matched # 7
    <3>1. found' = FALSE /\ step' = "match" /\ matched' \in 1..7
      <4>1. (matched + 1 = Len(Text)) = FALSE /\ matched + 1 \in 1..7
        BY <1>2, <2>5, TextFacts
      <4> QED BY <1>1, <1>6, <4>1
    <3>2. byteSearchBuffer' = Text[matched']
      BY <1>1, <1>6, <2>3
    <3>3. Types'
      <4>1. found' \in BOOLEAN
        BY <3>1, Zenon
      <4>2. matched' \in 0..8
        BY <3>1
      <4>3. exe' \in Seq(Bytes)
        BY <1>1, <1>3
      <4> QED BY <1>3, <1>4, <3>1, <4>1, <4>2, <4>3 DEF Types
    <3>4. Position'
      BY <1>1, <1>2, <1>3, <1>4, <2>2, <2>3, <3>1, <3>2 DEF Position
    <3>5. \A p \in Clean : fpos' - matched' < p
      BY <1>2, <1>3, <1>5, <2>3
    <3>6. NotPassed' /\ Result'
      BY <1>1, <1>2, <1>3, <3>1, <3>5 DEF NotPassed, Result
    <3> QED BY <3>3, <3>4, <3>6 DEF VersionInv
  <2> QED BY <2>4, <2>5
<1>7. CASE NextByte # Text[matched + 1]
  <2>1. step' = "scan" /\ matched' = 0 /\ found' = found
    BY <1>1, <1>7
  <2>2. ASSUME NEW p \in Clean PROVE fpos' < p
    <3>0. s \in SkipLength + 1..p /\ p \in Nat /\ p <= Size - 7
      BY <1>2, <1>3, <1>5
    <3>1. CASE s = p
      <4>1. matched + 1 \in 1..8 /\ p + (matched + 1) - 1 = fpos + 1 /\ fpos < Size
        BY <1>2, <1>3, <3>0, <3>1
      <4>2. exe[fpos + 1] = Text[matched + 1]
        <5> DEFINE k == matched + 1
        <5>1. k \in 1..8 /\ p + k - 1 = fpos + 1
          BY <4>1
        <5> HIDE DEF k
        <5>2. exe[p + k - 1] = Text[k]
          BY <1>3, <5>1, CleanFacts
        <5> QED BY <5>1, <5>2 DEF k
      <4>3. NextByte = exe[fpos + 1]
        BY <4>1 DEF NextByte
      <4> QED BY <1>7, <4>2, <4>3
    <3>2. CASE s # p
      <4>1. exe[s] = "W"
        <5>1. 1 \in 1..matched /\ fpos - matched + 1 = s
          BY <1>2
        <5> QED BY <1>2, <5>1, TextFacts
      <4>2. s \in SkipLength + 1..p - 1
        BY <3>0, <3>2
      <4>3. ~(s > p - 8)
        BY <1>3, <4>1, <4>2, CleanFacts
      <4> QED BY <1>2, <1>3, <1>4, <3>0, <4>3
    <3> QED BY <3>1, <3>2
  <2>3. Types'
    BY <1>1, <1>3, <1>4, <2>1 DEF VersionInv, Types
  <2>4. fpos' = Size' \/ fpos' >= SkipLength
    BY <1>2, <1>3, <1>4
  <2>5. Position' /\ Result'
    BY <1>1, <1>2, <2>1, <2>4 DEF Position, Result
  <2>6. NotPassed'
    BY <1>3, <2>1, <2>2 DEF NotPassed
  <2> QED BY <2>3, <2>5, <2>6 DEF VersionInv
<1> QED BY <1>6, <1>7

\* The bytes behind the gap are those behind the text that was found.
LEMMA ReadNumberInv ==
  ASSUME VersionInv, NEW junk \in [1..NumberLength -> JunkBytes], ReadNumber(junk)
  PROVE  VersionInv'
<1>1. /\ step = "number" /\ iBuild' = Atoi(BytesAfter(fpos, junk)) /\ step' = "build" /\ found
      /\ fpos' = Least(Size, fpos + GapLength + NumberLength + 1)
      /\ UNCHANGED <<exe, byteSearchBuffer, matched, found, core>>
  BY DEF VersionInv, Position, ReadNumber
<1>2. /\ exe \in Seq(Bytes) /\ fpos \in Nat /\ Size \in Nat /\ Size = Len(exe) /\ Size' = Size
      /\ Occurs' = Occurs
  BY <1>1 DEF VersionInv, Types, Size, Occurs
<1>3. fpos' \in 0..Size
  BY <1>1, <1>2 DEF Least, GapLength, NumberLength
<1>4. Types'
  BY <1>1, <1>2, <1>3 DEF VersionInv, Types
<1> DEFINE p == fpos - 7
           b == NumberBegins(p)
<1>5. p \in Occurs /\ b = fpos + 13
  BY <1>1, <1>2, TextFacts DEF VersionInv, Position, NumberBegins, GapLength
<1>6. ASSUME b + NumberLength - 1 <= Size PROVE iBuild' = NumberAt(b)
  <2> DEFINE got == BytesAfter(fpos, junk)
             sub == SubSeq(exe, b, b + NumberLength - 1)
  <2>1. b \in Nat \ {0} /\ b + 4 <= Len(exe) /\ fpos + 17 <= Size
    BY <1>2, <1>5, <1>6 DEF NumberLength
  <2>2. \A k \in b..b + 4 : exe[k] \in Bytes
    BY <1>2, <2>1, ElementOfSeq
  <2>3. sub \in Seq(Bytes) /\ Len(sub) = 5 /\ \A k \in 1..5 : sub[k] = exe[fpos + 12 + k]
    <3> DEFINE e == b + NumberLength - 1
    <3>1. b \in 1..Len(exe) /\ e \in b..Len(exe) /\ e - b + 1 = 5
      BY <2>1 DEF NumberLength
    <3>2. \A k \in 1..5 : b + k - 1 = fpos + 12 + k
      BY <1>2, <1>5
    <3> HIDE DEF b, e
    <3>3. /\ SubSeq(exe, b, e) \in Seq(Bytes) /\ Len(SubSeq(exe, b, e)) = e - b + 1
          /\ \A k \in 1..e - b + 1 : SubSeq(exe, b, e)[k] = exe[b + k - 1]
      BY <1>2, <3>1, PartFacts
    <3>4. SubSeq(exe, b, e) = sub
      BY DEF e
    <3> HIDE DEF sub
    <3> QED BY <3>1, <3>2, <3>3, <3>4
  <2>4. got = [k \in 1..5 |-> exe[fpos + 12 + k]]
    BY <1>2, <2>1 DEF BytesAfter, GapLength, NumberLength
  <2>5. got \in Seq(Bytes) /\ Len(got) = 5 /\ \A k \in 1..5 : got[k] = exe[fpos + 12 + k]
    <3>1. \A k \in 1..5 : exe[fpos + 12 + k] \in Bytes
      BY <1>2, <1>5, <2>2
    <3> HIDE DEF got
    <3> QED BY <2>4, <3>1
  <2> HIDE DEF got, sub
  <2>6. got = sub
    BY <2>3, <2>5, SeqEqual
  <2> QED BY <1>1, <2>6 DEF got, sub, NumberAt
<1>7. NumberFollows'
  <2>1. b + NumberLength - 1 <= Size => iBuild' = Atoi(SubSeq(exe, b, b + NumberLength - 1))
    BY <1>6 DEF NumberAt
  <2>2. \E q \in Occurs : NumberBegins(q) + NumberLength - 1 <= Size =>
            iBuild' = Atoi(SubSeq(exe, NumberBegins(q), NumberBegins(q) + NumberLength - 1))
    BY <1>5, <2>1
  <2> QED BY <1>1, <1>2, <2>2 DEF NumberFollows, NumberAt
<1>8. Position' /\ NotPassed' /\ Result'
  BY <1>1, <1>7 DEF Position, NotPassed, Result
<1> QED BY <1>4, <1>8 DEF VersionInv

LEMMA FindCoreInv == VersionInv /\ (FindCore \/ UNCHANGED versionVars) => VersionInv'
<1> SUFFICES ASSUME VersionInv, FindCore \/ UNCHANGED versionVars PROVE VersionInv'
  OBVIOUS
<1>1. UNCHANGED <<exe, fpos, byteSearchBuffer, matched, found, iBuild>>
  BY DEF FindCore, versionVars
<1>2. /\ Size' = Size /\ Occurs' = Occurs /\ Clean' = Clean /\ CoreOf(iBuild)' = CoreOf(iBuild)
      /\ \A n : NumberAt(n)' = NumberAt(n)
  BY <1>1 DEF Size, Occurs, Clean, CoreOf, NumberAt
<1>3. NumberFollows' <=> NumberFollows
  BY <1>1, <1>2 DEF NumberFollows
<1>4. CASE FindCore
  <2>1. step = "build" /\ step' = "done" /\ core' = CoreOf(iBuild)
    BY <1>4 DEF FindCore
  <2> QED BY <1>1, <1>2, <1>3, <2>1 DEF VersionInv, Types, Position, NotPassed, Result
<1>5. CASE UNCHANGED versionVars
  <2>1. step' = step /\ core' = core
    BY <1>5 DEF versionVars
  <2>2. Types' /\ Position'
    BY <1>1, <1>2, <2>1 DEF VersionInv, Types, Position
  <2>3. NotPassed' /\ Result'
    BY <1>1, <1>2, <1>3, <2>1 DEF VersionInv, NotPassed, Result
  <2> QED BY <2>2, <2>3 DEF VersionInv
<1> QED BY <1>4, <1>5

LEMMA VersionStepInv == VersionInv /\ [VersionNext]_versionVars => VersionInv'
BY NoExecutableInv, OpenWoWExeInv, SkipInv, ScanInv, ScanEndsInv, MatchInv, ReadNumberInv, FindCoreInv
   DEF VersionNext

\* No fairness is needed.
LEMMA VersionInvHolds == VersionInit /\ [][VersionNext]_versionVars => []VersionInv
BY VersionInitInv, VersionStepInv, PTL

-----------------------------------------------------------------------------
\* THE CONVERSION

LEMMA DigitRange ==
  ASSUME NEW byte, IsDigit(byte)
  PROVE  DigitValue(byte) \in 0..9
<1>1. DOMAIN Digits = 1..10
  BY DEF Digits
<1>2. \E i \in 1..10 : Digits[i] = byte
  BY <1>1 DEF IsDigit, Range
<1>3. (CHOOSE i \in 1..10 : Digits[i] = byte) \in 1..10
  BY <1>2
<1> QED BY <1>3 DEF DigitValue

\* The size of a set of places.
LEMMA PlacesCount ==
  ASSUME NEW a \in Int, NEW b \in Int, NEW S \in SUBSET (a..b)
  PROVE  /\ IsFiniteSet(S) /\ Cardinality(S) \in Nat
         /\ Cardinality(S) <= IF a <= b THEN b - a + 1 ELSE 0
<1>1. IsFiniteSet(a..b) /\ Cardinality(a..b) = IF a > b THEN 0 ELSE b - a + 1
  BY FS_Interval
<1>2. IsFiniteSet(S) /\ Cardinality(S) <= Cardinality(a..b)
  BY <1>1, FS_Subset
<1>3. Cardinality(S) \in Nat
  BY <1>2, FS_CardinalityType
<1> QED BY <1>1, <1>2, <1>3

\* The digits a number starts with: as many as there are, from the first on.
LEMMA LeadingPlaces ==
  ASSUME NEW a \in Nat, NEW b \in Int, NEW S \in SUBSET (a + 1..b),
         \A i \in S : \A j \in a + 1..i : j \in S
  PROVE  \A n \in 1..Cardinality(S) : a + n \in S
<1> DEFINE d == Cardinality(S)
<1>1. d \in Nat
  BY PlacesCount
<1> HIDE DEF d
<1> SUFFICES ASSUME NEW n \in 1..d, a + n \notin S PROVE FALSE
  BY DEF d
<1>2. S \in SUBSET (a + 1..a + n - 1)
  <2> SUFFICES ASSUME NEW i \in S, i > a + n - 1 PROVE FALSE
    BY <1>1
  <2>1. i \in Int /\ a + n \in a + 1..i
    BY <1>1
  <2> QED BY <2>1
<1>3. d <= IF a + 1 <= a + n - 1 THEN (a + n - 1) - (a + 1) + 1 ELSE 0
  <2> DEFINE x == a + 1
             y == a + n - 1
  <2>1. x \in Int /\ y \in Int /\ S \in SUBSET (x..y)
    BY <1>1, <1>2
  <2> HIDE DEF x, y
  <2>2. Cardinality(S) <= IF x <= y THEN y - x + 1 ELSE 0
    BY <2>1, PlacesCount
  <2> QED BY <2>2 DEF x, y, d
<1> QED BY <1>1, <1>3

\* The value of at most five digits, each the next place of the number.
Value(f, d, v) == f = [n \in 0..d |-> IF n = 0 THEN 0 ELSE 10 * f[n - 1] + v[n]]

LEMMA ValueGrows ==
  ASSUME NEW d \in Nat, NEW v, NEW g, Value(g, d, v)
  PROVE  \E f : Value(f, d + 1, v)
<1> DEFINE f == [n \in 0..d + 1 |-> IF n = d + 1 THEN 10 * g[d] + v[n] ELSE g[n]]
<1>1. g = [n \in 0..d |-> IF n = 0 THEN 0 ELSE 10 * g[n - 1] + v[n]]
  BY DEF Value
<1>2. ASSUME NEW n \in 0..d + 1
      PROVE  f[n] = IF n = 0 THEN 0 ELSE 10 * f[n - 1] + v[n]
  <2>1. CASE n = d + 1
    <3>1. n # 0 /\ n - 1 = d /\ d \in 0..d + 1 /\ d # d + 1
      BY <2>1
    <3>2. f[n - 1] = g[d]
      BY <3>1
    <3>3. f[n] = 10 * g[d] + v[n]
      BY <2>1
    <3> HIDE DEF f
    <3> QED BY <3>1, <3>2, <3>3
  <2>2. CASE n # d + 1
    <3>1. n \in 0..d
      BY <2>2
    <3>2. f[n] = g[n]
      BY <2>2
    <3>3. n # 0 => n - 1 \in 0..d + 1 /\ n - 1 # d + 1
      BY <3>1
    <3>4. n # 0 => f[n - 1] = g[n - 1]
      BY <3>3
    <3> HIDE DEF f
    <3>5. g[n] = IF n = 0 THEN 0 ELSE 10 * g[n - 1] + v[n]
      BY <1>1, <3>1
    <3> QED BY <3>2, <3>4, <3>5
  <2> QED BY <2>1, <2>2
<1>3. f = [n \in 0..d + 1 |-> f[n]]
  OBVIOUS
<1> HIDE DEF f
<1>4. f = [n \in 0..d + 1 |-> IF n = 0 THEN 0 ELSE 10 * f[n - 1] + v[n]]
  BY <1>2, <1>3
<1> QED BY <1>4 DEF Value

LEMMA ValueExists ==
  ASSUME NEW d \in 0..5, NEW v
  PROVE  \E f : Value(f, d, v)
<1>1. \E f : Value(f, 0, v)
  <2> DEFINE f == [n \in 0..0 |-> 0]
  <2>1. f = [n \in 0..0 |-> IF n = 0 THEN 0 ELSE 10 * f[n - 1] + v[n]]
    OBVIOUS
  <2> QED BY <2>1 DEF Value
<1>2. \A k \in Nat : (\E f : Value(f, k, v)) => \E f : Value(f, k + 1, v)
  BY ValueGrows
<1>3. \A k \in 0..4 : (\E f : Value(f, k, v)) => \E f : Value(f, k + 1, v)
  BY <1>2
<1> DEFINE Has(k) == \E f : Value(f, k, v)
<1> SUFFICES Has(d)
  OBVIOUS
<1>4. Has(0) /\ \A k \in 0..4 : Has(k) => Has(k + 1)
  BY <1>1, <1>3
<1> HIDE DEF Has
<1>5. Has(1) /\ Has(2) /\ Has(3) /\ Has(4) /\ Has(5)
  BY <1>4
<1>6. d \in {0, 1, 2, 3, 4, 5}
  OBVIOUS
<1> QED BY <1>4, <1>5, <1>6

LEMMA NextPlace ==
  ASSUME NEW x, NEW w \in 0..9, NEW n \in Nat, x \in 0..n - 1
  PROVE  10 * x + w \in 0..10 * n - 1
OBVIOUS

LEMMA OneOfFive ==
  ASSUME NEW d \in {0, 1, 2, 3, 4}, NEW f, NEW S, f[0] \in S, d >= 1 => f[1] \in S,
         d >= 2 => f[2] \in S, d >= 3 => f[3] \in S, d >= 4 => f[4] \in S
  PROVE  f[d] \in S
OBVIOUS

\* Four digits say a number below n, five one below 10 * n.
LEMMA ValueRange ==
  ASSUME NEW d \in 0..5, NEW v, \A k \in 1..d : v[k] \in 0..9, NEW f, Value(f, d, v),
         NEW b1 \in Nat, NEW b2 \in Nat, NEW b3 \in Nat, NEW n \in Nat,
         b1 = 10, b2 = 10 * b1, b3 = 10 * b2, n = 10 * b3
  PROVE  f[d] \in 0..10 * n - 1 /\ (d <= 4 => f[d] \in 0..n - 1)
<1>1. \A k \in 0..d : f[k] = IF k = 0 THEN 0 ELSE 10 * f[k - 1] + v[k]
  BY DEF Value
<1>2. f[0] \in 0..1 - 1
  BY <1>1
<1>3. ASSUME NEW k \in 1..5, k <= d, NEW b \in Nat, f[k - 1] \in 0..b - 1
      PROVE  f[k] \in 0..10 * b - 1
  <2>1. k \in 0..d /\ k # 0 /\ k \in 1..d
    BY <1>3
  <2>2. f[k] = 10 * f[k - 1] + v[k] /\ v[k] \in 0..9
    BY <1>1, <2>1
  <2> QED BY <1>3, <2>2, NextPlace
<1>4. 1 <= b1 /\ b1 <= b2 /\ b2 <= b3 /\ b3 <= n
  OBVIOUS
<1>5. d >= 1 => f[1] \in 0..b1 - 1
  <2> SUFFICES ASSUME d >= 1 PROVE f[1] \in 0..b1 - 1
    OBVIOUS
  <2>1. 1 \in 1..5 /\ 1 \in Nat /\ f[1 - 1] \in 0..1 - 1
    BY <1>2
  <2> QED BY <2>1, <1>3
<1>6. d >= 2 => f[2] \in 0..b2 - 1
  <2> SUFFICES ASSUME d >= 2 PROVE f[2] \in 0..b2 - 1
    OBVIOUS
  <2>1. 2 \in 1..5 /\ f[2 - 1] \in 0..b1 - 1
    BY <1>5
  <2> QED BY <2>1, <1>3, <1>4
<1>7. d >= 3 => f[3] \in 0..b3 - 1
  <2> SUFFICES ASSUME d >= 3 PROVE f[3] \in 0..b3 - 1
    OBVIOUS
  <2>1. 3 \in 1..5 /\ f[3 - 1] \in 0..b2 - 1
    BY <1>6
  <2> QED BY <2>1, <1>3, <1>4
<1>8. d >= 4 => f[4] \in 0..n - 1
  <2> SUFFICES ASSUME d >= 4 PROVE f[4] \in 0..n - 1
    BY <1>4
  <2>1. 4 \in 1..5 /\ f[4 - 1] \in 0..b3 - 1
    BY <1>7
  <2> QED BY <2>1, <1>3, <1>4
<1>9. d >= 5 => f[5] \in 0..10 * n - 1
  <2> SUFFICES ASSUME d >= 5 PROVE f[5] \in 0..10 * n - 1
    OBVIOUS
  <2>1. 5 \in 1..5 /\ f[5 - 1] \in 0..n - 1
    BY <1>8
  <2> QED BY <2>1, <1>3
<1>10. ASSUME d <= 4 PROVE f[d] \in 0..n - 1
  <2>1. f[0] \in 0..n - 1
    BY <1>2, <1>4
  <2>2. d >= 1 => f[1] \in 0..n - 1
    BY <1>4, <1>5
  <2>3. d >= 2 => f[2] \in 0..n - 1
    BY <1>4, <1>6
  <2>4. d >= 3 => f[3] \in 0..n - 1
    BY <1>4, <1>7
  <2>5. d \in {0, 1, 2, 3, 4}
    BY <1>10
  <2> QED BY <1>8, <2>1, <2>2, <2>3, <2>4, <2>5, OneOfFive
<1>11. ASSUME d <= 4 PROVE f[d] \in 0..10 * n - 1
  <2>1. PICK x \in 0..n - 1 : f[d] = x
    BY <1>10, <1>11
  <2>2. x \in 0..10 * n - 1
    BY <2>1
  <2> QED BY <2>1, <2>2
<1>12. ASSUME ~(d <= 4) PROVE f[d] \in 0..10 * n - 1
  <2>1. d = 5 /\ d >= 5
    BY <1>12
  <2> QED BY <1>9, <2>1
<1> QED BY <1>10, <1>11, <1>12

LEMMA MagnitudeRange ==
  ASSUME NEW word, NEW sign, NEW d \in 0..5, \A n \in 1..d : IsDigit(word[sign + n]),
         NEW b1 \in Nat, NEW b2 \in Nat, NEW b3 \in Nat, NEW n \in Nat,
         b1 = 10, b2 = 10 * b1, b3 = 10 * b2, n = 10 * b3
  PROVE  /\ Magnitude(word, sign, d) \in 0..10 * n - 1
         /\ d <= 4 => Magnitude(word, sign, d) \in 0..n - 1
<1> DEFINE v == [k \in 1..d |-> DigitValue(word[sign + k])]
           Is(f) == f = [k \in 0..d |-> IF k = 0 THEN 0
                                        ELSE 10 * f[k - 1] + DigitValue(word[sign + k])]
           value == CHOOSE f : Is(f)
<1>1. Magnitude(word, sign, d) = value[d]
  BY DEF Magnitude
<1>2. \A k \in 1..d : v[k] = DigitValue(word[sign + k]) /\ v[k] \in 0..9
  BY DigitRange
<1> HIDE DEF v
<1>3. ASSUME NEW f PROVE Is(f) <=> Value(f, d, v)
  <2>1. \A k \in 0..d : k # 0 => v[k] = DigitValue(word[sign + k])
    BY <1>2
  <2>2. [k \in 0..d |-> IF k = 0 THEN 0 ELSE 10 * f[k - 1] + DigitValue(word[sign + k])]
        = [k \in 0..d |-> IF k = 0 THEN 0 ELSE 10 * f[k - 1] + v[k]]
    BY <2>1
  <2> QED BY <2>2 DEF Value
<1> HIDE DEF Is
<1>4. \E f : Is(f)
  BY <1>3, ValueExists
<1>5. Is(value)
  BY <1>4
<1> HIDE DEF value
<1>6. Value(value, d, v) /\ \A k \in 1..d : v[k] \in 0..9
  BY <1>2, <1>3, <1>5
<1>7. value[d] \in 0..10 * n - 1 /\ (d <= 4 => value[d] \in 0..n - 1)
  BY <1>6, ValueRange
<1> QED BY <1>1, <1>7

\* Five bytes hold a word of at most five, and its sign and digits share them.
LEMMA WordFacts ==
  ASSUME NEW bytes \in Seq(Bytes), Len(bytes) = 5
  PROVE  Word(bytes) \in Seq(Bytes) /\ Len(Word(bytes)) \in 0..5
<1> DEFINE m == Blanks(bytes) + 1
<1>1. Blanks(bytes) \in 0..5
  <2> DEFINE S == {i \in 1..Len(bytes) : \A j \in 1..i : bytes[j] = " "}
  <2>1. S \in SUBSET (1..5) /\ Blanks(bytes) = Cardinality(S)
    BY DEF Blanks
  <2> HIDE DEF S
  <2>2. Cardinality(S) \in Nat /\ Cardinality(S) <= 5
    <3>1. 1 \in Int /\ 5 \in Int /\ S \in SUBSET (1..5)
      BY <2>1
    <3>2. Cardinality(S) \in Nat /\ Cardinality(S) <= IF 1 <= 5 THEN 5 - 1 + 1 ELSE 0
      BY <3>1, PlacesCount
    <3> QED BY <3>2
  <2> QED BY <2>1, <2>2
<1>2. m \in 1..6 /\ m \in Nat /\ 5 \in Nat /\ \A k \in m..5 : bytes[k] \in Bytes
  <2>1. m \in 1..6 /\ m \in Nat
    BY <1>1
  <2> HIDE DEF m
  <2>2. \A k \in m..5 : k \in 1..Len(bytes)
    BY <2>1
  <2> QED BY <2>1, <2>2, ElementOfSeq
<1>3. Word(bytes) = SubSeq(bytes, m, 5)
  BY DEF Word
<1> HIDE DEF m
<1>4. CASE m <= 5
  BY <1>2, <1>3, <1>4, SubSeqProperties
<1>5. CASE ~(m <= 5)
  <2>1. m = 6
    BY <1>2, <1>5
  <2> QED BY <1>3, <2>1
<1> QED BY <1>4, <1>5

LEMMA LeadFacts ==
  ASSUME NEW word, NEW l \in 0..5, Len(word) = l, NEW sign \in Nat, sign <= l
  PROVE  /\ Lead(word, sign) \in 0..5 /\ sign + Lead(word, sign) <= 5
         /\ \A n \in 1..Lead(word, sign) : IsDigit(word[sign + n])
<1> DEFINE x == sign + 1
           S == {i \in x..l : \A j \in x..i : IsDigit(word[j])}
           d == Lead(word, sign)
<1>1. d = Cardinality(S)
  BY DEF Lead
<1>0. l \in Int /\ l <= 5 /\ sign <= l /\ x \in Int /\ x = sign + 1
  OBVIOUS
<1>2. ASSUME NEW i \in S, NEW j \in x..i PROVE j \in S /\ IsDigit(word[i])
  <2>1. i \in x..l /\ \A k \in x..i : IsDigit(word[k])
    OBVIOUS
  <2> HIDE DEF x
  <2>2. j \in x..l /\ \A k \in x..j : k \in x..i
    BY <1>0, <1>1, <2>1
  <2>3. i \in x..i
    BY <1>0, <1>1, <2>1
  <2> QED BY <2>1, <2>2, <2>3
<1>3. S \in SUBSET (x..l)
  OBVIOUS
<1> HIDE DEF x, S, d
<1>4. d \in Nat /\ d <= IF x <= l THEN l - x + 1 ELSE 0
  BY <1>0, <1>1, <1>3, PlacesCount
<1>5. d \in 0..5 /\ sign + d <= 5
  BY <1>0, <1>1, <1>4
<1>6. \A n \in 1..d : sign + n \in S
  <2>1. S \in SUBSET (sign + 1..l) /\ \A i \in S : \A j \in sign + 1..i : j \in S
    BY <1>0, <1>1, <1>2, <1>3
  <2> QED BY <1>0, <1>1, <2>1, LeadingPlaces
<1>7. \A i \in S : IsDigit(word[i])
  <2> TAKE i \in S
  <2>1. i \in x..i
    BY <1>0, <1>1, <1>3
  <2> QED BY <1>2, <2>1
<1> QED BY <1>5, <1>6, <1>7 DEF d

LEMMA Positive ==
  ASSUME NEW n \in Nat, 1 <= n, NEW x
  PROVE  /\ x \in 0..10 * n - 1 => x \in 1 - n..10 * n - 1
         /\ x \in 0..n - 1 => -x \in 1 - n..10 * n - 1
<1> PICK m \in Nat : m = 10 * n
  OBVIOUS
<1>1. ASSUME x \in 0..m - 1 PROVE x \in 1 - n..m - 1
  BY <1>1
<1>2. ASSUME x \in 0..n - 1 PROVE -x \in 1 - n..m - 1
  BY <1>2
<1> QED BY <1>1, <1>2

\* What five bytes can be converted to.
LEMMA AtoiRange ==
  ASSUME NEW bytes \in Seq(Bytes), Len(bytes) = 5
  PROVE  Atoi(bytes) \in NumberRange
<1> PICK b1 \in Nat, b2 \in Nat, b3 \in Nat, n \in Nat :
           b1 = 10 /\ b2 = 10 * b1 /\ b3 = 10 * b2 /\ n = 10 * b3
  OBVIOUS
<1>0. 1 <= n
  OBVIOUS
<1> DEFINE word == Word(bytes)
           sign == Sign(word)
           d == Lead(word, sign)
           size == Magnitude(word, sign, d)
<1>1. Atoi(bytes) = IF sign = 1 THEN -size ELSE size
  BY DEF Atoi
<1>2. word \in Seq(Bytes) /\ Len(word) \in 0..5
  BY WordFacts
<1> HIDE DEF word
<1>3. sign \in {0, 1} /\ sign <= Len(word)
  <2>1. word # << >> => 1 <= Len(word)
    BY <1>2, EmptySeq
  <2> QED BY <1>2, <2>1 DEF Sign
<1> HIDE DEF sign
<1>4. d \in 0..5 /\ sign + d <= 5 /\ \A k \in 1..d : IsDigit(word[sign + k])
  BY <1>2, <1>3, LeadFacts
<1> HIDE DEF d
<1>5. size \in 0..10 * n - 1 /\ (d <= 4 => size \in 0..n - 1)
  BY <1>4, MagnitudeRange
<1> HIDE DEF size
<1>6. Atoi(bytes) \in 1 - n..10 * n - 1
  <2>1. CASE sign = 1
    <3>1. d <= 4
      BY <1>4, <2>1
    <3>2. PICK x \in 0..n - 1 : size = x
      BY <1>5, <3>1
    <3>3. Atoi(bytes) = -x
      BY <1>1, <2>1, <3>2
    <3>4. -x \in 1 - n..10 * n - 1
      BY <1>0, <3>2, Positive
    <3> QED BY <3>3, <3>4
  <2>2. CASE sign = 0
    <3>1. PICK x \in 0..10 * n - 1 : size = x
      BY <1>5
    <3>2. Atoi(bytes) = x
      BY <1>1, <2>2, <3>1
    <3>3. x \in 1 - n..10 * n - 1
      BY <1>0, <3>1, Positive
    <3> QED BY <3>2, <3>3
  <2> QED BY <1>3, <2>1, <2>2
<1>7. 1 - n..10 * n - 1 = NumberRange
  BY DEF NumberRange
<1> QED BY <1>6, <1>7

-----------------------------------------------------------------------------
\* THEOREMS

LEMMA VersionTypeInit == VersionInit => VersionTypeOK
<1> SUFFICES ASSUME VersionInit PROVE VersionTypeOK
  OBVIOUS
<1>1. /\ exe = << >> /\ step = "open" /\ fpos = 0 /\ byteSearchBuffer \in Bytes
      /\ matched = 0 /\ found = FALSE /\ iBuild = -1 /\ core = -1
  BY JunkAssumption DEF VersionInit
<1>2. exe \in Seq(Bytes) /\ fpos \in 0..Size
  BY <1>1 DEF Size
<1>3. -1 \in NumberRange
  BY DEF NumberRange
<1>4. matched \in 0..Len(Text)
  BY <1>1, TextFacts
<1>5. iBuild \in NumberRange
  BY <1>1, <1>3
<1>6. core \in -1..6
  BY <1>1
<1>7. found \in BOOLEAN /\ step \in {"open", "skip", "scan", "match", "number", "build", "done"}
  BY <1>1
<1> QED BY <1>1, <1>2, <1>4, <1>5, <1>6, <1>7 DEF VersionTypeOK

LEMMA VersionTypeStep == VersionTypeOK /\ VersionInv /\ VersionInv' /\ [VersionNext]_versionVars => VersionTypeOK'
<1> SUFFICES ASSUME VersionTypeOK, VersionInv, VersionInv', [VersionNext]_versionVars PROVE VersionTypeOK'
  OBVIOUS
<1>1. /\ exe' \in Seq(Bytes)
      /\ step' \in {"open", "skip", "scan", "match", "number", "build", "done"}
      /\ fpos' \in 0..Size' /\ matched' \in 0..Len(Text) /\ found' \in BOOLEAN
  BY TextFacts DEF VersionInv, Types
<1>2. exe \in Seq(Bytes) /\ Size \in Nat /\ fpos \in Nat /\ fpos <= Size
      /\ byteSearchBuffer \in Bytes /\ iBuild \in NumberRange /\ core \in -1..6
  BY DEF VersionTypeOK, Size
<1>3. fpos < Size => exe[fpos + 1] \in Bytes
  <2> SUFFICES ASSUME fpos < Size PROVE exe[fpos + 1] \in Bytes
    OBVIOUS
  <2>1. fpos + 1 \in 1..Len(exe)
    BY <1>2 DEF Size
  <2> QED BY <1>2, <2>1, ElementOfSeq
<1>4. byteSearchBuffer' \in Bytes
  <2>1. byteSearchBuffer' = byteSearchBuffer \/ Scan \/ Match
    BY DEF VersionNext, NoExecutable, OpenWoWExe, Skip, ScanEnds, ReadNumber, FindCore, versionVars
  <2>2. CASE Scan
    BY <1>3, <2>2 DEF Scan
  <2>3. CASE Match
    BY <1>2, <1>3, <2>3 DEF Match, NextByte
  <2> QED BY <1>2, <2>1, <2>2, <2>3
<1>5. iBuild' \in NumberRange
  <2>1. iBuild' = iBuild \/ iBuild' = 0 \/ \E junk \in [1..NumberLength -> JunkBytes] : ReadNumber(junk)
    BY DEF VersionNext, NoExecutable, OpenWoWExe, Skip, Scan, ScanEnds, Match, FindCore, versionVars
  <2>2. ASSUME NEW junk \in [1..NumberLength -> JunkBytes], ReadNumber(junk)
        PROVE  iBuild' \in NumberRange
    <3> DEFINE got == BytesAfter(fpos, junk)
    <3>1. ASSUME NEW i \in 1..5
          PROVE  (IF fpos + 12 + i <= Size THEN exe[fpos + 12 + i] ELSE junk[i]) \in Bytes
      <4>1. fpos + 12 + i <= Size => fpos + 12 + i \in 1..Len(exe)
        BY <1>2 DEF Size
      <4>2. junk[i] \in Bytes
        BY JunkAssumption DEF NumberLength
      <4> QED BY <1>2, <4>1, <4>2, ElementOfSeq
    <3>2. got = [i \in 1..5 |-> IF fpos + 12 + i <= Size THEN exe[fpos + 12 + i] ELSE junk[i]]
      BY DEF BytesAfter, GapLength, NumberLength
    <3> HIDE DEF got
    <3>3. got \in [1..5 -> Bytes]
      BY <3>1, <3>2
    <3>4. got \in Seq(Bytes) /\ Len(got) = 5
      <4>1. 5 \in Nat /\ got \in [1..5 -> Bytes]
        BY <3>3
      <4>2. got \in Seq(Bytes)
        BY <4>1, SeqDef
      <4>3. DOMAIN got = 1..5 /\ DOMAIN got = 1..Len(got) /\ Len(got) \in Nat
        BY <4>1, <4>2, LenProperties
      <4> QED BY <4>2, <4>3
    <3>5. iBuild' = Atoi(got)
      BY <2>2 DEF ReadNumber, got
    <3>6. Atoi(got) \in NumberRange
      BY <3>4, AtoiRange
    <3> QED BY <3>5, <3>6
  <2>3. 0 \in NumberRange
    BY DEF NumberRange
  <2> QED BY <1>2, <2>1, <2>2, <2>3
<1>6. core' \in -1..6
  <2>1. core' = core \/ core' = CoreOf(iBuild)
    BY DEF VersionNext, NoExecutable, OpenWoWExe, Skip, Scan, ScanEnds, Match, ReadNumber, FindCore, versionVars
  <2>2. CoreOf(iBuild) \in -1..6
    BY DEF CoreOf
  <2> QED BY <1>2, <2>1, <2>2
<1> QED BY <1>1, <1>4, <1>5, <1>6 DEF VersionTypeOK

LEMMA VersionTypesHold == VersionInit /\ [][VersionNext]_versionVars => []VersionTypeOK
<1>1. VersionInit => VersionTypeOK
  BY VersionTypeInit
<1>2. VersionTypeOK /\ VersionInv /\ VersionInv' /\ [VersionNext]_versionVars => VersionTypeOK'
  BY VersionTypeStep
<1> QED BY <1>1, <1>2, VersionInvHolds, PTL

\* The variables have their types: the file position stays in the file, and the
\* number is one that five characters can say.
THEOREM VersionTypeCorrect == VersionSpec => []VersionTypeOK
BY VersionTypesHold, PTL DEF VersionSpec

\* The text is found wherever it stands behind the jump with no W close before it.
THEOREM CleanTextFound == VersionSpec => []FindsCleanText
<1>1. VersionInv => FindsCleanText
  BY DEF VersionInv, NotPassed, FindsCleanText
<1> QED BY <1>1, VersionInvHolds, PTL DEF VersionSpec

\* The number returned is the one behind an occurrence of the text, unless the
\* file ends before its last byte.
THEOREM NumberCorrect == VersionSpec => []ReturnsTheNumber
<1>1. VersionInv => ReturnsTheNumber
  BY DEF VersionInv, Result, NumberFollows, ReturnsTheNumber
<1> QED BY <1>1, VersionInvHolds, PTL DEF VersionSpec

\* A known core was computed from a number that stands behind the text, unless
\* the file ends before the last byte of the number.
LEMMA CoreFacts ==
  ASSUME VersionInv, step = "done", core # -1
  PROVE  /\ iBuild \in KnownBuilds /\ core = CoreOf(iBuild)
         /\ \E p \in Occurs :
               \/ NumberBegins(p) + NumberLength - 1 > Size
               \/ NumberAt(NumberBegins(p)) = iBuild
<1>1. core = CoreOf(iBuild)
  BY DEF VersionInv, Result
<1>2. iBuild \in KnownBuilds
  BY <1>1 DEF CoreOf, KnownBuilds
<1>3. found
  <2>1. iBuild # 0 /\ iBuild # -1
    BY <1>2 DEF KnownBuilds
  <2> QED BY <2>1 DEF VersionInv, Result
<1>4. PICK p \in Occurs :
        NumberBegins(p) + NumberLength - 1 <= Size => iBuild = NumberAt(NumberBegins(p))
  BY <1>3 DEF VersionInv, Result, NumberFollows
<1>5. NumberBegins(p) + NumberLength - 1 \in Int /\ Size \in Int
  BY SkipAssumption, TextFacts
     DEF VersionInv, Types, NumberBegins, NumberLength, GapLength, Occurs, Size
<1>6. CASE NumberBegins(p) + NumberLength - 1 <= Size
  BY <1>1, <1>2, <1>4, <1>6
<1>7. CASE NumberBegins(p) + NumberLength - 1 > Size
  BY <1>1, <1>2, <1>7
<1> QED BY <1>5, <1>6, <1>7

\* No client is reported for a missing file or for one without the text.
THEOREM ClientNamed == VersionSpec => []ClientOnlyIfNamed
<1>1. VersionInv => ClientOnlyIfNamed
  <2> SUFFICES ASSUME VersionInv, step = "done", core # -1
               PROVE  \E p \in Occurs :
                         \/ NumberBegins(p) + NumberLength - 1 > Size
                         \/ NumberAt(NumberBegins(p)) \in KnownBuilds
    BY DEF ClientOnlyIfNamed
  <2> QED BY CoreFacts
<1> QED BY <1>1, VersionInvHolds, PTL DEF VersionSpec
=============================================================================
