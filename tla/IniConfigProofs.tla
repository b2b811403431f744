--------------------------- MODULE IniConfigProofs ---------------------------
(***************************************************************************)
(* Theorems about IniConfig, for every set of names, values and files.     *)
(***************************************************************************)
EXTENDS IniConfig, SequenceTheorems, WellFoundedInduction, FiniteSetTheorems, TLAPS

-----------------------------------------------------------------------------
(***************************************************************************)
(* Texts.                                                                  *)
(***************************************************************************)

\* A prefix is as long as the text at most, and agrees with it as far as it goes.
LEMMA PrefixIs ==
    ASSUME NEW S, NEW s \in Seq(S), NEW t \in Seq(S)
    PROVE  IsPrefix(s, t) <=> Len(s) <= Len(t) /\ \A i \in 1 .. Len(s) : s[i] = t[i]
  <1>1. CASE Len(s) <= Len(t)
    <2>1. SubSeq(s, 1, Len(s)) = s
      OBVIOUS
    <2>2. /\ SubSeq(t, 1, Len(s)) \in Seq(S)
          /\ Len(SubSeq(t, 1, Len(s))) = Len(s)
          /\ \A i \in 1 .. Len(s) : SubSeq(t, 1, Len(s))[i] = t[i]
      BY <1>1
    <2>3. s = SubSeq(t, 1, Len(s)) <=> \A i \in 1 .. Len(s) : s[i] = t[i]
      BY <2>2, SeqEqual
    <2> QED
      BY <1>1, <2>1, <2>3 DEF IsPrefix
  <1>2. CASE ~(Len(s) <= Len(t))
    BY <1>2 DEF IsPrefix
  <1> QED
    BY <1>1, <1>2

\* Two prefixes of one text are related.
LEMMA PrefixesRelated ==
    ASSUME NEW S, NEW a \in Seq(S), NEW b \in Seq(S), NEW t \in Seq(S),
           IsPrefix(a, t), IsPrefix(b, t)
    PROVE  ~Unrelated(a, b)
  <1>1. /\ Len(a) \in Nat /\ Len(b) \in Nat
        /\ \A i \in 1 .. Len(a) : a[i] = t[i]
        /\ \A i \in 1 .. Len(b) : b[i] = t[i]
    BY PrefixIs
  <1>2. CASE Len(a) <= Len(b)
    <2>1. \A i \in 1 .. Len(a) : a[i] = b[i]
      BY <1>1, <1>2
    <2> QED
      BY <1>2, <2>1, PrefixIs DEF Unrelated
  <1>3. CASE Len(b) <= Len(a)
    <2>1. \A i \in 1 .. Len(b) : b[i] = a[i]
      BY <1>1, <1>3
    <2> QED
      BY <1>3, <2>1, PrefixIs DEF Unrelated
  <1> QED
    BY <1>1, <1>2, <1>3

-----------------------------------------------------------------------------
(***************************************************************************)
(* Lookups: the first index that passes a test, or 0.                      *)
(***************************************************************************)

\* A set of numbers that is not empty has a least member.
LEMMA MinIs ==
    ASSUME NEW T \in SUBSET Nat, T # {}
    PROVE  Min(T) \in T /\ \A x \in T : Min(T) <= x
  <1>1. IsWellFoundedOn(OpToRel(<, Nat), Nat)
    BY NatLessThanWellFounded
  <1>2. PICK x \in T : \A y \in T : ~(<<y, x>> \in OpToRel(<, Nat))
    BY <1>1, WFMin
  <1>3. \A y \in T : ~(y < x)
    BY <1>2 DEF OpToRel
  <1>4. \A y \in T : x <= y
    BY <1>3
  <1> QED
    BY <1>4 DEF Min

\* The first line of a section of this name, and the first line of a key of this
\* name before the next section.
SectionLine(line, section) == line.type = "SECTION" /\ IsPrefix(section, Tail(line.text))
KeyLine(line, key)         == line.type = "KEY" /\ IsPrefix(key, line.text)

SectionAt(ls, section, at) ==
    /\ at \in 1 .. Len(ls)
    /\ SectionLine(ls[at], section)
    /\ \A i \in 1 .. at - 1 : ~SectionLine(ls[i], section)

KeyAt(ls, at, key, r) ==
    /\ r \in at + 1 .. Len(ls)
    /\ KeyLine(ls[r], key)
    /\ \A i \in at + 1 .. r - 1 : ls[i].type # "SECTION" /\ ~KeyLine(ls[i], key)

LEMMA SectionLookup ==
    ASSUME NEW S, NEW ls \in Seq(S), NEW section
    PROVE  /\ getSection(ls, section) \in Nat
           /\ \A at \in Nat \ {0} : getSection(ls, section) = at <=> SectionAt(ls, section, at)
  <1> DEFINE I == {i \in 1 .. Len(ls) : SectionLine(ls[i], section)}
             r == getSection(ls, section)
  <1>0. Len(ls) \in Nat
    BY LenProperties
  <1>1. I \in SUBSET Nat
    BY <1>0
  <1>2. r = IF I # {} THEN Min(I) ELSE 0
    BY DEF getSection, SelectInSeq, SectionLine
  <1>3. \A at : SectionAt(ls, section, at) <=> at \in I /\ \A i \in 1 .. at - 1 : i \notin I
    BY <1>0 DEF SectionAt
  <1>4. CASE I = {}
    BY <1>2, <1>3, <1>4
  <1>5. CASE I # {}
    <2>1. r \in I /\ \A i \in I : r <= i
      BY <1>1, <1>2, <1>5, MinIs
    <2> HIDE DEF r, I
    <2>2. \A at \in Nat : at \in I /\ (\A i \in 1 .. at - 1 : i \notin I) => at = r
      <3> SUFFICES ASSUME NEW at \in Nat, at \in I, \A i \in 1 .. at - 1 : i \notin I
                   PROVE  at = r
        OBVIOUS
      <3>1. r \in 1 .. Len(ls)
        BY <2>1 DEF I
      <3> QED
        BY <2>1, <3>1, <1>0
    <2>3. \A i \in 1 .. r - 1 : i \notin I
      BY <2>1, <1>1
    <2> QED
      BY <2>1, <2>2, <2>3, <1>1, <1>3 DEF r
  <1> QED
    BY <1>4, <1>5

LEMMA KeyLookup ==
    ASSUME NEW S, NEW ls \in Seq(S), NEW at \in Nat, NEW key
    PROVE  /\ getKeyLineAtSec(ls, at, key) \in Nat
           /\ \A r \in Nat \ {0} : getKeyLineAtSec(ls, at, key) = r <=> KeyAt(ls, at, key, r)
  <1> DEFINE J == {i \in at + 1 .. Len(ls) : ls[i].type = "SECTION"}
             next == IF J # {} THEN Min(J) ELSE 0
             end == IF next = 0 THEN Len(ls) ELSE next - 1
             I == {i \in at + 1 .. end : KeyLine(ls[i], key)}
             r == getKeyLineAtSec(ls, at, key)
  <1>0. Len(ls) \in Nat
    BY LenProperties
  <1>1. r = IF I # {} THEN Min(I) ELSE 0
    BY DEF getKeyLineAtSec, SelectInSubSeq, KeyLine
  <1>2. /\ end \in Nat /\ end <= Len(ls)
        /\ \A i \in at + 1 .. Len(ls) : i <= end <=> \A j \in at + 1 .. i : j \notin J
    <2>1. CASE J = {}
      BY <2>1, <1>0
    <2>2. CASE J # {}
      <3>1. next \in J /\ \A j \in J : next <= j
        <4>1. J \in SUBSET Nat
          BY <1>0
        <4> HIDE DEF J
        <4> QED
          BY <2>2, <4>1, MinIs
      <3>2. /\ next \in at + 1 .. Len(ls)
            /\ \A j \in J : next <= j
        BY <3>1
      <3>3. end = next - 1
        BY <3>2
      <3> HIDE DEF next, end, J
      <3>4. \A i \in at + 1 .. Len(ls) : i <= end => \A j \in at + 1 .. i : j \notin J
        BY <3>2, <3>3, <1>0
      <3>5. \A i \in at + 1 .. Len(ls) : ~(i <= end) => next \in at + 1 .. i
        BY <3>2, <3>3, <1>0
      <3> QED
        BY <3>1, <3>2, <3>3, <3>4, <3>5, <1>0
    <2> QED
      BY <2>1, <2>2
  <1>3. \A q : KeyAt(ls, at, key, q) <=> q \in I /\ \A i \in at + 1 .. q - 1 : i \notin I
    <2> HIDE DEF end, next
    <2>1. \A q \in at + 1 .. Len(ls) :
             q <= end /\ KeyLine(ls[q], key)
               <=> KeyLine(ls[q], key) /\ \A i \in at + 1 .. q - 1 : ls[i].type # "SECTION"
      <3>1. \A q : KeyLine(ls[q], key) => ls[q].type # "SECTION"
        BY DEF KeyLine
      <3>2. \A q \in at + 1 .. Len(ls) : \A i \in at + 1 .. q :
               i \in at + 1 .. Len(ls) /\ (i = q \/ i \in at + 1 .. q - 1)
        BY <1>0
      <3>3. \A q \in at + 1 .. Len(ls) : \A i \in at + 1 .. q - 1 : i \in at + 1 .. q
        BY <1>0
      <3> QED
        BY <1>2, <3>1, <3>2, <3>3
    <2>2. \A q : q \in I <=> q \in at + 1 .. Len(ls) /\ q <= end /\ KeyLine(ls[q], key)
      BY <1>0, <1>2
    <2>3. \A q \in at + 1 .. Len(ls) : \A i \in at + 1 .. q - 1 : i \in at + 1 .. Len(ls)
      BY <1>0
    <2>4. \A q \in at + 1 .. Len(ls) : q <= end => \A i \in at + 1 .. q - 1 : i <= end
      BY <1>0, <1>2
    <2> HIDE DEF I
    <2> QED
      BY <2>1, <2>2, <2>3, <2>4 DEF KeyAt
  <1> HIDE DEF end, next, J
  <1>4. I \in SUBSET Nat /\ \A i \in I : i \in Nat \ {0} /\ at + 1 <= i
    BY <1>0, <1>2
  <1>5. CASE I = {}
    BY <1>1, <1>3, <1>5
  <1>6. CASE I # {}
    <2> HIDE DEF r, I
    <2>1. r \in I /\ \A i \in I : r <= i
      BY <1>1, <1>4, <1>6, MinIs
    <2>2. \A q \in I : (\A i \in at + 1 .. q - 1 : i \notin I) => q = r
      <3> SUFFICES ASSUME NEW q \in I, \A i \in at + 1 .. q - 1 : i \notin I
                   PROVE  q = r
        OBVIOUS
      <3>1. r \notin at + 1 .. q - 1 /\ r <= q
        BY <2>1
      <3> QED
        BY <2>1, <3>1, <1>4
    <2>3. \A i \in at + 1 .. r - 1 : i \notin I
      BY <2>1, <1>4
    <2>4. \A q \in Nat \ {0} : q = r => KeyAt(ls, at, key, q)
      BY <1>3, <2>1, <2>3
    <2>5. \A q : KeyAt(ls, at, key, q) => q = r
      BY <1>3, <2>2
    <2>6. r \in Nat
      BY <2>1, <1>4
    <2> QED
      BY <2>4, <2>5, <2>6 DEF r
  <1> QED
    BY <1>5, <1>6

\* A setting is where the section is, and in that the key.
Found(ls, section, key, r) ==
    \E at \in Nat \ {0} : SectionAt(ls, section, at) /\ KeyAt(ls, at, key, r)

LEMMA FoundLookup ==
    ASSUME NEW S, NEW ls \in Seq(S), NEW section, NEW key
    PROVE  /\ FoundAt(ls, section, key) \in Nat
           /\ \A r \in Nat \ {0} : FoundAt(ls, section, key) = r <=> Found(ls, section, key, r)
  <1> DEFINE at == getSection(ls, section)
  <1>1. /\ at \in Nat
        /\ \A i \in Nat \ {0} : at = i <=> SectionAt(ls, section, i)
    BY SectionLookup
  <1>2. FoundAt(ls, section, key) = IF at = 0 THEN 0 ELSE getKeyLineAtSec(ls, at, key)
    BY DEF FoundAt
  <1> HIDE DEF at
  <1>3. CASE at = 0
    BY <1>1, <1>2, <1>3 DEF Found
  <1>4. CASE at # 0
    <2>1. /\ getKeyLineAtSec(ls, at, key) \in Nat
          /\ \A r \in Nat \ {0} : getKeyLineAtSec(ls, at, key) = r <=> KeyAt(ls, at, key, r)
      BY <1>1, KeyLookup
    <2>2. \A r : Found(ls, section, key, r) <=> KeyAt(ls, at, key, r)
      BY <1>1, <1>4 DEF Found
    <2> QED
      BY <1>2, <1>4, <2>1, <2>2
  <1> QED
    BY <1>3, <1>4

LEMMA StringFound ==
    ASSUME NEW S, NEW ls \in Seq(S), NEW section, NEW key, NEW r \in Nat \ {0},
           Found(ls, section, key, r)
    PROVE  GetString(ls, section, key) = Value(ls[r])
  BY FoundLookup DEF GetString

LEMMA StringNotFound ==
    ASSUME NEW S, NEW ls \in Seq(S), NEW section, NEW key,
           \A r \in Nat \ {0} : ~Found(ls, section, key, r)
    PROVE  GetString(ls, section, key) = Default
  BY FoundLookup DEF GetString

\* Two files in which the same value is found, or none, tell the same.
SameFound(ls, ms, section, key) ==
    /\ \A r \in Nat \ {0} : Found(ls, section, key, r) =>
          \E q \in Nat \ {0} : Found(ms, section, key, q) /\ Value(ms[q]) = Value(ls[r])
    /\ \A q \in Nat \ {0} : Found(ms, section, key, q) =>
          \E r \in Nat \ {0} : Found(ls, section, key, r)

LEMMA SameString ==
    ASSUME NEW ls \in Seq(Line), NEW ms \in Seq(Line), NEW section, NEW key,
           SameFound(ls, ms, section, key)
    PROVE  GetString(ms, section, key) = GetString(ls, section, key)
  <1>1. CASE \E r \in Nat \ {0} : Found(ls, section, key, r)
    <2>1. PICK r \in Nat \ {0} : Found(ls, section, key, r)
      BY <1>1
    <2>2. PICK q \in Nat \ {0} : Found(ms, section, key, q) /\ Value(ms[q]) = Value(ls[r])
      BY <2>1 DEF SameFound
    <2> QED
      BY <2>1, <2>2, StringFound
  <1>2. CASE ~\E r \in Nat \ {0} : Found(ls, section, key, r)
    BY <1>2, StringNotFound DEF SameFound
  <1> QED
    BY <1>1, <1>2

-----------------------------------------------------------------------------
(***************************************************************************)
(* Lines.                                                                  *)
(***************************************************************************)

LEMMA Singleton ==
    ASSUME NEW S, NEW e \in S
    PROVE  <<e>> \in Seq(S) /\ Len(<<e>>) = 1 /\ <<e>>[1] = e
  OBVIOUS

LEMMA OneCharacter ==
    ASSUME NEW ch \in {"#", "[", "]", "=", " "}
    PROVE  ch \in Char /\ <<ch>> \in Seq(Char) /\ Len(<<ch>>) = 1 /\ <<ch>>[1] = ch
  <1>1. ch \in Char
    BY CharAssumption
  <1> QED
    BY <1>1, Singleton

LEMMA KeyTextIs ==
    ASSUME NEW key \in Seq(Char), NEW value \in Seq(Char)
    PROVE  /\ KeyText(key, value) \in Seq(Char)
           /\ Len(KeyText(key, value)) = Len(key) + 1 + Len(value)
           /\ \A i \in 1 .. Len(key) : KeyText(key, value)[i] = key[i]
           /\ KeyText(key, value)[Len(key) + 1] = "="
           /\ \A i \in 1 .. Len(value) : KeyText(key, value)[Len(key) + 1 + i] = value[i]
  <1>1. <<"=">> \in Seq(Char) /\ Len(<<"=">>) = 1 /\ <<"=">>[1] = "="
    BY OneCharacter
  <1>2. Len(key) \in Nat /\ Len(value) \in Nat
    BY LenProperties
  <1> DEFINE start == key \o <<"=">>
  <1>3. /\ start \in Seq(Char)
        /\ Len(start) = Len(key) + 1
        /\ \A i \in 1 .. Len(key) + 1 : start[i] = IF i <= Len(key) THEN key[i] ELSE <<"=">>[i - Len(key)]
    BY <1>1, ConcatProperties
  <1> HIDE DEF start
  <1>4. /\ start \o value \in Seq(Char)
        /\ Len(start \o value) = Len(start) + Len(value)
        /\ \A i \in 1 .. Len(start) + Len(value) :
              (start \o value)[i] = IF i <= Len(start) THEN start[i] ELSE value[i - Len(start)]
    BY <1>3, ConcatProperties
  <1>5. KeyText(key, value) = start \o value
    BY DEF KeyText, start
  <1>6. \A i \in 1 .. Len(key) : (start \o value)[i] = key[i]
    BY <1>2, <1>3, <1>4
  <1>7. (start \o value)[Len(key) + 1] = "="
    BY <1>1, <1>2, <1>3, <1>4
  <1>8. \A i \in 1 .. Len(value) : (start \o value)[Len(key) + 1 + i] = value[i]
    BY <1>2, <1>3, <1>4
  <1> QED
    BY <1>3, <1>4, <1>5, <1>6, <1>7, <1>8

LEMMA SectionTextIs ==
    ASSUME NEW section \in Seq(Char)
    PROVE  /\ SectionText(section) \in Seq(Char)
           /\ Len(SectionText(section)) = Len(section) + 2
           /\ SectionText(section)[1] = "["
           /\ \A i \in 1 .. Len(section) : SectionText(section)[i + 1] = section[i]
           /\ SectionText(section)[Len(section) + 2] = "]"
  <1>1. /\ <<"[">> \in Seq(Char) /\ Len(<<"[">>) = 1 /\ <<"[">>[1] = "["
        /\ <<"]">> \in Seq(Char) /\ Len(<<"]">>) = 1 /\ <<"]">>[1] = "]"
    BY OneCharacter
  <1>2. Len(section) \in Nat
    BY LenProperties
  <1> DEFINE start == <<"[">> \o section
  <1>3. /\ start \in Seq(Char)
        /\ Len(start) = 1 + Len(section)
        /\ \A i \in 1 .. 1 + Len(section) : start[i] = IF i <= 1 THEN <<"[">>[i] ELSE section[i - 1]
    BY <1>1, ConcatProperties
  <1> HIDE DEF start
  <1>4. /\ start \o <<"]">> \in Seq(Char)
        /\ Len(start \o <<"]">>) = Len(start) + 1
        /\ \A i \in 1 .. Len(start) + 1 :
              (start \o <<"]">>)[i] = IF i <= Len(start) THEN start[i] ELSE <<"]">>[i - Len(start)]
    BY <1>1, <1>3, ConcatProperties
  <1>5. SectionText(section) = start \o <<"]">>
    BY DEF SectionText, start
  <1>6. (start \o <<"]">>)[1] = "["
    BY <1>1, <1>2, <1>3, <1>4
  <1>7. \A i \in 1 .. Len(section) : (start \o <<"]">>)[i + 1] = section[i]
    BY <1>2, <1>3, <1>4
  <1>8. (start \o <<"]">>)[Len(section) + 2] = "]"
    BY <1>1, <1>2, <1>3, <1>4
  <1> QED
    BY <1>2, <1>3, <1>4, <1>5, <1>6, <1>7, <1>8

\* What a section is compared with.
LEMMA SectionTail ==
    ASSUME NEW section \in Seq(Char)
    PROVE  /\ Tail(SectionText(section)) \in Seq(Char)
           /\ Len(Tail(SectionText(section))) = Len(section) + 1
           /\ \A i \in 1 .. Len(section) : Tail(SectionText(section))[i] = section[i]
  <1> DEFINE text == SectionText(section)
  <1>1. /\ text \in Seq(Char) /\ Len(text) = Len(section) + 2
        /\ \A i \in 1 .. Len(section) : text[i + 1] = section[i]
    BY SectionTextIs
  <1>2. Len(section) \in Nat
    BY LenProperties
  <1> HIDE DEF text
  <1>3. text # <<>>
    BY <1>1, <1>2
  <1>4. /\ Tail(text) \in Seq(Char) /\ Len(Tail(text)) = Len(text) - 1
        /\ \A i \in 1 .. Len(Tail(text)) : Tail(text)[i] = text[i + 1]
    BY <1>1, <1>3, HeadTailProperties
  <1>5. \A i \in 1 .. Len(section) : Tail(text)[i] = section[i]
    BY <1>1, <1>2, <1>4
  <1> QED
    BY <1>1, <1>2, <1>4, <1>5 DEF text

LEMMA BufferIs ==
    ASSUME NEW line \in Line
    PROVE  /\ Len(line.text) \in Nat /\ Len(line.rest) \in Nat
           /\ Buffer(line) \in Seq(Char \cup {NUL})
           /\ Len(Buffer(line)) = Len(line.text) + 1 + Len(line.rest)
           /\ Len(line.text) + 1 \in 1 .. Len(Buffer(line))
           /\ \A i \in 1 .. Len(line.text) : Buffer(line)[i] = line.text[i]
           /\ Buffer(line)[Len(line.text) + 1] = NUL
  <1> DEFINE C == Char \cup {NUL}
             start == line.text \o <<NUL>>
  <1>1. line.text \in Seq(C) /\ line.rest \in Seq(C) /\ line.text \in Seq(Char)
    BY SeqMonotonic DEF Line
  <1>2. Len(line.text) \in Nat /\ Len(line.rest) \in Nat
    BY <1>1, LenProperties
  <1>3. <<NUL>> \in Seq(C) /\ Len(<<NUL>>) = 1 /\ <<NUL>>[1] = NUL
    OBVIOUS
  <1> HIDE DEF C
  <1>4. /\ start \in Seq(C)
        /\ Len(start) = Len(line.text) + 1
        /\ \A i \in 1 .. Len(line.text) + 1 :
              start[i] = IF i <= Len(line.text) THEN line.text[i] ELSE <<NUL>>[i - Len(line.text)]
    BY <1>1, <1>3, ConcatProperties
  <1> HIDE DEF start
  <1>5. /\ start \o line.rest \in Seq(C)
        /\ Len(start \o line.rest) = Len(start) + Len(line.rest)
        /\ \A i \in 1 .. Len(start) + Len(line.rest) :
              (start \o line.rest)[i] = IF i <= Len(start) THEN start[i] ELSE line.rest[i - Len(start)]
    BY <1>1, <1>4, ConcatProperties
  <1>6. Buffer(line) = start \o line.rest
    BY DEF Buffer, start
  <1>7. \A i \in 1 .. Len(line.text) : (start \o line.rest)[i] = line.text[i]
    BY <1>2, <1>4, <1>5
  <1>8. (start \o line.rest)[Len(line.text) + 1] = NUL
    BY <1>2, <1>3, <1>4, <1>5
  <1>9. \A n, m, l \in Nat : l = n + 1 + m => n + 1 \in 1 .. l
    OBVIOUS
  <1>10. Len(Buffer(line)) \in Nat
    BY <1>5, <1>6, LenProperties
  <1>11. Len(Buffer(line)) = Len(line.text) + 1 + Len(line.rest)
    BY <1>4, <1>5, <1>6
  <1>12. Len(line.text) + 1 \in 1 .. Len(Buffer(line))
    BY <1>2, <1>9, <1>10, <1>11
  <1> QED
    BY <1>2, <1>5, <1>6, <1>7, <1>8, <1>11, <1>12 DEF C

LEMMA TextInBuffer ==
    ASSUME NEW line \in Line, line.value <= Len(line.text) + 1
    PROVE  line.value <= Len(Buffer(line))
  <1>1. Len(line.text) + 1 \in 1 .. Len(Buffer(line)) /\ Len(line.text) \in Nat
    BY BufferIs
  <1>2. \A v, n, m \in Nat : v <= n + 1 /\ n + 1 \in 1 .. m => v <= m
    OBVIOUS
  <1>3. line.value \in Nat /\ Len(Buffer(line)) \in Nat
    BY BufferIs, LenProperties DEF Line
  <1> QED
    BY <1>1, <1>2, <1>3

\* A value that begins in the text, or behind it, ends with the text.
LEMMA ValueIs ==
    ASSUME NEW line \in Line, line.value <= Len(line.text) + 1
    PROVE  Value(line) = SubSeq(line.text, line.value, Len(line.text))
  <1> DEFINE b == Buffer(line)
             n == Len(line.text)
             v == line.value
             I == {i \in v .. Len(b) : b[i] = NUL}
             end == IF I # {} THEN Min(I) ELSE 0
  <1>1. /\ n \in Nat /\ b \in Seq(Char \cup {NUL}) /\ Len(b) \in Nat /\ n + 1 <= Len(b)
        /\ \A i \in 1 .. n : b[i] = line.text[i]
        /\ b[n + 1] = NUL
    <2>1. /\ n \in Nat /\ b \in Seq(Char \cup {NUL})
          /\ n + 1 \in 1 .. Len(b)
          /\ \A i \in 1 .. n : b[i] = line.text[i]
          /\ b[n + 1] = NUL
      BY BufferIs
    <2> HIDE DEF b, n, v
    <2>2. Len(b) \in Nat /\ n + 1 <= Len(b)
      BY <2>1, LenProperties
    <2> QED
      BY <2>1, <2>2
  <1>2. v \in Nat /\ 1 <= v /\ v <= n + 1 /\ line.text \in Seq(Char)
    BY DEF Line
  <1>3. Value(line) = SubSeq(b, v, IF end = 0 THEN Len(b) ELSE end - 1)
    BY DEF Value, SelectInSubSeq
  <1> HIDE DEF b, n, v
  <1>4. \A i \in 1 .. n : line.text[i] # NUL
    BY <1>2, ElementOfSeq, CharAssumption DEF n
  <1>5. I \in SUBSET Nat /\ n + 1 \in I /\ \A i \in I : i >= n + 1
    BY <1>1, <1>2, <1>4
  <1>6. end = n + 1
    <2> HIDE DEF I
    <2>1. end \in I /\ \A i \in I : end <= i
      BY <1>5, MinIs
    <2> HIDE DEF end
    <2>2. end \in Nat /\ end <= n + 1 /\ end >= n + 1
      BY <1>5, <2>1
    <2> QED
      BY <1>1, <2>2
  <1> HIDE DEF end, I
  <1>7. Value(line) = SubSeq(b, v, n)
    <2>1. end # 0 /\ end - 1 = n
      BY <1>1, <1>6
    <2> QED
      BY <1>3, <2>1
  <1>8. /\ SubSeq(b, v, n) \in Seq(Char \cup {NUL})
        /\ Len(SubSeq(b, v, n)) = n - v + 1
        /\ \A i \in 1 .. n - v + 1 : SubSeq(b, v, n)[i] = b[v + i - 1]
    BY <1>1, <1>2
  <1>9. /\ SubSeq(line.text, v, n) \in Seq(Char)
        /\ Len(SubSeq(line.text, v, n)) = n - v + 1
        /\ \A i \in 1 .. n - v + 1 : SubSeq(line.text, v, n)[i] = line.text[v + i - 1]
    BY <1>1, <1>2 DEF n
  <1>10. SubSeq(line.text, v, n) \in Seq(Char \cup {NUL})
    BY <1>9, SeqMonotonic
  <1>11. \A i \in 1 .. n - v + 1 : b[v + i - 1] = line.text[v + i - 1]
    BY <1>1, <1>2
  <1>12. SubSeq(b, v, n) = SubSeq(line.text, v, n)
    BY <1>8, <1>9, <1>10, <1>11, SeqEqual
  <1> QED
    BY <1>7, <1>12 DEF v, n

LEMMA EqualsIs ==
    ASSUME NEW S, NEW text \in Seq(S)
    PROVE  /\ EqualsAt(text) \in 0 .. Len(text)
           /\ EqualsAt(text) # 0 <=> Contains(text, "=")
           /\ \A p \in 1 .. Len(text) :
                 EqualsAt(text) = p <=> text[p] = "=" /\ \A i \in 1 .. p - 1 : text[i] # "="
  <1> DEFINE I == {i \in 1 .. Len(text) : text[i] = "="}
             r == EqualsAt(text)
  <1>0. Len(text) \in Nat
    BY LenProperties
  <1>1. r = IF I # {} THEN Min(I) ELSE 0
    BY DEF EqualsAt, SelectInSeq
  <1>2. Contains(text, "=") <=> I # {}
    BY DEF Contains
  <1>3. CASE I = {}
    BY <1>0, <1>1, <1>2, <1>3
  <1>4. CASE I # {}
    <2>1. I \in SUBSET Nat
      BY <1>0
    <2>2. r \in I /\ \A i \in I : r <= i
      <3> HIDE DEF I
      <3> QED
        BY <1>1, <1>4, <2>1, MinIs
    <2> HIDE DEF r
    <2>3. \A p \in 1 .. Len(text) : text[p] = "=" /\ (\A i \in 1 .. p - 1 : text[i] # "=") => p = r
      <3> SUFFICES ASSUME NEW p \in 1 .. Len(text), text[p] = "=",
                          \A i \in 1 .. p - 1 : text[i] # "="
                   PROVE  p = r
        OBVIOUS
      <3>1. r \notin 1 .. p - 1 /\ r <= p
        BY <2>2
      <3> QED
        BY <2>2, <3>1, <1>0
    <2>4. \A i \in 1 .. r - 1 : text[i] # "="
      BY <2>2, <1>0
    <2>5. r \in 0 .. Len(text) /\ r # 0
      BY <2>2, <1>0
    <2>6. text[r] = "="
      BY <2>2
    <2> HIDE DEF I
    <2>7. \A p \in 1 .. Len(text) :
             r = p <=> text[p] = "=" /\ \A i \in 1 .. p - 1 : text[i] # "="
      BY <2>3, <2>4, <2>6
    <2> QED
      BY <1>2, <1>4, <2>5, <2>7 DEF r
  <1> QED
    BY <1>3, <1>4

LEMMA LineTypeIs ==
    ASSUME NEW text
    PROVE  /\ getLineType(text) \in LineType
           /\ getLineType(text) = "SECTION" <=>
                 ~Contains(text, "#") /\ Contains(text, "[") /\ Contains(text, "]")
           /\ getLineType(text) = "KEY" <=>
                 /\ ~Contains(text, "#") /\ ~(Contains(text, "[") /\ Contains(text, "]"))
                 /\ Contains(text, "=")
  <1>1. /\ Contains(text, "#") \in BOOLEAN /\ Contains(text, "[") \in BOOLEAN
        /\ Contains(text, "]") \in BOOLEAN /\ Contains(text, "=") \in BOOLEAN
    BY DEF Contains
  <1> QED
    BY <1>1 DEF getLineType, LineType

LEMMA NewLineIs ==
    ASSUME NEW type \in LineType, NEW text \in Seq(Char)
    PROVE  /\ NewLine(type, text) \in Line
           /\ NewLine(type, text).type = type
           /\ NewLine(type, text).text = text
           /\ type = "KEY" => NewLine(type, text).value = EqualsAt(text) + 1
           /\ NewLine(type, text).value <= Len(text) + 1
  <1>1. Len(text) \in Nat /\ EqualsAt(text) \in 0 .. Len(text)
    BY EqualsIs, LenProperties
  <1>2. <<>> \in Seq(Char \cup {NUL})
    BY EmptySeq
  <1>3. CASE type = "KEY"
    <2>1. NewLine(type, text) = [type |-> type, text |-> text, rest |-> <<>>, value |-> EqualsAt(text) + 1]
      BY <1>3 DEF NewLine
    <2>2. EqualsAt(text) + 1 \in Nat \ {0} /\ EqualsAt(text) + 1 <= Len(text) + 1
      BY <1>1
    <2> QED
      BY <1>2, <2>1, <2>2 DEF Line
  <1>4. CASE type # "KEY"
    <2>1. NewLine(type, text) = [type |-> type, text |-> text, rest |-> <<>>, value |-> 1]
      BY <1>4 DEF NewLine
    <2>2. 1 \in Nat \ {0} /\ 1 <= Len(text) + 1
      BY <1>1
    <2> QED
      BY <1>2, <1>4, <2>1, <2>2 DEF Line
  <1> QED
    BY <1>3, <1>4

LEMMA NewKeyLineIs ==
    ASSUME NEW key \in Seq(Char), NEW value \in Seq(Char)
    PROVE  /\ NewKeyLine(key, value) \in Line
           /\ NewKeyLine(key, value).type = "KEY"
           /\ NewKeyLine(key, value).text = KeyText(key, value)
           /\ NewKeyLine(key, value).value = Len(key) + 2
           /\ NewKeyLine(key, value).value <= Len(KeyText(key, value)) + 1
  <1>1. <<>> \in Seq(Char \cup {NUL}) /\ Len(key) \in Nat /\ Len(value) \in Nat
    BY EmptySeq, LenProperties
  <1>2. KeyText(key, value) \in Seq(Char) /\ Len(KeyText(key, value)) = Len(key) + 1 + Len(value)
    BY KeyTextIs
  <1>3. Len(key) + 2 \in Nat \ {0} /\ Len(key) + 2 <= (Len(key) + 1 + Len(value)) + 1
    BY <1>1
  <1> QED
    BY <1>1, <1>2, <1>3 DEF NewKeyLine, Line, LineType

\* The value pointer stays in the buffer that is written over.
LEMMA OverwriteIs ==
    ASSUME NEW line \in Line, line.value <= Len(Buffer(line)), NEW text \in Seq(Char)
    PROVE  /\ Overwrite(line, text) \in Line
           /\ Overwrite(line, text).type = line.type
           /\ Overwrite(line, text).text = text
           /\ Overwrite(line, text).value = line.value
           /\ Overwrite(line, text).value <= Len(Buffer(Overwrite(line, text)))
  <1> DEFINE b == Buffer(line)
             rest == SubSeq(b, Len(text) + 2, Len(b))
             new == Overwrite(line, text)
  <1>1. Len(text) \in Nat /\ b \in Seq(Char \cup {NUL}) /\ Len(b) \in Nat
    BY BufferIs, LenProperties
  <1> HIDE DEF b
  <1>2. \A i \in Len(text) + 2 .. Len(b) : b[i] \in Char \cup {NUL}
    BY <1>1, ElementOfSeq
  <1>3. /\ rest \in Seq(Char \cup {NUL})
        /\ Len(rest) = IF Len(text) + 2 <= Len(b) THEN Len(b) - (Len(text) + 2) + 1 ELSE 0
    <2>1. Len(text) + 2 \in Int /\ Len(b) \in Int
      BY <1>1
    <2> QED
      BY <1>2, <2>1, SubSeqProperties
  <1>4. /\ new \in Line /\ new.type = line.type /\ new.text = text /\ new.value = line.value
        /\ new.rest = rest
    BY <1>3 DEF Overwrite, Line, b
  <1>5. Len(b) <= Len(text) + 1 + Len(rest)
    <2>1. \A l, m \in Nat : m <= l + 1 + (IF l + 2 <= m THEN m - (l + 2) + 1 ELSE 0)
      OBVIOUS
    <2> QED
      BY <2>1, <1>1, <1>3
  <1>6. Len(Buffer(new)) = Len(text) + 1 + Len(rest)
    BY <1>4, BufferIs
  <1>7. line.value \in Nat /\ line.value <= Len(b)
    BY DEF Line, b
  <1>8. Len(rest) \in Nat
    BY <1>3, LenProperties
  <1> HIDE DEF rest
  <1>9. line.value <= Len(text) + 1 + Len(rest)
    BY <1>1, <1>5, <1>7, <1>8
  <1> QED
    BY <1>4, <1>6, <1>9

-----------------------------------------------------------------------------
(***************************************************************************)
(* Setting: what a new line does to the indices of the others.             *)
(***************************************************************************)

LEMMA InsertSectionIs ==
    ASSUME NEW S, NEW ls \in Seq(S), NEW line \in S
    PROVE  /\ InsertSection(ls, line) \in Seq(S)
           /\ Len(InsertSection(ls, line)) = Len(ls) + 1
           /\ InsertSection(ls, line)[1] = line
           /\ \A i \in 1 .. Len(ls) : InsertSection(ls, line)[i + 1] = ls[i]
  <1>1. <<line>> \in Seq(S) /\ Len(<<line>>) = 1 /\ <<line>>[1] = line
    BY Singleton
  <1>2. Len(ls) \in Nat
    BY LenProperties
  <1>3. /\ <<line>> \o ls \in Seq(S)
        /\ Len(<<line>> \o ls) = 1 + Len(ls)
        /\ \A i \in 1 .. 1 + Len(ls) :
              (<<line>> \o ls)[i] = IF i <= 1 THEN <<line>>[i] ELSE ls[i - 1]
    BY <1>1, ConcatProperties
  <1>4. (<<line>> \o ls)[1] = line
    BY <1>1, <1>2, <1>3
  <1>5. \A i \in 1 .. Len(ls) : (<<line>> \o ls)[i + 1] = ls[i]
    BY <1>2, <1>3
  <1> QED
    BY <1>2, <1>3, <1>4, <1>5 DEF InsertSection

LEMMA InsertKeyLineIs ==
    ASSUME NEW S, NEW ls \in Seq(S), NEW at \in 1 .. Len(ls), NEW line \in S
    PROVE  /\ InsertKeyLine(ls, at, line) \in Seq(S)
           /\ Len(InsertKeyLine(ls, at, line)) = Len(ls) + 1
           /\ \A i \in 1 .. at : InsertKeyLine(ls, at, line)[i] = ls[i]
           /\ InsertKeyLine(ls, at, line)[at + 1] = line
           /\ \A i \in at + 1 .. Len(ls) : InsertKeyLine(ls, at, line)[i + 1] = ls[i]
  <1> DEFINE n == Len(ls)
             front == SubSeq(ls, 1, at)
             back == SubSeq(ls, at + 1, n)
             start == front \o <<line>>
             new == start \o back
  <1>1. /\ <<line>> \in Seq(S) /\ Len(<<line>>) = 1 /\ <<line>>[1] = line
        /\ n \in Nat /\ at \in Nat /\ at <= n
    BY Singleton, LenProperties
  <1>2. \A i \in 1 .. n : ls[i] \in S
    BY ElementOfSeq
  <1> HIDE DEF n
  <1>3. /\ front \in Seq(S) /\ Len(front) = at
        /\ \A i \in 1 .. at : front[i] = ls[i]
    <2>1. \A i \in 1 .. at : ls[i] \in S
      BY <1>1, <1>2
    <2>2. /\ front \in Seq(S)
          /\ Len(front) = IF 1 <= at THEN at - 1 + 1 ELSE 0
          /\ \A i \in 1 .. at - 1 + 1 : front[i] = ls[1 + i - 1]
      BY <2>1, <1>1, SubSeqProperties
    <2> HIDE DEF front
    <2> QED
      BY <2>2, <1>1
  <1>4. /\ back \in Seq(S) /\ Len(back) = n - at
        /\ \A i \in 1 .. n - at : back[i] = ls[at + i]
    <2>1. \A i \in at + 1 .. n : ls[i] \in S
      BY <1>1, <1>2
    <2>2. /\ back \in Seq(S)
          /\ Len(back) = IF at + 1 <= n THEN n - (at + 1) + 1 ELSE 0
          /\ \A i \in 1 .. n - (at + 1) + 1 : back[i] = ls[(at + 1) + i - 1]
      BY <2>1, <1>1, SubSeqProperties
    <2> HIDE DEF back
    <2> QED
      BY <2>2, <1>1
  <1> HIDE DEF front, back
  <1>5. /\ start \in Seq(S) /\ Len(start) = at + 1
        /\ \A i \in 1 .. at : start[i] = ls[i]
        /\ start[at + 1] = line
    <2>1. /\ start \in Seq(S) /\ Len(start) = at + 1
          /\ \A i \in 1 .. at + 1 : start[i] = IF i <= at THEN front[i] ELSE <<line>>[i - at]
      BY <1>1, <1>3, ConcatProperties
    <2> HIDE DEF start
    <2> QED
      BY <2>1, <1>1, <1>3
  <1> HIDE DEF start
  <1>6. /\ new \in Seq(S) /\ Len(new) = (at + 1) + (n - at)
        /\ \A i \in 1 .. (at + 1) + (n - at) :
              new[i] = IF i <= at + 1 THEN start[i] ELSE back[i - (at + 1)]
    <2>1. /\ new \in Seq(S) /\ Len(new) = Len(start) + Len(back)
          /\ \A i \in 1 .. Len(start) + Len(back) :
                new[i] = IF i <= Len(start) THEN start[i] ELSE back[i - Len(start)]
      BY <1>4, <1>5, ConcatProperties
    <2> HIDE DEF new
    <2> QED
      BY <2>1, <1>4, <1>5
  <1>7. InsertKeyLine(ls, at, line) = new
    <2>1. (at + 1) - 1 = at
      BY <1>1
    <2> QED
      BY <2>1 DEF InsertKeyLine, InsertAt, new, start, front, back, n
  <1> HIDE DEF new
  <1>8. Len(new) = n + 1
    BY <1>1, <1>6
  <1>9. \A i \in 1 .. at : new[i] = ls[i]
    BY <1>1, <1>5, <1>6
  <1>10. new[at + 1] = line
    BY <1>1, <1>5, <1>6
  <1>11. \A i \in at + 1 .. n : new[i + 1] = ls[i]
    <2> TAKE i \in at + 1 .. n
    <2>1. i + 1 \in 1 .. (at + 1) + (n - at) /\ ~(i + 1 <= at + 1) /\ (i + 1) - (at + 1) \in 1 .. n - at
          /\ at + ((i + 1) - (at + 1)) = i
      BY <1>1
    <2> QED
      BY <2>1, <1>4, <1>6
  <1> QED
    BY <1>6, <1>7, <1>8, <1>9, <1>10, <1>11 DEF n

-----------------------------------------------------------------------------
(***************************************************************************)
(* Loading: the text of a line without its blanks.                         *)
(***************************************************************************)

\* The characters of a text that are kept, and how many of them there are up to
\* an index.
Kept(text)    == {i \in DOMAIN text : text[i] # " "}
Rank(text, i) == Cardinality({j \in Kept(text) : j <= i})

LEMMA UpTo ==
    ASSUME NEW n \in Nat
    PROVE  IsFiniteSet(1 .. n) /\ Cardinality(1 .. n) = n
  <1>1. 1 \in Int /\ n \in Int
    OBVIOUS
  <1>2. IsFiniteSet(1 .. n) /\ Cardinality(1 .. n) = IF 1 > n THEN 0 ELSE n - 1 + 1
    BY <1>1, FS_Interval
  <1>3. (IF 1 > n THEN 0 ELSE n - 1 + 1) = n
    OBVIOUS
  <1> QED
    BY <1>2, <1>3

LEMMA UpToPart ==
    ASSUME NEW n \in Nat, NEW i \in 1 .. n
    PROVE  Cardinality({j \in 1 .. n : j <= i}) = i
  <1>1. {j \in 1 .. n : j <= i} = 1 .. i
    OBVIOUS
  <1>2. i \in Nat
    OBVIOUS
  <1> QED
    BY <1>1, <1>2, UpTo

LEMMA KeptFinite ==
    ASSUME NEW S, NEW text \in Seq(S)
    PROVE  /\ IsFiniteSet(Kept(text)) /\ Cardinality(Kept(text)) \in Nat
           /\ Kept(text) \subseteq 1 .. Len(text)
           /\ \A i : /\ IsFiniteSet({j \in Kept(text) : j <= i})
                     /\ Rank(text, i) \in 0 .. Cardinality(Kept(text))
  <1>1. Len(text) \in Nat /\ DOMAIN text = 1 .. Len(text)
    BY LenProperties
  <1>2. IsFiniteSet(1 .. Len(text)) /\ Kept(text) \in SUBSET (1 .. Len(text))
    BY <1>1, UpTo DEF Kept
  <1>3. IsFiniteSet(Kept(text))
    BY <1>2, FS_Subset
  <1>4. Cardinality(Kept(text)) \in Nat
    BY <1>3, FS_CardinalityType
  <1>5. ASSUME NEW i PROVE /\ IsFiniteSet({j \in Kept(text) : j <= i})
                           /\ Rank(text, i) \in 0 .. Cardinality(Kept(text))
    <2> DEFINE T == {j \in Kept(text) : j <= i}
    <2>1. T \in SUBSET Kept(text)
      OBVIOUS
    <2> HIDE DEF T
    <2>2. IsFiniteSet(T) /\ Cardinality(T) <= Cardinality(Kept(text))
      BY <2>1, <1>3, FS_Subset
    <2>3. Cardinality(T) \in Nat
      BY <2>2, FS_CardinalityType
    <2>4. Rank(text, i) = Cardinality(T)
      BY DEF Rank, T
    <2>5. Rank(text, i) \in 0 .. Cardinality(Kept(text))
      BY <1>4, <2>2, <2>3, <2>4
    <2> QED
      BY <2>2, <2>5 DEF T
  <1> QED
    BY <1>2, <1>3, <1>4, <1>5

\* Every number up to that of the characters kept is the rank of one of them.
LEMMA RankOnto ==
    ASSUME NEW S, NEW text \in Seq(S), NEW n \in 1 .. Cardinality(Kept(text))
    PROVE  \E i \in Kept(text) : Rank(text, i) = n
  <1> DEFINE K == Kept(text)
             N == Cardinality(K)
             f == [i \in K |-> Rank(text, i)]
  <1>1. /\ IsFiniteSet(K) /\ N \in Nat /\ K \subseteq 1 .. Len(text) /\ Len(text) \in Nat
        /\ \A i : /\ IsFiniteSet({j \in K : j <= i})
                  /\ Rank(text, i) \in 0 .. N
    BY KeptFinite, LenProperties
  <1>2. \A i \in K : i \in Nat
    BY <1>1
  <1> HIDE DEF K, N
  <1>3. \A i \in K : Rank(text, i) \in 1 .. N
    <2> TAKE i \in K
    <2>1. i \in {j \in K : j <= i}
      BY <1>2
    <2>2. Cardinality({j \in K : j <= i}) # 0
      BY <1>1, <2>1, FS_EmptySet
    <2>3. Rank(text, i) # 0 /\ Rank(text, i) \in 0 .. N
      BY <1>1, <2>2 DEF Rank, K
    <2>4. \A r \in 0 .. N : r # 0 => r \in 1 .. N
      BY <1>1
    <2> QED
      BY <2>3, <2>4
  <1>4. \A i, k \in K : i < k => Rank(text, i) # Rank(text, k)
    <2> SUFFICES ASSUME NEW i \in K, NEW k \in K, i < k, Rank(text, i) = Rank(text, k)
                 PROVE  FALSE
      OBVIOUS
    <2> DEFINE A == {j \in K : j <= i}
               B == {j \in K : j <= k}
    <2>1. A \in SUBSET B
      BY <1>2
    <2>2. k \in B /\ k \notin A
      BY <1>2
    <2>3. IsFiniteSet(B) /\ Cardinality(A) = Cardinality(B)
      BY <1>1 DEF Rank, K
    <2> HIDE DEF A, B
    <2>4. A = B
      BY <2>1, <2>3, FS_Subset
    <2> QED
      BY <2>2, <2>4
  <1>5. \A i, k \in K : Rank(text, i) = Rank(text, k) => i = k
    BY <1>2, <1>4
  <1>6. f \in Injection(K, 1 .. N)
    BY <1>3, <1>5 DEF Injection, IsInjective
  <1>7. IsFiniteSet(1 .. N) /\ Cardinality(1 .. N) = N
    BY <1>1, UpTo
  <1> HIDE DEF f
  <1>8. f \in Surjection(K, 1 .. N)
    BY <1>6, <1>7, FS_Injection DEF N
  <1>9. n \in 1 .. N
    BY DEF N, K
  <1>10. \E i \in K : f[i] = n
    BY <1>8, <1>9 DEF Surjection
  <1> QED
    BY <1>10 DEF f, K

\* What is left is a text without blanks,
LEMMA TrimIs ==
    ASSUME NEW S, NEW text \in Seq(S)
    PROVE  allTrim(text) \in Seq(S) /\ ~Contains(allTrim(text), " ")
  <1> DEFINE N == Cardinality(Kept(text))
             At(n) == CHOOSE i \in Kept(text) : Rank(text, i) = n
             t == [n \in 1 .. N |-> text[At(n)]]
  <1>1. \A n \in 1 .. N : At(n) \in Kept(text) /\ Rank(text, At(n)) = n
    BY RankOnto
  <1>2. allTrim(text) = t
    BY DEF allTrim, Kept, Rank
  <1>3. N \in Nat /\ Kept(text) \subseteq 1 .. Len(text)
    BY KeptFinite
  <1>4. \A n \in 1 .. N : text[At(n)] \in S /\ text[At(n)] # " "
    <2> TAKE n \in 1 .. N
    <2> HIDE DEF At
    <2>1. At(n) \in 1 .. Len(text) /\ text[At(n)] # " "
      BY <1>1, <1>3 DEF Kept
    <2> QED
      BY <2>1, ElementOfSeq
  <1> HIDE DEF At, N
  <1>5. t \in Seq(S) /\ Len(t) = N
    <2>1. t \in [1 .. N -> S]
      BY <1>4
    <2>2. t \in Seq(S)
      BY <1>3, <2>1, SeqDef
    <2> HIDE DEF t
    <2> QED
      BY <1>3, <2>1, <2>2
  <1>6. ~Contains(t, " ")
    BY <1>4, <1>5 DEF Contains
  <1> QED
    BY <1>2, <1>5, <1>6

\* ... which is the text itself when it has none.
LEMMA TrimNothing ==
    ASSUME NEW S, NEW text \in Seq(S), ~Contains(text, " ")
    PROVE  allTrim(text) = text
  <1> DEFINE l == Len(text)
             N == Cardinality(Kept(text))
             At(n) == CHOOSE i \in Kept(text) : Rank(text, i) = n
             t == [n \in 1 .. N |-> text[At(n)]]
  <1>1. l \in Nat /\ DOMAIN text = 1 .. l
    BY LenProperties
  <1>2. Kept(text) = 1 .. l
    BY <1>1 DEF Kept, Contains
  <1>3. N = l
    BY <1>1, <1>2, UpTo
  <1> HIDE DEF l
  <1>4. \A i \in 1 .. l : Rank(text, i) = i
    <2> TAKE i \in 1 .. l
    <2>1. Cardinality({j \in 1 .. l : j <= i}) = i
      BY <1>1, UpToPart
    <2> QED
      BY <1>2, <2>1 DEF Rank
  <1>5. \A n \in 1 .. N : At(n) = n
    <2> TAKE n \in 1 .. N
    <2>1. At(n) \in Kept(text) /\ Rank(text, At(n)) = n
      BY RankOnto
    <2> HIDE DEF At
    <2> QED
      BY <2>1, <1>2, <1>4
  <1>6. allTrim(text) = t
    BY DEF allTrim, Kept, Rank
  <1> HIDE DEF At, N
  <1>7. t = [n \in 1 .. l |-> text[n]]
    BY <1>3, <1>5
  <1>8. text = [n \in 1 .. l |-> text[n]]
    BY <1>1, LenProperties
  <1> QED
    BY <1>6, <1>7, <1>8

LEMMA LoadIs ==
    ASSUME NEW f \in Seq(Seq(Char))
    PROVE  /\ LoadFromFile(f) \in Seq(Line)
           /\ Len(LoadFromFile(f)) = Len(f)
           /\ \A i \in 1 .. Len(f) :
                 /\ allTrim(f[i]) \in Seq(Char) /\ ~Contains(allTrim(f[i]), " ")
                 /\ LoadFromFile(f)[i] = NewLine(getLineType(allTrim(f[i])), allTrim(f[i]))
                 /\ LoadFromFile(f)[i] \in Line
  <1> DEFINE line(i) == NewLine(getLineType(allTrim(f[i])), allTrim(f[i]))
             ls == [i \in 1 .. Len(f) |-> line(i)]
  <1>1. Len(f) \in Nat /\ DOMAIN f = 1 .. Len(f)
    BY LenProperties
  <1>2. ASSUME NEW i \in 1 .. Len(f)
        PROVE  /\ allTrim(f[i]) \in Seq(Char) /\ ~Contains(allTrim(f[i]), " ")
               /\ line(i) \in Line
    <2>1. f[i] \in Seq(Char)
      BY ElementOfSeq
    <2>2. allTrim(f[i]) \in Seq(Char) /\ ~Contains(allTrim(f[i]), " ")
      BY <2>1, TrimIs
    <2>3. getLineType(allTrim(f[i])) \in LineType
      BY LineTypeIs
    <2> QED
      BY <2>2, <2>3, NewLineIs
  <1>3. LoadFromFile(f) = ls
    BY <1>1 DEF LoadFromFile
  <1> HIDE DEF line
  <1>4. ls \in [1 .. Len(f) -> Line] /\ \A i \in 1 .. Len(f) : ls[i] = line(i)
    BY <1>2
  <1>5. ls \in Seq(Line)
    BY <1>1, <1>4, SeqDef
  <1> HIDE DEF ls
  <1>6. Len(ls) = Len(f)
    BY <1>1, <1>4, <1>5
  <1> QED
    BY <1>2, <1>3, <1>4, <1>5, <1>6 DEF line

\* The lines and their value pointers.
LinesOK(ls) == ls \in Seq(Line) /\ \A i \in 1 .. Len(ls) : LineOK(ls[i])

LEMMA LineBegins ==
    ASSUME NEW line \in Line, line.value <= Len(line.text) + 1, line.text # <<>>
    PROVE  LineOK(line)
  BY TextInBuffer DEF LineOK

\* The texts that are set are not empty.
LEMMA TextsBegin ==
    ASSUME NEW s \in Seq(Char), NEW k \in Seq(Char), NEW v \in Seq(Char)
    PROVE  SectionText(s) # <<>> /\ KeyText(k, v) # <<>>
  <1>1. Len(s) \in Nat /\ Len(k) \in Nat /\ Len(v) \in Nat
    BY LenProperties
  <1>2. SectionText(s) # <<>>
    <2>1. Len(SectionText(s)) # 0
      BY <1>1, SectionTextIs
    <2> QED
      BY <2>1, EmptySeq
  <1>3. KeyText(k, v) # <<>>
    <2>1. Len(KeyText(k, v)) # 0
      BY <1>1, KeyTextIs
    <2> QED
      BY <2>1, EmptySeq
  <1> QED
    BY <1>2, <1>3

LEMMA LoadOK ==
    ASSUME NEW f \in Seq(Seq(Char))
    PROVE  LinesOK(LoadFromFile(f))
  <1> DEFINE ls == LoadFromFile(f)
  <1>1. /\ ls \in Seq(Line) /\ Len(ls) = Len(f)
        /\ \A i \in 1 .. Len(f) :
              /\ allTrim(f[i]) \in Seq(Char)
              /\ ls[i] = NewLine(getLineType(allTrim(f[i])), allTrim(f[i]))
              /\ ls[i] \in Line
    BY LoadIs
  <1> HIDE DEF ls
  <1>2. ASSUME NEW i \in 1 .. Len(f) PROVE LineOK(ls[i])
    <2>1. getLineType(allTrim(f[i])) \in LineType
      BY LineTypeIs
    <2>2. /\ ls[i].text = allTrim(f[i]) /\ ls[i].type = getLineType(allTrim(f[i]))
          /\ ls[i].value <= Len(ls[i].text) + 1
      BY <1>1, <2>1, NewLineIs
    <2>3. ls[i].type = "SECTION" => ls[i].text # <<>>
      <3>1. Len(<<>>) = 0 /\ ~Contains(<<>>, "[")
        BY DEF Contains
      <3>2. ls[i].type = "SECTION" => Contains(ls[i].text, "[")
        BY <2>2, LineTypeIs
      <3> QED
        BY <3>1, <3>2
    <2> QED
      BY <1>1, <2>2, <2>3, TextInBuffer DEF LineOK
  <1> QED
    BY <1>1, <1>2 DEF LinesOK, ls

-----------------------------------------------------------------------------
(***************************************************************************)
(* What SetString makes of the lines, in its three cases.                  *)
(***************************************************************************)

LEMMA SetInNewSection ==
    ASSUME NEW ls, LinesOK(ls), NEW s \in Seq(Char), NEW k \in Seq(Char), NEW v \in Seq(Char),
           getSection(ls, s) = 0
    PROVE  LET new == AfterSet(ls, s, k, v)
           IN  /\ LinesOK(new)
               /\ Len(new) = Len(ls) + 2
               /\ new[1] = NewLine("SECTION", SectionText(s))
               /\ new[2] = NewKeyLine(k, v)
               /\ \A i \in 1 .. Len(ls) : new[i + 2] = ls[i]
  <1> DEFINE line == NewLine("SECTION", SectionText(s))
             ms == InsertSection(ls, line)
             key == NewKeyLine(k, v)
             new == InsertKeyLine(ms, 1, key)
  <1>1. AfterSet(ls, s, k, v) = new
    BY DEF AfterSet
  <1>2. ls \in Seq(Line) /\ Len(ls) \in Nat /\ \A i \in 1 .. Len(ls) : LineOK(ls[i])
    BY LenProperties DEF LinesOK
  <1>3. line \in Line /\ LineOK(line)
    <2>1. "SECTION" \in LineType /\ SectionText(s) \in Seq(Char)
      BY SectionTextIs DEF LineType
    <2>2. line \in Line /\ line.text = SectionText(s) /\ line.value <= Len(SectionText(s)) + 1
      BY <2>1, NewLineIs
    <2> QED
      BY <2>2, TextsBegin, LineBegins
  <1>4. key \in Line /\ LineOK(key)
    <2>1. key \in Line /\ key.text = KeyText(k, v) /\ key.value <= Len(KeyText(k, v)) + 1
      BY NewKeyLineIs
    <2> QED
      BY <2>1, TextsBegin, LineBegins
  <1> HIDE DEF line, key
  <1>5. /\ ms \in Seq(Line) /\ Len(ms) = Len(ls) + 1 /\ ms[1] = line
        /\ \A i \in 1 .. Len(ls) : ms[i + 1] = ls[i]
    BY <1>2, <1>3, InsertSectionIs
  <1> HIDE DEF ms
  <1>6. /\ new \in Seq(Line) /\ Len(new) = Len(ms) + 1
        /\ new[1] = ms[1]
        /\ new[2] = key
        /\ \A i \in 2 .. Len(ms) : new[i + 1] = ms[i]
    <2> DEFINE at == 1
               other == InsertKeyLine(ms, at, key)
    <2>1. at \in 1 .. Len(ms)
      BY <1>2, <1>5
    <2>2. new = other
      OBVIOUS
    <2> HIDE DEF at, new
    <2>3. /\ other \in Seq(Line) /\ Len(other) = Len(ms) + 1
          /\ \A i \in 1 .. at : other[i] = ms[i]
          /\ other[at + 1] = key
          /\ \A i \in at + 1 .. Len(ms) : other[i + 1] = ms[i]
      <3>1. ms \in Seq(Line) /\ key \in Line
        BY <1>4, <1>5
      <3> QED
        BY <3>1, <2>1, InsertKeyLineIs
    <2> HIDE DEF other
    <2> QED
      BY <2>2, <2>3 DEF at
  <1> HIDE DEF new
  <1>7. /\ Len(new) = Len(ls) + 2 /\ new[1] = line /\ new[2] = key
        /\ \A i \in 1 .. Len(ls) : new[i + 2] = ls[i]
    <2>1. \A i \in 1 .. Len(ls) : new[(i + 1) + 1] = ms[i + 1]
      <3>1. \A i \in 1 .. Len(ls) : i + 1 \in 2 .. Len(ms)
        BY <1>2, <1>5
      <3> QED
        BY <3>1, <1>6
    <2>2. \A i \in 1 .. Len(ls) : (i + 1) + 1 = i + 2
      BY <1>2
    <2>3. Len(new) = Len(ls) + 2
      BY <1>2, <1>5, <1>6
    <2>4. new[1] = line /\ new[2] = key
      BY <1>5, <1>6
    <2> QED
      BY <1>5, <2>1, <2>2, <2>3, <2>4
  <1>8. \A j \in 1 .. Len(new) : LineOK(new[j])
    <2> TAKE j \in 1 .. Len(new)
    <2>1. j = 1 \/ j = 2 \/ (j - 2 \in 1 .. Len(ls) /\ j = (j - 2) + 2)
      BY <1>2, <1>7
    <2>2. CASE j = 1
      BY <2>2, <1>3, <1>7
    <2>3. CASE j = 2
      BY <2>3, <1>4, <1>7
    <2>4. CASE j - 2 \in 1 .. Len(ls) /\ j = (j - 2) + 2
      BY <2>4, <1>2, <1>7
    <2> QED
      BY <2>1, <2>2, <2>3, <2>4
  <1> QED
    BY <1>1, <1>6, <1>7, <1>8 DEF LinesOK, line, key

LEMMA SetNewKey ==
    ASSUME NEW ls, LinesOK(ls), NEW s \in Seq(Char), NEW k \in Seq(Char), NEW v \in Seq(Char),
           getSection(ls, s) # 0, FoundAt(ls, s, k) = 0
    PROVE  LET new == AfterSet(ls, s, k, v)
               sec == getSection(ls, s)
           IN  /\ LinesOK(new)
               /\ Len(new) = Len(ls) + 1
               /\ \A i \in 1 .. sec : new[i] = ls[i]
               /\ new[sec + 1] = NewKeyLine(k, v)
               /\ \A i \in sec + 1 .. Len(ls) : new[i + 1] = ls[i]
  <1> DEFINE sec == getSection(ls, s)
             key == NewKeyLine(k, v)
             new == InsertKeyLine(ls, sec, key)
  <1>1. AfterSet(ls, s, k, v) = new
    BY DEF AfterSet
  <1>2. ls \in Seq(Line) /\ Len(ls) \in Nat /\ \A i \in 1 .. Len(ls) : LineOK(ls[i])
    BY LenProperties DEF LinesOK
  <1>3. key \in Line /\ LineOK(key)
    <2>1. key \in Line /\ key.text = KeyText(k, v) /\ key.value <= Len(KeyText(k, v)) + 1
      BY NewKeyLineIs
    <2> QED
      BY <2>1, TextsBegin, LineBegins
  <1>4. sec \in 1 .. Len(ls)
    BY <1>2, SectionLookup DEF SectionAt
  <1> HIDE DEF sec, key
  <1>5. /\ new \in Seq(Line) /\ Len(new) = Len(ls) + 1
        /\ \A i \in 1 .. sec : new[i] = ls[i]
        /\ new[sec + 1] = key
        /\ \A i \in sec + 1 .. Len(ls) : new[i + 1] = ls[i]
    BY <1>2, <1>3, <1>4, InsertKeyLineIs
  <1> HIDE DEF new
  <1>6. \A j \in 1 .. Len(new) : LineOK(new[j])
    <2> TAKE j \in 1 .. Len(new)
    <2>1. j \in 1 .. sec \/ j = sec + 1 \/ (j - 1 \in sec + 1 .. Len(ls) /\ j = (j - 1) + 1)
      BY <1>2, <1>4, <1>5
    <2>2. CASE j \in 1 .. sec
      <3>1. j \in 1 .. Len(ls)
        BY <1>2, <1>4, <2>2
      <3> QED
        BY <2>2, <3>1, <1>2, <1>5
    <2>3. CASE j = sec + 1
      BY <2>3, <1>3, <1>5
    <2>4. CASE j - 1 \in sec + 1 .. Len(ls) /\ j = (j - 1) + 1
      <3>1. j - 1 \in 1 .. Len(ls)
        BY <1>2, <1>4, <2>4
      <3> QED
        BY <2>4, <3>1, <1>2, <1>5
    <2> QED
      BY <2>1, <2>2, <2>3, <2>4
  <1> QED
    BY <1>1, <1>5, <1>6 DEF LinesOK, sec, key

LEMMA SetFound ==
    ASSUME NEW ls, LinesOK(ls), NEW s \in Seq(Char), NEW k \in Seq(Char), NEW v \in Seq(Char),
           FoundAt(ls, s, k) # 0
    PROVE  LET new == AfterSet(ls, s, k, v)
               at == FoundAt(ls, s, k)
           IN  /\ LinesOK(new)
               /\ at \in 1 .. Len(ls)
               /\ Len(new) = Len(ls)
               /\ new[at] = Overwrite(ls[at], KeyText(k, v))
               /\ \A i \in 1 .. Len(ls) : i # at => new[i] = ls[i]
  <1> DEFINE at == FoundAt(ls, s, k)
             line == Overwrite(ls[at], KeyText(k, v))
             new == [ls EXCEPT ![at] = line]
  <1>1. AfterSet(ls, s, k, v) = new
    <2>1. getSection(ls, s) # 0
      BY DEF FoundAt
    <2> QED
      BY <2>1 DEF AfterSet
  <1>2. ls \in Seq(Line) /\ Len(ls) \in Nat /\ \A i \in 1 .. Len(ls) : LineOK(ls[i])
    BY LenProperties DEF LinesOK
  <1>3. at \in 1 .. Len(ls)
    <2>1. at \in Nat \ {0} /\ Found(ls, s, k, at)
      BY <1>2, FoundLookup
    <2> HIDE DEF at
    <2> QED
      BY <2>1, <1>2 DEF Found, KeyAt
  <1> HIDE DEF at
  <1>4. line \in Line /\ LineOK(line)
    <2> DEFINE old == ls[at]
               text == KeyText(k, v)
    <2>1. old \in Line /\ old.value <= Len(Buffer(old)) /\ text \in Seq(Char) /\ text # <<>>
      BY <1>2, <1>3, ElementOfSeq, KeyTextIs, TextsBegin DEF LineOK
    <2>2. line = Overwrite(old, text)
      BY DEF line
    <2> HIDE DEF old, text, line
    <2> QED
      BY <2>1, <2>2, OverwriteIs DEF LineOK
  <1> HIDE DEF line
  <1>5. /\ new \in Seq(Line) /\ Len(new) = Len(ls)
        /\ \A j \in 1 .. Len(ls) : new[j] = IF j = at THEN line ELSE ls[j]
    BY <1>2, <1>3, <1>4, ExceptSeq
  <1> HIDE DEF new
  <1>6. \A j \in 1 .. Len(new) : LineOK(new[j])
    BY <1>2, <1>4, <1>5
  <1> QED
    BY <1>1, <1>3, <1>5, <1>6 DEF LinesOK, at, line

LEMMA AfterSetOK ==
    ASSUME NEW ls, LinesOK(ls), NEW s \in Seq(Char), NEW k \in Seq(Char), NEW v \in Seq(Char)
    PROVE  LinesOK(AfterSet(ls, s, k, v))
  <1>1. CASE getSection(ls, s) = 0
    BY <1>1, SetInNewSection
  <1>2. CASE getSection(ls, s) # 0 /\ FoundAt(ls, s, k) = 0
    BY <1>2, SetNewKey
  <1>3. CASE FoundAt(ls, s, k) # 0
    BY <1>3, SetFound
  <1> QED
    BY <1>1, <1>2, <1>3

-----------------------------------------------------------------------------
(***************************************************************************)
(* Saving.                                                                 *)
(***************************************************************************)

LEMMA TextsIs ==
    ASSUME NEW ls \in Seq(Line)
    PROVE  /\ Texts(ls) \in Seq(Seq(Char))
           /\ Len(Texts(ls)) = Len(ls)
           /\ \A i \in 1 .. Len(ls) : Texts(ls)[i] = ls[i].text /\ ls[i].text \in Seq(Char)
  <1> DEFINE ts == [i \in 1 .. Len(ls) |-> ls[i].text]
  <1>1. Len(ls) \in Nat /\ DOMAIN ls = 1 .. Len(ls)
    BY LenProperties
  <1>2. \A i \in 1 .. Len(ls) : ls[i].text \in Seq(Char)
    <2> TAKE i \in 1 .. Len(ls)
    <2>1. ls[i] \in Line
      BY ElementOfSeq
    <2> QED
      BY <2>1 DEF Line
  <1>3. Texts(ls) = ts
    BY <1>1 DEF Texts
  <1>4. ts \in [1 .. Len(ls) -> Seq(Char)] /\ \A i \in 1 .. Len(ls) : ts[i] = ls[i].text
    BY <1>2
  <1>5. ts \in Seq(Seq(Char))
    BY <1>1, <1>4, SeqDef
  <1> HIDE DEF ts
  <1>6. Len(ts) = Len(ls)
    BY <1>1, <1>4, <1>5
  <1> QED
    BY <1>2, <1>3, <1>4, <1>5, <1>6

LEMMA CutIs ==
    ASSUME NEW texts \in Seq(Seq(Char)), NEW n \in 0 .. Len(texts) - 1,
           NEW m \in 0 .. Len(texts[n + 1])
    PROVE  /\ Cut(texts, n, m) \in Seq(Seq(Char))
           /\ n + 1 \in 1 .. Len(texts)
           /\ Len(Cut(texts, n, m)) = IF m = 0 THEN n ELSE n + 1
           /\ \A i \in 1 .. n : Cut(texts, n, m)[i] = texts[i]
           /\ m # 0 => Cut(texts, n, m)[n + 1] = SubSeq(texts[n + 1], 1, m)
  <1> DEFINE S == Seq(Char)
             front == SubSeq(texts, 1, n)
             piece == SubSeq(texts[n + 1], 1, m)
             back == IF m = 0 THEN <<>> ELSE <<piece>>
  <1>1. n \in Nat /\ n + 1 \in 1 .. Len(texts) /\ Len(texts) \in Nat
    BY LenProperties
  <1>2. texts[n + 1] \in Seq(Char) /\ m \in Nat
    <2>1. texts[n + 1] \in Seq(Char)
      BY <1>1, ElementOfSeq
    <2> QED
      BY <2>1, LenProperties
  <1>3. piece \in S
    <2>1. \A i \in 1 .. m : texts[n + 1][i] \in Char
      BY <1>2, ElementOfSeq
    <2>2. 1 \in Int /\ m \in Int
      BY <1>2
    <2> QED
      BY <2>1, <2>2, SubSeqProperties
  <1> HIDE DEF S
  <1>4. /\ front \in Seq(S) /\ Len(front) = n
        /\ \A i \in 1 .. n : front[i] = texts[i]
    <2>1. \A i \in 1 .. n : texts[i] \in S
      BY <1>1, ElementOfSeq DEF S
    <2>2. /\ front \in Seq(S)
          /\ Len(front) = IF 1 <= n THEN n - 1 + 1 ELSE 0
          /\ \A i \in 1 .. n - 1 + 1 : front[i] = texts[1 + i - 1]
      BY <2>1, <1>1, SubSeqProperties
    <2> HIDE DEF front
    <2> QED
      BY <2>2, <1>1
  <1> HIDE DEF front, piece
  <1>5. /\ back \in Seq(S) /\ Len(back) = IF m = 0 THEN 0 ELSE 1
        /\ m # 0 => back[1] = piece
    BY <1>3, Singleton, EmptySeq
  <1> HIDE DEF back
  <1>6. /\ front \o back \in Seq(S)
        /\ Len(front \o back) = Len(front) + Len(back)
        /\ \A i \in 1 .. Len(front) + Len(back) :
              (front \o back)[i] = IF i <= Len(front) THEN front[i] ELSE back[i - Len(front)]
    BY <1>4, <1>5, ConcatProperties
  <1>7. Cut(texts, n, m) = front \o back
    BY DEF Cut, front, back, piece
  <1> DEFINE new == front \o back
  <1> HIDE DEF new
  <1>8. CASE m = 0
    <2>1. new \in Seq(S) /\ Len(new) = n /\ \A i \in 1 .. n : new[i] = texts[i]
      BY <1>1, <1>4, <1>5, <1>6, <1>8 DEF new
    <2> QED
      BY <1>1, <1>7, <1>8, <2>1 DEF new, S
  <1>9. CASE m # 0
    <2>1. new \in Seq(S) /\ Len(new) = n + 1 /\ \A i \in 1 .. n : new[i] = texts[i]
      BY <1>1, <1>4, <1>5, <1>6, <1>9 DEF new
    <2>2. new[n + 1] = piece
      BY <1>1, <1>4, <1>5, <1>6, <1>9 DEF new
    <2> QED
      BY <1>1, <1>7, <1>9, <2>1, <2>2 DEF new, S, piece
  <1> QED
    BY <1>8, <1>9

LEMMA SaveOK ==
    ASSUME NEW texts \in Seq(Seq(Char)), file \in Seq(Seq(Char)), SaveToFile(texts)
    PROVE  file' \in Seq(Seq(Char)) /\ onDisk' \in {"all", "part", "old"}
  <1>1. CASE file' = Complete(texts) /\ onDisk' = "all"
    BY <1>1 DEF Complete
  <1>2. CASE UNCHANGED file /\ onDisk' = "old"
    BY <1>2
  <1>3. CASE \E n \in 0 .. Len(texts) - 1 : \E m \in 0 .. Len(texts[n + 1]) :
                file' = Cut(texts, n, m) /\ onDisk' = "part"
    BY <1>3, CutIs
  <1> QED
    BY <1>1, <1>2, <1>3 DEF SaveToFile

-----------------------------------------------------------------------------
(***************************************************************************)
(* Lengths: nothing that is read or set leaves LINE.Text.                  *)
(***************************************************************************)

LinesInText(ls) == \A i \in 1 .. Len(ls) : InText(ls[i])
AllFit(f)       == \A i \in 1 .. Len(f) : Fits(f[i])

\* Blanks that are taken out make no text longer.
LEMMA TrimShorter ==
    ASSUME NEW S, NEW text \in Seq(S)
    PROVE  Len(allTrim(text)) <= Len(text)
  <1> DEFINE N == Cardinality(Kept(text))
             At(n) == CHOOSE i \in Kept(text) : Rank(text, i) = n
             t == [n \in 1 .. N |-> text[At(n)]]
  <1>1. Len(text) \in Nat /\ N \in Nat /\ Kept(text) \in SUBSET (1 .. Len(text))
    BY KeptFinite, LenProperties
  <1>2. N <= Len(text)
    <2>1. IsFiniteSet(1 .. Len(text)) /\ Cardinality(1 .. Len(text)) = Len(text)
      BY <1>1, UpTo
    <2> QED
      BY <1>1, <2>1, FS_Subset
  <1>3. allTrim(text) = t
    BY DEF allTrim, Kept, Rank
  <1>4. allTrim(text) \in Seq(S)
    BY TrimIs
  <1>5. DOMAIN t = 1 .. N
    OBVIOUS
  <1> HIDE DEF t, N
  <1>6. Len(t) \in Nat /\ 1 .. Len(t) = 1 .. N
    BY <1>3, <1>4, <1>5, LenProperties
  <1>7. Len(t) = N
    BY <1>1, <1>6
  <1> QED
    BY <1>2, <1>3, <1>7

\* A LINE with nothing behind its text.
LEMMA FreshInText ==
    ASSUME NEW line \in Line, line.rest = <<>>, Fits(line.text)
    PROVE  InText(line)
  <1>1. Len(Buffer(line)) = Len(line.text) + 1 + Len(line.rest) /\ Len(line.text) \in Nat
    BY BufferIs
  <1>2. Len(line.rest) = 0
    OBVIOUS
  <1>3. Len(line.text) + 3 <= MAX_INI_FILE_LINE_LEN /\ MAX_INI_FILE_LINE_LEN \in Nat
    BY LengthAssumption DEF Fits
  <1> HIDE DEF Line
  <1> QED
    BY <1>1, <1>2, <1>3 DEF InText, Fits

LEMMA LoadInText ==
    ASSUME NEW f \in Seq(Seq(Char)), AllFit(f)
    PROVE  LinesInText(LoadFromFile(f))
  <1> DEFINE ls == LoadFromFile(f)
  <1>1. /\ Len(ls) = Len(f)
        /\ \A i \in 1 .. Len(f) :
              /\ allTrim(f[i]) \in Seq(Char)
              /\ ls[i] = NewLine(getLineType(allTrim(f[i])), allTrim(f[i]))
              /\ ls[i] \in Line
    BY LoadIs
  <1> HIDE DEF ls
  <1>2. ASSUME NEW i \in 1 .. Len(f) PROVE InText(ls[i])
    <2> DEFINE t == f[i]
    <2>1. t \in Seq(Char) /\ Fits(t)
      BY ElementOfSeq DEF AllFit
    <2> HIDE DEF t
    <2>2. Len(allTrim(t)) <= Len(t) /\ Len(t) \in Nat /\ Len(allTrim(t)) \in Nat
      BY <2>1, TrimShorter, TrimIs, LenProperties
    <2>3. Fits(allTrim(t))
      BY <2>1, <2>2, LengthAssumption DEF Fits
    <2>4. ls[i].text = allTrim(t) /\ ls[i].rest = <<>>
      <3> DEFINE u    == allTrim(t)
                 type == getLineType(u)
      <3>1. ls[i] = NewLine(type, u)
        BY <1>1 DEF t
      <3> HIDE DEF u, type
      <3>2. NewLine(type, u).text = u /\ NewLine(type, u).rest = <<>>
        BY DEF NewLine
      <3> QED
        BY <3>1, <3>2 DEF u
    <2> QED
      BY <1>1, <2>3, <2>4, FreshInText
  <1> QED
    BY <1>1, <1>2 DEF LinesInText, ls

LEMMA OverwriteInText ==
    ASSUME NEW line \in Line, LineOK(line), InText(line), NEW text \in Seq(Char), Fits(text)
    PROVE  InText(Overwrite(line, text))
  <1> DEFINE b == Buffer(line)
             rest == SubSeq(b, Len(text) + 2, Len(b))
             new == Overwrite(line, text)
  <1>1. Len(text) \in Nat /\ b \in Seq(Char \cup {NUL}) /\ Len(b) \in Nat
    BY BufferIs, LenProperties
  <1>2. Len(b) <= MAX_INI_FILE_LINE_LEN
    BY DEF InText
  <1> HIDE DEF b
  <1>3. \A i \in Len(text) + 2 .. Len(b) : b[i] \in Char \cup {NUL}
    BY <1>1, ElementOfSeq
  <1>4. Len(rest) = IF Len(text) + 2 <= Len(b) THEN Len(b) - (Len(text) + 2) + 1 ELSE 0
    <2>1. Len(text) + 2 \in Int /\ Len(b) \in Int
      BY <1>1
    <2> QED
      BY <1>3, <2>1, SubSeqProperties
  <1>5. new \in Line /\ new.text = text
    BY OverwriteIs DEF LineOK
  <1>6. new.rest = rest
    BY DEF Overwrite, Line, b
  <1> HIDE DEF new, rest
  <1>7. Len(Buffer(new)) = Len(text) + 1 + Len(rest)
    BY <1>5, <1>6, BufferIs
  <1>8. \A l, m, r, x \in Nat :
           l + 3 <= x /\ m <= x /\ r = (IF l + 2 <= m THEN m - (l + 2) + 1 ELSE 0)
              => l + 1 + r <= x
    OBVIOUS
  <1>9. Len(rest) \in Nat
    BY <1>1, <1>4
  <1>10. Len(text) + 3 <= MAX_INI_FILE_LINE_LEN /\ MAX_INI_FILE_LINE_LEN \in Nat
    BY LengthAssumption DEF Fits
  <1>11. Len(text) + 1 + Len(rest) <= MAX_INI_FILE_LINE_LEN
    BY <1>1, <1>2, <1>4, <1>8, <1>9, <1>10
  <1> QED
    BY <1>5, <1>7, <1>11 DEF InText, new

LEMMA AfterSetInText ==
    ASSUME NEW ls, LinesOK(ls), LinesInText(ls), NEW s \in Sections, NEW k \in Keys, NEW v \in Values
    PROVE  LinesInText(AfterSet(ls, s, k, v))
  <1> DEFINE new == AfterSet(ls, s, k, v)
             sec == NewLine("SECTION", SectionText(s))
             key == NewKeyLine(k, v)
  <1>1. s \in Seq(Char) /\ k \in Seq(Char) /\ v \in Seq(Char)
    BY TextAssumption
  <1>2. ls \in Seq(Line) /\ Len(ls) \in Nat
        /\ \A i \in 1 .. Len(ls) : ls[i] \in Line /\ LineOK(ls[i]) /\ InText(ls[i])
    BY LenProperties, ElementOfSeq DEF LinesOK, LinesInText
  <1>3. InText(sec)
    <2>1. SectionText(s) \in Seq(Char) /\ Fits(SectionText(s))
      BY <1>1, SectionTextIs, LengthAssumption
    <2>2. sec \in Line /\ sec.text = SectionText(s) /\ sec.rest = <<>>
      BY <2>1, NewLineIs DEF NewLine, LineType
    <2> QED
      BY <2>1, <2>2, FreshInText
  <1>4. InText(key)
    <2>1. key \in Line /\ key.text = KeyText(k, v) /\ key.rest = <<>>
      BY <1>1, NewKeyLineIs DEF NewKeyLine
    <2>2. Fits(KeyText(k, v))
      BY LengthAssumption
    <2> QED
      BY <2>1, <2>2, FreshInText
  <1> HIDE DEF sec, key
  <1>5. CASE getSection(ls, s) = 0
    <2>1. /\ Len(new) = Len(ls) + 2 /\ new[1] = sec /\ new[2] = key
          /\ \A i \in 1 .. Len(ls) : new[i + 2] = ls[i]
      BY <1>1, <1>5, SetInNewSection DEF sec, key
    <2> HIDE DEF new
    <2>2. ASSUME NEW j \in 1 .. Len(new) PROVE InText(new[j])
      <3>1. j = 1 \/ j = 2 \/ (j - 2 \in 1 .. Len(ls) /\ j = (j - 2) + 2)
        BY <1>2, <2>1
      <3> QED
        BY <1>2, <1>3, <1>4, <2>1, <3>1
    <2> QED
      BY <2>2 DEF LinesInText, new
  <1>6. CASE getSection(ls, s) # 0 /\ FoundAt(ls, s, k) = 0
    <2> DEFINE at == getSection(ls, s)
    <2>1. /\ Len(new) = Len(ls) + 1
          /\ \A i \in 1 .. at : new[i] = ls[i]
          /\ new[at + 1] = key
          /\ \A i \in at + 1 .. Len(ls) : new[i + 1] = ls[i]
      BY <1>1, <1>6, SetNewKey DEF key
    <2>2. at \in 1 .. Len(ls)
      <3>1. at \in Nat /\ (at # 0 => SectionAt(ls, s, at))
        BY <1>2, SectionLookup
      <3> QED
        BY <1>6, <3>1 DEF SectionAt
    <2> HIDE DEF new, at
    <2>3. ASSUME NEW j \in 1 .. Len(new) PROVE InText(new[j])
      <3>1. \/ j \in 1 .. at /\ j \in 1 .. Len(ls)
            \/ j = at + 1
            \/ j - 1 \in at + 1 .. Len(ls) /\ j - 1 \in 1 .. Len(ls) /\ j = (j - 1) + 1
        BY <1>2, <2>1, <2>2
      <3> QED
        BY <1>2, <1>4, <2>1, <3>1
    <2> QED
      BY <2>3 DEF LinesInText, new
  <1>7. CASE FoundAt(ls, s, k) # 0
    <2> DEFINE at == FoundAt(ls, s, k)
               text == KeyText(k, v)
    <2>1. /\ at \in 1 .. Len(ls) /\ Len(new) = Len(ls)
          /\ new[at] = Overwrite(ls[at], text)
          /\ \A i \in 1 .. Len(ls) : i # at => new[i] = ls[i]
      BY <1>1, <1>7, SetFound
    <2>2. text \in Seq(Char) /\ Fits(text)
      BY <1>1, KeyTextIs, LengthAssumption
    <2> HIDE DEF new, at, text
    <2>3. InText(Overwrite(ls[at], text))
      BY <1>2, <2>1, <2>2, OverwriteInText
    <2> QED
      BY <1>2, <2>1, <2>3 DEF LinesInText, new
  <1> QED
    BY <1>5, <1>6, <1>7

\* Whatever part of the lines a save leaves fits again.
LEMMA SaveFits ==
    ASSUME NEW ls \in Seq(Line), LinesInText(ls), file \in Seq(Seq(Char)), AllFit(file),
           SaveToFile(Texts(ls))
    PROVE  AllFit(file')
  <1> DEFINE texts == Texts(ls)
  <1>1. texts \in Seq(Seq(Char)) /\ Len(texts) \in Nat
        /\ \A i \in 1 .. Len(texts) : Fits(texts[i]) /\ texts[i] \in Seq(Char)
    BY TextsIs, LenProperties DEF LinesInText, InText
  <1>2. SaveToFile(texts)
    OBVIOUS
  <1> HIDE DEF texts
  <1>3. CASE file' = Complete(texts)
    BY <1>1, <1>3 DEF Complete, AllFit
  <1>4. CASE file' = file
    BY <1>4 DEF AllFit
  <1>5. ASSUME NEW n \in 0 .. Len(texts) - 1, NEW m \in 0 .. Len(texts[n + 1]),
               file' = Cut(texts, n, m)
        PROVE  AllFit(file')
    <2> DEFINE t == texts[n + 1]
               piece == SubSeq(t, 1, m)
    <2>1. /\ n + 1 \in 1 .. Len(texts)
          /\ Len(file') = IF m = 0 THEN n ELSE n + 1
          /\ \A i \in 1 .. n : file'[i] = texts[i]
          /\ m # 0 => file'[n + 1] = piece
      BY <1>1, <1>5, CutIs
    <2>2. t \in Seq(Char) /\ Fits(t) /\ Len(t) \in Nat
      BY <1>1, <2>1, LenProperties
    <2>3. m \in Nat /\ m <= Len(t)
      BY <2>2
    <2> HIDE DEF t
    <2>4. m # 0 => Fits(piece)
      <3>1. \A i \in 1 .. m : t[i] \in Char
        BY <2>2, <2>3, ElementOfSeq
      <3>2. 1 \in Int /\ m \in Int
        BY <2>3
      <3>3. Len(piece) = IF 1 <= m THEN m - 1 + 1 ELSE 0
        BY <3>1, <3>2, SubSeqProperties
      <3> HIDE DEF piece
      <3>4. m # 0 => Len(piece) = m
        BY <2>3, <3>3
      <3> QED
        BY <2>2, <2>3, <3>4, LengthAssumption DEF Fits
    <2> HIDE DEF piece
    <2>5. ASSUME NEW i \in 1 .. Len(file') PROVE Fits(file'[i])
      <3>1. (i \in 1 .. n /\ i \in 1 .. Len(texts)) \/ (i = n + 1 /\ m # 0)
        BY <1>1, <2>1
      <3> QED
        BY <1>1, <2>1, <2>4, <3>1
    <2> QED
      BY <2>5 DEF AllFit
  <1> QED
    BY <1>2, <1>3, <1>4, <1>5 DEF SaveToFile

-----------------------------------------------------------------------------
(***************************************************************************)
(* Types.                                                                  *)
(***************************************************************************)

LEMMA TypeParts ==
    ASSUME TypeOK
    PROVE  LinesOK(lines) /\ LinesInText(lines) /\ file \in Seq(Seq(Char)) /\ AllFit(file)
  BY LenProperties DEF TypeOK, LinesOK, LinesInText, AllFit

LEMMA TypeInit == ASSUME Init PROVE TypeOK
  <1>1. file \in Seq(Seq(Char))
    BY TextAssumption DEF Init
  <1>2. AllFit(file) /\ LinesOK(lines) /\ LinesInText(lines)
    <2>1. DOMAIN file = 1 .. Len(file)
      BY <1>1, LenProperties
    <2>2. AllFit(file)
      BY <2>1, LengthAssumption DEF Init, AllFit
    <2> QED
      BY <1>1, <2>2, LoadOK, LoadInText DEF Init
  <1>3. DOMAIN lines = 1 .. Len(lines) /\ DOMAIN file = 1 .. Len(file)
    BY <1>1, <1>2, LenProperties DEF LinesOK
  <1>4. sets \in 0 .. MaxSets
    BY SetsAssumption DEF Init
  <1>5. onDisk \in {"all", "part", "old"} /\ last \in Setting \cup {NoSetting} /\ odd \in BOOLEAN
    BY DEF Init
  <1> QED
    BY <1>1, <1>2, <1>3, <1>4, <1>5 DEF TypeOK, LinesOK, LinesInText, AllFit

LEMMA TypeSet ==
    ASSUME TypeOK, NEW s \in Sections, NEW k \in Keys, NEW v \in Values, SetString(s, k, v)
    PROVE  TypeOK'
  <1> DEFINE new == AfterSet(lines, s, k, v)
  <1>1. s \in Seq(Char) /\ k \in Seq(Char) /\ v \in Seq(Char)
    BY TextAssumption
  <1>2. LinesOK(lines) /\ LinesInText(lines) /\ file \in Seq(Seq(Char)) /\ AllFit(file)
    BY TypeParts
  <1>3. LinesOK(new) /\ LinesInText(new)
    BY <1>1, <1>2, AfterSetOK, AfterSetInText
  <1>4. lines' = new /\ SaveToFile(Texts(new))
    BY DEF SetString
  <1> HIDE DEF new
  <1>5. new \in Seq(Line) /\ DOMAIN new = 1 .. Len(new)
    BY <1>3, LenProperties DEF LinesOK
  <1>6. Texts(new) \in Seq(Seq(Char))
    BY <1>5, TextsIs
  <1>7. file' \in Seq(Seq(Char)) /\ onDisk' \in {"all", "part", "old"}
    BY <1>2, <1>4, <1>6, SaveOK
  <1>12. AllFit(file')
    BY <1>2, <1>3, <1>4, <1>5, SaveFits
  <1>13. DOMAIN file' = 1 .. Len(file')
    BY <1>7, LenProperties
  <1>8. sets' \in 0 .. MaxSets
    BY SetsAssumption DEF TypeOK, SetString
  <1>9. OwnLine(s, k) \in BOOLEAN
    BY DEF OwnLine
  <1>10. last' \in Setting /\ last'.own \in BOOLEAN
    BY <1>9 DEF SetString, Setting
  <1>11. odd' \in BOOLEAN
    <2>1. Plain(v) \in BOOLEAN /\ odd \in BOOLEAN
      BY DEF Plain, TypeOK
    <2> QED
      BY <1>10, <2>1 DEF SetString
  <1> QED
    BY <1>3, <1>4, <1>5, <1>7, <1>8, <1>10, <1>11, <1>12, <1>13
    DEF TypeOK, LinesOK, LinesInText, AllFit

\* No line is a line too.
LEMMA NoLines == LinesOK(<<>>) /\ LinesInText(<<>>)
  <1>1. <<>> \in Seq(Line) /\ Len(<<>>) = 0 /\ DOMAIN <<>> = {}
    BY EmptySeq
  <1> QED
    BY <1>1 DEF LinesOK, LinesInText

LEMMA TypeLoad == ASSUME TypeOK, LoadConfigFile PROVE TypeOK'
  <1>1. file \in Seq(Seq(Char)) /\ AllFit(file)
    BY TypeParts
  <1>2. LinesOK(lines') /\ LinesInText(lines')
    BY <1>1, LoadOK, LoadInText, NoLines DEF LoadConfigFile
  <1>3. DOMAIN lines' = 1 .. Len(lines')
    BY <1>2, LenProperties DEF LinesOK
  <1>4. onDisk' \in {"all", "part", "old"}
    BY DEF LoadConfigFile
  <1> QED
    BY <1>2, <1>3, <1>4 DEF LoadConfigFile, TypeOK, LinesOK, LinesInText

LEMMA TypeStep == ASSUME TypeOK, [Next]_vars PROVE TypeOK'
  <1>1. CASE UNCHANGED vars
    BY <1>1 DEF vars, TypeOK
  <1> QED
    BY <1>1, TypeSet, TypeLoad DEF Next

\* As long as what is set and the first file fit into LINE.Text, all that is read,
\* set, cut short in a save and read again does, and no value pointer leaves what
\* was written to its line (ConfigFile.cpp:36-193).
THEOREM TypeCorrect == Spec => []TypeOK
  BY TypeInit, TypeStep, PTL DEF Spec

-----------------------------------------------------------------------------
(***************************************************************************)
(* What was set is read back.                                              *)
(***************************************************************************)

\* The value of a text that is a setting of this key.
LEMMA SettingValue ==
    ASSUME NEW line \in Line, NEW k \in Seq(Char), NEW v \in Seq(Char),
           line.text = KeyText(k, v), line.value = Len(k) + 2
    PROVE  Value(line) = v
  <1> DEFINE t == KeyText(k, v)
  <1>1. Len(k) \in Nat /\ Len(v) \in Nat
    BY LenProperties
  <1>2. /\ t \in Seq(Char) /\ Len(t) = Len(k) + 1 + Len(v)
        /\ \A i \in 1 .. Len(v) : t[Len(k) + 1 + i] = v[i]
    BY KeyTextIs
  <1> HIDE DEF t
  <1>3. line.value <= Len(line.text) + 1
    BY <1>1, <1>2 DEF t
  <1>4. Value(line) = SubSeq(t, Len(k) + 2, Len(t))
    BY <1>3, ValueIs DEF t
  <1> DEFINE sub == SubSeq(t, Len(k) + 2, Len(t))
  <1>5. /\ sub \in Seq(Char)
        /\ Len(sub) = IF Len(k) + 2 <= Len(t) THEN Len(t) - (Len(k) + 2) + 1 ELSE 0
        /\ \A i \in 1 .. Len(t) - (Len(k) + 2) + 1 : sub[i] = t[(Len(k) + 2) + i - 1]
    <2>1. Len(k) + 2 \in Int /\ Len(t) \in Int
      BY <1>1, <1>2
    <2>2. \A i \in Len(k) + 2 .. Len(t) : i \in 1 .. Len(t)
      BY <1>1, <1>2
    <2>3. \A i \in Len(k) + 2 .. Len(t) : t[i] \in Char
      BY <1>2, <2>2, ElementOfSeq
    <2> QED
      BY <2>1, <2>3, SubSeqProperties
  <1> HIDE DEF sub
  <1>6. Len(sub) = Len(v)
    BY <1>1, <1>2, <1>5
  <1>7. \A i \in 1 .. Len(v) : sub[i] = v[i]
    <2> TAKE i \in 1 .. Len(v)
    <2>1. i \in 1 .. Len(t) - (Len(k) + 2) + 1 /\ (Len(k) + 2) + i - 1 = Len(k) + 1 + i
      BY <1>1, <1>2
    <2> QED
      BY <1>2, <1>5, <2>1
  <1>8. sub = v
    BY <1>5, <1>6, <1>7, SeqEqual
  <1> QED
    BY <1>4, <1>8 DEF sub

LEMMA KeyPrefix ==
    ASSUME NEW k \in Seq(Char), NEW v \in Seq(Char)
    PROVE  IsPrefix(k, KeyText(k, v))
  <1>1. Len(k) \in Nat /\ Len(v) \in Nat
    BY LenProperties
  <1>2. /\ KeyText(k, v) \in Seq(Char) /\ Len(KeyText(k, v)) = Len(k) + 1 + Len(v)
        /\ \A i \in 1 .. Len(k) : KeyText(k, v)[i] = k[i]
    BY KeyTextIs
  <1>3. Len(k) <= Len(KeyText(k, v))
    BY <1>1, <1>2
  <1> QED
    BY <1>2, <1>3, PrefixIs

LEMMA SectionPrefix ==
    ASSUME NEW s \in Seq(Char)
    PROVE  IsPrefix(s, Tail(SectionText(s)))
  <1>1. Len(s) \in Nat
    BY LenProperties
  <1>2. /\ Tail(SectionText(s)) \in Seq(Char) /\ Len(Tail(SectionText(s))) = Len(s) + 1
        /\ \A i \in 1 .. Len(s) : Tail(SectionText(s))[i] = s[i]
    BY SectionTail
  <1>3. Len(s) <= Len(Tail(SectionText(s)))
    BY <1>1, <1>2
  <1> QED
    BY <1>2, <1>3, PrefixIs

LEMMA NewSectionLine ==
    ASSUME NEW s \in Seq(Char)
    PROVE  /\ NewLine("SECTION", SectionText(s)).type = "SECTION"
           /\ NewLine("SECTION", SectionText(s)).text = SectionText(s)
  BY SectionTextIs, NewLineIs DEF LineType

\* A value that was set is found, in the line of its own key if one was there.
LEMMA SetIsRead ==
    ASSUME NEW ls, LinesOK(ls), NEW s \in Seq(Char), NEW k \in Seq(Char), NEW v \in Seq(Char),
           FoundAt(ls, s, k) # 0 => ls[FoundAt(ls, s, k)].value = Len(k) + 2
    PROVE  GetString(AfterSet(ls, s, k, v), s, k) = v
  <1> DEFINE new == AfterSet(ls, s, k, v)
  <1>1. ls \in Seq(Line) /\ Len(ls) \in Nat /\ new \in Seq(Line) /\ Len(new) \in Nat
    BY AfterSetOK, LenProperties DEF LinesOK
  <1>2. ASSUME NEW r \in Nat \ {0}, Found(new, s, k, r),
               new[r] \in Line, new[r].text = KeyText(k, v), new[r].value = Len(k) + 2
        PROVE  GetString(new, s, k) = v
    BY <1>1, <1>2, StringFound, SettingValue
  <1>3. /\ NewKeyLine(k, v) \in Line /\ NewKeyLine(k, v).type = "KEY"
        /\ NewKeyLine(k, v).text = KeyText(k, v) /\ NewKeyLine(k, v).value = Len(k) + 2
        /\ KeyLine(NewKeyLine(k, v), k)
    BY NewKeyLineIs, KeyPrefix DEF KeyLine
  <1>4. CASE getSection(ls, s) = 0
    <2>1. /\ Len(new) = Len(ls) + 2
          /\ new[1] = NewLine("SECTION", SectionText(s))
          /\ new[2] = NewKeyLine(k, v)
      BY <1>4, SetInNewSection
    <2> HIDE DEF new
    <2>2. SectionLine(new[1], s)
      BY <2>1, NewSectionLine, SectionPrefix DEF SectionLine
    <2>3. SectionAt(new, s, 1)
      BY <1>1, <2>1, <2>2 DEF SectionAt
    <2>4. KeyAt(new, 1, k, 2)
      BY <1>1, <1>3, <2>1 DEF KeyAt
    <2>5. Found(new, s, k, 2)
      BY <2>3, <2>4 DEF Found
    <2> QED
      BY <1>2, <1>3, <2>1, <2>5 DEF new
  <1>5. CASE getSection(ls, s) # 0 /\ FoundAt(ls, s, k) = 0
    <2> DEFINE sec == getSection(ls, s)
    <2>1. /\ Len(new) = Len(ls) + 1
          /\ \A i \in 1 .. sec : new[i] = ls[i]
          /\ new[sec + 1] = NewKeyLine(k, v)
      BY <1>5, SetNewKey
    <2>2. sec \in Nat \ {0} /\ SectionAt(ls, s, sec)
      BY <1>1, <1>5, SectionLookup
    <2> HIDE DEF new, sec
    <2>3. SectionAt(new, s, sec)
      BY <1>1, <2>1, <2>2 DEF SectionAt
    <2>4. KeyAt(new, sec, k, sec + 1)
      BY <1>1, <1>3, <2>1, <2>2 DEF KeyAt, SectionAt
    <2>5. Found(new, s, k, sec + 1) /\ sec + 1 \in Nat \ {0}
      BY <2>2, <2>3, <2>4 DEF Found
    <2> QED
      BY <1>2, <1>3, <2>1, <2>5 DEF new
  <1>6. CASE FoundAt(ls, s, k) # 0
    <2> DEFINE at == FoundAt(ls, s, k)
    <2>1. /\ at \in 1 .. Len(ls) /\ Len(new) = Len(ls)
          /\ new[at] = Overwrite(ls[at], KeyText(k, v))
          /\ \A i \in 1 .. Len(ls) : i # at => new[i] = ls[i]
      BY <1>6, SetFound
    <2>2. at \in Nat \ {0} /\ Found(ls, s, k, at) /\ ls[at].value = Len(k) + 2
      BY <1>1, <1>6, FoundLookup
    <2>3. ls[at] \in Line /\ ls[at].value <= Len(Buffer(ls[at])) /\ KeyText(k, v) \in Seq(Char)
      BY <2>1, KeyTextIs, ElementOfSeq DEF LinesOK, LineOK
    <2> HIDE DEF new, at
    <2>4. /\ new[at] \in Line /\ new[at].type = ls[at].type /\ new[at].text = KeyText(k, v)
          /\ new[at].value = Len(k) + 2
      <3> DEFINE line == ls[at]
                 text == KeyText(k, v)
                 over == Overwrite(line, text)
      <3> HIDE DEF line, text
      <3>1. line \in Line /\ line.value <= Len(Buffer(line)) /\ text \in Seq(Char)
        BY <2>3 DEF line, text
      <3>2. over \in Line /\ over.type = line.type /\ over.text = text /\ over.value = line.value
        BY <3>1, OverwriteIs
      <3> QED
        BY <2>1, <2>2, <3>2 DEF line, text
    <2>5. PICK sec \in Nat \ {0} : SectionAt(ls, s, sec) /\ KeyAt(ls, sec, k, at)
      BY <2>2 DEF Found
    <2>6. sec \in 1 .. at - 1
      BY <1>1, <2>1, <2>5 DEF KeyAt
    <2>7. SectionAt(new, s, sec)
      BY <1>1, <2>1, <2>5, <2>6 DEF SectionAt
    <2>8. KeyLine(new[at], k)
      BY <2>4, <2>5, KeyPrefix DEF KeyAt, KeyLine
    <2>9. KeyAt(new, sec, k, at)
      BY <1>1, <2>1, <2>5, <2>6, <2>8 DEF KeyAt
    <2>10. Found(new, s, k, at)
      BY <2>7, <2>9 DEF Found
    <2> QED
      BY <1>2, <2>2, <2>4, <2>10 DEF new
  <1> QED
    BY <1>4, <1>5, <1>6

LEMMA ReadsBackSet ==
    ASSUME TypeOK, NEW s \in Sections, NEW k \in Keys, NEW v \in Values, SetString(s, k, v)
    PROVE  ReadsBack'
  <1>1. s \in Seq(Char) /\ k \in Seq(Char) /\ v \in Seq(Char)
    BY TextAssumption
  <1>2. LinesOK(lines)
    BY TypeParts
  <1>3. /\ last'.section = s /\ last'.key = k /\ last'.value = v
        /\ last'.own = OwnLine(s, k) /\ lines' = AfterSet(lines, s, k, v)
    BY DEF SetString
  <1>4. OwnLine(s, k) => GetString(AfterSet(lines, s, k, v), s, k) = v
    BY <1>1, <1>2, SetIsRead DEF OwnLine
  <1> QED
    BY <1>3, <1>4 DEF ReadsBack

\* What a process sets it reads back, from a line found, a line inserted or a new
\* section, unless the line found was that of a longer key (ConfigFile.cpp:142-193).
THEOREM ReadsBackAlways == Spec => []ReadsBack
  <1>1. Init => ReadsBack
    BY DEF Init, ReadsBack, NoSetting
  <1>2. TypeOK /\ ReadsBack /\ [Next]_vars => ReadsBack'
    <2> SUFFICES ASSUME TypeOK, ReadsBack, [Next]_vars PROVE ReadsBack'
      OBVIOUS
    <2>1. CASE UNCHANGED vars
      BY <2>1 DEF vars, ReadsBack
    <2>2. CASE LoadConfigFile
      BY <2>2 DEF LoadConfigFile, ReadsBack, NoSetting
    <2> QED
      BY <2>1, <2>2, ReadsBackSet DEF Next
  <1> QED
    BY <1>1, <1>2, TypeCorrect, PTL DEF Spec

-----------------------------------------------------------------------------
(***************************************************************************)
(* What was not set is kept.                                               *)
(***************************************************************************)

LEMMA UnrelatedKey ==
    ASSUME NEW j \in Seq(Char), NEW k \in Seq(Char), NEW v \in Seq(Char), Unrelated(k, j)
    PROVE  ~IsPrefix(j, KeyText(k, v))
  BY KeyPrefix, KeyTextIs, PrefixesRelated

LEMMA UnrelatedSection ==
    ASSUME NEW t \in Seq(Char), NEW s \in Seq(Char), Unrelated(s, t)
    PROVE  ~IsPrefix(t, Tail(SectionText(s)))
  BY SectionPrefix, SectionTail, PrefixesRelated

\* A section that is set in, and a key that is kept: the section is of an unrelated
\* name, or the key is and was not among the lines before all sections when the
\* section is new.
KeptIn(ls, s, k, t, j) ==
    \/ Unrelated(s, t)
    \/ /\ s = t /\ Unrelated(k, j)
       /\ ~(getSection(ls, s) = 0 /\ getKeyLineAtSec(ls, 0, j) # 0)

LEMMA KeptByNewSection ==
    ASSUME NEW ls, LinesOK(ls), NEW s \in Seq(Char), NEW k \in Seq(Char), NEW v \in Seq(Char),
           NEW t \in Seq(Char), NEW j \in Seq(Char), KeptIn(ls, s, k, t, j),
           getSection(ls, s) = 0
    PROVE  GetString(AfterSet(ls, s, k, v), t, j) = GetString(ls, t, j)
  <1> DEFINE new == AfterSet(ls, s, k, v)
  <1>1. ls \in Seq(Line) /\ Len(ls) \in Nat /\ new \in Seq(Line) /\ Len(new) \in Nat
    BY AfterSetOK, LenProperties DEF LinesOK
  <1>2. /\ Len(new) = Len(ls) + 2
        /\ new[1] = NewLine("SECTION", SectionText(s))
        /\ new[2] = NewKeyLine(k, v)
        /\ \A i \in 1 .. Len(ls) : new[i + 2] = ls[i]
    BY SetInNewSection
  <1> HIDE DEF new
  <1>3. /\ new[1].type = "SECTION" /\ new[1].text = SectionText(s)
        /\ new[2].type = "KEY" /\ new[2].text = KeyText(k, v)
    BY <1>2, NewSectionLine, NewKeyLineIs
  <1>4. \A i \in 3 .. Len(new) : i - 2 \in 1 .. Len(ls) /\ new[i] = ls[i - 2]
    <2> TAKE i \in 3 .. Len(new)
    <2>1. i - 2 \in 1 .. Len(ls) /\ i = (i - 2) + 2
      BY <1>1, <1>2
    <2> QED
      BY <2>1, <1>2
  \* An old section is where it was, two lines on.
  <1>5. ASSUME NEW a \in Nat \ {0}, NEW r \in Nat \ {0}
        PROVE  KeyAt(new, a + 2, j, r + 2) <=> KeyAt(ls, a, j, r)
    <2>1. ASSUME KeyAt(ls, a, j, r) PROVE KeyAt(new, a + 2, j, r + 2)
      <3>1. r \in a + 1 .. Len(ls) /\ KeyLine(ls[r], j)
        BY <2>1 DEF KeyAt
      <3>2. r + 2 \in (a + 2) + 1 .. Len(new) /\ new[r + 2] = ls[r]
        BY <3>1, <1>1, <1>2
      <3>3. \A i \in (a + 2) + 1 .. (r + 2) - 1 : i - 2 \in a + 1 .. r - 1 /\ i \in 3 .. Len(new)
        BY <3>1, <1>1, <1>2
      <3>4. \A i \in (a + 2) + 1 .. (r + 2) - 1 : new[i] = ls[i - 2]
        BY <3>3, <1>4
      <3>5. \A i \in a + 1 .. r - 1 : ls[i].type # "SECTION" /\ ~KeyLine(ls[i], j)
        BY <2>1 DEF KeyAt
      <3>6. \A i \in (a + 2) + 1 .. (r + 2) - 1 : new[i].type # "SECTION" /\ ~KeyLine(new[i], j)
        BY <3>3, <3>4, <3>5
      <3> QED
        BY <3>1, <3>2, <3>6 DEF KeyAt
    <2>2. ASSUME KeyAt(new, a + 2, j, r + 2) PROVE KeyAt(ls, a, j, r)
      <3>1. r + 2 \in (a + 2) + 1 .. Len(new) /\ KeyLine(new[r + 2], j)
        BY <2>2 DEF KeyAt
      <3>2. r \in a + 1 .. Len(ls) /\ r \in 1 .. Len(ls)
        BY <3>1, <1>1, <1>2
      <3>3. new[r + 2] = ls[r]
        BY <3>2, <1>2
      <3>4. \A i \in a + 1 .. r - 1 : i + 2 \in (a + 2) + 1 .. (r + 2) - 1 /\ i \in 1 .. Len(ls)
        BY <3>2, <1>1
      <3> QED
        BY <2>2, <3>1, <3>2, <3>3, <3>4, <1>2 DEF KeyAt
    <2> QED
      BY <2>1, <2>2
  <1>6. CASE Unrelated(s, t)
    <2>1. ~SectionLine(new[1], t) /\ ~SectionLine(new[2], t)
      BY <1>3, <1>6, UnrelatedSection DEF SectionLine
    <2>2. ASSUME NEW a \in Nat \ {0}, SectionAt(ls, t, a) PROVE SectionAt(new, t, a + 2)
      <3>1. a \in 1 .. Len(ls) /\ SectionLine(ls[a], t) /\ \A i \in 1 .. a - 1 : ~SectionLine(ls[i], t)
        BY <2>2 DEF SectionAt
      <3>2. a + 2 \in 1 .. Len(new) /\ new[a + 2] = ls[a]
        BY <3>1, <1>1, <1>2
      <3>3. \A i \in 1 .. (a + 2) - 1 : i = 1 \/ i = 2 \/ (i \in 3 .. Len(new) /\ i - 2 \in 1 .. a - 1)
        BY <3>1, <1>1, <1>2
      <3> QED
        BY <2>1, <3>1, <3>2, <3>3, <1>4 DEF SectionAt
    <2>3. ASSUME NEW b \in Nat \ {0}, SectionAt(new, t, b)
          PROVE  \E a \in Nat \ {0} : b = a + 2 /\ SectionAt(ls, t, a)
      <3>1. b \in 1 .. Len(new) /\ SectionLine(new[b], t) /\ \A i \in 1 .. b - 1 : ~SectionLine(new[i], t)
        BY <2>3 DEF SectionAt
      <3>2. b # 1 /\ b # 2
        BY <2>1, <3>1
      <3>3. b \in 3 .. Len(new) /\ b - 2 \in 1 .. Len(ls) /\ b = (b - 2) + 2 /\ b - 2 \in Nat \ {0}
        BY <3>1, <3>2, <1>1, <1>2
      <3>4. \A i \in 1 .. (b - 2) - 1 : i + 2 \in 1 .. b - 1 /\ i \in 1 .. Len(ls)
        BY <3>3, <1>1
      <3>5. SectionAt(ls, t, b - 2)
        BY <3>1, <3>3, <3>4, <1>2, <1>4 DEF SectionAt
      <3> QED
        BY <3>3, <3>5
    <2>4. ASSUME NEW r \in Nat \ {0}, Found(ls, t, j, r)
          PROVE  \E q \in Nat \ {0} : Found(new, t, j, q) /\ Value(new[q]) = Value(ls[r])
      <3>1. PICK a \in Nat \ {0} : SectionAt(ls, t, a) /\ KeyAt(ls, a, j, r)
        BY <2>4 DEF Found
      <3>2. SectionAt(new, t, a + 2) /\ KeyAt(new, a + 2, j, r + 2)
        BY <3>1, <2>2, <1>5
      <3>3. r \in 1 .. Len(ls)
        BY <3>1, <1>1 DEF KeyAt
      <3>4. a + 2 \in Nat \ {0} /\ r + 2 \in Nat \ {0} /\ new[r + 2] = ls[r]
        BY <3>3, <1>2
      <3> QED
        BY <3>2, <3>4 DEF Found
    <2>5. ASSUME NEW q \in Nat \ {0}, Found(new, t, j, q)
          PROVE  \E r \in Nat \ {0} : Found(ls, t, j, r)
      <3>1. PICK b \in Nat \ {0} : SectionAt(new, t, b) /\ KeyAt(new, b, j, q)
        BY <2>5 DEF Found
      <3>2. PICK a \in Nat \ {0} : b = a + 2 /\ SectionAt(ls, t, a)
        BY <3>1, <2>3
      <3>3. q - 2 \in Nat \ {0} /\ q = (q - 2) + 2
        BY <3>1, <3>2, <1>1 DEF KeyAt
      <3>4. KeyAt(ls, a, j, q - 2)
        BY <3>1, <3>2, <3>3, <1>5
      <3> QED
        BY <3>2, <3>3, <3>4 DEF Found
    <2>6. SameFound(ls, new, t, j)
      BY <2>4, <2>5 DEF SameFound
    <2>7. GetString(new, t, j) = GetString(ls, t, j)
      BY <1>1, <2>6, SameString
    <2> QED
      BY <2>7 DEF new
  \* The new section has the new key only, and none of the old lines has this one.
  <1>7. CASE s = t /\ Unrelated(k, j) /\ getKeyLineAtSec(ls, 0, j) = 0
    <2>1. \A r \in Nat \ {0} : ~Found(ls, t, j, r)
      BY <1>1, <1>7, SectionLookup DEF Found
    <2>2. \A r \in Nat \ {0} : ~KeyAt(ls, 0, j, r)
      BY <1>1, <1>7, KeyLookup
    <2>3. SectionAt(new, t, 1)
      BY <1>1, <1>2, <1>3, <1>7, SectionPrefix DEF SectionAt, SectionLine
    <2>4. \A a \in Nat \ {0} : SectionAt(new, t, a) => a = 1
      <3>1. \A a \in Nat \ {0} : getSection(new, t) = a <=> SectionAt(new, t, a)
        BY <1>1, SectionLookup
      <3>2. getSection(new, t) = 1
        BY <2>3, <3>1
      <3> QED
        BY <3>1, <3>2
    <2>5. ~KeyLine(new[2], j)
      BY <1>3, <1>7, UnrelatedKey DEF KeyLine
    <2>6. ASSUME NEW q \in Nat \ {0}, KeyAt(new, 1, j, q) PROVE FALSE
      <3>1. q \in 2 .. Len(new) /\ KeyLine(new[q], j)
        BY <2>6, <1>1 DEF KeyAt
      <3>2. q \in 3 .. Len(new)
        BY <3>1, <2>5, <1>1
      <3>3. q - 2 \in 0 + 1 .. Len(ls) /\ new[q] = ls[q - 2] /\ q - 2 \in Nat \ {0}
        BY <3>2, <1>1, <1>4
      <3>4. \A i \in 0 + 1 .. (q - 2) - 1 : i + 2 \in 1 + 1 .. q - 1 /\ i \in 1 .. Len(ls)
        BY <3>2, <3>3, <1>1
      <3>5. \A i \in 0 + 1 .. (q - 2) - 1 : ls[i].type # "SECTION" /\ ~KeyLine(ls[i], j)
        BY <2>6, <3>4, <1>2 DEF KeyAt
      <3>6. KeyAt(ls, 0, j, q - 2)
        BY <3>1, <3>3, <3>5 DEF KeyAt
      <3> QED
        BY <2>2, <3>3, <3>6
    <2>7. \A q \in Nat \ {0} : ~Found(new, t, j, q)
      BY <2>4, <2>6 DEF Found
    <2>8. GetString(ls, t, j) = Default /\ GetString(new, t, j) = Default
      BY <1>1, <2>1, <2>7, StringNotFound
    <2> QED
      BY <2>8 DEF new
  <1> QED
    BY <1>6, <1>7 DEF KeptIn

\* The names that find one line are related.
LEMMA OneLine ==
    ASSUME NEW line \in Line, LineOK(line), NEW a \in Seq(Char), NEW b \in Seq(Char),
           \/ SectionLine(line, a) /\ SectionLine(line, b)
           \/ KeyLine(line, a) /\ KeyLine(line, b)
    PROVE  ~Unrelated(a, b)
  <1>1. line.text \in Seq(Char)
    BY DEF Line
  <1>2. CASE KeyLine(line, a) /\ KeyLine(line, b)
    BY <1>1, <1>2, PrefixesRelated DEF KeyLine
  <1>3. CASE SectionLine(line, a) /\ SectionLine(line, b)
    <2>1. line.text # <<>>
      BY <1>3 DEF LineOK, SectionLine
    <2>2. Tail(line.text) \in Seq(Char)
      BY <1>1, <2>1, HeadTailProperties
    <2> QED
      BY <1>3, <2>2, PrefixesRelated DEF SectionLine
  <1> QED
    BY <1>2, <1>3

LEMMA KeptByNewKey ==
    ASSUME NEW ls, LinesOK(ls), NEW s \in Seq(Char), NEW k \in Seq(Char), NEW v \in Seq(Char),
           NEW t \in Seq(Char), NEW j \in Seq(Char), KeptIn(ls, s, k, t, j),
           getSection(ls, s) # 0, FoundAt(ls, s, k) = 0
    PROVE  GetString(AfterSet(ls, s, k, v), t, j) = GetString(ls, t, j)
  <1> DEFINE new == AfterSet(ls, s, k, v)
             sec == getSection(ls, s)
             Shift(i) == IF i <= sec THEN i ELSE i + 1
  <1>1. ls \in Seq(Line) /\ Len(ls) \in Nat /\ new \in Seq(Line) /\ Len(new) \in Nat
    BY AfterSetOK, LenProperties DEF LinesOK
  <1>2. /\ Len(new) = Len(ls) + 1
        /\ \A i \in 1 .. sec : new[i] = ls[i]
        /\ new[sec + 1] = NewKeyLine(k, v)
        /\ \A i \in sec + 1 .. Len(ls) : new[i + 1] = ls[i]
    BY SetNewKey
  <1>3. sec \in Nat \ {0} /\ SectionAt(ls, s, sec)
    BY <1>1, SectionLookup
  <1> HIDE DEF new, sec
  <1>4. sec \in 1 .. Len(ls) /\ SectionLine(ls[sec], s) /\ ls[sec].type = "SECTION"
    BY <1>3 DEF SectionAt, SectionLine
  <1>5. new[sec + 1].type = "KEY" /\ new[sec + 1].text = KeyText(k, v)
    BY <1>2, NewKeyLineIs
  <1>6. /\ ~SectionLine(new[sec + 1], t) /\ new[sec + 1].type # "SECTION"
        /\ Unrelated(k, j) => ~KeyLine(new[sec + 1], j)
    BY <1>5, UnrelatedKey DEF SectionLine, KeyLine
  \* The lines keep their order, and one comes in between.
  <1>7. \A i \in 1 .. Len(ls) : Shift(i) \in 1 .. Len(new) /\ new[Shift(i)] = ls[i]
    <2> TAKE i \in 1 .. Len(ls)
    <2>1. CASE i <= sec
      BY <2>1, <1>1, <1>2, <1>4
    <2>2. CASE ~(i <= sec)
      <3>1. i \in sec + 1 .. Len(ls) /\ i + 1 \in 1 .. Len(new)
        BY <2>2, <1>1, <1>2, <1>4
      <3> QED
        BY <2>2, <3>1, <1>2
    <2> QED
      BY <2>1, <2>2
  <1>8. \A q \in 1 .. Len(new) : q = sec + 1 \/ \E i \in 1 .. Len(ls) : q = Shift(i)
    <2> TAKE q \in 1 .. Len(new)
    <2>1. CASE q <= sec
      <3>1. q \in 1 .. Len(ls) /\ q = Shift(q)
        BY <2>1, <1>1, <1>4
      <3> QED
        BY <3>1
    <2>2. CASE ~(q <= sec) /\ q # sec + 1
      <3>1. q - 1 \in 1 .. Len(ls) /\ q = Shift(q - 1)
        BY <2>2, <1>1, <1>2, <1>4
      <3> QED
        BY <3>1
    <2> QED
      BY <2>1, <2>2
  <1>9. \A i, h \in 1 .. Len(ls) : i < h <=> Shift(i) < Shift(h)
    BY <1>1, <1>4
  <1>10. \A i \in 1 .. Len(ls) : (Shift(i) < sec + 1 <=> i <= sec) /\ Shift(i) # sec + 1
    BY <1>1, <1>4
  <1>11. \A i \in 1 .. Len(ls) : Shift(i) \in Nat \ {0}
    BY <1>7
  <1> HIDE DEF Shift
  <1>12. ASSUME NEW a \in Nat \ {0}, SectionAt(ls, t, a)
         PROVE  a \in 1 .. Len(ls) /\ SectionAt(new, t, Shift(a))
    <2>1. a \in 1 .. Len(ls) /\ SectionLine(ls[a], t) /\ \A i \in 1 .. a - 1 : ~SectionLine(ls[i], t)
      BY <1>12 DEF SectionAt
    <2>2. ASSUME NEW q \in 1 .. Shift(a) - 1 PROVE ~SectionLine(new[q], t)
      <3>1. q \in 1 .. Len(new) /\ q < Shift(a)
        BY <2>1, <1>1, <1>7
      <3>2. CASE q = sec + 1
        BY <3>2, <1>6
      <3>3. ASSUME NEW i \in 1 .. Len(ls), q = Shift(i) PROVE ~SectionLine(new[q], t)
        <4>1. i < a
          BY <2>1, <3>1, <3>3, <1>9
        <4>2. i \in 1 .. a - 1
          BY <4>1, <2>1
        <4> QED
          BY <2>1, <3>3, <4>2, <1>7
      <3> QED
        BY <3>1, <3>2, <3>3, <1>8
    <2> QED
      BY <2>1, <2>2, <1>7 DEF SectionAt
  <1>13. ASSUME NEW b \in Nat \ {0}, SectionAt(new, t, b)
         PROVE  \E a \in Nat \ {0} : b = Shift(a) /\ SectionAt(ls, t, a)
    <2>1. b \in 1 .. Len(new) /\ SectionLine(new[b], t) /\ \A i \in 1 .. b - 1 : ~SectionLine(new[i], t)
      BY <1>13 DEF SectionAt
    <2>2. b # sec + 1
      BY <2>1, <1>6
    <2>3. PICK a \in 1 .. Len(ls) : b = Shift(a)
      BY <2>1, <2>2, <1>8
    <2>4. ASSUME NEW i \in 1 .. a - 1 PROVE ~SectionLine(ls[i], t)
      <3>1. i \in 1 .. Len(ls) /\ i < a
        BY <1>1, <2>3
      <3>2. Shift(i) < Shift(a) /\ Shift(i) \in Nat \ {0}
        BY <3>1, <2>3, <1>9, <1>11
      <3>3. Shift(i) \in 1 .. b - 1
        BY <3>2, <2>1, <2>3
      <3> QED
        BY <2>1, <3>1, <3>3, <1>7
    <2>5. SectionAt(ls, t, a) /\ a \in Nat \ {0}
      BY <2>1, <2>3, <2>4, <1>7 DEF SectionAt
    <2> QED
      BY <2>3, <2>5
  \* The line that comes in is found in the section that was set in only, and does
  \* not have the key there.
  <1>14. ASSUME NEW a \in Nat \ {0}, SectionAt(ls, t, a), a = sec
         PROVE  Unrelated(k, j)
    <2>1. SectionLine(ls[sec], t) /\ ls[sec] \in Line /\ LineOK(ls[sec])
      BY <1>1, <1>4, <1>14, ElementOfSeq DEF SectionAt, LinesOK
    <2>2. ~Unrelated(s, t)
      BY <2>1, <1>4, OneLine
    <2> QED
      BY <2>2 DEF KeptIn
  <1>15. ASSUME NEW a \in 1 .. Len(ls), a = sec => Unrelated(k, j), NEW r \in 1 .. Len(ls),
                KeyAt(ls, a, j, r)
         PROVE  KeyAt(new, Shift(a), j, Shift(r))
    <2>1. /\ r \in a + 1 .. Len(ls) /\ KeyLine(ls[r], j)
          /\ \A i \in a + 1 .. r - 1 : ls[i].type # "SECTION" /\ ~KeyLine(ls[i], j)
      BY <1>15 DEF KeyAt
    <2>2. a < r
      BY <2>1
    <2>3. Shift(r) \in Shift(a) + 1 .. Len(new)
      BY <2>2, <1>1, <1>7, <1>9
    <2>4. ASSUME NEW q \in Shift(a) + 1 .. Shift(r) - 1
          PROVE  new[q].type # "SECTION" /\ ~KeyLine(new[q], j)
      <3>0. Shift(a) \in 1 .. Len(new) /\ Shift(r) \in 1 .. Len(new)
        BY <1>7
      <3>1. q \in 1 .. Len(new) /\ Shift(a) < q /\ q < Shift(r)
        BY <3>0, <1>1
      <3>2. CASE q = sec + 1
        <4>1. a <= sec /\ ~(r <= sec)
          <5>1. Shift(a) < sec + 1 /\ ~(Shift(r) < sec + 1)
            BY <3>1, <3>2, <1>1, <1>4, <1>7
          <5> QED
            BY <5>1, <1>10
        <4>2. a = sec
          <5>1. a < sec => sec \in a + 1 .. r - 1
            BY <4>1, <1>1, <1>4
          <5> QED
            BY <2>1, <4>1, <5>1, <1>1, <1>4
        <4> QED
          BY <3>2, <4>2, <1>6, <1>15
      <3>3. ASSUME NEW i \in 1 .. Len(ls), q = Shift(i)
            PROVE  new[q].type # "SECTION" /\ ~KeyLine(new[q], j)
        <4>1. a < i /\ i < r
          BY <3>1, <3>3, <1>9
        <4>2. i \in a + 1 .. r - 1
          BY <4>1
        <4> QED
          BY <2>1, <3>3, <4>2, <1>7
      <3> QED
        BY <3>1, <3>2, <3>3, <1>8
    <2> QED
      BY <2>1, <2>3, <2>4, <1>7 DEF KeyAt
  <1>16. ASSUME NEW a \in 1 .. Len(ls), a = sec => Unrelated(k, j), NEW q \in Nat \ {0},
                KeyAt(new, Shift(a), j, q)
         PROVE  \E r \in 1 .. Len(ls) : KeyAt(ls, a, j, r)
    <2>1. /\ q \in Shift(a) + 1 .. Len(new) /\ KeyLine(new[q], j)
          /\ \A i \in Shift(a) + 1 .. q - 1 : new[i].type # "SECTION" /\ ~KeyLine(new[i], j)
      BY <1>16 DEF KeyAt
    <2>2. q \in 1 .. Len(new) /\ Shift(a) < q
      BY <2>1, <1>1, <1>7
    <2>3. q # sec + 1
      <3> SUFFICES ASSUME q = sec + 1 PROVE FALSE
        OBVIOUS
      <3>1. a <= sec
        BY <2>2, <1>10
      <3>2. a # sec
        BY <2>1, <1>6, <1>16
      <3>3. a < sec
        BY <3>1, <3>2, <1>1, <1>4
      <3>4. Shift(a) < Shift(sec) /\ Shift(sec) < sec + 1 /\ Shift(sec) \in 1 .. Len(new) /\ new[Shift(sec)] = ls[sec]
        BY <3>3, <1>1, <1>4, <1>7, <1>9, <1>10
      <3>5. Shift(sec) \in Shift(a) + 1 .. q - 1
        BY <3>4, <1>7, <1>4
      <3> QED
        BY <2>1, <3>4, <3>5, <1>4
    <2>4. PICK r \in 1 .. Len(ls) : q = Shift(r)
      BY <2>2, <2>3, <1>8
    <2>5. a < r
      BY <2>2, <2>4, <1>9
    <2>6. ASSUME NEW i \in a + 1 .. r - 1 PROVE ls[i].type # "SECTION" /\ ~KeyLine(ls[i], j)
      <3>1. i \in 1 .. Len(ls) /\ a < i /\ i < r
        BY <1>1
      <3>2. Shift(a) < Shift(i) /\ Shift(i) < q /\ Shift(i) \in 1 .. Len(new)
        BY <3>1, <2>4, <1>7, <1>9
      <3>3. Shift(i) \in Shift(a) + 1 .. q - 1
        BY <3>2, <2>2, <1>7
      <3> QED
        BY <2>1, <3>1, <3>3, <1>7
    <2>7. r \in a + 1 .. Len(ls)
      BY <2>5, <1>1
    <2>8. KeyAt(ls, a, j, r)
      BY <2>1, <2>4, <2>6, <2>7, <1>7 DEF KeyAt
    <2> QED
      BY <2>8
  <1>17. ASSUME NEW r \in Nat \ {0}, Found(ls, t, j, r)
         PROVE  \E q \in Nat \ {0} : Found(new, t, j, q) /\ Value(new[q]) = Value(ls[r])
    <2>1. PICK a \in Nat \ {0} : SectionAt(ls, t, a) /\ KeyAt(ls, a, j, r)
      BY <1>17 DEF Found
    <2>2. a \in 1 .. Len(ls) /\ SectionAt(new, t, Shift(a))
      BY <2>1, <1>12
    <2>3. r \in 1 .. Len(ls)
      BY <2>1, <2>2, <1>1 DEF KeyAt
    <2>4. a = sec => Unrelated(k, j)
      BY <2>1, <1>14
    <2>5. KeyAt(new, Shift(a), j, Shift(r))
      BY <2>1, <2>2, <2>3, <2>4, <1>15
    <2>6. Shift(a) \in Nat \ {0} /\ Shift(r) \in Nat \ {0} /\ new[Shift(r)] = ls[r]
      BY <2>2, <2>3, <1>7, <1>11
    <2> QED
      BY <2>2, <2>5, <2>6 DEF Found
  <1>18. ASSUME NEW q \in Nat \ {0}, Found(new, t, j, q)
         PROVE  \E r \in Nat \ {0} : Found(ls, t, j, r)
    <2>1. PICK b \in Nat \ {0} : SectionAt(new, t, b) /\ KeyAt(new, b, j, q)
      BY <1>18 DEF Found
    <2>2. PICK a \in Nat \ {0} : b = Shift(a) /\ SectionAt(ls, t, a)
      BY <2>1, <1>13
    <2>3. a \in 1 .. Len(ls) /\ (a = sec => Unrelated(k, j))
      BY <2>2, <1>12, <1>14
    <2>4. PICK r \in 1 .. Len(ls) : KeyAt(ls, a, j, r)
      BY <2>1, <2>2, <2>3, <1>16
    <2> QED
      BY <2>2, <2>4, <1>1 DEF Found
  <1>19. SameFound(ls, new, t, j)
    BY <1>17, <1>18 DEF SameFound
  <1>20. GetString(new, t, j) = GetString(ls, t, j)
    BY <1>1, <1>19, SameString
  <1> QED
    BY <1>20 DEF new

LEMMA KeptByOverwrite ==
    ASSUME NEW ls, LinesOK(ls), NEW s \in Seq(Char), NEW k \in Seq(Char), NEW v \in Seq(Char),
           NEW t \in Seq(Char), NEW j \in Seq(Char), KeptIn(ls, s, k, t, j),
           FoundAt(ls, s, k) # 0
    PROVE  GetString(AfterSet(ls, s, k, v), t, j) = GetString(ls, t, j)
  <1> DEFINE new == AfterSet(ls, s, k, v)
             at == FoundAt(ls, s, k)
  <1>1. ls \in Seq(Line) /\ Len(ls) \in Nat /\ new \in Seq(Line) /\ Len(new) \in Nat
    BY AfterSetOK, LenProperties DEF LinesOK
  <1>2. /\ at \in 1 .. Len(ls) /\ Len(new) = Len(ls)
        /\ new[at] = Overwrite(ls[at], KeyText(k, v))
        /\ \A i \in 1 .. Len(ls) : i # at => new[i] = ls[i]
    BY SetFound
  <1>3. at \in Nat \ {0} /\ Found(ls, s, k, at)
    BY <1>1, FoundLookup
  <1> HIDE DEF new, at
  <1>4. PICK sec \in Nat \ {0} : SectionAt(ls, s, sec) /\ KeyAt(ls, sec, k, at)
    BY <1>3 DEF Found
  <1>5. /\ sec \in 1 .. Len(ls) /\ SectionLine(ls[sec], s) /\ ls[sec].type = "SECTION"
        /\ sec < at /\ KeyLine(ls[at], k) /\ ls[at].type = "KEY"
        /\ \A i \in sec + 1 .. at - 1 : ls[i].type # "SECTION"
    BY <1>1, <1>4 DEF SectionAt, SectionLine, KeyAt, KeyLine
  <1>6. ls[at] \in Line /\ LineOK(ls[at]) /\ ls[sec] \in Line /\ LineOK(ls[sec])
    BY <1>1, <1>2, <1>5, ElementOfSeq DEF LinesOK
  <1>7. new[at].type = "KEY" /\ new[at].text = KeyText(k, v)
    <2> DEFINE line == ls[at]
               text == KeyText(k, v)
    <2>1. line \in Line /\ line.value <= Len(Buffer(line)) /\ text \in Seq(Char) /\ line.type = "KEY"
      BY <1>5, <1>6, KeyTextIs DEF LineOK
    <2>2. new[at] = Overwrite(line, text)
      BY <1>2
    <2> HIDE DEF line, text
    <2> DEFINE over == Overwrite(line, text)
    <2>3. over.type = line.type /\ over.text = text
      BY <2>1, OverwriteIs
    <2> QED
      BY <2>1, <2>2, <2>3 DEF text
  \* No line becomes a section, or ceases to be one.
  <1>8. \A i \in 1 .. Len(ls) : /\ new[i].type = "SECTION" <=> ls[i].type = "SECTION"
                                /\ SectionLine(new[i], t) <=> SectionLine(ls[i], t)
    BY <1>2, <1>5, <1>7 DEF SectionLine
  <1>9. \A a \in Nat \ {0} : SectionAt(new, t, a) <=> SectionAt(ls, t, a)
    <2> TAKE a \in Nat \ {0}
    <2>1. a \in 1 .. Len(ls) => \A i \in 1 .. a - 1 : i \in 1 .. Len(ls)
      BY <1>1
    <2> QED
      BY <2>1, <1>2, <1>8 DEF SectionAt
  \* The line written over is the key's, or is in no section of this name.
  <1>10. ASSUME NEW a \in 1 .. Len(ls), SectionAt(ls, t, a), NEW i \in a + 1 .. Len(ls), i = at,
                \A h \in a + 1 .. i - 1 : ls[h].type # "SECTION"
         PROVE  ~KeyLine(ls[i], j) /\ ~KeyLine(new[i], j)
    <2>1. a = sec
      <3>1. a < sec => sec \in a + 1 .. i - 1
        BY <1>1, <1>5, <1>10
      <3>2. a > sec => a \in sec + 1 .. at - 1
        BY <1>1, <1>5, <1>10
      <3>3. ls[a].type = "SECTION"
        BY <1>10 DEF SectionAt, SectionLine
      <3> QED
        BY <3>1, <3>2, <3>3, <1>5, <1>10
    <2>2. ~Unrelated(s, t)
      BY <2>1, <1>5, <1>6, <1>10, OneLine DEF SectionAt
    <2>3. Unrelated(k, j)
      BY <2>2 DEF KeptIn
    <2>4. ~KeyLine(ls[at], j)
      BY <2>3, <1>5, <1>6, OneLine
    <2>5. ~KeyLine(new[at], j)
      BY <2>3, <1>7, UnrelatedKey DEF KeyLine
    <2> QED
      BY <2>4, <2>5, <1>10
  <1>11. ASSUME NEW a \in 1 .. Len(ls), SectionAt(ls, t, a), NEW r \in Nat \ {0}
         PROVE  /\ KeyAt(new, a, j, r) <=> KeyAt(ls, a, j, r)
                /\ KeyAt(ls, a, j, r) => r \in 1 .. Len(ls) /\ r # at
    <2>1. ASSUME KeyAt(ls, a, j, r) PROVE KeyAt(new, a, j, r) /\ r \in 1 .. Len(ls) /\ r # at
      <3>1. /\ r \in a + 1 .. Len(ls) /\ KeyLine(ls[r], j)
            /\ \A i \in a + 1 .. r - 1 : ls[i].type # "SECTION" /\ ~KeyLine(ls[i], j)
        BY <2>1 DEF KeyAt
      <3>2. r \in 1 .. Len(ls) /\ r # at
        BY <3>1, <1>1, <1>10, <1>11
      <3>3. ASSUME NEW i \in a + 1 .. r - 1 PROVE new[i].type # "SECTION" /\ ~KeyLine(new[i], j)
        <4>1. i \in a + 1 .. Len(ls) /\ i \in 1 .. Len(ls) /\ \A h \in a + 1 .. i - 1 : h \in a + 1 .. r - 1
          BY <3>1, <1>1
        <4>2. i = at => ~KeyLine(new[i], j)
          BY <3>1, <4>1, <1>10, <1>11
        <4> QED
          BY <3>1, <4>1, <4>2, <1>2, <1>8
      <3> QED
        BY <3>1, <3>2, <3>3, <1>2 DEF KeyAt
    <2>2. ASSUME KeyAt(new, a, j, r) PROVE KeyAt(ls, a, j, r)
      <3>1. /\ r \in a + 1 .. Len(ls) /\ KeyLine(new[r], j)
            /\ \A i \in a + 1 .. r - 1 : new[i].type # "SECTION" /\ ~KeyLine(new[i], j)
        BY <2>2, <1>2 DEF KeyAt
      <3>2. \A i \in a + 1 .. r - 1 : ls[i].type # "SECTION"
        <4>1. \A i \in a + 1 .. r - 1 : i \in 1 .. Len(ls)
          BY <3>1, <1>1
        <4> QED
          BY <3>1, <4>1, <1>8
      <3>3. r \in 1 .. Len(ls) /\ r # at
        BY <3>1, <3>2, <1>1, <1>10, <1>11
      <3>4. ASSUME NEW i \in a + 1 .. r - 1 PROVE ~KeyLine(ls[i], j)
        <4>1. i \in a + 1 .. Len(ls) /\ i \in 1 .. Len(ls) /\ \A h \in a + 1 .. i - 1 : h \in a + 1 .. r - 1
          BY <3>1, <1>1
        <4>2. i = at => ~KeyLine(ls[i], j)
          BY <3>2, <4>1, <1>10, <1>11
        <4> QED
          BY <3>1, <4>1, <4>2, <1>2
      <3> QED
        BY <3>1, <3>2, <3>3, <3>4, <1>2 DEF KeyAt
    <2> QED
      BY <2>1, <2>2
  <1>12. \A a \in Nat \ {0} : SectionAt(ls, t, a) => a \in 1 .. Len(ls)
    BY DEF SectionAt
  <1>13. \A r \in Nat \ {0} : Found(new, t, j, r) <=> Found(ls, t, j, r)
    BY <1>9, <1>11, <1>12 DEF Found
  <1>14. \A r \in Nat \ {0} : Found(ls, t, j, r) => new[r] = ls[r]
    BY <1>2, <1>11, <1>12 DEF Found
  <1>15. SameFound(ls, new, t, j)
    BY <1>13, <1>14 DEF SameFound
  <1>16. GetString(new, t, j) = GetString(ls, t, j)
    BY <1>1, <1>15, SameString
  <1> QED
    BY <1>16 DEF new

\* Setting a key changes no key of an unrelated name, and no key of a section of
\* an unrelated name, but for the keys that a new section takes in
\* (ConfigFile.cpp:142-193, 283-301).
THEOREM OthersKeptAlways == Spec => OthersKept
  <1> DEFINE Step ==
        sets' # sets =>
           LET s == last'.section
               k == last'.key
           IN  \A t \in Sections, j \in Keys :
                  Unrelated(s, t) \/ (s = t /\ Unrelated(k, j) /\ ~TakenIn(s, j))
                      => GetString(lines', t, j) = GetString(lines, t, j)
  <1>1. ASSUME TypeOK, [Next]_vars PROVE [Step]_vars
    <2>1. CASE UNCHANGED vars
      BY <2>1
    <2>2. CASE LoadConfigFile
      BY <2>2 DEF LoadConfigFile
    <2>3. ASSUME NEW s \in Sections, NEW k \in Keys, NEW v \in Values, SetString(s, k, v)
          PROVE  Step
      <3>1. last'.section = s /\ last'.key = k /\ lines' = AfterSet(lines, s, k, v)
        BY <2>3 DEF SetString
      <3>2. s \in Seq(Char) /\ k \in Seq(Char) /\ v \in Seq(Char) /\ LinesOK(lines)
        BY <1>1, TextAssumption, TypeParts
      <3>3. ASSUME NEW t \in Sections, NEW j \in Keys, KeptIn(lines, s, k, t, j)
            PROVE  GetString(AfterSet(lines, s, k, v), t, j) = GetString(lines, t, j)
        <4>1. t \in Seq(Char) /\ j \in Seq(Char)
          BY TextAssumption
        <4>2. CASE getSection(lines, s) = 0
          BY <3>2, <3>3, <4>1, <4>2, KeptByNewSection
        <4>3. CASE getSection(lines, s) # 0 /\ FoundAt(lines, s, k) = 0
          BY <3>2, <3>3, <4>1, <4>3, KeptByNewKey
        <4>4. CASE FoundAt(lines, s, k) # 0
          BY <3>2, <3>3, <4>1, <4>4, KeptByOverwrite
        <4> QED
          BY <4>2, <4>3, <4>4
      <3> QED
        BY <3>1, <3>3 DEF KeptIn, TakenIn
    <2> QED
      BY <1>1, <2>1, <2>2, <2>3 DEF Next
  <1> QED
    BY <1>1, TypeCorrect, PTL DEF Spec, OthersKept

-----------------------------------------------------------------------------
(***************************************************************************)
(* What a restart reads.                                                   *)
(***************************************************************************)

\* A line that is read again as it is.
Regular(line) ==
    /\ ~Contains(line.text, " ")
    /\ line.type = getLineType(line.text)
    /\ line.type = "KEY" => line.value = EqualsAt(line.text) + 1

LEMMA KeyTextContains ==
    ASSUME NEW k \in Seq(Char), NEW v \in Seq(Char), NEW ch
    PROVE  Contains(KeyText(k, v), ch) <=> Contains(k, ch) \/ ch = "=" \/ Contains(v, ch)
  <1> DEFINE t == KeyText(k, v)
  <1>1. Len(k) \in Nat /\ Len(v) \in Nat
    BY LenProperties
  <1>2. /\ Len(t) = Len(k) + 1 + Len(v)
        /\ \A i \in 1 .. Len(k) : t[i] = k[i]
        /\ t[Len(k) + 1] = "="
        /\ \A i \in 1 .. Len(v) : t[Len(k) + 1 + i] = v[i]
    BY KeyTextIs
  <1> HIDE DEF t
  <1>3. \A i \in 1 .. Len(t) : \/ i \in 1 .. Len(k)
                               \/ i = Len(k) + 1
                               \/ \E h \in 1 .. Len(v) : i = Len(k) + 1 + h
    <2> TAKE i \in 1 .. Len(t)
    <2>1. CASE i > Len(k) + 1
      <3>1. i - (Len(k) + 1) \in 1 .. Len(v) /\ i = Len(k) + 1 + (i - (Len(k) + 1))
        BY <2>1, <1>1, <1>2
      <3> QED
        BY <3>1
    <2>2. CASE ~(i > Len(k) + 1)
      BY <2>2, <1>1, <1>2
    <2> QED
      BY <2>1, <2>2
  <1>4. /\ \A i \in 1 .. Len(k) : i \in 1 .. Len(t)
        /\ Len(k) + 1 \in 1 .. Len(t)
        /\ \A i \in 1 .. Len(v) : Len(k) + 1 + i \in 1 .. Len(t)
    BY <1>1, <1>2
  <1>5. ASSUME NEW i \in 1 .. Len(t), t[i] = ch PROVE Contains(k, ch) \/ ch = "=" \/ Contains(v, ch)
    BY <1>2, <1>3, <1>5 DEF Contains
  <1>6. Contains(k, ch) \/ ch = "=" \/ Contains(v, ch) => Contains(t, ch)
    BY <1>2, <1>4 DEF Contains
  <1> QED
    BY <1>5, <1>6 DEF t, Contains

LEMMA SectionTextContains ==
    ASSUME NEW s \in Seq(Char), NEW ch
    PROVE  Contains(SectionText(s), ch) <=> Contains(s, ch) \/ ch = "[" \/ ch = "]"
  <1> DEFINE t == SectionText(s)
  <1>1. Len(s) \in Nat
    BY LenProperties
  <1>2. /\ Len(t) = Len(s) + 2
        /\ t[1] = "["
        /\ \A i \in 1 .. Len(s) : t[i + 1] = s[i]
        /\ t[Len(s) + 2] = "]"
    BY SectionTextIs
  <1> HIDE DEF t
  <1>3. \A i \in 1 .. Len(t) : \/ i = 1
                               \/ i = Len(s) + 2
                               \/ i - 1 \in 1 .. Len(s) /\ i = (i - 1) + 1
    BY <1>1, <1>2
  <1>4. /\ 1 \in 1 .. Len(t)
        /\ Len(s) + 2 \in 1 .. Len(t)
        /\ \A i \in 1 .. Len(s) : i + 1 \in 1 .. Len(t)
    BY <1>1, <1>2
  <1>5. ASSUME NEW i \in 1 .. Len(t), t[i] = ch PROVE Contains(s, ch) \/ ch = "[" \/ ch = "]"
    BY <1>2, <1>3, <1>5 DEF Contains
  <1>6. Contains(s, ch) \/ ch = "[" \/ ch = "]" => Contains(t, ch)
    BY <1>2, <1>4 DEF Contains
  <1> QED
    BY <1>5, <1>6 DEF t, Contains

\* The lines that are set are read again as they are, if the value is plain.
LEMMA KeyTextRegular ==
    ASSUME NEW k \in Keys, NEW v \in Values, Plain(v)
    PROVE  /\ ~Contains(KeyText(k, v), " ")
           /\ getLineType(KeyText(k, v)) = "KEY"
           /\ EqualsAt(KeyText(k, v)) = Len(k) + 1
  <1>1. k \in Seq(Char) /\ v \in Seq(Char) /\ Len(k) \in Nat /\ Len(v) \in Nat
    BY TextAssumption, LenProperties
  <1> DEFINE t == KeyText(k, v)
  <1>2. \A ch : Contains(t, ch) <=> Contains(k, ch) \/ ch = "=" \/ Contains(v, ch)
    BY <1>1, KeyTextContains
  <1>3. /\ t \in Seq(Char) /\ Len(t) = Len(k) + 1 + Len(v)
        /\ \A i \in 1 .. Len(k) : t[i] = k[i]
        /\ t[Len(k) + 1] = "="
    BY <1>1, KeyTextIs
  <1> HIDE DEF t
  <1>4. \A ch \in {"#", "[", "]", " "} : ~Contains(k, ch) /\ ~Contains(v, ch)
    BY NameAssumption DEF Plain
  <1>5. ~Contains(t, " ") /\ ~Contains(t, "#") /\ ~Contains(t, "[") /\ Contains(t, "=")
    BY <1>2, <1>4
  <1>6. ~Contains(k, "=")
    BY NameAssumption
  <1>7. \A i \in 1 .. (Len(k) + 1) - 1 : t[i] # "="
    BY <1>1, <1>3, <1>6 DEF Contains
  <1>8. EqualsAt(t) = Len(k) + 1
    <2>1. Len(k) + 1 \in 1 .. Len(t)
      BY <1>1, <1>3
    <2> QED
      BY <2>1, <1>3, <1>7, EqualsIs
  <1>9. getLineType(t) = "KEY"
    BY <1>5, LineTypeIs
  <1> QED
    BY <1>5, <1>8, <1>9 DEF t

LEMMA SectionRegular ==
    ASSUME NEW s \in Sections
    PROVE  Regular(NewLine("SECTION", SectionText(s)))
  <1>1. s \in Seq(Char)
    BY TextAssumption
  <1> DEFINE t == SectionText(s)
  <1>2. \A ch : Contains(t, ch) <=> Contains(s, ch) \/ ch = "[" \/ ch = "]"
    BY <1>1, SectionTextContains
  <1>3. ~Contains(s, "#") /\ ~Contains(s, " ")
    BY NameAssumption
  <1> HIDE DEF t
  <1>4. ~Contains(t, "#") /\ ~Contains(t, " ") /\ Contains(t, "[") /\ Contains(t, "]")
    BY <1>2, <1>3
  <1>5. getLineType(t) = "SECTION"
    BY <1>4, LineTypeIs
  <1>6. NewLine("SECTION", t).type = "SECTION" /\ NewLine("SECTION", t).text = t
    BY <1>1, NewSectionLine DEF t
  <1> QED
    BY <1>4, <1>5, <1>6 DEF Regular, t

LEMMA KeyRegular ==
    ASSUME NEW k \in Keys, NEW v \in Values, Plain(v), NEW line,
           line.type = "KEY", line.text = KeyText(k, v), line.value = Len(k) + 2
    PROVE  Regular(line)
  <1>1. Len(k) \in Nat
    BY TextAssumption, LenProperties
  <1>2. (Len(k) + 1) + 1 = Len(k) + 2
    BY <1>1
  <1> QED
    BY <1>2, KeyTextRegular DEF Regular

AllRegular(ls) == \A i \in 1 .. Len(ls) : Regular(ls[i])

LEMMA LoadRegular ==
    ASSUME NEW f \in Seq(Seq(Char))
    PROVE  AllRegular(LoadFromFile(f))
  <1> DEFINE ls == LoadFromFile(f)
  <1>1. /\ Len(ls) = Len(f)
        /\ \A i \in 1 .. Len(f) :
              /\ allTrim(f[i]) \in Seq(Char) /\ ~Contains(allTrim(f[i]), " ")
              /\ ls[i] = NewLine(getLineType(allTrim(f[i])), allTrim(f[i]))
    BY LoadIs
  <1> HIDE DEF ls
  <1>2. ASSUME NEW i \in 1 .. Len(f) PROVE Regular(ls[i])
    <2> DEFINE t == allTrim(f[i])
               type == getLineType(t)
    <2>1. t \in Seq(Char) /\ ~Contains(t, " ") /\ ls[i] = NewLine(type, t)
      BY <1>1
    <2>2. type \in LineType
      BY LineTypeIs
    <2> HIDE DEF t, type
    <2>3. ls[i].type = type /\ ls[i].text = t /\ (type = "KEY" => ls[i].value = EqualsAt(t) + 1)
      <3> DEFINE line == NewLine(type, t)
      <3>1. line.type = type /\ line.text = t /\ (type = "KEY" => line.value = EqualsAt(t) + 1)
        BY <2>1, <2>2, NewLineIs
      <3> HIDE DEF line
      <3>2. ls[i] = line
        BY <2>1 DEF line
      <3> QED
        BY <3>1, <3>2
    <2> QED
      BY <2>1, <2>3 DEF Regular, type
  <1> QED
    BY <1>1, <1>2 DEF AllRegular, ls

LEMMA SetRegular ==
    ASSUME NEW ls, LinesOK(ls), AllRegular(ls), NEW s \in Sections, NEW k \in Keys, NEW v \in Values,
           Plain(v), FoundAt(ls, s, k) # 0 => ls[FoundAt(ls, s, k)].value = Len(k) + 2
    PROVE  AllRegular(AfterSet(ls, s, k, v))
  <1> DEFINE new == AfterSet(ls, s, k, v)
  <1>1. s \in Seq(Char) /\ k \in Seq(Char) /\ v \in Seq(Char)
    BY TextAssumption
  <1>2. ls \in Seq(Line) /\ Len(ls) \in Nat /\ \A i \in 1 .. Len(ls) : Regular(ls[i])
    BY LenProperties DEF LinesOK, AllRegular
  <1>3. Regular(NewKeyLine(k, v))
    BY <1>1, NewKeyLineIs, KeyRegular
  <1>4. CASE getSection(ls, s) = 0
    <2>1. /\ Len(new) = Len(ls) + 2
          /\ new[1] = NewLine("SECTION", SectionText(s))
          /\ new[2] = NewKeyLine(k, v)
          /\ \A i \in 1 .. Len(ls) : new[i + 2] = ls[i]
      BY <1>1, <1>4, SetInNewSection
    <2> HIDE DEF new
    <2>2. ASSUME NEW i \in 1 .. Len(new) PROVE Regular(new[i])
      <3>1. i = 1 \/ i = 2 \/ (i - 2 \in 1 .. Len(ls) /\ i = (i - 2) + 2)
        BY <1>2, <2>1
      <3>2. CASE i = 1
        BY <3>2, <2>1, SectionRegular
      <3>3. CASE i = 2
        BY <3>3, <2>1, <1>3
      <3>4. CASE i - 2 \in 1 .. Len(ls) /\ i = (i - 2) + 2
        BY <3>4, <2>1, <1>2
      <3> QED
        BY <3>1, <3>2, <3>3, <3>4
    <2> QED
      BY <2>2 DEF AllRegular, new
  <1>5. CASE getSection(ls, s) # 0 /\ FoundAt(ls, s, k) = 0
    <2> DEFINE sec == getSection(ls, s)
    <2>1. /\ Len(new) = Len(ls) + 1
          /\ \A i \in 1 .. sec : new[i] = ls[i]
          /\ new[sec + 1] = NewKeyLine(k, v)
          /\ \A i \in sec + 1 .. Len(ls) : new[i + 1] = ls[i]
      BY <1>1, <1>5, SetNewKey
    <2>2. sec \in 1 .. Len(ls)
      BY <1>2, <1>5, SectionLookup DEF SectionAt
    <2> HIDE DEF new, sec
    <2>3. ASSUME NEW i \in 1 .. Len(new) PROVE Regular(new[i])
      <3>1. i \in 1 .. sec \/ i = sec + 1 \/ (i - 1 \in sec + 1 .. Len(ls) /\ i = (i - 1) + 1)
        BY <1>2, <2>1, <2>2
      <3>2. CASE i \in 1 .. sec
        <4>1. i \in 1 .. Len(ls)
          BY <3>2, <2>2, <1>2
        <4> QED
          BY <3>2, <4>1, <2>1, <1>2
      <3>3. CASE i = sec + 1
        BY <3>3, <2>1, <1>3
      <3>4. CASE i - 1 \in sec + 1 .. Len(ls) /\ i = (i - 1) + 1
        <4>1. i - 1 \in 1 .. Len(ls)
          BY <3>4, <2>2, <1>2
        <4> QED
          BY <3>4, <4>1, <2>1, <1>2
      <3> QED
        BY <3>1, <3>2, <3>3, <3>4
    <2> QED
      BY <2>3 DEF AllRegular, new
  <1>6. CASE FoundAt(ls, s, k) # 0
    <2> DEFINE at == FoundAt(ls, s, k)
               line == ls[at]
               text == KeyText(k, v)
               over == Overwrite(line, text)
    <2>1. /\ at \in 1 .. Len(ls) /\ Len(new) = Len(ls)
          /\ new[at] = over
          /\ \A i \in 1 .. Len(ls) : i # at => new[i] = ls[i]
      BY <1>1, <1>6, SetFound
    <2>2. line \in Line /\ line.value <= Len(Buffer(line)) /\ text \in Seq(Char) /\ line.value = Len(k) + 2
      BY <2>1, <1>1, <1>6, KeyTextIs, ElementOfSeq DEF LinesOK, LineOK
    <2>3. line.type = "KEY"
      <3>1. at \in Nat \ {0} /\ Found(ls, s, k, at)
        BY <1>2, <1>6, FoundLookup
      <3> QED
        BY <3>1 DEF Found, KeyAt, KeyLine
    <2> HIDE DEF at, line, text, new
    <2>4. over.type = line.type /\ over.text = text /\ over.value = line.value
      BY <2>2, OverwriteIs
    <2> HIDE DEF over
    <2>5. Regular(over)
      BY <2>2, <2>3, <2>4, KeyRegular DEF text
    <2>6. \A i \in 1 .. Len(new) : Regular(new[i])
      BY <2>1, <2>5, <1>2
    <2> QED
      BY <2>6 DEF AllRegular, new
  <1> QED
    BY <1>4, <1>5, <1>6

\* Lines that are of one type and text, and have one value.
Alike(m, l) == m.type = l.type /\ m.text = l.text /\ (l.type = "KEY" => Value(m) = Value(l))

LEMMA RegularValue ==
    ASSUME NEW line \in Line, Regular(line), line.type = "KEY"
    PROVE  Value(line) = SubSeq(line.text, EqualsAt(line.text) + 1, Len(line.text))
  <1>1. line.text \in Seq(Char) /\ Len(line.text) \in Nat
    BY LenProperties DEF Line
  <1>2. EqualsAt(line.text) \in 0 .. Len(line.text)
    BY <1>1, EqualsIs
  <1>3. line.value = EqualsAt(line.text) + 1
    BY DEF Regular
  <1>4. \A e, l : l \in Nat /\ e \in 0 .. l => e + 1 <= l + 1
    OBVIOUS
  <1>5. line.value <= Len(line.text) + 1
    BY <1>1, <1>2, <1>3, <1>4
  <1> QED
    BY <1>3, <1>5, ValueIs

\* A line that is saved and read again.
LEMMA ReadAgain ==
    ASSUME NEW line \in Line, Regular(line)
    PROVE  Alike(NewLine(getLineType(allTrim(line.text)), allTrim(line.text)), line)
  <1> DEFINE t == line.text
             new == NewLine(line.type, t)
  <1>1. t \in Seq(Char) /\ line.type \in LineType
    BY DEF Line
  <1>2. allTrim(t) = t
    BY <1>1, TrimNothing DEF Regular
  <1>3. getLineType(t) = line.type
    BY DEF Regular
  <1>4. /\ new \in Line /\ new.type = line.type /\ new.text = t
        /\ line.type = "KEY" => new.value = EqualsAt(t) + 1
    BY <1>1, NewLineIs
  <1> HIDE DEF new
  <1>5. Regular(new)
    BY <1>4 DEF Regular
  <1>6. line.type = "KEY" => Value(new) = Value(line)
    BY <1>4, <1>5, RegularValue
  <1>7. Alike(new, line)
    BY <1>4, <1>6 DEF Alike
  <1> QED
    BY <1>2, <1>3, <1>7 DEF new

\* Up to a line files tell the same when their lines are alike up to it.
AlikeTo(ms, ls, n) ==
    /\ n \in Nat /\ n <= Len(ls) /\ n <= Len(ms)
    /\ \A i \in 1 .. n : Alike(ms[i], ls[i])

LEMMA AlikeLookup ==
    ASSUME NEW ms \in Seq(Line), NEW ls \in Seq(Line), NEW n, AlikeTo(ms, ls, n),
           NEW s, NEW k, NEW a \in Nat, NEW r \in 1 .. n
    PROVE  /\ SectionAt(ms, s, r) <=> SectionAt(ls, s, r)
           /\ KeyAt(ms, a, k, r) <=> KeyAt(ls, a, k, r)
           /\ KeyAt(ls, a, k, r) => Value(ms[r]) = Value(ls[r])
  <1>1. Len(ms) \in Nat /\ Len(ls) \in Nat /\ n \in Nat /\ n <= Len(ls) /\ n <= Len(ms)
    BY LenProperties DEF AlikeTo
  <1>2. \A i \in 1 .. n : /\ ms[i].type = ls[i].type
                          /\ SectionLine(ms[i], s) <=> SectionLine(ls[i], s)
                          /\ KeyLine(ms[i], k) <=> KeyLine(ls[i], k)
    BY DEF AlikeTo, Alike, SectionLine, KeyLine
  <1>3. r \in 1 .. Len(ms) /\ r \in 1 .. Len(ls) /\ \A i \in 1 .. r - 1 : i \in 1 .. n
    BY <1>1
  <1>4. SectionAt(ms, s, r) <=> SectionAt(ls, s, r)
    BY <1>2, <1>3 DEF SectionAt
  <1>5. /\ r \in a + 1 .. Len(ms) <=> r \in a + 1 .. Len(ls)
        /\ \A i \in a + 1 .. r - 1 : i \in 1 .. n
    BY <1>1
  <1>6. KeyAt(ms, a, k, r) <=> KeyAt(ls, a, k, r)
    BY <1>2, <1>5 DEF KeyAt
  <1>7. KeyAt(ls, a, k, r) => Value(ms[r]) = Value(ls[r])
    BY DEF KeyAt, KeyLine, AlikeTo, Alike
  <1> QED
    BY <1>4, <1>6, <1>7

LEMMA AlikeFound ==
    ASSUME NEW ms \in Seq(Line), NEW ls \in Seq(Line), NEW n, AlikeTo(ms, ls, n),
           NEW s, NEW k, NEW r \in 1 .. n
    PROVE  /\ Found(ms, s, k, r) <=> Found(ls, s, k, r)
           /\ Found(ls, s, k, r) => Value(ms[r]) = Value(ls[r])
  <1>1. \A a \in Nat : \A q \in 1 .. n :
           /\ SectionAt(ms, s, q) <=> SectionAt(ls, s, q)
           /\ KeyAt(ms, a, k, q) <=> KeyAt(ls, a, k, q)
           /\ KeyAt(ls, a, k, q) => Value(ms[q]) = Value(ls[q])
    BY AlikeLookup
  <1>2. n \in Nat
    BY DEF AlikeTo
  <1>3. \A a \in Nat \ {0} : KeyAt(ls, a, k, r) \/ KeyAt(ms, a, k, r) => a \in 1 .. n
    BY <1>2 DEF KeyAt
  <1> QED
    BY <1>1, <1>3 DEF Found

LEMMA AlikeSame ==
    ASSUME NEW ms \in Seq(Line), NEW ls \in Seq(Line), Len(ms) = Len(ls), AlikeTo(ms, ls, Len(ls)),
           NEW s, NEW k
    PROVE  GetString(ms, s, k) = GetString(ls, s, k)
  <1>1. Len(ls) \in Nat
    BY LenProperties
  <1>2. \A r \in Nat \ {0} : Found(ls, s, k, r) \/ Found(ms, s, k, r) => r \in 1 .. Len(ls)
    BY <1>1 DEF Found, KeyAt
  <1>3. \A r \in 1 .. Len(ls) : /\ Found(ms, s, k, r) <=> Found(ls, s, k, r)
                                /\ Found(ls, s, k, r) => Value(ms[r]) = Value(ls[r])
    BY AlikeFound
  <1>4. SameFound(ls, ms, s, k)
    BY <1>2, <1>3 DEF SameFound
  <1> QED
    BY <1>4, SameString

-----------------------------------------------------------------------------
(***************************************************************************)
(* Lines that are set since the file was read are read again as they are,  *)
(* and what is on disk after a complete save are these lines.              *)
(***************************************************************************)

OnDisk ==
    LET ms == LoadFromFile(file)
    IN  Len(ms) = Len(lines) /\ AlikeTo(ms, lines, Len(lines))

RegularInv == ~odd => AllRegular(lines)
SavedInv   == onDisk = "all" /\ ~odd => OnDisk

LEMMA LoadedLines ==
    ASSUME NEW f \in Seq(Seq(Char))
    PROVE  LET ls == LoadFromFile(f) IN AllRegular(ls) /\ AlikeTo(ls, ls, Len(ls))
  <1> DEFINE ls == LoadFromFile(f)
  <1>1. AllRegular(ls)
    BY LoadRegular
  <1>2. Len(ls) \in Nat
    BY LoadIs, LenProperties
  <1> HIDE DEF ls
  <1>3. AlikeTo(ls, ls, Len(ls))
    BY <1>2 DEF AlikeTo, Alike
  <1> QED
    BY <1>1, <1>3 DEF ls

\* A file of lines that were saved completely.
LEMMA SavedLines ==
    ASSUME NEW ls \in Seq(Line), AllRegular(ls)
    PROVE  LET ms == LoadFromFile(Texts(ls))
           IN  ms \in Seq(Line) /\ Len(ms) = Len(ls) /\ AlikeTo(ms, ls, Len(ls))
  <1> DEFINE f == Texts(ls)
             ms == LoadFromFile(f)
  <1>1. /\ f \in Seq(Seq(Char)) /\ Len(f) = Len(ls) /\ Len(ls) \in Nat
        /\ \A i \in 1 .. Len(ls) : f[i] = ls[i].text
    BY TextsIs, LenProperties
  <1> HIDE DEF f
  <1>2. /\ ms \in Seq(Line) /\ Len(ms) = Len(f)
        /\ \A i \in 1 .. Len(f) : ms[i] = NewLine(getLineType(allTrim(f[i])), allTrim(f[i]))
    BY <1>1, LoadIs
  <1> HIDE DEF ms
  <1>3. ASSUME NEW i \in 1 .. Len(ls) PROVE Alike(ms[i], ls[i])
    <2>1. ls[i] \in Line /\ Regular(ls[i])
      BY ElementOfSeq DEF AllRegular
    <2>2. ms[i] = NewLine(getLineType(allTrim(ls[i].text)), allTrim(ls[i].text))
      BY <1>1, <1>2
    <2> QED
      BY <2>1, <2>2, ReadAgain
  <1> QED
    BY <1>1, <1>2, <1>3 DEF AlikeTo, ms, f

LEMMA RegularSet ==
    ASSUME TypeOK, RegularInv, NEW s \in Sections, NEW k \in Keys, NEW v \in Values,
           SetString(s, k, v)
    PROVE  RegularInv'
  <1>1. LinesOK(lines)
    BY TypeParts
  <1>2. /\ lines' = AfterSet(lines, s, k, v)
        /\ odd' = (odd \/ ~Plain(v) \/ ~OwnLine(s, k))
    BY DEF SetString
  <1>3. ASSUME ~odd' PROVE AllRegular(lines')
    <2>1. ~odd /\ Plain(v) /\ OwnLine(s, k)
      BY <1>2, <1>3
    <2>2. AllRegular(lines)
      BY <2>1 DEF RegularInv
    <2>3. FoundAt(lines, s, k) # 0 => lines[FoundAt(lines, s, k)].value = Len(k) + 2
      BY <2>1 DEF OwnLine
    <2> QED
      BY <1>1, <1>2, <2>1, <2>2, <2>3, SetRegular
  <1> QED
    BY <1>3 DEF RegularInv, AllRegular

LEMMA SavedSet ==
    ASSUME TypeOK, TypeOK', RegularInv', NEW s \in Sections, NEW k \in Keys, NEW v \in Values,
           SetString(s, k, v)
    PROVE  SavedInv'
  <1> SUFFICES ASSUME onDisk' = "all", ~odd' PROVE OnDisk'
    BY DEF SavedInv
  <1>1. file' = Texts(lines')
    BY DEF SetString, SaveToFile, Complete
  <1>2. lines' \in Seq(Line) /\ AllRegular(lines')
    BY DEF TypeOK, RegularInv, AllRegular
  <1>3. Len(LoadFromFile(file')) = Len(lines') /\ AlikeTo(LoadFromFile(file'), lines', Len(lines'))
    BY <1>1, <1>2, SavedLines
  <1> QED
    BY <1>3 DEF OnDisk, AlikeTo, LoadFromFile

LEMMA RestartInv ==
    Spec => [](RegularInv /\ SavedInv)
  <1>1. Init => RegularInv /\ SavedInv
    BY TextAssumption, LoadedLines DEF Init, RegularInv, SavedInv, OnDisk
  <1>2. TypeOK /\ TypeOK' /\ RegularInv /\ SavedInv /\ [Next]_vars => RegularInv' /\ SavedInv'
    <2> SUFFICES ASSUME TypeOK, TypeOK', RegularInv, SavedInv, [Next]_vars
                 PROVE  RegularInv' /\ SavedInv'
      OBVIOUS
    <2>1. CASE UNCHANGED vars
      BY <2>1 DEF vars, RegularInv, AllRegular, SavedInv, OnDisk
    <2>2. CASE LoadConfigFile
      <3>1. file' = file /\ file \in Seq(Seq(Char))
        BY <2>2 DEF LoadConfigFile, TypeOK
      <3>2. CASE lines' = LoadFromFile(file)
        <4>1. AllRegular(lines') /\ AlikeTo(lines', lines', Len(lines'))
          BY <3>1, <3>2, LoadedLines
        <4>2. RegularInv'
          BY <4>1 DEF RegularInv, AllRegular
        <4>3. OnDisk'
          BY <3>1, <3>2, <4>1 DEF OnDisk
        <4> QED
          BY <4>2, <4>3 DEF SavedInv
      <3>3. CASE lines' = <<>> /\ onDisk' = "old"
        <4>1. AllRegular(lines')
          BY <3>3, EmptySeq DEF AllRegular
        <4> QED
          BY <3>3, <4>1 DEF RegularInv, AllRegular, SavedInv
      <3> QED
        BY <2>2, <3>2, <3>3 DEF LoadConfigFile
    <2>3. ASSUME NEW s \in Sections, NEW k \in Keys, NEW v \in Values, SetString(s, k, v)
          PROVE  RegularInv' /\ SavedInv'
      BY <2>3, RegularSet, SavedSet
    <2> QED
      BY <2>1, <2>2, <2>3 DEF Next
  <1> QED
    BY <1>1, <1>2, TypeCorrect, PTL DEF Spec

\* A process that starts after a complete save reads every key as the one before
\* it did, whatever was set in between that the file format can hold
\* (ConfigFile.cpp:36-140).
THEOREM RestartReadsTheSameAlways == Spec => []RestartReadsTheSame
  <1>1. TypeOK /\ RegularInv /\ SavedInv => RestartReadsTheSame
    <2> SUFFICES ASSUME TypeOK, SavedInv, onDisk = "all", ~odd, NEW s \in Sections, NEW k \in Keys
                 PROVE  GetString(LoadFromFile(file), s, k) = GetString(lines, s, k)
      BY DEF RestartReadsTheSame
    <2>1. lines \in Seq(Line) /\ LoadFromFile(file) \in Seq(Line)
      BY LoadIs DEF TypeOK
    <2>2. Len(LoadFromFile(file)) = Len(lines) /\ AlikeTo(LoadFromFile(file), lines, Len(lines))
      BY DEF SavedInv, OnDisk
    <2> QED
      BY <2>1, <2>2, AlikeSame
  <1> QED
    BY <1>1, RestartInv, TypeCorrect, PTL

-----------------------------------------------------------------------------
(***************************************************************************)
(* What a save that was cut short leaves.                                  *)
(***************************************************************************)

\* The rest of a piece of a text begins the rest of the text.
LEMMA PieceRest ==
    ASSUME NEW t \in Seq(Char), NEW m \in 1 .. Len(t), NEW e \in 1 .. m
    PROVE  IsPrefix(SubSeq(SubSeq(t, 1, m), e + 1, m), SubSeq(t, e + 1, Len(t)))
  <1> DEFINE l == Len(t)
             p == SubSeq(t, 1, m)
             short == SubSeq(p, e + 1, m)
             long  == SubSeq(t, e + 1, l)
  <1>1. l \in Nat /\ m \in 1 .. l /\ m \in Nat /\ e \in Nat /\ \A i \in 1 .. l : t[i] \in Char
    BY LenProperties, ElementOfSeq
  <1>2. \A i \in 1 .. m : p[i] = t[i]
    BY <1>1
  <1> HIDE DEF l, p
  <1>3. \A i \in e + 1 .. m : p[i] \in Char
    BY <1>1, <1>2
  <1>4. \A i \in e + 1 .. l : t[i] \in Char
    BY <1>1
  <1>5. e + 1 \in Int /\ m \in Int /\ l \in Int
    BY <1>1
  <1>6. /\ short \in Seq(Char)
        /\ Len(short) = IF e + 1 <= m THEN m - (e + 1) + 1 ELSE 0
        /\ \A i \in 1 .. m - (e + 1) + 1 : short[i] = p[e + 1 + i - 1]
    BY <1>3, <1>5, SubSeqProperties
  <1>7. /\ long \in Seq(Char)
        /\ Len(long) = IF e + 1 <= l THEN l - (e + 1) + 1 ELSE 0
        /\ \A i \in 1 .. l - (e + 1) + 1 : long[i] = t[e + 1 + i - 1]
    BY <1>4, <1>5, SubSeqProperties
  <1> HIDE DEF short, long
  <1>8. Len(short) <= Len(long)
    BY <1>1, <1>6, <1>7
  <1>9. ASSUME NEW i \in 1 .. Len(short) PROVE short[i] = long[i]
    <2>1. i \in 1 .. m - (e + 1) + 1 /\ i \in 1 .. l - (e + 1) + 1
      BY <1>1, <1>6
    <2>2. e + 1 + i - 1 \in 1 .. m
      BY <1>1, <2>1
    <2>3. short[i] = p[e + 1 + i - 1] /\ long[i] = t[e + 1 + i - 1]
      BY <1>6, <1>7, <2>1
    <2> QED
      BY <1>2, <2>2, <2>3
  <1>10. IsPrefix(short, long)
    BY <1>6, <1>7, <1>8, <1>9, PrefixIs
  <1> QED
    BY <1>10 DEF short, long, p, l

\* A line that was cut is a setting only if the line was, of the same value as far
\* as it goes.
LEMMA PieceIs ==
    ASSUME NEW line \in Line, Regular(line), ~Disabled(line), NEW m \in 1 .. Len(line.text)
    PROVE  LET piece == SubSeq(line.text, 1, m)
               new   == NewLine(getLineType(allTrim(piece)), allTrim(piece))
           IN  new.type = "KEY" =>
                  /\ line.type = "KEY"
                  /\ IsPrefix(Value(new), Value(line))
                  /\ \A k \in Seq(Char) : IsPrefix(k, new.text) => IsPrefix(k, line.text)
  <1> DEFINE t == line.text
             p == SubSeq(t, 1, m)
             type == getLineType(p)
             new == NewLine(type, p)
             e == EqualsAt(t)
  <1>1. t \in Seq(Char) /\ Len(t) \in Nat /\ m \in Nat /\ m <= Len(t) /\ DOMAIN t = 1 .. Len(t)
    BY LenProperties DEF Line
  <1>2. p \in Seq(Char) /\ Len(p) = m /\ DOMAIN p = 1 .. m /\ \A i \in 1 .. m : p[i] = t[i]
    BY <1>1
  <1>3. type \in LineType
    BY LineTypeIs
  <1>4. type = "KEY" => Contains(p, "=")
    BY LineTypeIs
  <1> HIDE DEF t, p, type
  <1>5. \A ch : Contains(p, ch) => Contains(t, ch)
    BY <1>1, <1>2 DEF Contains
  <1>6. allTrim(p) = p
    BY <1>2, <1>5, TrimNothing DEF Regular, t
  <1>7. /\ new \in Line /\ new.type = type /\ new.text = p
        /\ type = "KEY" => new.value = EqualsAt(p) + 1
    BY <1>2, <1>3, NewLineIs
  <1> HIDE DEF new
  <1>8. Regular(new)
    BY <1>5, <1>7 DEF Regular, t, type
  <1>9. ASSUME type = "KEY"
        PROVE  /\ line.type = "KEY"
               /\ IsPrefix(Value(new), Value(line))
               /\ \A k \in Seq(Char) : IsPrefix(k, p) => IsPrefix(k, t)
    <2>1. line.type = "KEY"
      BY <1>4, <1>5, <1>9 DEF Disabled, t
    <2>2. e \in 1 .. m /\ EqualsAt(p) = e
      <3> DEFINE q == EqualsAt(p)
      <3>1. q \in 0 .. m /\ q # 0
        BY <1>2, <1>4, <1>9, EqualsIs
      <3>2. q \in 1 .. m
        BY <1>1, <3>1
      <3>3. p[q] = "=" /\ \A i \in 1 .. q - 1 : p[i] # "="
        BY <1>2, <3>2, EqualsIs
      <3>4. q \in 1 .. Len(t) /\ \A i \in 1 .. q - 1 : i \in 1 .. m
        BY <1>1, <3>2
      <3>5. t[q] = "=" /\ \A i \in 1 .. q - 1 : t[i] # "="
        BY <1>2, <3>2, <3>3, <3>4
      <3> HIDE DEF q
      <3>6. EqualsAt(t) = q
        BY <1>1, <3>4, <3>5, EqualsIs
      <3> QED
        BY <3>2, <3>6 DEF q
    <2>3. Value(new) = SubSeq(p, e + 1, m) /\ Value(line) = SubSeq(t, e + 1, Len(t))
      BY <1>2, <1>7, <1>8, <1>9, <2>1, <2>2, RegularValue DEF t
    <2>4. IsPrefix(SubSeq(p, e + 1, m), SubSeq(t, e + 1, Len(t)))
      <3> HIDE DEF e
      <3>1. m \in 1 .. Len(t)
        BY DEF t
      <3> QED
        BY <1>1, <2>2, <3>1, PieceRest DEF p
    <2>5. ASSUME NEW k \in Seq(Char), IsPrefix(k, p) PROVE IsPrefix(k, t)
      <3>1. Len(k) \in Nat /\ Len(k) <= m /\ \A i \in 1 .. Len(k) : k[i] = p[i]
        BY <1>2, <2>5, PrefixIs, LenProperties
      <3>2. Len(k) <= Len(t) /\ \A i \in 1 .. Len(k) : k[i] = t[i]
        BY <1>1, <1>2, <3>1
      <3> QED
        BY <1>1, <3>2, PrefixIs
    <2> QED
      BY <2>1, <2>3, <2>4, <2>5
  <1> QED
    BY <1>6, <1>7, <1>9 DEF new, p, t, type

\* The lines of a file that was cut short: those saved, and perhaps a piece of
\* one more.
LEMMA CutLines ==
    ASSUME NEW ls \in Seq(Line), AllRegular(ls), \A i \in 1 .. Len(ls) : ~Disabled(ls[i]),
           NEW n \in 0 .. Len(ls) - 1, NEW m \in 0 .. Len(ls[n + 1].text)
    PROVE  LET ms == LoadFromFile(Cut(Texts(ls), n, m))
           IN  /\ ms \in Seq(Line) /\ AlikeTo(ms, ls, n) /\ Len(ms) \in n .. n + 1
               /\ Len(ms) = n + 1 /\ ms[n + 1].type = "KEY" =>
                     /\ ls[n + 1].type = "KEY"
                     /\ IsPrefix(Value(ms[n + 1]), Value(ls[n + 1]))
                     /\ \A k \in Seq(Char) :
                           IsPrefix(k, ms[n + 1].text) => IsPrefix(k, ls[n + 1].text)
  <1> DEFINE texts == Texts(ls)
             f == Cut(texts, n, m)
             ms == LoadFromFile(f)
             line == ls[n + 1]
  <1>1. /\ texts \in Seq(Seq(Char)) /\ Len(texts) = Len(ls) /\ Len(ls) \in Nat
        /\ \A i \in 1 .. Len(ls) : texts[i] = ls[i].text
    BY TextsIs, LenProperties
  <1>2. n \in Nat /\ n + 1 \in 1 .. Len(ls) /\ \A i \in 1 .. n : i \in 1 .. Len(ls)
    BY <1>1
  <1>3. line \in Line /\ Regular(line) /\ ~Disabled(line)
    BY <1>2, ElementOfSeq DEF AllRegular
  <1>4. texts[n + 1] = line.text
    BY <1>1, <1>2
  <1> HIDE DEF texts
  <1>5. n \in 0 .. Len(texts) - 1 /\ m \in 0 .. Len(texts[n + 1])
    BY <1>1, <1>4
  <1>6. /\ f \in Seq(Seq(Char))
        /\ Len(f) = IF m = 0 THEN n ELSE n + 1
        /\ \A i \in 1 .. n : f[i] = texts[i]
        /\ m # 0 => f[n + 1] = SubSeq(texts[n + 1], 1, m)
    BY <1>1, <1>5, CutIs
  <1> HIDE DEF f
  <1>7. /\ ms \in Seq(Line) /\ Len(ms) = Len(f)
        /\ \A i \in 1 .. Len(f) : ms[i] = NewLine(getLineType(allTrim(f[i])), allTrim(f[i]))
    BY <1>6, LoadIs
  <1> HIDE DEF ms
  <1>8. Len(ms) \in n .. n + 1 /\ n <= Len(ms) /\ (Len(ms) = n + 1 => m # 0)
    BY <1>2, <1>6, <1>7
  <1>9. ASSUME NEW i \in 1 .. n PROVE Alike(ms[i], ls[i])
    <2>1. ls[i] \in Line /\ Regular(ls[i])
      BY <1>2, ElementOfSeq DEF AllRegular
    <2>2. i \in 1 .. Len(f) /\ f[i] = ls[i].text
      BY <1>1, <1>2, <1>6
    <2>3. ms[i] = NewLine(getLineType(allTrim(ls[i].text)), allTrim(ls[i].text))
      BY <1>7, <2>2
    <2> QED
      BY <2>1, <2>3, ReadAgain
  <1>10. AlikeTo(ms, ls, n)
    BY <1>1, <1>2, <1>8, <1>9 DEF AlikeTo
  <1>11. ASSUME Len(ms) = n + 1, ms[n + 1].type = "KEY"
         PROVE  /\ line.type = "KEY"
                /\ IsPrefix(Value(ms[n + 1]), Value(line))
                /\ \A k \in Seq(Char) : IsPrefix(k, ms[n + 1].text) => IsPrefix(k, line.text)
    <2> DEFINE piece == SubSeq(line.text, 1, m)
               new == NewLine(getLineType(allTrim(piece)), allTrim(piece))
    <2>1. m \in 1 .. Len(line.text)
      <3>1. line.text \in Seq(Char)
        BY <1>3 DEF Line
      <3>2. Len(line.text) \in Nat /\ m # 0
        BY <3>1, <1>8, <1>11, LenProperties
      <3> QED
        BY <3>2
    <2>2. new.type = "KEY" =>
             /\ line.type = "KEY"
             /\ IsPrefix(Value(new), Value(line))
             /\ \A k \in Seq(Char) : IsPrefix(k, new.text) => IsPrefix(k, line.text)
      BY <1>3, <2>1, PieceIs
    <2> HIDE DEF line
    <2>3. f[n + 1] = piece
      BY <1>4, <1>6, <1>8, <1>11
    <2> HIDE DEF piece
    <2>4. n + 1 \in 1 .. Len(f)
      BY <1>2, <1>7, <1>11
    <2>5. ms[n + 1] = new
      BY <1>7, <2>3, <2>4
    <2> HIDE DEF new
    <2> QED
      BY <1>11, <2>2, <2>5
  <1> QED
    BY <1>7, <1>8, <1>10, <1>11 DEF ms, f, texts, line

\* The value of a setting is a text, and no text is the one that is never set.
LEMMA KeyValue ==
    ASSUME NEW line \in Line, Regular(line), line.type = "KEY"
    PROVE  Value(line) \in Seq(Char)
  <1> DEFINE t == line.text
             e == EqualsAt(t)
  <1>1. t \in Seq(Char) /\ Len(t) \in Nat /\ \A i \in 1 .. Len(t) : t[i] \in Char
    BY LenProperties, ElementOfSeq DEF Line
  <1>2. e \in Nat
    BY <1>1, EqualsIs
  <1>3. Value(line) = SubSeq(t, e + 1, Len(t))
    BY RegularValue
  <1> HIDE DEF t, e
  <1>4. e + 1 \in Int /\ Len(t) \in Int /\ \A i \in e + 1 .. Len(t) : t[i] \in Char
    BY <1>1, <1>2
  <1> QED
    BY <1>3, <1>4, SubSeqProperties

LEMMA NotDefault ==
    ASSUME NEW t \in Seq(Char)
    PROVE  t # Default
  <1> SUFFICES ASSUME t = Default PROVE FALSE
    OBVIOUS
  <1>1. Len(t) = 1 /\ t[1] = "default"
    BY DEF Default
  <1>2. t[1] \in Char
    BY <1>1, ElementOfSeq
  <1> QED
    BY <1>1, <1>2, CharAssumption

\* What is found in these lines was set to this or more.
LEMMA CutFound ==
    ASSUME NEW ms \in Seq(Line), NEW ls \in Seq(Line), NEW n, AlikeTo(ms, ls, n),
           Len(ms) \in n .. n + 1, Len(ms) <= Len(ls),
           Len(ms) = n + 1 /\ ms[n + 1].type = "KEY" =>
              /\ ls[n + 1].type = "KEY"
              /\ IsPrefix(Value(ms[n + 1]), Value(ls[n + 1]))
              /\ \A key \in Seq(Char) :
                    IsPrefix(key, ms[n + 1].text) => IsPrefix(key, ls[n + 1].text),
           NEW s, NEW k \in Seq(Char), NEW r \in Nat \ {0}, Found(ms, s, k, r),
           \A i \in 1 .. Len(ls) : ls[i].type = "KEY" => Value(ls[i]) \in Seq(Char)
    PROVE  r \in 1 .. Len(ls) /\ Found(ls, s, k, r) /\ IsPrefix(Value(ms[r]), Value(ls[r]))
  <1>1. Len(ms) \in Nat /\ Len(ls) \in Nat /\ n \in Nat /\ n <= Len(ls) /\ n <= Len(ms)
    BY LenProperties DEF AlikeTo
  <1>2. PICK a \in Nat \ {0} : SectionAt(ms, s, a) /\ KeyAt(ms, a, k, r)
    BY DEF Found
  <1>3. r \in a + 1 .. Len(ms)
    BY <1>2 DEF KeyAt
  <1>4. a \in 1 .. n /\ r \in 1 .. Len(ls) /\ (r \in 1 .. n \/ (r = n + 1 /\ Len(ms) = n + 1))
    BY <1>1, <1>3
  <1>5. CASE r \in 1 .. n
    <2>1. Found(ls, s, k, r) /\ Value(ms[r]) = Value(ls[r])
      BY <1>2, <1>5, AlikeFound
    <2>2. ls[r].type = "KEY"
      BY <2>1 DEF Found, KeyAt, KeyLine
    <2>3. Value(ls[r]) \in Seq(Char)
      BY <1>4, <2>2
    <2>4. IsPrefix(Value(ls[r]), Value(ls[r]))
      <3> DEFINE v == Value(ls[r])
      <3>1. v \in Seq(Char) /\ Len(v) \in Nat
        BY <2>3, LenProperties
      <3> HIDE DEF v
      <3>2. IsPrefix(v, v)
        BY <3>1, PrefixIs
      <3> QED
        BY <3>2 DEF v
    <2> QED
      BY <1>4, <2>1, <2>4
  <1>6. CASE r = n + 1 /\ Len(ms) = n + 1
    <2>1. SectionAt(ls, s, a)
      BY <1>2, <1>4, AlikeLookup
    <2>2. KeyLine(ms[r], k) /\ \A i \in a + 1 .. r - 1 : ms[i].type # "SECTION" /\ ~KeyLine(ms[i], k)
      BY <1>2 DEF KeyAt
    <2>3. KeyLine(ls[r], k) /\ IsPrefix(Value(ms[r]), Value(ls[r]))
      BY <1>6, <2>2 DEF KeyLine
    <2>4. \A i \in a + 1 .. r - 1 : i \in 1 .. n
      BY <1>1, <1>4, <1>6
    <2>5. \A i \in a + 1 .. r - 1 : ls[i].type # "SECTION" /\ ~KeyLine(ls[i], k)
      BY <2>2, <2>4 DEF AlikeTo, Alike, KeyLine
    <2>6. r \in a + 1 .. Len(ls)
      BY <1>1, <1>3, <1>4
    <2>7. KeyAt(ls, a, k, r)
      BY <2>3, <2>5, <2>6 DEF KeyAt
    <2> QED
      BY <1>4, <2>1, <2>3, <2>7 DEF Found
  <1> QED
    BY <1>4, <1>5, <1>6

\* A cut file is one of the lines that were being saved.
CutInv ==
    onDisk = "part" =>
        \E n \in 0 .. Len(lines) - 1 : \E m \in 0 .. Len(lines[n + 1].text) :
           file = Cut(Texts(lines), n, m)

LEMMA CutSet ==
    ASSUME TypeOK', NEW s \in Sections, NEW k \in Keys, NEW v \in Values, SetString(s, k, v)
    PROVE  CutInv'
  <1> SUFFICES ASSUME onDisk' = "part"
               PROVE  \E n \in 0 .. Len(lines') - 1 : \E m \in 0 .. Len(lines'[n + 1].text) :
                         file' = Cut(Texts(lines'), n, m)
    BY DEF CutInv, Cut, Texts
  <1>1. PICK n \in 0 .. Len(Texts(lines')) - 1 : \E m \in 0 .. Len(Texts(lines')[n + 1]) :
                file' = Cut(Texts(lines'), n, m)
    BY DEF SetString, SaveToFile
  <1>2. lines' \in Seq(Line)
    BY DEF TypeOK
  <1>3. /\ Len(Texts(lines')) = Len(lines') /\ Len(lines') \in Nat
        /\ \A i \in 1 .. Len(lines') : Texts(lines')[i] = lines'[i].text
    BY <1>2, TextsIs, LenProperties
  <1>4. n \in 0 .. Len(lines') - 1 /\ Texts(lines')[n + 1] = lines'[n + 1].text
    BY <1>3
  <1> QED
    BY <1>1, <1>4

LEMMA CutAlways == Spec => []CutInv
  <1>1. Init => CutInv
    BY DEF Init, CutInv
  <1>2. TypeOK' /\ CutInv /\ [Next]_vars => CutInv'
    <2>1. ASSUME UNCHANGED vars, CutInv PROVE CutInv'
      BY <2>1 DEF vars, CutInv, Cut, Texts
    <2>2. ASSUME LoadConfigFile PROVE CutInv'
      BY <2>2 DEF LoadConfigFile, CutInv
    <2> QED
      BY <2>1, <2>2, CutSet DEF Next
  <1> QED
    BY <1>1, <1>2, TypeCorrect, PTL DEF Spec

\* After a save that was cut short, at whatever line and character, a new process
\* reads of every key nothing, or the value or the beginning of the value that the
\* one before it had (ConfigFile.cpp:126-139).
THEOREM CutSaveInventsNothingAlways == Spec => []CutSaveInventsNothing
  <1>1. TypeOK /\ RegularInv /\ CutInv => CutSaveInventsNothing
    <2> SUFFICES ASSUME TypeOK, RegularInv, CutInv, onDisk = "part", ~odd,
                        \A i \in DOMAIN lines : ~Disabled(lines[i]),
                        NEW s \in Sections, NEW k \in Keys,
                        GetString(LoadFromFile(file), s, k) # Default
                 PROVE  /\ GetString(lines, s, k) # Default
                        /\ IsPrefix(GetString(LoadFromFile(file), s, k), GetString(lines, s, k))
      BY DEF CutSaveInventsNothing
    <2> DEFINE ms == LoadFromFile(file)
    <2>1. /\ lines \in Seq(Line) /\ DOMAIN lines = 1 .. Len(lines) /\ Len(lines) \in Nat
          /\ \A i \in 1 .. Len(lines) : lines[i] \in Line /\ ~Disabled(lines[i])
      BY LenProperties, ElementOfSeq DEF TypeOK
    <2>2. AllRegular(lines) /\ k \in Seq(Char)
      BY TextAssumption DEF RegularInv
    <2>3. PICK n \in 0 .. Len(lines) - 1 :
              \E i \in 0 .. Len(lines[n + 1].text) : file = Cut(Texts(lines), n, i)
      BY DEF CutInv
    <2>4. PICK m \in 0 .. Len(lines[n + 1].text) : file = Cut(Texts(lines), n, m)
      BY <2>3
    <2>5. /\ ms \in Seq(Line) /\ AlikeTo(ms, lines, n) /\ Len(ms) \in n .. n + 1
          /\ Len(ms) = n + 1 /\ ms[n + 1].type = "KEY" =>
                /\ lines[n + 1].type = "KEY"
                /\ IsPrefix(Value(ms[n + 1]), Value(lines[n + 1]))
                /\ \A key \in Seq(Char) :
                      IsPrefix(key, ms[n + 1].text) => IsPrefix(key, lines[n + 1].text)
      BY <2>1, <2>2, <2>4, CutLines
    <2> HIDE DEF ms
    <2>6. Len(ms) <= Len(lines)
      BY <2>1, <2>4, <2>5
    <2>7. PICK r \in Nat \ {0} : Found(ms, s, k, r)
      BY <2>5, StringNotFound DEF ms
    <2>8. \A i \in 1 .. Len(lines) : lines[i].type = "KEY" => Value(lines[i]) \in Seq(Char)
      BY <2>1, <2>2, KeyValue DEF AllRegular
    <2>9. r \in 1 .. Len(lines) /\ Found(lines, s, k, r) /\ IsPrefix(Value(ms[r]), Value(lines[r]))
      BY <2>1, <2>2, <2>5, <2>6, <2>7, <2>8, CutFound
    <2>10. GetString(ms, s, k) = Value(ms[r]) /\ GetString(lines, s, k) = Value(lines[r])
      BY <2>1, <2>5, <2>7, <2>9, StringFound
    <2>11. Value(lines[r]) # Default
      <3>1. lines[r].type = "KEY"
        BY <2>9 DEF Found, KeyAt, KeyLine
      <3>2. Value(lines[r]) \in Seq(Char)
        BY <2>9, <2>8, <3>1
      <3> QED
        BY <3>2, NotDefault
    <2> QED
      BY <2>9, <2>10, <2>11 DEF ms
  <1> QED
    BY <1>1, RestartInv, CutAlways, TypeCorrect, PTL

=============================================================================
