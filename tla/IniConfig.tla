------------------------------ MODULE IniConfig ------------------------------
(***************************************************************************)
(* The configuration file: CIniFile (src/libtv/tvutils/ConfigFile.cpp) and *)
(* TvConfigManager.cpp, across deaths of the process that uses them.       *)
(*                                                                         *)
(* A text is a sequence of characters, kept as far as the code looks into  *)
(* it: names and values are a few letters long, and "=", "[", "]", "#" and *)
(* " " are the characters that mean something when a line is read again.   *)
(* A file is the sequence of its lines; line ends are left out.            *)
(*                                                                         *)
(* What is set and read fits into LINE.Text with its line end.  SetString  *)
(* does not check it: sprintf of a longer text is undefined behaviour, and *)
(* a longer line of a file is read as two.  Both are outside this model.   *)
(***************************************************************************)
EXTENDS SequencesExt

CONSTANTS
    Char,            \* the characters there are, but for the NUL that ends a text
    Sections, Keys,  \* the names that are looked up and set
    Values,          \* the values that are set
    Files,           \* the files there may be when the process first starts
    MAX_INI_FILE_LINE_LEN,  \* the characters of LINE.Text: 512
    MaxSets          \* bound: how many settings are made

ASSUME SetsAssumption == MaxSets \in Nat

NUL == "NUL"
Default == <<"default">>  \* a text that is never set

\* The characters that mean something, and two that are no character of a text.
ASSUME CharAssumption ==
    /\ {"#", "[", "]", "=", " "} \subseteq Char
    /\ NUL \notin Char /\ "default" \notin Char

ASSUME TextAssumption ==
    /\ Sections \subseteq Seq(Char) /\ Keys \subseteq Seq(Char) /\ Values \subseteq Seq(Char)
    /\ Files \subseteq Seq(Seq(Char))

\* The names are constants of the program, without the characters of the format
\* (TvConfigManager.h).
ASSUME NameAssumption ==
    /\ \A section \in Sections : ~Contains(section, "#") /\ ~Contains(section, " ")
    /\ \A key \in Keys, ch \in {"#", "[", "]", " ", "="} : ~Contains(key, ch)

VARIABLES
    file,     \* the lines on disk
    lines,    \* mpFirstLine, whose section lines in order are mpFirstSection
    sets,     \* the settings made so far
    \* history, read by the properties only
    onDisk,   \* what the last load or save left on disk: all lines, a part of
              \* them, or an older file than the lines
    last,     \* what was set last, none before the first
    odd       \* since the file was read a value was set that the file format
              \* cannot hold, or the line of a longer key was overwritten

vars == <<file, lines, sets, onDisk, last, odd>>

NoSetting == [section |-> <<>>, key |-> <<>>, value |-> <<>>, own |-> FALSE]

-----------------------------------------------------------------------------
(***************************************************************************)
(* Lines.  LINE.Text is a buffer: what a shorter text leaves of a longer   *)
(* one, rest, stays behind its NUL, where a value pointer may still point. *)
(***************************************************************************)

Buffer(line) == line.text \o <<NUL>> \o line.rest

\* The C string at the value pointer.
Value(line) ==
    LET end == SelectInSubSeq(Buffer(line), line.value, Len(Buffer(line)), LAMBDA ch : ch = NUL)
    IN  SubSeq(Buffer(line), line.value, IF end = 0 THEN Len(Buffer(line)) ELSE end - 1)

\* sprintf into a LINE.
Overwrite(line, text) ==
    [line EXCEPT !.text = text,
                 !.rest = SubSeq(Buffer(line), Len(text) + 2, Len(Buffer(line)))]

SectionText(section) == <<"[">> \o section \o <<"]">>
KeyText(key, value)  == key \o <<"=">> \o value

\* A text fits into LINE.Text, and a line of it into the buffer of fgets: there
\* is room for "\r\n" and the NUL.
Fits(text) == Len(text) + 3 <= MAX_INI_FILE_LINE_LEN

ASSUME LengthAssumption ==
    /\ MAX_INI_FILE_LINE_LEN \in Nat
    /\ \A section \in Sections : Fits(SectionText(section))
    /\ \A key \in Keys, value \in Values : Fits(KeyText(key, value))
    /\ \A f \in Files : \A i \in DOMAIN f : Fits(f[i])

getLineType(text) ==
    LET has(ch) == Contains(text, ch)
    IN  CASE has("#") -> "COMMENT"
          [] ~has("#") /\ has("[") /\ has("]") -> "SECTION"
          [] ~has("#") /\ ~(has("[") /\ has("]")) /\ has("=") -> "KEY"
          [] OTHER -> "COMMENT"

\* Where the first "=" is, 0 without one.
EqualsAt(text) == SelectInSeq(text, LAMBDA ch : ch = "=")

\* Fault: the value is taken to begin one character later.
LateValue(type, text) ==
    [type |-> type, text |-> text, rest |-> <<>>,
     value |-> IF type = "KEY" THEN EqualsAt(text) + 2 ELSE 1]

\* A LINE that was read; the value of a key begins behind the first "=".
NewLine(type, text) ==
    [type |-> type, text |-> text, rest |-> <<>>,
     value |-> IF type = "KEY" THEN EqualsAt(text) + 1 ELSE 1]

\* A LINE of a new key; its value begins behind the key and the "=".
NewKeyLine(key, value) ==
    [type |-> "KEY", text |-> KeyText(key, value), rest |-> <<>>, value |-> Len(key) + 2]

\* The text without its blanks: its n-th character is the n-th that is kept.
allTrim(text) ==
    LET kept  == {i \in DOMAIN text : text[i] # " "}
        At(n) == CHOOSE i \in kept : Cardinality({j \in kept : j <= i}) = n
    IN  [n \in 1 .. Cardinality(kept) |-> text[At(n)]]

\* The lines LoadFromFile makes of a file.
LoadFromFile(f) ==
    [i \in DOMAIN f |-> NewLine(getLineType(allTrim(f[i])), allTrim(f[i]))]

-----------------------------------------------------------------------------
(***************************************************************************)
(* Lookup: strncmp over the length of the name that is looked for, so that *)
(* a line whose name only begins like it is found too.  0: not found.      *)
(***************************************************************************)

getSection(ls, section) ==
    SelectInSeq(ls, LAMBDA line : line.type = "SECTION" /\ IsPrefix(section, Tail(line.text)))

\* Fault: the search does not stop at the next section.
KeyLineAnywhere(ls, at, key) ==
    SelectInSubSeq(ls, at + 1, Len(ls), LAMBDA line :
        line.type = "KEY" /\ IsPrefix(key, line.text))

getKeyLineAtSec(ls, at, key) ==
    LET next == SelectInSubSeq(ls, at + 1, Len(ls), LAMBDA line : line.type = "SECTION")
        end  == IF next = 0 THEN Len(ls) ELSE next - 1
    IN  SelectInSubSeq(ls, at + 1, end, LAMBDA line :
            line.type = "KEY" /\ IsPrefix(key, line.text))

\* The line of a key, 0 without the section or the key.
FoundAt(ls, section, key) ==
    LET at == getSection(ls, section) IN IF at = 0 THEN 0 ELSE getKeyLineAtSec(ls, at, key)

GetString(ls, section, key) ==
    LET at == FoundAt(ls, section, key) IN IF at = 0 THEN Default ELSE Value(ls[at])

-----------------------------------------------------------------------------
(***************************************************************************)
(* Setting and saving.                                                     *)
(***************************************************************************)

\* Fault: a new key goes to the end of the file.
InsertKeyLast(ls, at, line) == Append(ls, line)

\* A new key line goes right behind its section's line.
InsertKeyLine(ls, at, line) == InsertAt(ls, at + 1, line)

\* A new section goes before all lines.
InsertSection(ls, line) == <<line>> \o ls

\* SetString up to the save.  A line that is found keeps its value pointer.
AfterSet(ls, section, key, value) ==
    LET sec == getSection(ls, section)
        at  == FoundAt(ls, section, key)
    IN  CASE sec = 0 ->
                InsertKeyLine(InsertSection(ls, NewLine("SECTION", SectionText(section))),
                              1, NewKeyLine(key, value))
          [] sec # 0 /\ at = 0 -> InsertKeyLine(ls, sec, NewKeyLine(key, value))
          [] sec # 0 /\ at # 0 -> [ls EXCEPT ![at] = Overwrite(@, KeyText(key, value))]

\* Fault: the lines are written behind the old ones.
Appended(texts) == file \o texts

Complete(texts) == texts

\* Fault: the file is not truncated before the lines are written.
CutOver(texts, n, m) ==
    SubSeq(texts, 1, n) \o SubSeq(file, n + 1, Len(file))

\* A file of which n lines were written, and m characters of the next.
Cut(texts, n, m) ==
    SubSeq(texts, 1, n) \o (IF m = 0 THEN <<>> ELSE <<SubSeq(texts[n + 1], 1, m)>>)

\* SaveToFile: the file is truncated, then written line by line.  It may not
\* open; a write that fails, or the death of the process, leaves a part of it.
\* SetString hears of none of this.
SaveToFile(texts) ==
    \/ file' = Complete(texts) /\ onDisk' = "all"
    \/ UNCHANGED file /\ onDisk' = "old"
    \/ \E n \in 0 .. Len(texts) - 1 : \E m \in 0 .. Len(texts[n + 1]) :
          file' = Cut(texts, n, m) /\ onDisk' = "part"

Texts(ls) == [i \in DOMAIN ls |-> ls[i].text]

\* What the file format holds as it is.
Plain(value) == \A ch \in {"#", "[", "]", " "} : ~Contains(value, ch)

\* The line found belongs to this key and not to a longer one.
OwnLine(section, key) ==
    LET at == FoundAt(lines, section, key) IN at # 0 => lines[at].value = Len(key) + 2

SetString(section, key, value) ==
    /\ sets < MaxSets
    /\ sets' = sets + 1
    /\ LET new == AfterSet(lines, section, key, value)
       IN  lines' = new /\ SaveToFile(Texts(new))
    /\ last' = [section |-> section, key |-> key, value |-> value, own |-> OwnLine(section, key)]
    /\ odd' = (odd \/ ~Plain(value) \/ ~last'.own)

\* The process dies, in a save or between two, and a new one reads the file.  If
\* it does not open, the process goes on without any line, and its next save
\* writes what little it has over the file.
LoadConfigFile ==
    /\ \/ lines' = LoadFromFile(file) /\ onDisk' = "all"
       \/ lines' = <<>> /\ onDisk' = "old"
    /\ last' = NoSetting
    /\ odd' = FALSE
    /\ UNCHANGED <<file, sets>>

\* A first start whose file does not open is this one and LoadConfigFile.
Init ==
    /\ sets = 0
    /\ file \in Files
    /\ lines = LoadFromFile(file)
    /\ onDisk = "all"
    /\ last = NoSetting
    /\ odd = FALSE

Next ==
    \/ \E s \in Sections, k \in Keys, v \in Values : SetString(s, k, v)
    \/ LoadConfigFile

Spec == Init /\ [][Next]_vars

-----------------------------------------------------------------------------

LineType == {"SECTION", "KEY", "COMMENT"}
Line == [type : LineType, text : Seq(Char), rest : Seq(Char \cup {NUL}), value : Nat \ {0}]
Setting == [section : Sections, key : Keys, value : Values, own : BOOLEAN]

\* The value pointer of a line points into its buffer, and so does the pointer
\* behind the "[" of a section.
LineOK(line) ==
    /\ line.value <= Len(Buffer(line))
    /\ line.type = "SECTION" => line.text # <<>>

\* What was ever written to a line lies within LINE.Text.
InText(line) == Fits(line.text) /\ Len(Buffer(line)) <= MAX_INI_FILE_LINE_LEN

\* The file and its lines are texts, nothing leaves LINE.Text, and what is compared
\* and returned of a line lies in what was written to it (ConfigFile.h:24-33,
\* ConfigFile.cpp:303-312).
TypeOK ==
    /\ file \in Seq(Seq(Char))
    /\ \A i \in DOMAIN file : Fits(file[i])
    /\ \A i \in DOMAIN lines : InText(lines[i])
    /\ lines \in Seq(Line)
    /\ \A i \in DOMAIN lines : LineOK(lines[i])
    /\ sets \in 0 .. MaxSets
    /\ onDisk \in {"all", "part", "old"}
    /\ last \in Setting \cup {NoSetting}
    /\ odd \in BOOLEAN

\* What was set is read back, from a line found, a line inserted or a section
\* inserted, but for a key whose name begins the name of another that was found
\* in its stead: its new text is read where the value of the longer key began
\* (ConfigFile.cpp:142-193, 208-216).
ReadsBack == last.own => GetString(lines, last.section, last.key) = last.value

Unrelated(a, b) == ~IsPrefix(a, b) /\ ~IsPrefix(b, a)

\* A new section takes in the key lines that were in none, before all sections.
TakenIn(section, key) == getSection(lines, section) = 0 /\ getKeyLineAtSec(lines, 0, key) # 0

\* Setting a key leaves every key of an unrelated name, and every key of a
\* section of an unrelated name, as it is; only a new section may bring lines
\* with it (ConfigFile.cpp:173-192, 283-301).
OthersKept ==
    [][sets' # sets =>
          LET s == last'.section
              k == last'.key
          IN  \A t \in Sections, j \in Keys :
                 Unrelated(s, t) \/ (s = t /\ Unrelated(k, j) /\ ~TakenIn(s, j))
                     => GetString(lines', t, j) = GetString(lines, t, j)]_vars

\* A process that starts after a complete save reads what its predecessor did.
RestartReadsTheSame ==
    (onDisk = "all" /\ ~odd) =>
        \A s \in Sections, k \in Keys :
            GetString(LoadFromFile(file), s, k) = GetString(lines, s, k)

\* A line with a setting in it that a "#" makes a comment, or "[" and "]" a section.
Disabled(line) == line.type # "KEY" /\ Contains(line.text, "=")

\* After a save that was cut short settings may be gone or cut, but none is
\* replaced by another value (ConfigFile.cpp:126-139).  Only a line that was no
\* setting for a "#" or a "]" in it may have lost that and become one.
CutSaveInventsNothing ==
    (onDisk = "part" /\ ~odd /\ ~\E i \in DOMAIN lines : Disabled(lines[i])) =>
        \A s \in Sections, k \in Keys :
            LET after == GetString(LoadFromFile(file), s, k)
                set   == GetString(lines, s, k)
            IN  after = Default \/ (set # Default /\ IsPrefix(after, set))
=============================================================================
