\* Two sections, three keys of which one begins like another, three values, two
\* settings in any number of lives of the process, and lines that are just long
\* enough for the longest of them.
SPECIFICATION Spec
CONSTANTS
    Char <- Chars
    Sections <- SectionNames
    Keys <- KeyNames
    Values <- SomeValues
    Files <- SomeFiles
    MAX_INI_FILE_LINE_LEN = 8
    MaxSets = 2
INVARIANTS
    TypeOK
    ReadsBack
    RestartReadsTheSame
    CutSaveInventsNothing
PROPERTIES
    OthersKept
