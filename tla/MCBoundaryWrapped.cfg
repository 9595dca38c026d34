\* An entry written on one line, and what becomes of it.
SPECIFICATION PageSpec
CONSTANTS
    Texts <- MCTexts
    Observable <- MCObservable
    Lengths <- MCLengths
    ObservableWords <- MCObservableWords
    Shown <- MCShown
    Illegible = "illegible"
    Foreign = "foreign"
    Width = 10
    FirstFiles <- MCFirstFiles
    MaxHandEdits = 1
    MaxDeclines = 2
    MaxLines = 5
INVARIANT
    EntriesAreFound
CHECK_DEADLOCK FALSE
