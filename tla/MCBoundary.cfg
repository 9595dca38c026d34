\* An edit by hand and two declines, in any order with any number of writes.
SPECIFICATION PageSpec
CONSTANTS
    Texts <- MCTexts
    Observable <- MCObservable
    Lengths <- MCLengths
    ObservableWords <- MCObservableWords
    Shown <- MCShown
    Illegible = "illegible"
    Foreign = "foreign"
    Width = 10
    FirstFiles <- MCFirstFiles
    MaxHandEdits = 1
    MaxDeclines = 2
    MaxLines = 5
INVARIANTS
    CheckedIsRecorded
PROPERTIES
    WriteSettles
    NoPromiseByAccident
CHECK_DEADLOCK FALSE
