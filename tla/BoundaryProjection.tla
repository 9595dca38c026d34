--------------------------- MODULE BoundaryProjection ---------------------------
(***************************************************************************)
(* BOUNDARY.md and the decision record it is projected from (pkg/boundary, *)
(* internal/project, germline boundary -write).  The file is a list of     *)
(* lines: prose, a heading, under it the entries, each wrapped to a width, *)
(* and prose again.  A person edits file and record, a command reads the   *)
(* file back, merges the record into it and renders it anew.               *)
(*                                                                         *)
(* An entry is the words of its line.  A word is known by its entry, its   *)
(* place and its length, which is all that wrapping and joining look at.   *)
(* The command is one step: it loads, projects and renames within          *)
(* milliseconds and asks nobody.                                           *)
(***************************************************************************)
EXTENDS Integers, Sequences, SequencesExt, Picking

CONSTANTS
    Texts,             \* Texts of entries: observable, version, decision, reason.
    Observable,        \* The observable of each.
    Lengths,           \* The lengths of the words of its line, after the dash.
    ObservableWords,   \* How many of them open it: "**observable**".
    Shown,             \* What its rendered line reads as: itself, another or Illegible.
    Illegible,         \* A line entryPattern does not match.
    Width,             \* The column entries are wrapped at.
    FirstFiles,        \* The files a project begins with.
    Foreign,           \* A decline in the record that names another system.
    MaxHandEdits,      \* Bound: edits of the file by hand.
    MaxDeclines,       \* Bound: declines in the record.
    MaxLines           \* Bound: the lines of a file that is written anew.

ASSUME EntriesAssumption ==
    /\ Lengths \in [Texts -> Seq(Nat \ {0})]
    /\ \A e \in Texts :
         /\ ObservableWords[e] \in 1..Len(Lengths[e])
         /\ Shown[e] \in Texts \cup {Illegible}
         /\ Shown[e] \in Texts =>
              Shown[Shown[e]] = Shown[e] /\ Lengths[Shown[e]] = Lengths[e]
    /\ Illegible \notin Texts /\ Foreign \notin Texts

ASSUME WidthAssumption == Width \in Nat

VARIABLES
    file,       \* The lines of BOUNDARY.md.
    store,      \* The record: "none", "own" in the project, or "shared".
    declines,   \* What it declines, in order.
    handEdits   \* Counts edits by hand.

pageVars == <<file, store, declines, handEdits>>

----------------------------------------------------------------------------
(* Lines. *)

Words == UNION {{<<e, i>> : i \in DOMAIN Lengths[e]} : e \in Texts}

\* "more" is a line that starts on two spaces, "item" one that starts on a dash.
Kinds == {"heading", "title", "prose", "blank", "item", "more"}

Line == [kind : Kinds, words : Seq(Texts \X Nat)]

ASSUME FilesAssumption == FirstFiles \subseteq Seq(Line)

Plain(kind) == [kind |-> kind, words |-> <<>>]

\* The words of an entry's line, as they can be read.
WordsOf(e) == [i \in DOMAIN Lengths[e] |-> <<IF Shown[e] = Illegible THEN e ELSE Shown[e], i>>]

\* A dash with nothing behind it, not even a space, opens no item.
OpensItem(line) == line.kind = "item" /\ line.words # <<>>

Wide(line) ==
    LET upto[n \in 0..Len(line.words)] ==
            IF n = 0 THEN 1
            ELSE upto[n - 1] + 1 + Lengths[line.words[n][1]][line.words[n][2]]
    IN  upto[Len(line.words)]

\* Mutant of Put: the continuation is not indented.
PutFlush(lines, w) ==
    IF Wide(Last(lines)) + 1 + Lengths[w[1]][w[2]] > Width
    THEN Append(lines, [kind |-> "prose", words |-> <<w>>])
    ELSE Front(lines) \o <<[Last(lines) EXCEPT !.words = Append(@, w)]>>

Put(lines, w) ==
    IF Wide(Last(lines)) + 1 + Lengths[w[1]][w[2]] > Width
    THEN Append(lines, [kind |-> "more", words |-> <<w>>])
    ELSE Front(lines) \o <<[Last(lines) EXCEPT !.words = Append(@, w)]>>

\* wrap, of an entry's line.
Wrap(e) ==
    LET put[n \in 0..Len(WordsOf(e))] ==
            IF n = 0 THEN <<Plain("item")>> ELSE Put(put[n - 1], WordsOf(e)[n])
    IN  put[Len(WordsOf(e))]

----------------------------------------------------------------------------
(* Documents. *)

Least(S) == CHOOSE i \in S : \A j \in S : i <= j

\* The lines after the heading.
Under(lines) ==
    {i \in DOMAIN lines : \E h \in 1..(i - 1) : lines[h].kind = "heading"}

ItemsAt(lines) == {i \in Under(lines) : OpensItem(lines[i])}

\* The list occupies the lines from ListFirst up to and without ListEnd.  An
\* empty one sits before the next title.
ListFirst(lines) ==
    Least(IF ItemsAt(lines) # {} THEN ItemsAt(lines)
          ELSE {i \in Under(lines) : lines[i].kind = "title"} \cup {Len(lines) + 1})

ListEnd(lines) ==
    IF ItemsAt(lines) = {} THEN ListFirst(lines)
    ELSE Least({i \in ListFirst(lines)..Len(lines) :
                  ~OpensItem(lines[i]) /\ lines[i].kind # "more"} \cup {Len(lines) + 1})

\* The words of the item at a line, joined with those of its continuations.
Joined(lines, at) ==
    LET end == Least({i \in ItemsAt(lines) : i > at} \cup {ListEnd(lines)})
    IN  FlattenSeq([i \in 1..(end - at) |-> lines[at + i - 1].words])

ListedAt(lines) == {i \in ItemsAt(lines) : i < ListEnd(lines)}

\* parseEntry: what the words of an item say.
Reads(words) == {e \in Texts : Shown[e] = e /\ WordsOf(e) = words}

Loads(lines) ==
    /\ \E i \in DOMAIN lines : lines[i].kind = "heading"
    /\ \A at \in ListedAt(lines) : Reads(Joined(lines, at)) # {}

EntriesOf(lines) ==
    LET at == InOrder(ListedAt(lines))
    IN  [k \in DOMAIN at |-> CHOOSE e \in Reads(Joined(lines, at[k])) : TRUE]

Parse(lines) ==
    [preamble |-> SubSeq(lines, 1, ListFirst(lines) - 1),
     entries  |-> EntriesOf(lines),
     epilogue |-> SubSeq(lines, ListEnd(lines), Len(lines))]

Render(d) ==
    LET list == FlattenSeq([k \in DOMAIN d.entries |-> Wrap(d.entries[k])])
        gap  == IF d.entries # <<>> /\ d.epilogue # <<>> /\ Head(d.epilogue).kind # "blank"
                THEN <<Plain("blank")>> ELSE <<>>
    IN  d.preamble \o list \o gap \o d.epilogue

ObservablesOf(entries) == {Observable[entries[k]] : k \in DOMAIN entries}

----------------------------------------------------------------------------
(* The record. *)

\* What the record declines for this system.
RecordedHere == Picked(declines, {k \in DOMAIN declines : declines[k] # Foreign})

HasRecord == declines # <<>>

\* A record the project ships is for nobody else.
RecordReads == store = "own" => \A k \in DOMAIN declines : declines[k] # Foreign

\* Mutant of Unrecorded: the record may forget.
UnrecordedNone(d) == {}

\* Entries of the file that a projection would lose.
Unrecorded(d) == ObservablesOf(d.entries) \ ObservablesOf(RecordedHere)

\* Project, where it does not refuse.
Projected(d) == [d EXCEPT !.entries = IF HasRecord THEN RecordedHere ELSE @]

\* Mutant of RecordProblem: a file that lacks nothing is up to date.
RecordProblemNone ==
    \/ ~RecordReads
    \/ HasRecord /\ Unrecorded(Parse(file)) # {}

RecordProblem ==
    \/ ~RecordReads
    \/ /\ HasRecord
       /\ \/ Unrecorded(Parse(file)) # {}
          \/ Render(Projected(Parse(file))) # Render(Parse(file))

\* The part of germline check that is about the boundary.
Checked ==
    /\ Loads(file)
    /\ IsInjective([k \in DOMAIN EntriesOf(file) |-> Observable[EntriesOf(file)[k]]])
    /\ ~RecordProblem

\* entrySource: the lines somebody has to have committed.
InFile(o) ==
    {i \in DOMAIN file :
        /\ OpensItem(file[i])
        /\ LET w == Head(file[i].words)
           IN  /\ Observable[w[1]] = o /\ w[2] = 1
               /\ Len(file[i].words) >= ObservableWords[w[1]]}

HasSource(o) == IF HasRecord THEN o \in ObservablesOf(RecordedHere) ELSE InFile(o) # {}

----------------------------------------------------------------------------

PageInit ==
    /\ file \in FirstFiles
    /\ store \in {"none", "own", "shared"}
    /\ declines = <<>>
    /\ handEdits = 0

Edit(lines) ==
    /\ handEdits < MaxHandEdits
    /\ handEdits' = handEdits + 1
    /\ file' = lines
    /\ UNCHANGED <<store, declines>>

\* A person writes an entry on one line, or a blank one, below the heading, or
\* takes a line other than the heading out.
EditFile ==
    \/ \E at \in {i + 1 : i \in Under(file)} \cup {ListFirst(file)}, e \in Texts :
         Edit(InsertAt(file, at, [kind |-> "item", words |-> WordsOf(e)]))
    \/ \E at \in Under(file) : Edit(InsertAt(file, at, Plain("blank")))
    \/ \E at \in DOMAIN file : file[at].kind # "heading" /\ Edit(RemoveAt(file, at))

EditRecord ==
    /\ store # "none"
    /\ \/ /\ Len(declines) < MaxDeclines
          /\ \E d \in Texts \cup {Foreign} : declines' = Append(declines, d)
       \/ \E k \in DOMAIN declines : declines' = RemoveAt(declines, k)
    /\ UNCHANGED <<file, store, handEdits>>

\* boundary -write.  What it refuses, it leaves as it is.
Write ==
    /\ Len(file) <= MaxLines
    /\ Loads(file)
    /\ RecordReads
    /\ HasRecord => Unrecorded(Parse(file)) = {}
    /\ file' = Render(Projected(Parse(file)))
    /\ UNCHANGED <<store, declines, handEdits>>

PageNext == EditFile \/ EditRecord \/ Write

PageSpec == PageInit /\ [][PageNext]_pageVars

----------------------------------------------------------------------------
(* What must hold. *)

\* Entries that survive the page: read as what they are, and with a first word
\* that leaves room for the dash.
Printable(entries) ==
    \A k \in DOMAIN entries :
        Shown[entries[k]] = entries[k] /\ 2 + Head(Lengths[entries[k]]) <= Width

\* "Render(Parse(x)) is x for any document this package produced", and "prose
\* kept verbatim": a file that was written reads back as the prose it had and
\* the entries it was given, whatever the layout it came in, and writing it
\* again changes nothing.
WriteSettles ==
    [][LET had == Parse(file) now == Parse(file')
       IN  Write /\ Printable(Projected(had).entries) =>
             /\ Loads(file')
             /\ now.entries = Projected(had).entries
             /\ now.preamble = had.preamble
             /\ now.epilogue \in {had.epilogue, <<Plain("blank")>> \o had.epilogue}
             /\ Render(now) = file']_pageVars

\* "A boundary regenerated from a record that has forgotten an entry is a
\* promise nobody meant to make": no write takes an observable off the list.
NoPromiseByAccident ==
    [][Write /\ Printable(Projected(Parse(file)).entries) =>
         ObservablesOf(EntriesOf(file)) \subseteq ObservablesOf(EntriesOf(file'))]_pageVars

\* A green check of a project with a record means that the list a reader sees
\* is this system's part of the record, in its order, and that each entry says
\* what the line of the recorded one reads as: the check compares lines, in
\* which two blanks are one.
CheckedIsRecorded ==
    Checked /\ HasRecord =>
        EntriesOf(file) = [k \in DOMAIN RecordedHere |-> Shown[RecordedHere[k]]]

\* entrySource "locates the lines that declare an observable's entry": where the
\* file is the source, an entry that is declared can be found and so approved.
EntriesAreFound ==
    Loads(file) /\ ~HasRecord =>
        \A o \in ObservablesOf(EntriesOf(file)) : HasSource(o)

=============================================================================
