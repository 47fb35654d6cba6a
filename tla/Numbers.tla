------------------------------- MODULE Numbers -------------------------------
(***************************************************************************)
(* FKLib_Common/Utils/Numbers.go: the configuration tables of a game       *)
(* server.  Each file under a directory of etcd is a workbook; init reads  *)
(* them once, then a watcher replaces a workbook when its file is stored.  *)
(*                                                                         *)
(* A workbook is a sequence of sheets, a sheet has a name and rows of      *)
(* cells, its header first.  A content that is no key of Books is broken.  *)
(***************************************************************************)
EXTENDS Etcd, SequencesExt

CONSTANTS
    Tables,     \* the directory of the workbooks
    Books       \* the workbooks of the contents that can be decoded

Files == {k \in Keys : Dir[k] = Tables}

VARIABLES
    numbers,    \* of each file that was read: its tables
    read,       \* init: where it is, and the files it has still to read
    nwatch      \* the watcher's request

numvars == <<numbers, read, nwatch>>

NumbersInit ==
    /\ numbers = [f \in {} |-> {}]
    /\ read = [pc |-> "wait", todo |-> {}, listed |-> 0, refused |-> {}]
    /\ nwatch = WatchFrom(0)

-----------------------------------------------------------------------------
(* A workbook as a numbers: a table is a function of rows and fields with   *)
(* the names of its rows; panicked when an index or dump_keys panicked.     *)

NoTable == [fields |-> <<>>, keys |-> {}]
Rows(table) == {x[1] : x \in DOMAIN table.fields}

set(ns, tbl, row, field, value) ==
    LET old == IF tbl \in DOMAIN ns.tables THEN ns.tables[tbl] ELSE NoTable
        new == [old EXCEPT !.fields = (<<row, field>> :> value) @@ @]
    IN  [ns EXCEPT !.tables = (tbl :> new) @@ @]

dump_keys(ns, tbl) ==
    IF tbl \notin DOMAIN ns.tables THEN [ns EXCEPT !.panicked = TRUE]
    ELSE [ns EXCEPT !.tables[tbl].keys = Rows(ns.tables[tbl])]

\* The cells of a sheet, row by row, the header left out.
Cells(sheet) ==
    FlattenSeq([i \in 1 .. Len(sheet.rows) |->
        IF i = 1 THEN <<>> ELSE [j \in 1 .. Len(sheet.rows[i]) |-> <<i, j>>]])

\* A cell without a header ends the parse; what was set before stays.
CellSet(ns, sheet, at) ==
    IF ns.panicked THEN ns
    ELSE IF at[2] > Len(sheet.rows[1]) THEN [ns EXCEPT !.panicked = TRUE]
    ELSE set(ns, sheet.name, sheet.rows[at[1]][1], sheet.rows[1][at[2]],
             sheet.rows[at[1]][at[2]])

ParseSheet(ns, sheet) ==
    LET filled == FoldLeft(LAMBDA x, at : CellSet(x, sheet, at), ns, Cells(sheet))
    IN  IF filled.panicked THEN filled ELSE dump_keys(filled, sheet.name)

parse(book) == FoldLeft(ParseSheet, [tables |-> <<>>, panicked |-> FALSE], book)

-----------------------------------------------------------------------------
(* Lookups; where the code panics they give panic. *)

panic == "panic"

get(ns, tbl, row, field) ==
    IF tbl \in DOMAIN ns.tables /\ <<row, field>> \in DOMAIN ns.tables[tbl].fields
    THEN ns.tables[tbl].fields[<<row, field>>] ELSE panic
GetKeys(ns, tbl) == IF tbl \in DOMAIN ns.tables THEN ns.tables[tbl].keys ELSE {panic}
Count(ns, tbl)   == Cardinality(Rows(ns.tables[tbl]))
IsRecordExists(ns, tbl, row) ==
    tbl \in DOMAIN ns.tables /\ row \in Rows(ns.tables[tbl])
IsFieldExists(ns, tbl, row, field) ==
    tbl \in DOMAIN ns.tables /\ <<row, field>> \in DOMAIN ns.tables[tbl].fields

-----------------------------------------------------------------------------
(* init and watcher *)

SetNumbers_Into(f, content) ==                            \* mutant
    numbers' = [g \in DOMAIN numbers \cup {f} |->
                   IF g # f THEN numbers[g]
                   ELSE IF f \notin DOMAIN numbers THEN parse(Books[content])
                   ELSE FoldLeft(ParseSheet, [numbers[f] EXCEPT !.panicked = FALSE],
                                 Books[content])]

SetNumbers(f, content) ==
    numbers' = [g \in DOMAIN numbers \cup {f} |->
                   IF g = f THEN parse(Books[content]) ELSE numbers[g]]

Fun_Init ==
    /\ read.pc = "wait"
    /\ \/ read' = [read EXCEPT !.pc = "files", !.todo = Listing({Tables}),
                               !.listed = Len(log)]
       \/ read' = [read EXCEPT !.pc = "files", !.refused = Files, !.listed = Len(log)]
    /\ UNCHANGED <<numbers, nwatch>>

\* The files come in any order; one that cannot be read ends the reading.
ReadFile ==
    /\ read.pc = "files"
    /\ \E e \in read.todo :
          IF e.value \notin DOMAIN Books
          THEN /\ read' = [read EXCEPT !.todo = {}, !.refused = {x.key : x \in read.todo}]
               /\ UNCHANGED numbers
          ELSE SetNumbers(e.key, e.value) /\ read' = [read EXCEPT !.todo = @ \ {e}]
    /\ UNCHANGED nwatch

StartWatcher ==
    /\ read.pc = "files" /\ read.todo = {}
    /\ read' = [read EXCEPT !.pc = "done"] /\ nwatch' = WatchFrom(read.listed)
    /\ UNCHANGED numbers

NumbersRequest ==
    /\ read.pc = "done" /\ RequestStep(nwatch, nwatch', {Tables})
    /\ UNCHANGED <<numbers, read>>

\* A file that is deleted, or stored broken, keeps the tables it had.
NumbersReceive ==
    /\ HasNext(nwatch, {Tables}) /\ nwatch' = Passed(nwatch, {Tables})
    /\ LET e == log[NextEvent(nwatch, {Tables})]
       IN  IF e.action = "set" /\ e.value \in DOMAIN Books THEN SetNumbers(e.key, e.value)
           ELSE UNCHANGED numbers
    /\ UNCHANGED read

NumbersNext == Fun_Init \/ ReadFile \/ StartWatcher \/ NumbersRequest \/ NumbersReceive

-----------------------------------------------------------------------------
(* Properties *)

\* The change i stored a readable workbook under f; what was there before init
\* listed the directory counts if init listed it and did not end before it.
Version(f, i) == /\ log[i].key = f /\ log[i].action = "set"
                 /\ log[i].value \in DOMAIN Books
                 /\ \/ i > read.listed
                    \/ f \notin read.refused /\ LastOf(f, read.listed) = i

LastBook(f) ==
    LET at == {i \in 1 .. Len(log) : Version(f, i)}
    IN  IF at = {} THEN <<>> ELSE <<Books[log[CHOOSE i \in at : \A m \in at : m <= i].value]>>

\* What is read of a workbook: its sheets up to the first without a cell or with
\* a cell that has no header, and of this one the cells before that cell.
Headless(sheet, at) == at[2] > Len(sheet.rows[1])
Precedes(at, b) == at[1] < b[1] \/ (at[1] = b[1] /\ at[2] < b[2])
ReadCells(sheet) ==
    {at \in Range(Cells(sheet)) :
        \A b \in Range(Cells(sheet)) : Headless(sheet, b) => Precedes(at, b)}
Whole(sheet) ==
    Cells(sheet) # <<>> /\ \A at \in Range(Cells(sheet)) : ~Headless(sheet, at)
ReadSheets(book) == {k \in DOMAIN book : \A j \in 1 .. k - 1 : Whole(book[j])}

\* A cell by the names of its table, row and field, which may come again below.
Name(sheet, at) == <<sheet.name, sheet.rows[at[1]][1], sheet.rows[1][at[2]]>>
LastCell(sheet, name) ==
    LET same == {at \in ReadCells(sheet) : Name(sheet, at) = name}
        last == CHOOSE at \in same : \A b \in same \ {at} : Precedes(b, at)
    IN  sheet.rows[last[1]][last[2]]
Held(book) == UNION {{Name(book[k], at) : at \in ReadCells(book[k])} : k \in ReadSheets(book)}

\* The lookups in ns answer for every cell that is read of a workbook, whose
\* sheets have different names, list the rows of its whole sheets, and find no
\* cell that another workbook has and this one has not.
AnswersFrom(ns, book) ==
    /\ \A c \in DOMAIN Books : \A x \in Held(Books[c]) :
          IsFieldExists(ns, x[1], x[2], x[3]) <=> x \in Held(book)
    /\ \A k \in ReadSheets(book) :
          LET tbl   == book[k].name
              names == {x \in Held(book) : x[1] = tbl}
              rows  == {x[2] : x \in names}
          IN  /\ \A x \in names : get(ns, tbl, x[2], x[3]) = LastCell(book[k], x)
              /\ \A row \in rows : IsRecordExists(ns, tbl, row)
              /\ names # {} => /\ GetKeys(ns, tbl) = IF Whole(book[k]) THEN rows ELSE {}
                               /\ Count(ns, tbl) = Cardinality(rows)

\* When no change was missed, lookups answer from the last readable version of
\* a file and from nothing else: no broken file, deletion or refused file of
\* another name comes between, and a version replaces all of the one before,
\* also when its parse, or that of the one before, has panicked half way.
TablesCurrent ==
    read.pc = "done" /\ UpToDate(nwatch, {Tables}) =>
        \A f \in Files : \A i \in DOMAIN LastBook(f) :
            f \in DOMAIN numbers /\ AnswersFrom(numbers[f], LastBook(f)[i])
=============================================================================
