----------------------------- MODULE GradeFile ------------------------------
(***************************************************************************)
(* hw1: a shell that keeps students' grades in a file, one line each, and  *)
(* a log of what it did.  Nearly every command, and every line of the log, *)
(* is the work of a forked child that the shell waits for, so that one     *)
(* program counter stands for all of them.  The children may fail, and the *)
(* whole group may be killed, between any two steps; the files stay.       *)
(***************************************************************************)
EXTENDS GradeListings, FiniteSets

CONSTANTS
  Names,      \* the students
  Typed,      \* the grades that are typed in, valid or not
  Asked,      \* the pages asked for: <<entries on a page, number of the page>>
  Begins,     \* Begins[n]: the students whose lines begin with n
  Holds,      \* Holds[n]: the students whose lines contain n
  NoEntry,    \* no record is being added
  NoGrade,    \* the grade of a student who is not in the file
  MaxAdds     \* bound on the additions in a behaviour

Grades == {g \in Typed : is_valid_grade(g)}

ASSUME GradeFileAssumption ==
  /\ Begins \in [Names -> SUBSET Names]
  /\ \A n \in Names : n \in Begins[n]
  /\ NoGrade \notin Typed
  /\ NoEntry \notin [name : Names, grade : Grades]
  /\ Rank \in [Names -> Int] /\ Asked \subseteq Int \X Int
  /\ MaxAdds \in Nat

VARIABLES
  file,     \* the lines of the grade file
  exists,   \* there is a grade file
  log,      \* how many additions and updates the log tells of
  pc,       \* where the shell or its child is
  entry,    \* the record that add_student_grade is adding
  temp,     \* its buffer: the lines it has read
  say,      \* the messages to be logged before the shell goes on
  shown,    \* what the last command printed
  harm,     \* something has failed or been killed
  adds      \* additions begun

vars == <<file, exists, log, pc, entry, temp, say, shown, harm, adds>>

Record == [name : Names, grade : Grades]

Reports == {"added", "updated"}

Nothing == [cmd |-> "none", lines |-> <<>>]

(* Messages of children, none of which logs more than one.                 *)
ChildSays == {"open_failed", "added", "updated", "rewrite_failed", "write_failed",
              "first_failed", "empty", "beyond", "found", "not_found", "sorted_by_name"}

Places == {"prompt", "read", "rewrite", "write", "create", "write_first",
           "log", "last_log", "down"}

TypeOK ==
  /\ file \in Seq(Record) /\ temp \in Seq(Record)
  /\ exists \in BOOLEAN /\ harm \in BOOLEAN
  /\ log \in [Reports -> Nat]
  /\ pc \in Places
  /\ entry \in Record \cup {NoEntry}
  /\ adds \in 0 .. MaxAdds

Init ==
  /\ file = <<>> /\ exists = FALSE
  /\ log = [r \in Reports |-> 0]
  /\ pc = "prompt"
  /\ entry = NoEntry /\ temp = <<>>
  /\ say = <<>> /\ shown = Nothing
  /\ harm = FALSE /\ adds = 0

-----------------------------------------------------------------------------
(* Every message is the work of one more child, which may fail to open the *)
(* log or to write; nobody asks whether it did.  The children of commands  *)
(* log at most one message, their last act; if the shell itself cannot     *)
(* fork for a message, it exits.                                           *)
log_message ==
  /\ pc \in {"log", "last_log"}
  /\ say # <<>>
  /\ \/ /\ log' = [r \in Reports |-> IF r = Head(say) THEN log[r] + 1 ELSE log[r]]
        /\ say' = Tail(say)
        /\ UNCHANGED <<pc, harm>>
     \/ /\ say' = Tail(say) /\ harm' = TRUE
        /\ UNCHANGED <<pc, log>>
     \/ /\ Head(say) \notin ChildSays
        /\ say' = <<>> /\ pc' = "down" /\ harm' = TRUE
        /\ UNCHANGED log
  /\ UNCHANGED <<file, exists, entry, temp, shown, adds>>

(* All is logged: the shell is back at its prompt, or exits.               *)
Return ==
  /\ pc \in {"log", "last_log"}
  /\ say = <<>>
  /\ pc' = IF pc = "log" THEN "prompt" ELSE "down"
  /\ UNCHANGED <<file, exists, log, entry, temp, say, shown, harm, adds>>

(* fork fails: the shell says so and exits.                                *)
ForkFails ==
  /\ pc = "prompt"
  /\ pc' = "last_log" /\ say' = <<"fork_failed">> /\ harm' = TRUE
  /\ shown' = Nothing
  /\ UNCHANGED <<file, exists, log, entry, temp, adds>>

-----------------------------------------------------------------------------
(* A command that leaves the grade file alone prints something and has     *)
(* messages logged.                                                        *)
Answer(output, messages, next) ==
  /\ pc = "prompt"
  /\ pc' = next
  /\ shown' = output /\ say' = messages
  /\ UNCHANGED <<file, exists, log, entry, temp, harm, adds>>

(* The other inputs: help, which is not logged; an unknown command, wrong  *)
(* arguments, an invalid grade.                                            *)
menu ==
  \E messages \in {<<>>, <<"unknown">>, <<"arguments">>, <<"invalid">>} :
    Answer(Nothing, messages, "log")

quit == Answer(Nothing, <<"quit">>, "last_log")

(* showAll, listGrades, listSome: the child prints lines and may log why   *)
(* there are none; the shell logs that it has displayed them in any case.  *)
View(cmd, arg, lines, beyond) ==
  LET news == IF ~exists THEN <<"open_failed">>
              ELSE IF file = <<>> THEN <<"empty">>
              ELSE IF beyond THEN <<"beyond">> ELSE <<>>
  IN Answer([cmd |-> cmd, arg |-> arg, lines |-> lines, news |-> news],
            Append(news, "displayed"), "log")

show_all == View("show_all", <<>>, file, FALSE)

list_grades == View("list_grades", <<>>, FirstFive(file), FALSE)

list_some(num, page) ==
  View("list_some", <<num, page>>, Page(file, num, page), BeyondFile(file, num, page))

(* The first line in which the name occurs.                                *)
search_student(n) ==
  LET hits == {i \in DOMAIN file : file[i].name \in Holds[n]}
      first == CHOOSE i \in hits : \A j \in hits : i <= j
  IN IF ~exists THEN Answer(Nothing, <<"open_failed", "search_error">>, "log")
     ELSE IF hits = {} THEN Answer(Nothing, <<"not_found">>, "log")
     ELSE Answer([cmd |-> "search", lines |-> <<file[first]>>], <<"found">>, "log")

(* Sorting by name is a child's work; sorting by grade is the shell's own, *)
(* and a missing file ends the shell.                                      *)
Sorts(choice, message) ==
  \E lines \in Sorted(file, choice) :
    Answer([cmd |-> "sort", arg |-> <<choice>>, lines |-> lines], <<message>>, "log")

sort_by_student_name(choice) ==
  IF exists THEN Sorts(choice, "sorted_by_name")
            ELSE Answer(Nothing, <<"open_failed">>, "log")

sort_by_grade(choice) ==
  IF exists THEN Sorts(choice, "sorted_by_grade")
            ELSE Answer(Nothing, <<"open_failed_in_shell">>, "last_log")

sort_by_student_name_ascending == sort_by_student_name(1)
sort_by_student_name_descending == sort_by_student_name(2)
sort_by_grade_ascending == sort_by_grade(3)
sort_by_grade_descending == sort_by_grade(4)

(* The menu of sort_all; another choice is not logged.                     *)
sort_all ==
  \/ sort_by_student_name_ascending \/ sort_by_student_name_descending
  \/ sort_by_grade_ascending \/ sort_by_grade_descending
  \/ Answer(Nothing, <<>>, "log")

-----------------------------------------------------------------------------
(* Mutant: the file is created without O_EXCL, and truncated.              *)
gtu_student_grades_anew ==
  /\ pc = "prompt"
  /\ file' = <<>> /\ exists' = TRUE /\ say' = <<"created">>
  /\ pc' = "log" /\ shown' = Nothing
  /\ UNCHANGED <<log, entry, temp, harm, adds>>

(* The child creates the file unless there is one; the shell logs what its *)
(* exit status says.                                                       *)
gtu_student_grades ==
  /\ pc = "prompt"
  /\ IF exists
     THEN say' = <<"open_failed", "create_failed">> /\ UNCHANGED exists
     ELSE exists' = TRUE /\ say' = <<"created">>
  /\ pc' = "log" /\ shown' = Nothing
  /\ UNCHANGED <<file, log, entry, temp, harm, adds>>

(* Mutant: the grade is not looked up first.                               *)
addStudentGrade_unchecked(n, g) ==
  /\ pc = "prompt" /\ adds < MaxAdds
  /\ pc' = "read"
  /\ entry' = [name |-> n, grade |-> g]
  /\ adds' = adds + 1 /\ shown' = Nothing
  /\ UNCHANGED <<file, exists, log, temp, say, harm>>

(* The menu forks a child for a record with a valid grade.                 *)
addStudentGrade(n, g) ==
  /\ pc = "prompt" /\ adds < MaxAdds
  /\ is_valid_grade(g)
  /\ pc' = "read"
  /\ entry' = [name |-> n, grade |-> g]
  /\ adds' = adds + 1 /\ shown' = Nothing
  /\ UNCHANGED <<file, exists, log, temp, say, harm>>

(* The child is through and what it has to say is logged.                  *)
Finish(messages) ==
  /\ pc' = "log" /\ say' = messages
  /\ entry' = NoEntry /\ temp' = <<>>

(* The child reads the lines, if it can open the file.                     *)
read_records ==
  /\ pc = "read"
  /\ pc' = IF exists THEN "rewrite" ELSE "create"
  /\ temp' = file
  /\ UNCHANGED <<file, exists, log, entry, say, shown, harm, adds>>

(* It opens the file again, which empties it.                              *)
truncate ==
  /\ pc = "rewrite"
  /\ \/ /\ file' = <<>> /\ pc' = "write"
        /\ UNCHANGED <<entry, temp, say, harm>>
     \/ Finish(<<"rewrite_failed">>) /\ harm' = TRUE /\ UNCHANGED file
  /\ UNCHANGED <<exists, log, shown, adds>>

(* The lines that the new record replaces: those that begin with the name. *)
Hits(lines, e) == {i \in DOMAIN lines : lines[i].name \in Begins[e.name]}

(* Mutant: strcmp in the place of strncmp, so that no line is the name.    *)
WithEntryAppended(lines, e) == Append(lines, e)

WithEntry(lines, e) ==
  IF Hits(lines, e) # {}
  THEN [i \in 1 .. Len(lines) |-> IF i \in Hits(lines, e) THEN e ELSE lines[i]]
  ELSE Append(lines, e)

(* Mutant: the two messages are exchanged.                                 *)
write_records_misreported ==
  /\ pc = "write"
  /\ file' = WithEntry(temp, entry)
  /\ Finish(<<IF Hits(temp, entry) = {} THEN "updated" ELSE "added">>)
  /\ UNCHANGED <<exists, log, shown, harm, adds>>

(* It writes all lines, or some of them and gives up.                      *)
write_records ==
  /\ pc = "write"
  /\ \/ /\ file' = WithEntry(temp, entry)
        /\ Finish(<<IF Hits(temp, entry) # {} THEN "updated" ELSE "added">>)
        /\ UNCHANGED harm
     \/ /\ \E k \in 0 .. Len(WithEntry(temp, entry)) - 1 :
             file' = SubSeq(WithEntry(temp, entry), 1, k)
        /\ Finish(<<"write_failed">>) /\ harm' = TRUE
  /\ UNCHANGED <<exists, log, shown, adds>>

(* There was no file: it is created, then the record is written, and that  *)
(* is not logged.                                                          *)
create_first ==
  /\ pc = "create"
  /\ \/ exists' = TRUE /\ pc' = "write_first" /\ UNCHANGED <<entry, temp, say, harm>>
     \/ Finish(<<"first_failed">>) /\ harm' = TRUE /\ UNCHANGED exists
  /\ UNCHANGED <<file, log, shown, adds>>

write_first ==
  /\ pc = "write_first"
  /\ \/ file' = <<entry>> /\ Finish(<<>>) /\ UNCHANGED harm
     \/ Finish(<<"write_failed">>) /\ harm' = TRUE /\ UNCHANGED file
  /\ UNCHANGED <<exists, log, shown, adds>>

-----------------------------------------------------------------------------
(* Ctrl-C: the shell and its children end, wherever they are.              *)
Kill ==
  /\ pc # "down"
  /\ pc' = "down"
  /\ harm' = (harm \/ pc # "prompt")
  /\ entry' = NoEntry /\ temp' = <<>> /\ say' = <<>> /\ shown' = Nothing
  /\ UNCHANGED <<file, exists, log, adds>>

(* The user starts the shell again.                                        *)
main ==
  /\ pc = "down"
  /\ pc' = "prompt" /\ shown' = Nothing
  /\ UNCHANGED <<file, exists, log, entry, temp, say, harm, adds>>

Viewing ==
  \/ show_all \/ list_grades \/ sort_all \/ menu \/ quit
  \/ \E a \in Asked : list_some(a[1], a[2])
  \/ \E n \in Names : search_student(n)

Adding ==
  \/ \E n \in Names, g \in Typed : addStudentGrade(n, g)
  \/ read_records \/ truncate \/ write_records \/ create_first \/ write_first

Next ==
  \/ Viewing \/ Adding \/ gtu_student_grades
  \/ log_message \/ Return \/ ForkFails \/ Kill \/ main

Spec == Init /\ [][Next]_vars

-----------------------------------------------------------------------------
(* All lines of a student have the same grade, in the file and in the      *)
(* child's buffer, although a name that begins other names makes several   *)
(* lines of one student: add_student_grade replaces every line or none.    *)
OneGradeEach ==
  \A lines \in {file, temp} : \A i, j \in DOMAIN lines :
    lines[i].name = lines[j].name => lines[i].grade = lines[j].grade

(* As long as nothing has failed or been killed, the log accounts for the  *)
(* file: at the prompt there is a line for each "added" in the log, but    *)
(* for one that is there when the first record made the file, which        *)
(* add_student_grade does not log; and every other addition is logged.     *)
LogAccounts ==
  (pc = "prompt" /\ ~harm) =>
    LET unlogged == Len(file) - log["added"]
    IN unlogged \in {0, 1} /\ log["added"] + log["updated"] + unlogged = adds

(* list_some prints the records whose place in the file is on the page, in *)
(* order, when pages have the given number of entries; and it says that    *)
(* the page is beyond the file if the file ends before the page before it  *)
(* does.                                                                   *)
PageAsAsked ==
  (shown.cmd = "list_some" /\ shown.arg[1] > 0 /\ file # <<>>) =>
    LET num == shown.arg[1]
        page == shown.arg[2]
        OnPage == {i \in DOMAIN file : ((i - 1) \div num) + 1 = page}
    IN /\ Len(shown.lines) = Cardinality(OnPage)
       /\ \A i \in OnPage : shown.lines[((i - 1) % num) + 1] = file[i]
       /\ shown.news = <<"beyond">> <=> Len(file) < num * (page - 1)

(* Sorting by name prints every line of the file as often as it is there,  *)
(* in the order of strcmp or in the reverse order: the bubble sort makes   *)
(* enough sweeps, each of them long enough.                                *)
SortedListings ==
  (shown.cmd = "sort" /\ shown.arg \in {<<1>>, <<2>>}) =>
    LET lines == shown.lines
        Place(r) == IF shown.arg = <<1>> THEN Rank[r.name] ELSE 0 - Rank[r.name]
        Times(s, r) == Cardinality({i \in DOMAIN s : s[i] = r})
    IN /\ \A r \in Record : Times(lines, r) = Times(file, r)
       /\ \A i, j \in DOMAIN lines : i < j => Place(lines[i]) <= Place(lines[j])

(* The students whose lines begin with no other student's name: only these *)
(* does adding another student's grade leave alone.                        *)
Apart == {m \in Names : \A n \in Names \ {m} : m \notin Begins[n]}

(* The book that lines stand for.                                          *)
BookOf(lines) ==
  [m \in Apart |->
     IF \E i \in DOMAIN lines : lines[i].name = m
     THEN lines[CHOOSE i \in DOMAIN lines : lines[i].name = m].grade
     ELSE NoGrade]

(* While the file is empty between truncation and writing, the book is     *)
(* what the child holds: if it dies there, all grades are lost.            *)
GB == INSTANCE GradeBook WITH
        Names <- Apart, Others <- Names \ Apart,
        book <- BookOf(IF pc = "write" THEN temp ELSE file), rewriting <- (pc = "write")

(* For the students of Apart the shell implements GradeBook: whoever's     *)
(* grade is added, it is entered at once or not at all, no other grade of  *)
(* theirs changes, and none is lost but by an addition that fails or is    *)
(* killed between emptying the file and the last line.  For the other      *)
(* students this is false: adding Ali overwrites the line of Ali Can.      *)
ImplementsBook == GB!Spec
=============================================================================
