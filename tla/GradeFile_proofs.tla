-------------------------- MODULE GradeFile_proofs --------------------------
(***************************************************************************)
(* Proofs about GradeFile for every set of students and grades, whatever   *)
(* names begin other names, and however the writing of the file fails.     *)
(***************************************************************************)
EXTENDS GradeFile, FoldTheorems, SequenceTheorems, TLAPS

(* All lines of a student have the same grade.                             *)
Uniform(lines) ==
  \A i, j \in DOMAIN lines : lines[i].name = lines[j].name => lines[i].grade = lines[j].grade

(* Where a child adds a record.                                            *)
Busy == {"read", "rewrite", "write", "create", "write_first"}

(* The child's buffer is the file until the file is emptied, and the file  *)
(* is empty from then until it is written.                                 *)
Copies ==
  /\ pc \in Busy <=> entry # NoEntry
  /\ pc = "rewrite" => temp = file
  /\ pc \in {"rewrite", "write", "write_first"} => exists
  /\ pc \in {"write", "create", "write_first"} \/ ~exists => file = <<>>

BookInv == TypeOK /\ Copies /\ Uniform(file) /\ Uniform(temp)

-----------------------------------------------------------------------------
(* What add_student_grade makes of the lines it has read.                  *)

LEMMA WithEntryType ==
  ASSUME NEW lines \in Seq(Record), NEW e \in Record
  PROVE  WithEntry(lines, e) \in Seq(Record)
BY DEF WithEntry

LEMMA WithEntryUniform ==
  ASSUME NEW lines \in Seq(Record), NEW e \in Record, Uniform(lines)
  PROVE  Uniform(WithEntry(lines, e))
<1>0. e.name \in Begins[e.name]
  BY GradeFileAssumption DEF Record
<1>1. CASE Hits(lines, e) # {}
  <2>1. WithEntry(lines, e) = [i \in 1 .. Len(lines) |-> IF i \in Hits(lines, e) THEN e ELSE lines[i]]
    BY <1>1 DEF WithEntry
  <2>2. \A i \in 1 .. Len(lines) : i \notin Hits(lines, e) => lines[i].name # e.name
    BY <1>0 DEF Hits
  <2> QED
    BY <2>1, <2>2 DEF Uniform
<1>2. CASE Hits(lines, e) = {}
  <2>1. WithEntry(lines, e) = Append(lines, e)
    BY <1>2 DEF WithEntry
  <2>2. \A i \in 1 .. Len(lines) : lines[i].name # e.name
    BY <1>0, <1>2 DEF Hits
  <2>3. /\ DOMAIN Append(lines, e) = 1 .. Len(lines) + 1
        /\ \A i \in 1 .. Len(lines) : Append(lines, e)[i] = lines[i]
        /\ Append(lines, e)[Len(lines) + 1] = e
    OBVIOUS
  <2> QED
    BY <2>1, <2>2, <2>3 DEF Uniform
<1> QED
  BY <1>1, <1>2

LEMMA PrefixUniform ==
  ASSUME NEW lines \in Seq(Record), NEW k \in 0 .. Len(lines), Uniform(lines)
  PROVE  /\ SubSeq(lines, 1, k) \in Seq(Record)
         /\ Uniform(SubSeq(lines, 1, k))
<1>1. /\ SubSeq(lines, 1, k) \in Seq(Record)
      /\ DOMAIN SubSeq(lines, 1, k) = 1 .. k
      /\ \A i \in 1 .. k : SubSeq(lines, 1, k)[i] = lines[i]
  OBVIOUS
<1> QED
  BY <1>1 DEF Uniform

LEMMA NothingUniform == Uniform(<<>>)
BY DEF Uniform

-----------------------------------------------------------------------------
LEMMA BookInit == Init => BookInv
<1> SUFFICES ASSUME Init PROVE BookInv
  OBVIOUS
<1>0. 0 \in 0 .. MaxAdds
  BY GradeFileAssumption
<1>1. TypeOK
  <2>1. log \in [Reports -> Nat]
    BY DEF Init
  <2>2. <<>> \in Seq(Record)
    OBVIOUS
  <2>3. exists \in BOOLEAN /\ harm \in BOOLEAN
    BY DEF Init
  <2> QED
    BY <1>0, <2>1, <2>2, <2>3 DEF Init, TypeOK, Places
<1>2. Copies
  BY DEF Init, Copies, Busy
<1> QED
  BY <1>1, <1>2, NothingUniform DEF Init, BookInv

(* A step of the shell, or of a child that does not write to the grade     *)
(* file, changes nothing of the book.                                      *)
Quiet ==
  /\ UNCHANGED <<file, temp, entry, adds>>
  /\ exists' \in BOOLEAN /\ (exists => exists')
  /\ harm' \in BOOLEAN /\ log' \in [Reports -> Nat]
  /\ pc \notin Busy /\ pc' \in Places \ Busy

LEMMA QuietKeeps == ASSUME BookInv, Quiet PROVE BookInv'
<1>1. TypeOK'
  BY DEF BookInv, TypeOK, Quiet
<1>2. Copies'
  BY DEF BookInv, TypeOK, Copies, Quiet, Busy
<1> QED
  BY <1>1, <1>2 DEF BookInv, Quiet, Uniform

LEMMA AnswerQuiet ==
  ASSUME BookInv, NEW output, NEW messages, NEW next \in {"log", "last_log"},
         Answer(output, messages, next)
  PROVE  Quiet
BY DEF BookInv, TypeOK, Answer, Quiet, Places, Busy

LEMMA ViewingQuiet == ASSUME BookInv, Viewing PROVE Quiet
<1>1. CASE show_all \/ list_grades \/ \E a \in Asked : list_some(a[1], a[2])
  BY <1>1, AnswerQuiet DEF show_all, list_grades, list_some, View
<1>2. CASE menu \/ quit
  BY <1>2, AnswerQuiet DEF menu, quit
<1>3. CASE \E n \in Names : search_student(n)
  BY <1>3, AnswerQuiet DEF search_student
<1>4. CASE sort_all
  BY <1>4, AnswerQuiet DEF sort_all, Sorts, sort_by_student_name, sort_by_grade,
       sort_by_student_name_ascending, sort_by_student_name_descending,
       sort_by_grade_ascending, sort_by_grade_descending
<1> QED
  BY <1>1, <1>2, <1>3, <1>4 DEF Viewing

LEMMA ShellQuiet ==
  ASSUME BookInv, log_message \/ Return \/ ForkFails \/ main \/ gtu_student_grades
  PROVE  Quiet
<1> USE DEF BookInv, TypeOK, Quiet, Places, Busy
<1>1. CASE log_message
  <2>1. log' \in [Reports -> Nat]
    BY <1>1 DEF log_message
  <2>2. harm' \in BOOLEAN /\ pc' \in {pc, "down"}
    BY <1>1 DEF log_message
  <2> QED
    BY <1>1, <2>1, <2>2 DEF log_message
<1>2. CASE Return
  BY <1>2 DEF Return
<1>3. CASE ForkFails
  BY <1>3 DEF ForkFails
<1>4. CASE main
  BY <1>4 DEF main
<1>5. CASE gtu_student_grades
  BY <1>5 DEF gtu_student_grades
<1> QED
  BY <1>1, <1>2, <1>3, <1>4, <1>5

LEMMA EntryInRecord == ASSUME BookInv, pc \in Busy PROVE entry \in Record
BY DEF BookInv, TypeOK, Copies

(* The child ends, leaving a file of records.                              *)
LEMMA FinishKeeps ==
  ASSUME BookInv, NEW messages, Finish(messages), UNCHANGED <<log, adds>>,
         file' \in Seq(Record), Uniform(file'),
         exists' \in BOOLEAN, ~exists' => file' = <<>>, harm' \in BOOLEAN
  PROVE  BookInv'
<1>1. temp' \in Seq(Record) /\ Uniform(temp')
  BY NothingUniform DEF Finish
<1>2. TypeOK'
  BY <1>1 DEF BookInv, TypeOK, Finish, Places
<1>3. Copies'
  BY DEF Copies, Finish, Busy
<1> QED
  BY <1>1, <1>2, <1>3 DEF BookInv, Uniform

LEMMA AddingKeeps == ASSUME BookInv, Adding PROVE BookInv'
<1> USE DEF Uniform, Copies, Busy, Places
<1>t. TypeOK /\ Copies /\ Uniform(file) /\ Uniform(temp)
  BY DEF BookInv
<1>0. Uniform(<<>>) /\ <<>> \in Seq(Record)
  BY NothingUniform
<1>1. ASSUME NEW n \in Names, NEW g \in Typed, addStudentGrade(n, g) PROVE BookInv'
  <2>1. [name |-> n, grade |-> g] \in Record /\ [name |-> n, grade |-> g] # NoEntry
    BY <1>1, GradeFileAssumption DEF addStudentGrade, Record, Grades
  <2>2. adds + 1 \in 0 .. MaxAdds
    BY <1>t, <1>1, GradeFileAssumption DEF addStudentGrade, TypeOK
  <2>3. TypeOK'
    BY <1>t, <1>1, <2>1, <2>2 DEF addStudentGrade, TypeOK
  <2> QED
    BY <1>t, <1>1, <2>1, <2>3 DEF addStudentGrade, BookInv
<1>2. CASE read_records
  BY <1>t, <1>2 DEF read_records, BookInv, TypeOK
<1>3. CASE truncate
  <2>1. CASE Finish(<<"rewrite_failed">>) /\ harm' = TRUE /\ UNCHANGED file
    BY <1>t, <1>3, <2>1, FinishKeeps DEF truncate, TypeOK
  <2>2. CASE file' = <<>> /\ pc' = "write" /\ UNCHANGED <<entry, temp, say, harm>>
    <3>1. TypeOK'
      BY <1>t, <1>0, <1>3, <2>2 DEF truncate, TypeOK
    <3> QED
      BY <1>t, <1>0, <1>3, <2>2, <3>1 DEF truncate, BookInv
  <2> QED
    BY <1>3, <2>1, <2>2 DEF truncate
<1>4. CASE write_records
  <2> DEFINE lines == WithEntry(temp, entry)
  <2>1. lines \in Seq(Record) /\ Uniform(lines)
    <3>1. entry \in Record /\ temp \in Seq(Record) /\ Uniform(temp)
      BY <1>t, <1>4, EntryInRecord DEF write_records, TypeOK
    <3> QED
      BY ONLY <3>1, WithEntryType, WithEntryUniform
  <2>2. file' \in Seq(Record) /\ Uniform(file')
    <3>1. CASE file' = lines
      BY <2>1, <3>1
    <3>2. ASSUME NEW k \in 0 .. Len(lines) - 1, file' = SubSeq(lines, 1, k)
          PROVE  file' \in Seq(Record) /\ Uniform(file')
      <4>1. k \in 0 .. Len(lines)
        BY <2>1
      <4> HIDE DEF lines, Uniform
      <4> QED
        BY ONLY <4>1, <2>1, <3>2, PrefixUniform
    <3> QED
      BY <1>4, <3>1, <3>2 DEF write_records
  <2>3. \E messages : Finish(messages)
    BY <1>4 DEF write_records
  <2>4. harm' \in BOOLEAN /\ UNCHANGED <<exists, log, adds>>
    BY <1>t, <1>4 DEF write_records, TypeOK
  <2>5. exists
    BY <1>t, <1>4 DEF write_records
  <2> QED
    BY <1>t, <2>2, <2>3, <2>4, <2>5, FinishKeeps DEF TypeOK
<1>5. CASE create_first
  <2>1. CASE Finish(<<"first_failed">>) /\ harm' = TRUE /\ UNCHANGED exists
    BY <1>t, <1>5, <2>1, FinishKeeps DEF create_first, TypeOK
  <2>2. CASE exists' = TRUE /\ pc' = "write_first" /\ UNCHANGED <<entry, temp, say, harm>>
    <3>1. TypeOK'
      BY <1>t, <1>5, <2>2 DEF create_first, TypeOK
    <3> QED
      BY <1>t, <1>5, <2>2, <3>1 DEF create_first, BookInv
  <2> QED
    BY <1>5, <2>1, <2>2 DEF create_first
<1>6. CASE write_first
  <2>1. entry \in Record
    BY <1>6, EntryInRecord DEF write_first
  <2>2. <<entry>> \in Seq(Record) /\ Uniform(<<entry>>)
    <3>1. <<entry>> \in Seq(Record) /\ DOMAIN <<entry>> = {1}
      BY <2>1
    <3> QED
      BY <3>1
  <2>3. \E messages : Finish(messages)
    BY <1>6 DEF write_first
  <2>4. harm' \in BOOLEAN /\ file' \in {file, <<entry>>}
    BY <1>t, <1>6 DEF write_first, TypeOK
  <2>5. exists
    BY <1>t, <1>6 DEF write_first
  <2>6. file' \in Seq(Record) /\ Uniform(file')
    <3>1. file \in Seq(Record) /\ Uniform(file)
      BY <1>t DEF TypeOK
    <3> HIDE DEF Uniform
    <3> QED
      BY <2>2, <2>4, <3>1
  <2>7. UNCHANGED <<exists, log, adds>> /\ exists' \in BOOLEAN
    BY <1>t, <1>6 DEF write_first, TypeOK
  <2> QED
    BY <2>3, <2>4, <2>5, <2>6, <2>7, FinishKeeps
<1> QED
  BY <1>1, <1>2, <1>3, <1>4, <1>5, <1>6 DEF Adding

LEMMA KillKeeps == ASSUME BookInv, Kill PROVE BookInv'
BY NothingUniform DEF Kill, BookInv, TypeOK, Copies, Busy, Places, Uniform

LEMMA BookStep == BookInv /\ [Next]_vars => BookInv'
<1> SUFFICES ASSUME BookInv, [Next]_vars PROVE BookInv'
  OBVIOUS
<1>1. CASE Viewing
  BY <1>1, ViewingQuiet, QuietKeeps
<1>2. CASE Adding
  BY <1>2, AddingKeeps
<1>3. CASE log_message \/ Return \/ ForkFails \/ main \/ gtu_student_grades
  BY <1>3, ShellQuiet, QuietKeeps
<1>4. CASE Kill
  BY <1>4, KillKeeps
<1>5. CASE UNCHANGED vars
  BY <1>5 DEF vars, BookInv, TypeOK, Copies, Uniform
<1> QED
  BY <1>1, <1>2, <1>3, <1>4, <1>5 DEF Next

LEMMA BookInvariant == Spec => []BookInv
BY BookInit, BookStep, PTL DEF Spec

(* The type invariant: only valid grades of students reach the file.       *)
THEOREM TypeCorrect == Spec => []TypeOK
<1>1. BookInv => TypeOK
  BY DEF BookInv
<1> QED
  BY <1>1, BookInvariant, PTL

(* Adding a grade replaces every line of a student or none, so that all    *)
(* lines of a student have the same grade.                                 *)
THEOREM OneGrade == Spec => []OneGradeEach
<1>1. BookInv => OneGradeEach
  BY DEF BookInv, Uniform, OneGradeEach
<1> QED
  BY <1>1, BookInvariant, PTL
-----------------------------------------------------------------------------
(* The book that the lines stand for.                                      *)

LEMMA GradeInBook ==
  ASSUME NEW lines \in Seq(Record), Uniform(lines), NEW i \in DOMAIN lines,
         lines[i].name \in Apart
  PROVE  BookOf(lines)[lines[i].name] = lines[i].grade
<1> DEFINE m == lines[i].name
           j == CHOOSE k \in DOMAIN lines : lines[k].name = m
<1>2. j \in DOMAIN lines /\ lines[j].name = m
  OBVIOUS
<1>3. lines[j].grade = lines[i].grade
  BY <1>2 DEF Uniform
<1> QED
  BY <1>2, <1>3 DEF BookOf

LEMMA NotInBook ==
  ASSUME NEW lines \in Seq(Record), NEW m \in Apart, \A i \in DOMAIN lines : lines[i].name # m
  PROVE  BookOf(lines)[m] = NoGrade
BY DEF BookOf

(* Rewriting the lines enters the record in the book.                      *)
LEMMA WithEntryBook ==
  ASSUME NEW lines \in Seq(Record), NEW e \in Record, Uniform(lines)
  PROVE  BookOf(WithEntry(lines, e)) = GB!Entered(BookOf(lines), e.name, e.grade)
<1> DEFINE new == WithEntry(lines, e)
<1>0. e.name \in Begins[e.name] /\ e.name \in Names /\ Begins[e.name] \subseteq Names
  BY GradeFileAssumption DEF Record
<1>1. new \in Seq(Record) /\ Uniform(new)
  BY WithEntryType, WithEntryUniform
(* Where the names of the new lines come from.                             *)
<1>2. /\ \A i \in DOMAIN lines : lines[i].name \notin Begins[e.name]
                                => i \in DOMAIN new /\ new[i] = lines[i]
      /\ \A i \in DOMAIN new : new[i] = e \/ (/\ i \in DOMAIN lines /\ new[i] = lines[i]
                                            /\ lines[i].name \notin Begins[e.name])
      /\ \E i \in DOMAIN new : new[i] = e
  <2>1. CASE Hits(lines, e) # {}
    <3>1. new = [i \in 1 .. Len(lines) |-> IF i \in Hits(lines, e) THEN e ELSE lines[i]]
      BY <2>1 DEF WithEntry
    <3> QED
      BY <2>1, <3>1 DEF Hits
  <2>2. CASE Hits(lines, e) = {}
    <3>1. new = Append(lines, e)
      BY <2>2 DEF WithEntry
    <3>2. /\ DOMAIN Append(lines, e) = 1 .. Len(lines) + 1 /\ DOMAIN lines = 1 .. Len(lines)
          /\ \A i \in 1 .. Len(lines) : Append(lines, e)[i] = lines[i]
          /\ Append(lines, e)[Len(lines) + 1] = e
      OBVIOUS
    <3>3. \A i \in DOMAIN lines : lines[i].name \notin Begins[e.name]
      BY <2>2 DEF Hits
    <3>4. Len(lines) \in Nat
      OBVIOUS
    <3> HIDE DEF new
    <3>5. \A i \in 1 .. Len(lines) + 1 : i \in 1 .. Len(lines) \/ i = Len(lines) + 1
      BY <3>4
    <3>6. Len(lines) + 1 \in 1 .. Len(lines) + 1
      BY <3>4
    <3>7. 1 .. Len(lines) \subseteq 1 .. Len(lines) + 1
      BY <3>4
    <3> QED
      BY <3>1, <3>2, <3>3, <3>5, <3>6, <3>7
  <2> QED
    BY <2>1, <2>2
<1> HIDE DEF new
<1>3. ASSUME NEW m \in Apart
      PROVE  BookOf(new)[m] = GB!Entered(BookOf(lines), e.name, e.grade)[m]
  <2>1. CASE m = e.name
    <3>1. PICK i \in DOMAIN new : new[i] = e
      BY <1>2
    <3>2. BookOf(new)[e.name] = e.grade
      BY <1>1, <2>1, <3>1, GradeInBook
    <3> QED
      BY <1>0, <2>1, <3>2 DEF GB!Entered
  <2>2. CASE m # e.name
    <3>1. m \notin Begins[e.name]
      BY <1>0, <2>2 DEF Apart
    <3>2. BookOf(new)[m] = BookOf(lines)[m]
      <4>1. CASE \E i \in DOMAIN lines : lines[i].name = m
        <5>1. PICK i \in DOMAIN lines : lines[i].name = m
          BY <4>1
        <5>2. i \in DOMAIN new /\ new[i] = lines[i]
          BY <1>2, <3>1, <5>1
        <5>3. BookOf(new)[new[i].name] = new[i].grade
          BY <1>1, <5>1, <5>2, GradeInBook
        <5>4. BookOf(lines)[lines[i].name] = lines[i].grade
          BY <5>1, GradeInBook
        <5> QED
          BY <5>1, <5>2, <5>3, <5>4
      <4>2. CASE \A i \in DOMAIN lines : lines[i].name # m
        <5>1. \A i \in DOMAIN new : new[i].name # m
          BY <1>2, <2>2, <4>2
        <5> QED
          BY <1>1, <4>2, <5>1, NotInBook
      <4> QED
        BY <4>1, <4>2
    <3> QED
      BY <2>2, <3>2 DEF GB!Entered
  <2> QED
    BY <2>1, <2>2
<1>4. BookOf(new) = [m \in Apart |-> BookOf(new)[m]]
  BY DEF BookOf
<1>5. GB!Entered(BookOf(lines), e.name, e.grade)
        = [m \in Apart |-> GB!Entered(BookOf(lines), e.name, e.grade)[m]]
  BY DEF GB!Entered
<1> QED
  BY <1>3, <1>4, <1>5 DEF new

(* A file cut short keeps the grades of some students.                     *)
LEMMA PrefixBook ==
  ASSUME NEW lines \in Seq(Record), NEW k \in 0 .. Len(lines), Uniform(lines)
  PROVE  \E kept \in SUBSET Apart :
           BookOf(SubSeq(lines, 1, k))
             = [m \in Apart |-> IF m \in kept THEN BookOf(lines)[m] ELSE NoGrade]
<1> DEFINE short == SubSeq(lines, 1, k)
           kept == {m \in Apart : \E i \in DOMAIN short : short[i].name = m}
<1>1. short \in Seq(Record) /\ Uniform(short)
  BY PrefixUniform
<1>2. \A i \in DOMAIN short : i \in DOMAIN lines /\ short[i] = lines[i]
  OBVIOUS
<1> HIDE DEF short
<1>3. ASSUME NEW m \in kept PROVE BookOf(short)[m] = BookOf(lines)[m]
  <2>1. PICK i \in DOMAIN short : short[i].name = m
    OBVIOUS
  <2>2. BookOf(short)[short[i].name] = short[i].grade
    BY <1>1, <2>1, GradeInBook
  <2>3. BookOf(lines)[lines[i].name] = lines[i].grade
    BY <1>2, <2>1, GradeInBook
  <2> QED
    BY <1>2, <2>1, <2>2, <2>3
<1>4. ASSUME NEW m \in Apart \ kept PROVE BookOf(short)[m] = NoGrade
  BY <1>1, NotInBook
<1>5. BookOf(short) = [m \in Apart |-> BookOf(short)[m]]
  BY DEF BookOf
<1>6. BookOf(short) = [m \in Apart |-> IF m \in kept THEN BookOf(lines)[m] ELSE NoGrade]
  BY <1>3, <1>4, <1>5
<1>7. kept \in SUBSET Apart
  OBVIOUS
<1> HIDE DEF kept
<1> QED
  BY <1>6, <1>7 DEF short

-----------------------------------------------------------------------------
(* The refinement.                                                         *)

Book == BookOf(IF pc = "write" THEN temp ELSE file)

Rewriting == pc = "write"

LEMMA StepRefines ==
  ASSUME BookInv, [Next]_vars
  PROVE  \/ \E n \in Names, g \in Grades :
              /\ entry = NoEntry /\ entry' = [name |-> n, grade |-> g]
              /\ Book' = Book /\ Rewriting' = Rewriting
         \/ /\ entry # NoEntry /\ entry' = entry /\ Book' = Book
            /\ ~Rewriting /\ Rewriting'
         \/ /\ entry # NoEntry /\ entry' = NoEntry /\ ~Rewriting'
            /\ \/ Book' = GB!Entered(Book, entry.name, entry.grade)
               \/ ~Rewriting /\ Book' = Book
               \/ Rewriting /\ \E kept \in SUBSET Apart :
                    Book' = [m \in Apart |-> IF m \in kept
                                             THEN GB!Entered(Book, entry.name, entry.grade)[m]
                                             ELSE NoGrade]
         \/ entry' = entry /\ Book' = Book /\ Rewriting' = Rewriting
<1> USE DEF Book, Rewriting, Busy
<1>t. TypeOK /\ Copies /\ Uniform(file) /\ Uniform(temp)
  BY DEF BookInv
<1>1. CASE Quiet
  BY <1>1 DEF Quiet
<1>2. ASSUME NEW n \in Names, NEW g \in Typed, addStudentGrade(n, g)
      PROVE  /\ g \in Grades /\ entry = NoEntry /\ entry' = [name |-> n, grade |-> g]
             /\ Book' = Book /\ Rewriting' = Rewriting
  BY <1>t, <1>2 DEF addStudentGrade, Grades, Copies
<1>3. CASE read_records
  BY <1>3 DEF read_records
<1>4. CASE truncate
  BY <1>t, <1>4 DEF truncate, Finish, Copies
<1>5. CASE write_records
  <2> DEFINE new == WithEntry(temp, entry)
             entered == GB!Entered(Book, entry.name, entry.grade)
  <2>1. entry \in Record /\ temp \in Seq(Record) /\ Uniform(temp) /\ entry # NoEntry
    BY <1>t, <1>5, EntryInRecord DEF write_records, TypeOK, Copies
  <2>2. new \in Seq(Record) /\ Uniform(new) /\ BookOf(new) = GB!Entered(BookOf(temp), entry.name, entry.grade)
    BY ONLY <2>1, WithEntryType, WithEntryUniform, WithEntryBook
  <2>3. /\ Book = BookOf(temp) /\ Book' = BookOf(file') /\ entry' = NoEntry
        /\ Rewriting /\ ~Rewriting'
    BY <1>5 DEF write_records, Finish
  <2>4. CASE file' = new
    <3> HIDE DEF Book, Rewriting, new
    <3> QED
      BY <2>1, <2>2, <2>3, <2>4
  <2>5. ASSUME NEW k \in 0 .. Len(new) - 1, file' = SubSeq(new, 1, k)
        PROVE  \E kept \in SUBSET Apart :
                 Book' = [m \in Apart |-> IF m \in kept THEN entered[m] ELSE NoGrade]
    <3>1. k \in 0 .. Len(new)
      BY <2>2
    <3>2. \E kept \in SUBSET Apart :
            BookOf(SubSeq(new, 1, k)) = [m \in Apart |-> IF m \in kept THEN BookOf(new)[m] ELSE NoGrade]
      <4> HIDE DEF new, Uniform
      <4> QED
        BY ONLY <2>2, <3>1, PrefixBook
    <3>3. BookOf(new) = entered
      BY <2>2, <2>3
    <3> HIDE DEF new, entered
    <3> QED
      BY <2>3, <2>5, <3>2, <3>3
  <2>6. file' = new \/ \E k \in 0 .. Len(new) - 1 : file' = SubSeq(new, 1, k)
    BY <1>5 DEF write_records
  <2> HIDE DEF Book, Rewriting, new
  <2> QED
    BY <2>1, <2>3, <2>4, <2>5, <2>6
<1>6. CASE create_first
  BY <1>t, <1>6 DEF create_first, Finish, Copies
<1>7. CASE write_first
  <2>1. entry \in Record /\ entry # NoEntry /\ file = <<>> /\ entry' = NoEntry
    BY <1>t, <1>7, EntryInRecord DEF write_first, Copies, Finish
  <2>2. /\ Book = BookOf(<<>>) /\ Book' = BookOf(file')
        /\ ~Rewriting /\ ~Rewriting'
    BY <1>7, <2>1 DEF write_first, Finish
  <2> HIDE DEF Book, Rewriting
  <2>3. CASE file' = file
    BY <2>1, <2>2, <2>3
  <2>4. CASE file' = <<entry>>
    <3>1. WithEntry(<<>>, entry) = <<entry>>
      BY <2>1 DEF WithEntry, Hits
    <3>2. <<>> \in Seq(Record) /\ Uniform(<<>>)
      BY NothingUniform
    <3>3. BookOf(WithEntry(<<>>, entry)) = GB!Entered(BookOf(<<>>), entry.name, entry.grade)
      BY ONLY <2>1, <3>2, WithEntryBook
    <3> QED
      BY <2>1, <2>2, <2>4, <3>1, <3>3
  <2> QED
    BY <1>7, <2>3, <2>4 DEF write_first
<1>8. CASE Kill
  <2>1. CASE pc = "write"
    <3>1. /\ file = <<>> /\ file' = file /\ pc' = "down"
          /\ entry # NoEntry /\ entry' = NoEntry
          /\ Rewriting /\ ~Rewriting'
      BY <1>t, <1>8, <2>1 DEF Kill, Copies
    <3>2. Book' = [m \in Apart |-> IF m \in {} THEN GB!Entered(Book, entry.name, entry.grade)[m]
                                              ELSE NoGrade]
      BY <3>1 DEF BookOf
    <3>3. {} \in SUBSET Apart
      OBVIOUS
    <3> HIDE DEF Book, Rewriting
    <3>4. \E kept \in SUBSET Apart :
            Book' = [m \in Apart |-> IF m \in kept THEN GB!Entered(Book, entry.name, entry.grade)[m]
                                                  ELSE NoGrade]
      BY <3>2, <3>3
    <3> QED
      BY <3>1, <3>4
  <2>2. CASE pc # "write"
    BY <1>t, <1>8, <2>2 DEF Kill, Copies
  <2> QED
    BY <2>1, <2>2
<1>9. CASE UNCHANGED vars
  BY <1>9 DEF vars
<1>10. CASE Viewing
  BY <1>1, <1>10, ViewingQuiet
<1>11. CASE log_message \/ Return \/ ForkFails \/ main \/ gtu_student_grades
  BY <1>1, <1>11, ShellQuiet
<1>12. CASE Adding
  BY <1>2, <1>3, <1>4, <1>5, <1>6, <1>7, <1>12 DEF Adding
<1> QED
  BY <1>8, <1>9, <1>10, <1>11, <1>12 DEF Next

(* The shell implements GradeBook.                                         *)
THEOREM Implements == Spec => ImplementsBook
<1>1. Init => GB!Init
  BY DEF Init, GB!Init, GB!Empty, BookOf
<1>2. BookInv /\ [Next]_vars => [GB!Next]_(GB!bookVars)
  <2> SUFFICES ASSUME BookInv, [Next]_vars PROVE [GB!Next]_(GB!bookVars)
    OBVIOUS
  <2> QED
    BY StepRefines DEF GB!Next, GB!Start, GB!Commit, GB!Abandon, GB!Lose, GB!Open,
         GB!bookVars, Book, Rewriting, Apart
<1> QED
  BY <1>1, <1>2, BookInvariant, PTL DEF Spec, ImplementsBook, GB!Spec

-----------------------------------------------------------------------------
(* The log.  A report is the first of the messages to be logged, if at     *)
(* all, and is counted until it is logged.                                 *)

Harmless ==
  {"open_failed", "empty", "beyond", "displayed", "unknown", "arguments", "invalid", "quit",
   "found", "not_found", "search_error", "sorted_by_name", "sorted_by_grade",
   "open_failed_in_shell", "fork_failed", "created", "create_failed", "rewrite_failed",
   "write_failed", "first_failed"}

Messages == Harmless \cup Reports

Pending(r) == IF say # <<>> /\ Head(say) = r THEN 1 ELSE 0

MessageInv ==
  /\ say \in Seq(Messages)
  /\ \A i \in 2 .. Len(say) : say[i] \in Harmless
  /\ pc \notin {"log", "last_log"} => say = <<>>

AccountInv ==
  ~harm =>
    LET unlogged == Len(IF pc = "write" THEN temp ELSE file) - log["added"] - Pending("added")
    IN /\ unlogged \in {0, 1}
       /\ log["added"] + Pending("added") + log["updated"] + Pending("updated") + unlogged
            + (IF pc \in Busy THEN 1 ELSE 0) = adds

LogInv == BookInv /\ MessageInv /\ AccountInv

LEMMA WithEntryLen ==
  ASSUME NEW lines \in Seq(Record), NEW e \in Record
  PROVE  Len(WithEntry(lines, e)) = IF Hits(lines, e) # {} THEN Len(lines) ELSE Len(lines) + 1
BY DEF WithEntry

LEMMA HarmlessMessages ==
  /\ \A m \in Harmless : m \notin Reports
  /\ \A s \in Seq(Harmless) : s \in Seq(Messages) /\ \A i \in DOMAIN s : s[i] \in Harmless
<1>1. \A m \in Harmless : m \notin Reports
  BY DEF Harmless, Reports
<1>2. Harmless \subseteq Messages
  BY DEF Messages
<1>3. ASSUME NEW s \in Seq(Harmless)
      PROVE  s \in Seq(Messages) /\ \A i \in DOMAIN s : s[i] \in Harmless
  <2>1. Len(s) \in Nat /\ DOMAIN s = 1 .. Len(s) /\ \A i \in 1 .. Len(s) : s[i] \in Harmless
    OBVIOUS
  <2>2. s = [i \in 1 .. Len(s) |-> s[i]] /\ \A i \in 1 .. Len(s) : s[i] \in Messages
    BY <1>2, <2>1
  <2> QED
    BY <2>1, <2>2, IsASeq
<1> QED
  BY <1>1, <1>3

(* The command leaves the grade file alone and has messages logged that    *)
(* are no reports.                                                         *)
Unreported(messages) ==
  /\ pc \notin Busy /\ pc' \notin Busy /\ say = <<>> /\ say' = messages
  /\ pc' \in {"log", "last_log"} \/ messages = <<>>
  /\ UNCHANGED <<file, log, adds>> /\ (harm => harm')

LEMMA UnreportedLog ==
  ASSUME LogInv, NEW messages \in Seq(Harmless), Unreported(messages)
  PROVE  MessageInv' /\ AccountInv'
<1>1. messages \in Seq(Messages) /\ \A i \in DOMAIN messages : messages[i] \in Harmless
  BY HarmlessMessages
<1>2. Len(messages) \in Nat /\ DOMAIN messages = 1 .. Len(messages)
  OBVIOUS
<1>3. \A i \in 2 .. Len(messages) : messages[i] \in Harmless
  BY <1>1, <1>2
<1>4. MessageInv'
  BY <1>1, <1>3 DEF MessageInv, Unreported
<1>5. messages # <<>> => Head(messages) \in Harmless
  BY <1>1, <1>2
<1>6. Pending("added") = 0 /\ Pending("updated") = 0
  BY DEF Pending, Unreported
<1>7. Pending("added")' = 0 /\ Pending("updated")' = 0
  BY <1>5, HarmlessMessages DEF Pending, Unreported, Reports
<1>8. pc # "write" /\ pc' # "write"
  BY DEF Unreported, Busy
<1> QED
  BY <1>4, <1>6, <1>7, <1>8 DEF LogInv, AccountInv, Unreported

LEMMA AnswerLog ==
  ASSUME LogInv, NEW output, NEW messages \in Seq(Harmless), NEW next \in {"log", "last_log"},
         Answer(output, messages, next)
  PROVE  MessageInv' /\ AccountInv'
<1>1. Unreported(messages)
  BY DEF Answer, Unreported, Busy, LogInv, MessageInv
<1> QED
  BY <1>1, UnreportedLog

LEMMA ViewingLog == ASSUME LogInv, Viewing PROVE MessageInv' /\ AccountInv'
<1>0. /\ <<>> \in Seq(Harmless)
      /\ \A m \in Harmless : <<m>> \in Seq(Harmless)
      /\ \A m \in Harmless, k \in Harmless : <<m, k>> \in Seq(Harmless)
  OBVIOUS
<1>1. ASSUME NEW cmd, NEW arg, NEW lines, NEW beyond, View(cmd, arg, lines, beyond)
      PROVE  MessageInv' /\ AccountInv'
  <2>1. PICK output, news :
          /\ Answer(output, Append(news, "displayed"), "log")
          /\ news \in {<<>>, <<"open_failed">>, <<"empty">>, <<"beyond">>}
    BY <1>1 DEF View
  <2>2. news \in Seq(Harmless) /\ "displayed" \in Harmless
    <3>1. {"open_failed", "empty", "beyond", "displayed"} \subseteq Harmless
      BY Zenon DEF Harmless
    <3> QED
      BY ONLY <1>0, <2>1, <3>1
  <2>3. Append(news, "displayed") \in Seq(Harmless)
    BY <2>2
  <2> QED
    BY <2>1, <2>3, AnswerLog
<1>2. CASE show_all \/ list_grades \/ \E a \in Asked : list_some(a[1], a[2])
  BY <1>1, <1>2 DEF show_all, list_grades, list_some
<1>3. CASE menu \/ quit
  <2>1. {"unknown", "arguments", "invalid", "quit"} \subseteq Harmless
    BY DEF Harmless
  <2> QED
    BY <1>0, <1>3, <2>1, AnswerLog DEF menu, quit
<1>4. CASE \E n \in Names : search_student(n)
  <2>1. {"open_failed", "search_error", "not_found", "found"} \subseteq Harmless
    BY DEF Harmless
  <2> QED
    BY <1>0, <1>4, <2>1, AnswerLog DEF search_student
<1>5. CASE sort_all
  <2>1. {"open_failed", "open_failed_in_shell", "sorted_by_name", "sorted_by_grade"}
          \subseteq Harmless
    BY DEF Harmless
  <2> QED
    BY <1>0, <1>5, <2>1, AnswerLog DEF sort_all, Sorts, sort_by_student_name,
       sort_by_grade, sort_by_student_name_ascending, sort_by_student_name_descending,
       sort_by_grade_ascending, sort_by_grade_descending
<1> QED
  BY <1>2, <1>3, <1>4, <1>5 DEF Viewing

LEMMA LoggingLog == ASSUME LogInv, log_message PROVE MessageInv' /\ AccountInv'
<1>t. /\ log \in [Reports -> Nat] /\ harm \in BOOLEAN /\ MessageInv /\ AccountInv /\ adds \in Int
      /\ pc \in {"log", "last_log"} /\ say # <<>> /\ UNCHANGED <<file, temp, adds>>
  BY GradeFileAssumption DEF LogInv, BookInv, TypeOK, log_message
<1>1. /\ Tail(say) \in Seq(Messages)
      /\ \A i \in DOMAIN Tail(say) : Tail(say)[i] \in Harmless
  <2>1. say \in Seq(Messages) /\ Len(say) \in Nat /\ Len(say) >= 1
    BY <1>t DEF MessageInv
  <2>2. /\ Tail(say) \in Seq(Messages) /\ Len(Tail(say)) = Len(say) - 1
        /\ \A i \in 1 .. Len(say) - 1 : Tail(say)[i] = say[i + 1]
    BY <1>t, <2>1
  <2>3. \A i \in 1 .. Len(say) - 1 : i + 1 \in 2 .. Len(say)
    BY <2>1
  <2>4. DOMAIN Tail(say) = 1 .. Len(say) - 1
    BY <2>2
  <2> QED
    BY <1>t, <2>2, <2>3, <2>4 DEF MessageInv
<1>2. say' \in {Tail(say), <<>>} /\ pc' \in {pc, "down"} /\ (pc' # pc => say' = <<>>)
  BY DEF log_message
<1>3. MessageInv'
  <2>1. say' \in Seq(Messages) /\ \A i \in DOMAIN say' : say'[i] \in Harmless
    <3>1. CASE say' = Tail(say)
      BY <1>1, <3>1
    <3>2. CASE say' = <<>>
      BY <3>2
    <3> QED
      BY <1>2, <3>1, <3>2
  <2>2. \A i \in 2 .. Len(say') : i \in DOMAIN say'
    BY <2>1
  <2>3. pc' \notin {"log", "last_log"} => say' = <<>>
    BY <1>t, <1>2
  <2> QED
    BY <2>1, <2>2, <2>3 DEF MessageInv
<1>4. Pending("added")' = 0 /\ Pending("updated")' = 0
  <2>1. say' # <<>> => Head(say') \in Harmless
    BY <1>1, <1>2
  <2> QED
    BY <2>1, HarmlessMessages DEF Pending, Reports
<1>5. AccountInv'
  <2>1. CASE harm'
    BY <2>1 DEF AccountInv
  <2>2. CASE ~harm'
    <3>1. pc' = pc /\ ~harm
          /\ log' = [r \in Reports |-> IF r = Head(say) THEN log[r] + 1 ELSE log[r]]
      BY <2>2 DEF log_message
    <3>2. log'["added"] = log["added"] + Pending("added")
          /\ log'["updated"] = log["updated"] + Pending("updated")
      BY <1>t, <3>1 DEF Reports, Pending
    <3>3. pc # "write" /\ pc \notin Busy
      BY <1>t DEF Busy
    <3>4. file \in Seq(Record) /\ log["added"] \in Nat /\ log["updated"] \in Nat
      BY DEF LogInv, BookInv, TypeOK, Reports
    <3>5. Pending("added") \in Nat /\ Pending("updated") \in Nat
      BY DEF Pending
    <3>6. /\ Len(file) - log["added"] - Pending("added") \in {0, 1}
          /\ log["added"] + Pending("added") + log["updated"] + Pending("updated")
               + (Len(file) - log["added"] - Pending("added")) + 0 = adds
      BY <1>t, <3>1, <3>3 DEF AccountInv
    <3>7. /\ Len(file') - log'["added"] - 0 \in {0, 1}
          /\ log'["added"] + 0 + log'["updated"] + 0
               + (Len(file') - log'["added"] - 0) + 0 = adds'
      <4>1. Len(file) \in Nat /\ file' = file /\ adds' = adds
        BY <1>t, <3>4, LenProperties
      <4> QED
        BY ONLY <3>2, <3>4, <3>5, <3>6, <4>1
    <3>8. pc' # "write" /\ pc' \notin Busy
      BY <3>1, <3>3
    <3> QED
      BY <1>4, <3>7, <3>8 DEF AccountInv
  <2> QED
    BY <2>1, <2>2
<1> QED
  BY <1>3, <1>5

LEMMA ShellLog ==
  ASSUME LogInv, Return \/ ForkFails \/ main \/ gtu_student_grades
  PROVE  MessageInv' /\ AccountInv'
<1>0. /\ <<>> \in Seq(Harmless) /\ <<"fork_failed">> \in Seq(Harmless)
      /\ <<"created">> \in Seq(Harmless) /\ <<"open_failed", "create_failed">> \in Seq(Harmless)
  <2>1. {"fork_failed", "created", "open_failed", "create_failed"} \subseteq Harmless
    BY DEF Harmless
  <2> QED
    BY <2>1
<1>1. pc \notin {"log", "last_log"} => say = <<>>
  BY DEF LogInv, MessageInv
<1>2. CASE Return \/ main
  <2>1. Unreported(<<>>)
    BY <1>1, <1>2 DEF Return, main, Unreported, Busy
  <2> QED
    BY <1>0, <2>1, UnreportedLog
<1>3. CASE ForkFails
  <2>1. Unreported(<<"fork_failed">>)
    BY <1>1, <1>3 DEF ForkFails, Unreported, Busy
  <2> QED
    BY <1>0, <2>1, UnreportedLog
<1>4. CASE gtu_student_grades
  <2>1. Unreported(<<"created">>) \/ Unreported(<<"open_failed", "create_failed">>)
    BY <1>1, <1>4 DEF gtu_student_grades, Unreported, Busy
  <2> QED
    BY <1>0, <2>1, UnreportedLog
<1> QED
  BY <1>2, <1>3, <1>4

(* A child may say one thing; there are no accounts once something failed. *)
LEMMA OneMessage ==
  ASSUME NEW m \in Messages, say' \in {<<>>, <<m>>}, pc' = "log" \/ say' = <<>>
  PROVE  MessageInv'
<1>1. /\ <<>> \in Seq(Messages) /\ Len(<<>>) = 0
      /\ <<m>> \in Seq(Messages) /\ Len(<<m>>) = 1
  OBVIOUS
<1>2. say' \in Seq(Messages) /\ Len(say') \in {0, 1}
  BY <1>1
<1>3. \A i \in 2 .. Len(say') : say'[i] \in Harmless
  BY <1>2
<1> QED
  BY <1>2, <1>3 DEF MessageInv

LEMMA KillLog == ASSUME LogInv, Kill PROVE MessageInv' /\ AccountInv'
<1>1. CASE pc = "prompt"
  <2>1. Unreported(<<>>)
    BY <1>1 DEF Kill, LogInv, MessageInv, Unreported, Busy
  <2>2. <<>> \in Seq(Harmless)
    OBVIOUS
  <2> QED
    BY <2>1, <2>2, UnreportedLog
<1>2. CASE pc # "prompt"
  <2>1. harm' /\ say' = <<>> /\ "added" \in Messages
    BY <1>2 DEF Kill, Messages, Reports
  <2> QED
    BY <2>1, OneMessage DEF AccountInv
<1> QED
  BY <1>1, <1>2

(* The arithmetic of AccountInv, in which the length of the file stands for  *)
(* the additions logged and not logged.                                     *)
LEMMA Unlogged ==
  ASSUME NEW a \in Int, NEW p \in Int, NEW u \in Int, NEW q \in Int, NEW n \in Int
  PROVE  a + p + u + q + (n - a - p) + 0 = u + q + n
OBVIOUS

LEMMA AddingLog == ASSUME LogInv, Adding PROVE MessageInv' /\ AccountInv'
<1>t. /\ file \in Seq(Record) /\ temp \in Seq(Record) /\ harm \in BOOLEAN
      /\ log["added"] \in Nat /\ log["updated"] \in Nat /\ adds \in Int
      /\ MessageInv /\ AccountInv /\ Copies
  BY GradeFileAssumption DEF LogInv, BookInv, TypeOK, Reports
<1>m. {"rewrite_failed", "added", "updated", "write_failed", "first_failed"} \subseteq Messages
  BY DEF Messages, Harmless, Reports
<1>q. pc \notin {"log", "last_log"} =>
        say = <<>> /\ Pending("added") = 0 /\ Pending("updated") = 0
  BY <1>t DEF MessageInv, Pending
<1>a. ASSUME pc \in Busy, pc # "write", ~harm
      PROVE  /\ Len(file) - log["added"] \in {0, 1}
             /\ log["updated"] + Len(file) + 1 = adds
  <2>1. pc \notin {"log", "last_log"}
    BY <1>a DEF Busy
  <2> QED
    BY <1>t, <1>q, <1>a, <2>1 DEF AccountInv
<1>b. ASSUME say' = <<>> PROVE Pending("added")' = 0 /\ Pending("updated")' = 0
  BY <1>b DEF Pending
<1>1. ASSUME NEW n \in Names, NEW g \in Typed, addStudentGrade(n, g)
      PROVE  MessageInv' /\ AccountInv'
  <2>1. /\ pc = "prompt" /\ pc' = "read" /\ say' = say /\ say = <<>> /\ adds' = adds + 1
        /\ UNCHANGED <<file, log, harm>>
    BY <1>q, <1>1 DEF addStudentGrade
  <2>2. MessageInv'
    BY <1>m, <2>1, OneMessage
  <2>3. ~harm => Len(file) - log["added"] \in {0, 1} /\ log["updated"] + Len(file) = adds
    BY <1>t, <1>q, <2>1 DEF AccountInv, Busy
  <2>4. AccountInv'
    BY <1>t, <1>b, <2>1, <2>3 DEF AccountInv, Busy
  <2> QED
    BY <2>2, <2>4
<1>2. CASE read_records
  <2>1. /\ pc \in Busy /\ pc # "write" /\ pc' \in Busy /\ pc' # "write" /\ say' = say /\ say = <<>>
        /\ UNCHANGED <<file, log, harm, adds>>
    BY <1>q, <1>2 DEF read_records, Busy
  <2>2. MessageInv'
    BY <1>m, <2>1, OneMessage
  <2>3. AccountInv'
    BY <1>t, <1>a, <1>b, <2>1 DEF AccountInv
  <2> QED
    BY <2>2, <2>3
<1>3. CASE truncate
  <2>1. CASE file' = <<>> /\ pc' = "write" /\ UNCHANGED <<entry, temp, say, harm>>
    <3>1. /\ pc \in Busy /\ pc # "write" /\ pc' \in Busy /\ say' = say /\ say = <<>>
          /\ temp' = file /\ UNCHANGED <<log, harm, adds>>
      BY <1>t, <1>q, <1>3, <2>1 DEF truncate, Busy, Copies
    <3>2. MessageInv'
      BY <1>m, <3>1, OneMessage
    <3>3. AccountInv'
      BY <1>t, <1>a, <1>b, <2>1, <3>1 DEF AccountInv
    <3> QED
      BY <3>2, <3>3
  <2>2. CASE Finish(<<"rewrite_failed">>) /\ harm'
    BY <1>m, <2>2, OneMessage DEF Finish, AccountInv
  <2> QED
    BY <1>3, <2>1, <2>2 DEF truncate
<1>4. CASE write_records
  <2>1. CASE /\ file' = WithEntry(temp, entry) /\ UNCHANGED harm
             /\ Finish(<<IF Hits(temp, entry) # {} THEN "updated" ELSE "added">>)
    <3>0. pc = "write" /\ pc' = "log" /\ UNCHANGED <<log, adds>> /\ entry \in Record
      BY <1>4, <2>1, EntryInRecord DEF write_records, Finish, LogInv, Busy
    <3>1. PICK m \in {"added", "updated"} :
            /\ say' = <<m>>
            /\ Len(file') = IF m = "updated" THEN Len(temp) ELSE Len(temp) + 1
      BY <1>t, <2>1, <3>0, WithEntryLen DEF Finish
    <3>2. MessageInv'
      BY <1>m, <3>0, <3>1, OneMessage
    <3>3. /\ Pending("added")' = IF m = "added" THEN 1 ELSE 0
          /\ Pending("updated")' = IF m = "updated" THEN 1 ELSE 0
      <4>1. say' # <<>> /\ Head(say') = m
        BY <3>1
      <4> QED
        BY <4>1 DEF Pending
    <3>8. Len(temp) \in Nat /\ log["added"] \in Nat /\ log["updated"] \in Nat
      BY <1>t, LenProperties
    <3>4. ~harm => Len(temp) - log["added"] \in {0, 1} /\ log["updated"] + Len(temp) + 1 = adds
      <4>1. Pending("added") = 0 /\ Pending("updated") = 0 /\ pc \in Busy
        BY <1>q, <3>0 DEF Busy
      <4> QED
        BY <1>t, <3>0, <3>8, <4>1 DEF AccountInv
    <3>5. ~harm => /\ Len(file') - log["added"] - Pending("added")' \in {0, 1}
                   /\ log["updated"] + Pending("updated")' + Len(file') = adds
      <4>1. CASE m = "updated"
        <5>1. Len(file') = Len(temp) /\ Pending("added")' = 0 /\ Pending("updated")' = 1
          BY <3>1, <3>3, <4>1
        <5> QED
          BY ONLY <3>4, <3>8, <5>1
      <4>2. CASE m = "added"
        <5>1. Len(file') = Len(temp) + 1 /\ Pending("added")' = 1 /\ Pending("updated")' = 0
          BY <3>1, <3>3, <4>2
        <5>2. /\ (Len(temp) + 1) - log["added"] - 1 = Len(temp) - log["added"]
              /\ log["updated"] + 0 + (Len(temp) + 1) = log["updated"] + Len(temp) + 1
          BY ONLY <3>8
        <5> QED
          BY <3>4, <5>1, <5>2
      <4> QED
        BY <4>1, <4>2
    <3>6. Pending("added")' \in Nat /\ Pending("updated")' \in Nat /\ Len(file') \in Nat
      BY <1>t, <3>1, <3>3
    <3>7. AccountInv'
      <4>1. pc' # "write" /\ pc' \notin Busy /\ log' = log /\ adds' = adds /\ harm' = harm
        BY <2>1, <3>0 DEF Busy
      <4>2. CASE ~harm
        <5>1. /\ Len(file') - log["added"] - Pending("added")' \in {0, 1}
              /\ log["added"] + Pending("added")' + log["updated"] + Pending("updated")'
                   + (Len(file') - log["added"] - Pending("added")') + 0 = adds
          BY ONLY <3>5, <3>6, <3>8, <4>2, Unlogged
        <5> QED
          BY <4>1, <5>1 DEF AccountInv
      <4> QED
        BY <4>1, <4>2 DEF AccountInv
    <3> QED
      BY <3>2, <3>7
  <2>2. CASE Finish(<<"write_failed">>) /\ harm'
    BY <1>m, <2>2, OneMessage DEF Finish, AccountInv
  <2> QED
    BY <1>4, <2>1, <2>2 DEF write_records
<1>5. CASE create_first
  <2>1. CASE pc' = "write_first" /\ UNCHANGED <<entry, temp, say, harm>>
    <3>1. /\ pc \in Busy /\ pc # "write" /\ pc' \in Busy /\ pc' # "write" /\ say' = say
          /\ say = <<>> /\ UNCHANGED <<file, log, harm, adds>>
      BY <1>q, <1>5, <2>1 DEF create_first, Busy
    <3>2. MessageInv'
      BY <1>m, <3>1, OneMessage
    <3>3. AccountInv'
      BY <1>t, <1>a, <1>b, <3>1 DEF AccountInv
    <3> QED
      BY <3>2, <3>3
  <2>2. CASE Finish(<<"first_failed">>) /\ harm'
    BY <1>m, <2>2, OneMessage DEF Finish, AccountInv
  <2> QED
    BY <1>5, <2>1, <2>2 DEF create_first
<1>6. CASE write_first
  <2>1. CASE file' = <<entry>> /\ Finish(<<>>) /\ UNCHANGED harm
    <3>1. /\ pc \in Busy /\ pc # "write" /\ pc' = "log" /\ say' = <<>> /\ file = <<>>
          /\ Len(file') = 1 /\ UNCHANGED <<log, harm, adds>>
      BY <1>t, <1>6, <2>1 DEF write_first, Finish, Busy, Copies
    <3>2. MessageInv'
      BY <1>m, <3>1, OneMessage
    <3>3. ~harm => log["added"] = 0 /\ log["updated"] + 1 = adds
      BY <1>t, <1>a, <3>1
    <3>4. pc' # "write" /\ pc' \notin Busy
      BY <3>1 DEF Busy
    <3>5. ~harm' => /\ Len(file') - log'["added"] - 0 \in {0, 1}
                    /\ log'["added"] + 0 + log'["updated"] + 0
                         + (Len(file') - log'["added"] - 0) + 0 = adds'
      BY <1>t, <3>1, <3>3
    <3>6. AccountInv'
      BY <1>b, <3>1, <3>4, <3>5 DEF AccountInv
    <3> QED
      BY <3>2, <3>6
  <2>2. CASE Finish(<<"write_failed">>) /\ harm'
    BY <1>m, <2>2, OneMessage DEF Finish, AccountInv
  <2> QED
    BY <1>6, <2>1, <2>2 DEF write_first
<1> QED
  BY <1>1, <1>2, <1>3, <1>4, <1>5, <1>6 DEF Adding

LEMMA LogStep == LogInv /\ [Next]_vars => LogInv'
<1> SUFFICES ASSUME LogInv, [Next]_vars PROVE LogInv'
  OBVIOUS
<1>1. BookInv'
  BY BookStep DEF LogInv
<1>2. MessageInv' /\ AccountInv'
  <2>1. CASE UNCHANGED vars
    BY <2>1 DEF LogInv, MessageInv, AccountInv, Pending, vars
  <2>2. CASE Next
    BY <2>2, ViewingLog, AddingLog, ShellLog, LoggingLog, KillLog DEF Next
  <2> QED
    BY <2>1, <2>2
<1> QED
  BY <1>1, <1>2 DEF LogInv

(* As long as nothing fails or is killed, the log accounts for every       *)
(* addition but the one that made the file.                                *)
THEOREM LogTells == Spec => []LogAccounts
<1>1. Init => LogInv
  <2> SUFFICES ASSUME Init PROVE LogInv
    OBVIOUS
  <2>1. say = <<>> /\ pc = "prompt" /\ file = <<>> /\ adds = 0 /\ log["added"] = 0 /\ log["updated"] = 0
    BY DEF Init, Reports
  <2>2. MessageInv
    BY <2>1 DEF MessageInv
  <2>3. AccountInv
    BY <2>1 DEF AccountInv, Pending, Busy
  <2> QED
    BY <2>2, <2>3, BookInit DEF LogInv
<1>2. LogInv => LogAccounts
  <2> SUFFICES ASSUME LogInv, pc = "prompt", ~harm
               PROVE  /\ Len(file) - log["added"] \in {0, 1}
                      /\ log["added"] + log["updated"] + (Len(file) - log["added"]) = adds
    BY DEF LogAccounts
  <2>1. /\ Pending("added") = 0 /\ Pending("updated") = 0
        /\ pc # "write" /\ pc \notin Busy
    BY DEF LogInv, MessageInv, Pending, Busy
  <2>2. /\ Len(file) \in Nat /\ log["added"] \in Nat /\ log["updated"] \in Nat
        /\ adds \in Int
    BY GradeFileAssumption DEF LogInv, BookInv, TypeOK, Reports
  <2>3. /\ Len(file) - log["added"] - 0 \in {0, 1}
        /\ log["added"] + 0 + log["updated"] + 0 + (Len(file) - log["added"] - 0) + 0 = adds
    BY <2>1 DEF LogInv, AccountInv
  <2>4. Len(file) - log["added"] \in {0, 1}
    BY <2>2, <2>3
  <2>5. log["updated"] + Len(file) = adds
    BY <2>2, <2>3
  <2>6. \A l, a, u \in Int : a + u + (l - a) = u + l
    OBVIOUS
  <2>7. Len(file) \in Int /\ log["added"] \in Int /\ log["updated"] \in Int
    BY <2>2
  <2>8. log["added"] + log["updated"] + (Len(file) - log["added"]) = log["updated"] + Len(file)
    BY <2>6, <2>7
  <2> QED
    BY <2>4, <2>5, <2>8
<1> QED
  BY <1>1, <1>2, LogStep, PTL DEF Spec
-----------------------------------------------------------------------------
(* Pages: lines P + 1 .. P + n are those whose place, counted in pages of  *)
(* n lines, is on the page after the first P = n * (page - 1).             *)

LEMMA DivMod ==
  ASSUME NEW n \in Nat, n > 0, NEW a \in Int
  PROVE  a \div n \in Int /\ (a % n) \in 0 .. n - 1 /\ a = n * (a \div n) + (a % n)
<1>1. a \div n \in Int
  OBVIOUS
<1>2. (a % n) \in 0 .. n - 1
  OBVIOUS
<1>3. a = n * (a \div n) + (a % n)
  OBVIOUS
<1> QED BY <1>1, <1>2, <1>3

LEMMA Steps ==
  ASSUME NEW n \in Nat, NEW q \in Int, NEW p \in Int, q < p
  PROVE  n * q + n <= n * p
<1>1. n * (p - q - 1) \in Nat
  <2>1. p - q - 1 \in Nat
    OBVIOUS
  <2> QED BY <2>1
<1>2. n * (p - q - 1) = n * p - n * q - n
  OBVIOUS
<1> QED BY <1>1, <1>2

LEMMA OnPageIff ==
  ASSUME NEW n \in Nat, n > 0, NEW page \in Int, NEW i \in Nat, i > 0
  PROVE  /\ n * (page - 1) \in Int
         /\ ((i - 1) \div n) + 1 = page <=>
              n * (page - 1) + 1 <= i /\ i <= n * (page - 1) + n
         /\ ((i - 1) \div n) + 1 = page =>
              n * (page - 1) >= 0 /\ ((i - 1) % n) + 1 = i - n * (page - 1)
<1> DEFINE q == (i - 1) \div n
           r == (i - 1) % n
           p == page - 1
           P == n * p
           Q == n * q
<1>1. q \in Int /\ r \in 0 .. n - 1 /\ i - 1 = Q + r /\ p \in Int /\ P \in Int /\ Q \in Int
  BY DivMod
<1>2. CASE q = p
  <2>1. Q = P
    BY <1>2
  <2>2. q + 1 = page
    BY <1>2
  <2>3. P >= 0
    <3>1. ~(q < 0)
      <4> SUFFICES ASSUME q < 0 PROVE FALSE
        OBVIOUS
      <4>1. n * q + n <= n * 0
        BY <1>1, Steps
      <4> HIDE DEF q, r
      <4> QED BY <1>1, <4>1
    <3>2. q \in Nat
      BY <1>1, <3>1
    <3> HIDE DEF q, r, p
    <3> QED BY <1>1, <1>2, <3>2
  <2> HIDE DEF q, r, p, P, Q
  <2>4. P + 1 <= i /\ i <= P + n /\ r + 1 = i - P
    BY <1>1, <2>1
  <2> QED BY <1>1, <2>2, <2>3, <2>4 DEF q, r, p, P
<1>3. CASE q < p
  <2>1. Q + n <= P
    BY <1>1, <1>3, Steps
  <2>2. q + 1 # page
    BY <1>1, <1>3
  <2> HIDE DEF q, r, p, P, Q
  <2>3. ~(P + 1 <= i)
    BY <1>1, <2>1
  <2> QED BY <1>1, <2>2, <2>3 DEF q, r, p, P
<1>4. CASE p < q
  <2>1. P + n <= Q
    BY <1>1, <1>4, Steps
  <2>2. q + 1 # page
    BY <1>1, <1>4
  <2> HIDE DEF q, r, p, P, Q
  <2>3. ~(i <= P + n)
    BY <1>1, <2>1
  <2> QED BY <1>1, <2>2, <2>3 DEF q, r, p, P
<1>5. q = p \/ q < p \/ p < q
  BY <1>1
<1> QED BY <1>2, <1>3, <1>4, <1>5

LEMMA PageRight ==
  ASSUME NEW S, NEW f \in Seq(S), NEW n \in Nat, n > 0, NEW page \in Int
  PROVE  LET OnPage == {i \in DOMAIN f : ((i - 1) \div n) + 1 = page}
         IN  /\ Len(Page(f, n, page)) = Cardinality(OnPage)
             /\ \A i \in OnPage : Page(f, n, page)[((i - 1) % n) + 1] = f[i]
             /\ BeyondFile(f, n, page) <=> Len(f) < n * (page - 1)
<1> DEFINE OnPage == {i \in DOMAIN f : ((i - 1) \div n) + 1 = page}
           P == n * (page - 1)
           L == Len(f)
           a == IF P + 1 < 1 THEN 1 ELSE P + 1
           b == IF P + n > L THEN L ELSE P + n
<1>1. L \in Nat /\ P \in Int /\ DOMAIN f = 1 .. L
  OBVIOUS
<1>2. a \in Int /\ b \in Int /\ a >= 1 /\ b <= L
  BY <1>1
<1>3. StartLine(n, page) = P + 1 /\ EndLine(n, page) = P + n
  <2>1. P + 1 + n - 1 = P + n
    BY <1>1
  <2> QED BY <2>1 DEF StartLine, EndLine
<1>4. Page(f, n, page) = SubSeq(f, a, b)
  BY <1>3 DEF Page
<1>5. /\ Len(SubSeq(f, a, b)) = IF a <= b THEN b - a + 1 ELSE 0
      /\ \A k \in 1 .. b - a + 1 : SubSeq(f, a, b)[k] = f[a + k - 1]
  <2>1. \A i \in a .. b : f[i] \in S
    <3>1. \A i \in a .. b : i \in 1 .. L
      BY <1>1, <1>2
    <3> QED BY <1>1, <3>1
  <2> HIDE DEF a, b
  <2> QED BY <1>2, <2>1, SubSeqProperties
<1>6. OnPage = a .. b
  <2>1. \A i \in 1 .. L : i \in OnPage <=> P + 1 <= i /\ i <= P + n
    BY <1>1, OnPageIff
  <2>2. \A i \in Int : i \in a .. b <=> i \in 1 .. L /\ P + 1 <= i /\ i <= P + n
    BY <1>1
  <2>3. OnPage \subseteq 1 .. L /\ 1 .. L \subseteq Int /\ a .. b \subseteq Int
    BY <1>1
  <2> HIDE DEF OnPage, a, b, P, L
  <2> QED BY <2>1, <2>2, <2>3
<1>7. Cardinality(OnPage) = IF a <= b THEN b - a + 1 ELSE 0
  <2> HIDE DEF OnPage, a, b
  <2>1. Cardinality(a .. b) = IF a > b THEN 0 ELSE b - a + 1
    BY <1>2, FS_Interval
  <2> QED BY <1>2, <1>6, <2>1
<1>8. ASSUME NEW i \in OnPage PROVE Page(f, n, page)[((i - 1) % n) + 1] = f[i]
  <2>1. i \in 1 .. L /\ ((i - 1) \div n) + 1 = page
    BY <1>1, <1>8
  <2>2. i \in Nat /\ i > 0
    BY <1>1, <2>1
  <2>3. P >= 0 /\ ((i - 1) % n) + 1 = i - P
    <3> HIDE DEF OnPage, a, b, L
    <3> QED BY <2>1, <2>2, OnPageIff
  <2>4. i \in a .. b
    BY <1>6, <1>8
  <2>5. a = P + 1
    <3> HIDE DEF P
    <3> QED BY <1>1, <2>3
  <2> HIDE DEF a, b, P, L, OnPage
  <2>6. i - P \in 1 .. b - a + 1 /\ a + (i - P) - 1 = i
    BY <1>1, <1>2, <2>2, <2>4, <2>5
  <2> QED BY <1>4, <1>5, <2>3, <2>6
<1>9. BeyondFile(f, n, page) <=> L < P
  <2> DEFINE last == P + n
             behind == IF last < 0 THEN 1 ELSE last + 1
             least == IF behind > L + 1 THEN L + 1 ELSE behind
  <2>1. BeyondFile(f, n, page) <=> least < P + 1
    BY <1>3 DEF BeyondFile
  <2>2. least < P + 1 <=> L < P
    <3> HIDE DEF P, L
    <3> QED BY <1>1
  <2> QED BY <2>1, <2>2
<1> QED BY <1>4, <1>5, <1>7, <1>8, <1>9

-----------------------------------------------------------------------------
(* What a command printed is what the file holds until an addition begins. *)

PageShown ==
  \E num, page \in Int :
    /\ shown.arg = <<num, page>>
    /\ shown.lines = Page(file, num, page)
    /\ file # <<>> => (shown.news = <<"beyond">> <=> BeyondFile(file, num, page))

SortShown ==
  \E choice \in 1 .. 4 : shown.arg = <<choice>> /\ shown.lines \in Sorted(file, choice)

ShownInv ==
  /\ pc \in Busy => shown = Nothing
  /\ shown.cmd = "list_some" => PageShown
  /\ shown.cmd = "sort" => SortShown

LEMMA NothingShown == ASSUME shown' = Nothing PROVE ShownInv'
BY DEF ShownInv, Nothing

LEMMA StillShown ==
  ASSUME ShownInv, UNCHANGED <<file, shown>>, pc' \in Busy => shown = Nothing
  PROVE  ShownInv'
BY DEF ShownInv, PageShown, SortShown

LEMMA ViewShown ==
  ASSUME NEW cmd \in {"show_all", "list_grades"}, NEW arg, NEW lines, View(cmd, arg, lines, FALSE)
  PROVE  ShownInv'
<1>1. shown'.cmd = cmd /\ pc' = "log"
  BY DEF View, Answer
<1> QED
  BY <1>1 DEF ShownInv, Busy

LEMMA ListSomeShown ==
  ASSUME BookInv, NEW num \in Int, NEW page \in Int, list_some(num, page)
  PROVE  ShownInv'
<1> DEFINE lines == Page(file, num, page)
           beyond == BeyondFile(file, num, page)
           news == IF ~exists THEN <<"open_failed">>
                   ELSE IF file = <<>> THEN <<"empty">>
                   ELSE IF beyond THEN <<"beyond">> ELSE <<>>
<1>1. /\ shown' = [cmd |-> "list_some", arg |-> <<num, page>>, lines |-> lines, news |-> news]
      /\ pc' = "log" /\ file' = file
  <2> HIDE DEF lines, beyond
  <2> QED
    BY DEF list_some, View, Answer, lines, beyond
<1>2. file # <<>> => (news = <<"beyond">> <=> beyond)
  <2>1. ~exists => file = <<>>
    BY DEF BookInv, Copies
  <2> HIDE DEF beyond
  <2> QED
    BY <2>1
<1> HIDE DEF news
<1>3. PageShown'
  <2>1. /\ shown'.arg = <<num, page>> /\ shown'.lines = Page(file', num, page)
        /\ file' # <<>> => (shown'.news = <<"beyond">> <=> BeyondFile(file', num, page))
    BY <1>1, <1>2
  <2> QED
    BY <2>1 DEF PageShown
<1> QED
  BY <1>1, <1>3 DEF ShownInv, Busy

LEMMA SortsShown ==
  ASSUME NEW choice \in 1 .. 4, NEW message, Sorts(choice, message)
  PROVE  ShownInv'
<1>1. PICK lines \in Sorted(file, choice) :
        Answer([cmd |-> "sort", arg |-> <<choice>>, lines |-> lines], <<message>>, "log")
  BY DEF Sorts
<1>2. /\ shown' = [cmd |-> "sort", arg |-> <<choice>>, lines |-> lines]
      /\ pc' = "log" /\ file' = file
  BY <1>1 DEF Answer
<1>3. shown'.arg = <<choice>> /\ shown'.lines \in Sorted(file', choice) /\ shown'.cmd = "sort"
  BY <1>2
<1>4. SortShown'
  BY <1>3 DEF SortShown
<1> QED
  BY <1>2, <1>3, <1>4 DEF ShownInv, Busy

LEMMA ViewingShown == ASSUME BookInv, Viewing PROVE ShownInv'
<1>1. CASE show_all \/ list_grades
  BY <1>1, ViewShown DEF show_all, list_grades
<1>2. CASE \E a \in Asked : list_some(a[1], a[2])
  <2>1. PICK a \in Asked : list_some(a[1], a[2])
    BY <1>2
  <2>2. a[1] \in Int /\ a[2] \in Int
    BY GradeFileAssumption
  <2> QED
    BY <2>1, <2>2, ListSomeShown
<1>3. CASE menu \/ quit
  BY <1>3, NothingShown DEF menu, quit, Answer
<1>4. CASE \E n \in Names : search_student(n)
  <2>1. shown' = Nothing \/ (shown'.cmd = "search" /\ pc' = "log")
    BY <1>4 DEF search_student, Answer
  <2>2. CASE shown'.cmd = "search" /\ pc' = "log"
    BY <2>2 DEF ShownInv, Busy
  <2> QED
    BY <2>1, <2>2, NothingShown
<1>5. CASE sort_all
  <2>1. \/ \E choice \in 1 .. 4, message \in {"sorted_by_name", "sorted_by_grade"} :
             Sorts(choice, message)
        \/ shown' = Nothing
    <3>1. CASE sort_by_student_name_ascending
      BY <3>1 DEF sort_by_student_name_ascending, sort_by_student_name, Answer
    <3>2. CASE sort_by_student_name_descending
      BY <3>2 DEF sort_by_student_name_descending, sort_by_student_name, Answer
    <3>3. CASE sort_by_grade_ascending
      BY <3>3 DEF sort_by_grade_ascending, sort_by_grade, Answer
    <3>4. CASE sort_by_grade_descending
      BY <3>4 DEF sort_by_grade_descending, sort_by_grade, Answer
    <3>5. CASE Answer(Nothing, <<>>, "log")
      BY <3>5 DEF Answer
    <3> QED
      BY <1>5, <3>1, <3>2, <3>3, <3>4, <3>5 DEF sort_all
  <2> QED
    BY <2>1, SortsShown, NothingShown
<1> QED
  BY <1>1, <1>2, <1>3, <1>4, <1>5 DEF Viewing

LEMMA ShownStep == BookInv /\ ShownInv /\ [Next]_vars => ShownInv'
<1> SUFFICES ASSUME BookInv, ShownInv, [Next]_vars PROVE ShownInv'
  OBVIOUS
<1>1. CASE Viewing
  BY <1>1, ViewingShown
<1>2. CASE Adding
  <2>1. shown' = Nothing
    BY <1>2 DEF ShownInv, Busy, Adding, addStudentGrade, read_records, truncate,
                write_records, create_first, write_first
  <2> QED
    BY <2>1, NothingShown
<1>3. CASE gtu_student_grades \/ ForkFails \/ Kill \/ main
  BY <1>3, NothingShown DEF gtu_student_grades, ForkFails, Kill, main
<1>4. CASE log_message \/ Return
  <2>1. UNCHANGED <<file, shown>> /\ pc' \notin Busy
    BY <1>4 DEF log_message, Return, Busy
  <2> QED
    BY <2>1, StillShown
<1>5. CASE UNCHANGED vars
  <2>1. UNCHANGED <<file, shown, pc>>
    BY <1>5 DEF vars
  <2> QED
    BY <2>1, StillShown DEF ShownInv
<1> QED
  BY <1>1, <1>2, <1>3, <1>4, <1>5 DEF Next

LEMMA ShownInvariant == Spec => [](BookInv /\ ShownInv)
<1>1. Init => ShownInv
  BY DEF Init, ShownInv, Nothing, Busy
<1> QED
  BY <1>1, BookInit, BookStep, ShownStep, PTL DEF Spec

(* A page that list_some prints holds the lines whose place in the file is *)
(* on it, in order, and it says that the page is beyond the file exactly   *)
(* when the file ends before the page before it does.                      *)
THEOREM PagesRight == Spec => []PageAsAsked
<1>1. BookInv /\ ShownInv => PageAsAsked
  <2> SUFFICES ASSUME BookInv, ShownInv, shown.cmd = "list_some", shown.arg[1] > 0, file # <<>>
               PROVE  PageAsAsked
    BY DEF PageAsAsked
  <2>1. PICK num \in Int, page \in Int :
          /\ shown.arg = <<num, page>>
          /\ shown.lines = Page(file, num, page)
          /\ shown.news = <<"beyond">> <=> BeyondFile(file, num, page)
    BY DEF ShownInv, PageShown
  <2>2. shown.arg[1] = num /\ shown.arg[2] = page /\ num \in Nat /\ num > 0
    BY <2>1
  <2>3. file \in Seq(Record)
    BY DEF BookInv, TypeOK
  <2> DEFINE OnPage == {i \in DOMAIN file : ((i - 1) \div num) + 1 = page}
  <2>4. /\ Len(Page(file, num, page)) = Cardinality(OnPage)
        /\ \A i \in OnPage : Page(file, num, page)[((i - 1) % num) + 1] = file[i]
        /\ BeyondFile(file, num, page) <=> Len(file) < num * (page - 1)
    BY <2>2, <2>3, PageRight
  <2> QED
    BY <2>1, <2>2, <2>4 DEF PageAsAsked
<1> QED
  BY <1>1, ShownInvariant, PTL

-----------------------------------------------------------------------------
(* Sorting.  The comparisons compare integers.                             *)

Key(choice) ==
  [r \in Record |-> IF choice = 1 THEN Rank[r.name] ELSE 0 - Rank[r.name]]

LEMMA KeysCompare ==
  ASSUME NEW choice \in 1 .. 2
  PROVE  /\ Key(choice) \in [Record -> Int]
         /\ \A a, b \in Record : Compare(choice, a, b) = Key(choice)[a] - Key(choice)[b]
<1>1. \A r \in Record : Rank[r.name] \in Int
  BY GradeFileAssumption DEF Record
<1>2. choice = 1 \/ choice = 2
  OBVIOUS
<1> QED
  BY <1>1, <1>2 DEF Key, Compare, strcmp

Swapped(s, j) == [s EXCEPT ![j] = s[j + 1], ![j + 1] = s[j]]

LEMMA RearrangementsAre ==
  ASSUME NEW f \in Seq(Record)
  PROVE  /\ f \in Rearrangements(f)
         /\ Rearrangements(f) \subseteq [1 .. Len(f) -> Record]
<1> DEFINE same == [i \in DOMAIN f |-> i]
<1>1. f = [i \in DOMAIN f |-> f[same[i]]]
  OBVIOUS
<1>2. f \in [1 .. Len(f) -> Record] /\ DOMAIN f = 1 .. Len(f)
  OBVIOUS
<1>3. same \in {q \in [DOMAIN f -> DOMAIN f] : \A i, j \in DOMAIN f : q[i] = q[j] => i = j}
  OBVIOUS
<1>4. Rearrangements(f) \subseteq [DOMAIN f -> Record]
  <2> SUFFICES ASSUME NEW s \in Rearrangements(f) PROVE s \in [DOMAIN f -> Record]
    OBVIOUS
  <2>1. PICK p \in [DOMAIN f -> DOMAIN f] : s = [i \in DOMAIN f |-> f[p[i]]]
    BY DEF Rearrangements
  <2>2. \A i \in DOMAIN f : f[p[i]] \in Record
    BY <1>2
  <2> QED BY <2>1, <2>2
<1> HIDE DEF same
<1> QED
  BY <1>1, <1>2, <1>3, <1>4 DEF Rearrangements

LEMMA SwapRearranges ==
  ASSUME NEW f \in Seq(Record), NEW s \in Rearrangements(f), NEW j \in 1 .. Len(f) - 1
  PROVE  Swapped(s, j) \in Rearrangements(f)
<1> DEFINE n == Len(f)
           P == {q \in [1 .. n -> 1 .. n] : \A i, k \in 1 .. n : q[i] = q[k] => i = k}
<1>1. n \in Nat /\ DOMAIN f = 1 .. n /\ s \in [1 .. n -> Record] /\ j \in 1 .. n - 1
  BY RearrangementsAre
<1>5. j \in 1 .. n /\ j + 1 \in 1 .. n /\ j # j + 1
  BY <1>1
<1> HIDE DEF n
<1>0. Rearrangements(f) = {[i \in 1 .. n |-> f[p[i]]] : p \in P}
  BY <1>1 DEF Rearrangements
<1>2. PICK p \in P : s = [i \in 1 .. n |-> f[p[i]]]
  BY <1>0
<1>3. /\ Swapped(p, j) \in [1 .. n -> 1 .. n]
      /\ Swapped(p, j)[j] = p[j + 1] /\ Swapped(p, j)[j + 1] = p[j]
      /\ \A i \in 1 .. n : i # j /\ i # j + 1 => Swapped(p, j)[i] = p[i]
  BY <1>2, <1>5 DEF Swapped
<1>4. /\ Swapped(s, j) \in [1 .. n -> Record]
      /\ Swapped(s, j)[j] = s[j + 1] /\ Swapped(s, j)[j + 1] = s[j]
      /\ \A i \in 1 .. n : i # j /\ i # j + 1 => Swapped(s, j)[i] = s[i]
  BY <1>1, <1>5 DEF Swapped
<1> DEFINE q == Swapped(p, j)
<1> HIDE DEF q
<1>6. q \in P
  BY <1>2, <1>3, <1>5 DEF q
<1>7. \A i \in 1 .. n : Swapped(s, j)[i] = f[q[i]]
  BY <1>2, <1>3, <1>4, <1>5 DEF q
<1>8. Swapped(s, j) = [i \in 1 .. n |-> f[q[i]]]
  BY <1>4, <1>7
<1> HIDE DEF P
<1> QED
  BY <1>0, <1>6, <1>8

(* A rearrangement holds every record as often.                            *)
Often(s, r) == Cardinality({i \in DOMAIN s : s[i] = r})

LEMMA AsOften ==
  ASSUME NEW f \in Seq(Record), NEW s \in Rearrangements(f), NEW r
  PROVE  Often(s, r) = Often(f, r)
<1> DEFINE D == 1 .. Len(f)
           X == {i \in D : s[i] = r}
           Y == {i \in D : f[i] = r}
<1>1. DOMAIN f = D /\ DOMAIN s = D /\ IsFiniteSet(D)
  <2>1. s \in [1 .. Len(f) -> Record]
    BY RearrangementsAre
  <2>2. Len(f) \in Nat
    OBVIOUS
  <2> QED BY <2>1, <2>2, FS_Interval
<1>2. PICK p \in [D -> D] : (\A i, k \in D : p[i] = p[k] => i = k) /\ s = [i \in D |-> f[p[i]]]
  BY <1>1 DEF Rearrangements
<1> HIDE DEF D
<1>3. p \in Surjection(D, D)
  <2>1. p \in Injection(D, D)
    BY <1>2 DEF Injection, IsInjective
  <2> QED BY <1>1, <2>1, FS_Injection
<1>4. \A k \in D : \E i \in D : p[i] = k
  BY <1>3 DEF Surjection
<1> DEFINE b == [i \in X |-> p[i]]
<1>5. \A i \in D : s[i] = f[p[i]]
  BY <1>2
<1>6. b \in Bijection(X, Y)
  <2>1. b \in [X -> Y]
    BY <1>2, <1>5
  <2>2. \A i, k \in X : b[i] = b[k] => i = k
    BY <1>2
  <2>3. \A k \in Y : \E i \in X : b[i] = k
    <3> SUFFICES ASSUME NEW k \in Y PROVE \E i \in X : b[i] = k
      OBVIOUS
    <3>1. PICK i \in D : p[i] = k
      BY <1>4
    <3>2. i \in X
      BY <1>5, <3>1
    <3> QED BY <3>1, <3>2
  <2> HIDE DEF b, X, Y
  <2> QED BY <2>1, <2>2, <2>3 DEF Bijection, Injection, IsInjective, Surjection
<1>7. IsFiniteSet(X)
  BY <1>1, FS_Subset
<1>8. Cardinality(X) = Cardinality(Y)
  <2> HIDE DEF X, Y, b
  <2>1. ExistsBijection(X, Y)
    BY <1>6 DEF ExistsBijection
  <2> QED BY <1>7, <2>1, FS_Bijection
<1> QED
  BY <1>1, <1>8 DEF Often

-----------------------------------------------------------------------------
(* A sweep compares neighbours from the left and leaves the greatest of    *)
(* the first n + 1 lines behind them.                                      *)

Compared(s, j, choice) ==
  IF Compare(choice, s[j], s[j + 1]) > 0 THEN Swapped(s, j) ELSE s

(* c[k] is what a sweep has made of s when it has compared k neighbours.   *)
SweepsBy(c, s, n, choice) ==
  c[0] = s /\ \A k \in 1 .. n : c[k] = Compared(c[k - 1], k, choice)

LEMMA SweepSteps ==
  ASSUME NEW f \in Seq(Record), NEW s \in Rearrangements(f), NEW n \in Nat, n < Len(f),
         NEW choice
  PROVE  \E c \in [0 .. n -> Rearrangements(f)] :
           SweepsBy(c, s, n, choice) /\ Sweep(s, n, choice) = c[n]
<1> DEFINE A == Rearrangements(f)
           js == [j \in 1 .. n |-> j]
           h == [p \in A \X (1 .. n) |-> Compared(p[1], p[2], choice)]
           Op(t, j) == IF Compare(choice, t[j], t[j + 1]) > 0
                       THEN [t EXCEPT ![j] = t[j + 1], ![j + 1] = t[j]]
                       ELSE t
           Folded(g) == g = [t \in SUBSET (1 .. n) |->
                               IF t = {} THEN s ELSE Op(g[t \ {Max(t)}], js[Max(t)])]
           g == CHOOSE f1 : Folded(f1)
<1>1. \A t \in A, j \in 1 .. n : Compared(t, j, choice) \in A
  <2>1. \A j \in 1 .. n : j \in 1 .. Len(f) - 1
    OBVIOUS
  <2> QED BY <2>1, SwapRearranges DEF Compared
<1>2. h \in [A \X (1 .. n) -> A] /\ \A t \in A, j \in 1 .. n : h[<<t, j>>] = Compared(t, j, choice)
  BY <1>1
<1>3. \A t, j : Op(t, j) = Compared(t, j, choice)
  BY DEF Compared, Swapped
<1>4. DOMAIN js = 1 .. n /\ \A j \in 1 .. n : js[j] = j
  OBVIOUS
<1>5. \A t \in SUBSET (1 .. n) : t # {} => Max(t) \in 1 .. n /\ t \ {Max(t)} \in SUBSET (1 .. n)
  BY MaxIsLast
<1>6. Sweep(s, n, choice) = g[1 .. n]
  BY <1>4 DEF Sweep, FoldLeft, MapThenFoldSet
<1> HIDE DEF A, h, js, Op
<1>7. \E f1 : Folded(f1)
  <2>1. PICK f1 \in [SUBSET (1 .. n) -> A] : LeftFolds(f1, n, s, h)
    BY <1>2, LeftFoldExists DEF A
  <2>2. \A t \in SUBSET (1 .. n) : f1[t] \in A
    BY <2>1
  <2>3. \A t \in SUBSET (1 .. n) :
          f1[t] = IF t = {} THEN s ELSE Op(f1[t \ {Max(t)}], js[Max(t)])
    <3> SUFFICES ASSUME NEW t \in SUBSET (1 .. n)
                 PROVE  f1[t] = IF t = {} THEN s ELSE Op(f1[t \ {Max(t)}], js[Max(t)])
      OBVIOUS
    <3>1. f1[t] = IF t = {} THEN s ELSE h[<<f1[t \ {Max(t)}], Max(t)>>]
      BY <2>1 DEF LeftFolds
    <3>2. CASE t # {}
      <4> DEFINE u == f1[t \ {Max(t)}]
                 j == Max(t)
      <4>1. j \in 1 .. n /\ u \in A
        BY <1>5, <2>2, <3>2
      <4>2. f1[t] = h[<<u, j>>]
        BY <3>1, <3>2
      <4> HIDE DEF u, j
      <4>3. h[<<u, j>>] = Op(u, js[j])
        BY <1>2, <1>3, <1>4, <4>1
      <4> QED BY <3>2, <4>2, <4>3 DEF u, j
    <3> QED BY <3>1, <3>2
  <2> QED BY <2>1, <2>3
<1>8. Folded(g)
  BY <1>7
<1> HIDE DEF g
<1>9. /\ g[{}] = s
      /\ \A t \in SUBSET (1 .. n) : t # {} => g[t] = Compared(g[t \ {Max(t)}], Max(t), choice)
  BY <1>3, <1>4, <1>5, <1>8
<1>10. LeftFoldsIn(g, n, A, s, h)
  BY <1>2, <1>5, <1>9 DEF LeftFoldsIn
<1>11. LeftChain(g, n, A, s, h)
  BY <1>2, <1>10, LeftFoldChain DEF A
<1>12. \A k \in 1 .. n : g[1 .. k] = Compared(g[1 .. k - 1], k, choice)
  <2>1. \A k \in 1 .. n : k - 1 \in 0 .. n
    OBVIOUS
  <2> QED BY <1>2, <1>11, <2>1 DEF LeftChain
<1> DEFINE c == [k \in 0 .. n |-> g[1 .. k]]
<1>13. c \in [0 .. n -> A] /\ c[0] = s /\ c[n] = g[1 .. n]
  BY <1>11 DEF LeftChain
<1>14. \A k \in 1 .. n : c[k] = Compared(c[k - 1], k, choice)
  BY <1>12
<1> QED BY <1>6, <1>13, <1>14 DEF A, SweepsBy

(* After k comparisons the greatest of the first k + 1 lines is the last   *)
(* of them, and the lines behind them are where they were.                 *)
Swept(t, s, k, L, K) ==
  /\ \A i \in 1 .. k : K[t[i]] <= K[t[k + 1]]
  /\ \A i \in k + 2 .. L : t[i] = s[i]
  /\ \A i \in 1 .. k + 1 : \E m \in 1 .. k + 1 : t[i] = s[m]

LEMMA SweepStep ==
  ASSUME NEW L \in Nat, NEW k \in Nat, k + 1 < L, NEW choice \in 1 .. 2,
         NEW s \in [1 .. L -> Record], NEW t \in [1 .. L -> Record],
         Swept(t, s, k, L, Key(choice))
  PROVE  Swept(Compared(t, k + 1, choice), s, k + 1, L, Key(choice))
<1> DEFINE K == Key(choice)
           u == Compared(t, k + 1, choice)
           j == k + 1
<1>1. /\ K \in [Record -> Int]
      /\ \A a, b \in Record : Compare(choice, a, b) = K[a] - K[b]
  BY KeysCompare
<1>2. /\ j \in 1 .. L /\ j + 1 \in 1 .. L /\ j # j + 1 /\ k + 2 = j + 1
      /\ \A i \in 1 .. k : i \in 1 .. L /\ i # j /\ i # j + 1
      /\ \A i \in j + 2 .. L : i \in 1 .. L /\ i # j /\ i # j + 1 /\ i \in k + 2 .. L
      /\ j + 1 \in k + 2 .. L
      /\ \A i \in 1 .. j + 1 : i \in 1 .. j \/ i = j + 1
      /\ \A i \in 1 .. j : i \in 1 .. k \/ i = j
      /\ \A i \in 1 .. j : i \in 1 .. j + 1
      /\ j \in 1 .. j /\ j + 1 \in 1 .. j + 1
  OBVIOUS
<1>3. /\ \A i \in 1 .. k : K[t[i]] <= K[t[j]]
      /\ \A i \in k + 2 .. L : t[i] = s[i]
      /\ \A i \in 1 .. j : \E m \in 1 .. j : t[i] = s[m]
  BY DEF Swept
<1>4. Compare(choice, t[j], t[j + 1]) = K[t[j]] - K[t[j + 1]]
  BY <1>1, <1>2
<1>5. \A i \in 1 .. L : K[t[i]] \in Int
  BY <1>1
<1>6. CASE Compare(choice, t[j], t[j + 1]) > 0
  <2>1. u = Swapped(t, j)
    BY <1>6 DEF Compared
  <2>2. /\ u[j] = t[j + 1] /\ u[j + 1] = t[j]
        /\ \A i \in 1 .. L : i # j /\ i # j + 1 => u[i] = t[i]
    BY <1>2, <2>1 DEF Swapped
  <2>3. K[t[j + 1]] <= K[t[j]]
    BY <1>2, <1>4, <1>5, <1>6
  <2> HIDE DEF u, j, K
  <2>4. \A i \in 1 .. j : K[u[i]] <= K[u[j + 1]]
    BY <1>2, <1>3, <2>2, <2>3
  <2>5. \A i \in j + 2 .. L : u[i] = s[i]
    BY <1>2, <1>3, <2>2
  <2>6. \A i \in 1 .. j + 1 : \E m \in 1 .. j + 1 : u[i] = s[m]
    <3>1. u[j] = s[j + 1]
      BY <1>2, <1>3, <2>2
    <3>2. \E m \in 1 .. j : u[j + 1] = s[m]
      BY <1>2, <1>3, <2>2
    <3>3. \A i \in 1 .. k : i \in 1 .. j /\ u[i] = t[i]
      BY <1>2, <2>2 DEF j
    <3> QED BY <1>2, <1>3, <3>1, <3>2, <3>3
  <2> QED BY <2>4, <2>5, <2>6 DEF Swept, u, j, K
<1>7. CASE ~(Compare(choice, t[j], t[j + 1]) > 0)
  <2>1. u = t
    BY <1>7 DEF Compared
  <2>2. K[t[j]] <= K[t[j + 1]]
    BY <1>2, <1>4, <1>5, <1>7
  <2> HIDE DEF u, j, K
  <2>3. \A i \in 1 .. j : K[u[i]] <= K[u[j + 1]]
    <3> SUFFICES ASSUME NEW i \in 1 .. j PROVE K[t[i]] <= K[t[j + 1]]
      BY <2>1
    <3>1. K[t[i]] <= K[t[j]]
      BY <1>2, <1>3, <1>5
    <3>2. i \in 1 .. L
      BY <1>2
    <3>3. K[t[i]] \in Int /\ K[t[j]] \in Int /\ K[t[j + 1]] \in Int
      BY <1>2, <1>5, <3>2
    <3> QED BY <2>2, <3>1, <3>3
  <2>4. \A i \in j + 2 .. L : u[i] = s[i]
    BY <1>2, <1>3, <2>1
  <2>5. \A i \in 1 .. j + 1 : \E m \in 1 .. j + 1 : u[i] = s[m]
    BY <1>2, <1>3, <2>1
  <2> QED BY <2>3, <2>4, <2>5 DEF Swept, u, j, K
<1> QED BY <1>6, <1>7

LEMMA SweepRight ==
  ASSUME NEW f \in Seq(Record), NEW s \in Rearrangements(f), NEW n \in Nat, n < Len(f),
         NEW choice \in 1 .. 2
  PROVE  /\ Sweep(s, n, choice) \in Rearrangements(f)
         /\ Swept(Sweep(s, n, choice), s, n, Len(f), Key(choice))
<1> DEFINE A == Rearrangements(f)
           L == Len(f)
           K == Key(choice)
<1>1. A \subseteq [1 .. L -> Record] /\ L \in Nat /\ n < L /\ K \in [Record -> Int]
  <2>1. K \in [Record -> Int]
    BY KeysCompare
  <2>2. A \subseteq [1 .. L -> Record]
    BY RearrangementsAre
  <2> QED BY <2>1, <2>2
<1>2. PICK c \in [0 .. n -> A] : SweepsBy(c, s, n, choice) /\ Sweep(s, n, choice) = c[n]
  BY SweepSteps
<1> HIDE DEF A, L, K
<1>3. s \in A /\ n \in Nat
  BY DEF A
<1> DEFINE S == {k \in 0 .. n : Swept(c[k], s, k, L, K)}
<1>4. 0 \in S
  <2>1. c[0] = s
    BY <1>2 DEF SweepsBy
  <2>2. Swept(s, s, 0, L, K)
    BY <1>1, <1>3 DEF Swept
  <2> QED BY <2>1, <2>2
<1>5. \A k \in 0 .. n - 1 : k \in S => k + 1 \in S
  <2> SUFFICES ASSUME NEW k \in 0 .. n - 1, k \in S PROVE k + 1 \in S
    OBVIOUS
  <2>1. k \in Nat /\ k + 1 \in 1 .. n /\ k + 1 < L /\ (k + 1) - 1 = k /\ k \in 0 .. n
        /\ k + 1 \in 0 .. n
    BY <1>1
  <2>2. c[k + 1] = Compared(c[k], k + 1, choice)
    BY <1>2, <2>1 DEF SweepsBy
  <2>3. c[k] \in [1 .. L -> Record] /\ s \in [1 .. L -> Record]
    BY <1>1, <1>2, <1>3, <2>1
  <2>4. Swept(c[k], s, k, L, K)
    OBVIOUS
  <2> HIDE DEF S
  <2>5. Swept(Compared(c[k], k + 1, choice), s, k + 1, L, K)
    BY <1>1, <2>1, <2>3, <2>4, SweepStep DEF K
  <2> QED BY <2>1, <2>2, <2>5 DEF S
<1>6. n \in S
  <2> HIDE DEF S
  <2>1. \A k \in 0 .. n : k \in S
    BY <1>3, <1>4, <1>5, UpTo
  <2> QED BY <1>3, <2>1
<1>7. c[n] \in A /\ Swept(c[n], s, n, L, K)
  BY <1>2, <1>3, <1>6
<1> QED BY <1>2, <1>7 DEF A, L, K

(* b[k] is what the bubble sort has made of f after k sweeps.              *)
SortsBy(b, f, N, choice) ==
  b[0] = f /\ \A k \in 1 .. N : b[k] = Sweep(b[k - 1], Len(f) - k, choice)

LEMMA SortSteps ==
  ASSUME NEW f \in Seq(Record), NEW N \in Nat, N = (IF Len(f) = 0 THEN 0 ELSE Len(f) - 1),
         NEW choice \in 1 .. 2
  PROVE  \E b \in [0 .. N -> Rearrangements(f)] :
           SortsBy(b, f, N, choice) /\ BubbleSort(f, choice) = b[N]
<1> DEFINE A == Rearrangements(f)
           L == Len(f)
           is == [i \in 1 .. L - 1 |-> i]
           h == [p \in A \X (1 .. N) |-> Sweep(p[1], L - p[2], choice)]
           Folded(g) == g = [t \in SUBSET (1 .. N) |->
                               IF t = {} THEN f ELSE Sweep(g[t \ {Max(t)}], L - is[Max(t)], choice)]
           g == CHOOSE f1 : Folded(f1)
<1>1. \A s \in A, i \in 1 .. N : Sweep(s, L - i, choice) \in A
  <2> SUFFICES ASSUME NEW s \in A, NEW i \in 1 .. N PROVE Sweep(s, L - i, choice) \in A
    OBVIOUS
  <2>1. L - i \in Nat /\ L - i < Len(f)
    OBVIOUS
  <2> HIDE DEF L
  <2> QED BY <2>1, SweepRight
<1>2. h \in [A \X (1 .. N) -> A] /\ \A s \in A, i \in 1 .. N : h[<<s, i>>] = Sweep(s, L - i, choice)
  <2> HIDE DEF A
  <2> QED BY <1>1
<1>3. f \in A
  BY RearrangementsAre
<1>4. 1 .. N = 1 .. L - 1 /\ DOMAIN is = 1 .. N /\ \A i \in 1 .. N : is[i] = i
  OBVIOUS
<1>5. \A t \in SUBSET (1 .. N) : t # {} => Max(t) \in 1 .. N /\ t \ {Max(t)} \in SUBSET (1 .. N)
  BY MaxIsLast
<1>6. BubbleSort(f, choice) = g[1 .. N]
  BY <1>4 DEF BubbleSort, FoldLeft, MapThenFoldSet
<1> HIDE DEF A, h, is, L
<1>7. \E f1 : Folded(f1)
  <2>1. PICK f1 \in [SUBSET (1 .. N) -> A] : LeftFolds(f1, N, f, h)
    BY <1>2, <1>3, LeftFoldExists
  <2>2. \A t \in SUBSET (1 .. N) : f1[t] \in A
    BY <2>1
  <2>3. \A t \in SUBSET (1 .. N) :
          f1[t] = IF t = {} THEN f ELSE Sweep(f1[t \ {Max(t)}], L - is[Max(t)], choice)
    <3> SUFFICES ASSUME NEW t \in SUBSET (1 .. N)
                 PROVE  f1[t] = IF t = {} THEN f
                                ELSE Sweep(f1[t \ {Max(t)}], L - is[Max(t)], choice)
      OBVIOUS
    <3>1. f1[t] = IF t = {} THEN f ELSE h[<<f1[t \ {Max(t)}], Max(t)>>]
      BY <2>1 DEF LeftFolds
    <3>2. CASE t # {}
      <4> DEFINE u == f1[t \ {Max(t)}]
                 j == Max(t)
      <4>1. j \in 1 .. N /\ u \in A
        BY <1>5, <2>2, <3>2
      <4>2. f1[t] = h[<<u, j>>]
        BY <3>1, <3>2
      <4> HIDE DEF u, j
      <4>3. h[<<u, j>>] = Sweep(u, L - is[j], choice)
        BY <1>2, <1>4, <4>1
      <4> QED BY <3>2, <4>2, <4>3 DEF u, j
    <3> QED BY <3>1, <3>2
  <2> QED BY <2>1, <2>3
<1>8. Folded(g)
  BY <1>7
<1> HIDE DEF g
<1>9. /\ g[{}] = f
      /\ \A t \in SUBSET (1 .. N) : t # {} =>
           g[t] = Sweep(g[t \ {Max(t)}], L - Max(t), choice)
  BY <1>4, <1>5, <1>8
<1>10. LeftFoldsIn(g, N, A, f, h)
  BY <1>2, <1>5, <1>9 DEF LeftFoldsIn
<1>11. LeftChain(g, N, A, f, h)
  BY <1>2, <1>3, <1>10, LeftFoldChain
<1>12. \A k \in 1 .. N : g[1 .. k] = Sweep(g[1 .. k - 1], L - k, choice)
  <2>1. \A k \in 1 .. N : k - 1 \in 0 .. N
    OBVIOUS
  <2> QED BY <1>2, <1>11, <2>1 DEF LeftChain
<1> DEFINE b == [k \in 0 .. N |-> g[1 .. k]]
<1>13. b \in [0 .. N -> A] /\ b[0] = f /\ b[N] = g[1 .. N]
  BY <1>11 DEF LeftChain
<1>14. \A k \in 1 .. N : b[k] = Sweep(b[k - 1], L - k, choice)
  BY <1>12
<1> QED BY <1>6, <1>13, <1>14 DEF A, L, SortsBy

(* After k sweeps the last k lines are in order and none before them is    *)
(* greater.                                                                *)
TailSorted(s, k, L, K) ==
  \A i \in L - k + 1 .. L : \A j \in 1 .. i - 1 : K[s[j]] <= K[s[i]]

LEMMA SortStep ==
  ASSUME NEW L \in Nat, NEW k \in Nat, k + 1 < L, NEW K \in [Record -> Int],
         NEW s \in [1 .. L -> Record], NEW t \in [1 .. L -> Record],
         TailSorted(s, k, L, K), Swept(t, s, L - (k + 1), L, K)
  PROVE  TailSorted(t, k + 1, L, K)
<1> DEFINE n == L - (k + 1)
<1>1. n \in Nat /\ n + 2 = L - k + 1 /\ n + 1 = L - (k + 1) + 1 /\ n + 1 <= L
  OBVIOUS
<1>2. /\ \A i \in 1 .. n : K[t[i]] <= K[t[n + 1]]
      /\ \A i \in n + 2 .. L : t[i] = s[i]
      /\ \A i \in 1 .. n + 1 : \E m \in 1 .. n + 1 : t[i] = s[m]
  BY DEF Swept
<1>3. \A i \in n + 2 .. L : \A j \in 1 .. i - 1 : K[s[j]] <= K[s[i]]
  BY <1>1 DEF TailSorted
<1> HIDE DEF n
<1>4. ASSUME NEW i \in n + 1 .. L, NEW j \in 1 .. i - 1 PROVE K[t[j]] <= K[t[i]]
  <2>1. CASE i = n + 1
    <3>1. j \in 1 .. n
      BY <1>1, <2>1
    <3> QED BY <1>2, <2>1, <3>1
  <2>2. CASE i # n + 1
    <3>1. i \in n + 2 .. L
      BY <1>1, <2>2
    <3>2. CASE j \in n + 2 .. L
      BY <1>2, <1>3, <3>1, <3>2
    <3>3. CASE j \in 1 .. n + 1
      <4>1. PICK m \in 1 .. n + 1 : t[j] = s[m]
        BY <1>2, <3>3
      <4>2. m \in 1 .. i - 1
        BY <1>1, <3>1
      <4> QED BY <1>2, <1>3, <3>1, <4>1, <4>2
    <3> QED BY <1>1, <3>2, <3>3
  <2> QED BY <2>1, <2>2
<1> QED BY <1>1, <1>4 DEF TailSorted, n

InOrder(s, L, K) == \A i, j \in 1 .. L : i < j => K[s[i]] <= K[s[j]]

LEMMA BubbleSorts ==
  ASSUME NEW f \in Seq(Record), NEW choice \in 1 .. 2
  PROVE  /\ BubbleSort(f, choice) \in Rearrangements(f)
         /\ InOrder(BubbleSort(f, choice), Len(f), Key(choice))
<1> DEFINE A == Rearrangements(f)
           L == Len(f)
           K == Key(choice)
           N == IF L = 0 THEN 0 ELSE L - 1
<1>1. L \in Nat /\ N \in Nat /\ (L = 0 \/ N = L - 1)
  OBVIOUS
<1>2. PICK b \in [0 .. N -> A] : SortsBy(b, f, N, choice) /\ BubbleSort(f, choice) = b[N]
  <2> HIDE DEF A
  <2>1. N = IF Len(f) = 0 THEN 0 ELSE Len(f) - 1
    OBVIOUS
  <2> HIDE DEF N
  <2> QED BY <1>1, <2>1, SortSteps DEF A
<1>3. A \subseteq [1 .. L -> Record]
  BY RearrangementsAre
<1>4. K \in [Record -> Int]
  BY KeysCompare
<1> DEFINE S == {k \in 0 .. N : TailSorted(b[k], k, L, K)}
<1>5. 0 \in S
  <2>1. TailSorted(b[0], 0, L, K)
    <3> HIDE DEF K, N
    <3> QED BY <1>1 DEF TailSorted
  <2> QED BY <1>1, <2>1
<1>6. \A k \in 0 .. N - 1 : k \in S => k + 1 \in S
  <2> SUFFICES ASSUME NEW k \in 0 .. N - 1, k \in S PROVE k + 1 \in S
    OBVIOUS
  <2> DEFINE n == L - (k + 1)
  <2>1. /\ k \in Nat /\ k \in 0 .. N /\ k + 1 \in 1 .. N /\ k + 1 \in 0 .. N /\ (k + 1) - 1 = k
        /\ k + 1 < L /\ n \in Nat /\ n < L
    BY <1>1
  <2>2. b[k + 1] = Sweep(b[k], n, choice)
    BY <1>2, <2>1 DEF SortsBy
  <2>3. b[k] \in A /\ b[k + 1] \in A
    BY <1>2, <2>1
  <2>4. TailSorted(b[k], k, L, K)
    OBVIOUS
  <2>5. Swept(b[k + 1], b[k], n, L, K)
    <3> HIDE DEF n, S, N
    <3> QED BY <2>1, <2>2, <2>3, SweepRight
  <2>6. b[k] \in [1 .. L -> Record] /\ b[k + 1] \in [1 .. L -> Record]
    BY <1>3, <2>3
  <2>7. TailSorted(b[k + 1], k + 1, L, K)
    <3> HIDE DEF L, K, S, N, A
    <3> QED BY <1>1, <1>4, <2>1, <2>4, <2>5, <2>6, SortStep
  <2> QED BY <2>1, <2>7
<1>7. TailSorted(b[N], N, L, K) /\ b[N] \in A
  <2> HIDE DEF S, N, A
  <2>1. \A k \in 0 .. N : k \in S
    BY <1>1, <1>5, <1>6, UpTo
  <2>2. N \in 0 .. N
    BY <1>1
  <2> QED BY <1>2, <2>1, <2>2 DEF S
<1>8. InOrder(b[N], L, K)
  <2> HIDE DEF L, K, N, A
  <2> SUFFICES ASSUME NEW i \in 1 .. L, NEW j \in 1 .. L, i < j PROVE K[b[N][i]] <= K[b[N][j]]
    BY DEF InOrder
  <2>1. j \in L - N + 1 .. L /\ i \in 1 .. j - 1
    BY <1>1
  <2> QED BY <1>7, <2>1 DEF TailSorted
<1> QED BY <1>2, <1>7, <1>8

(* Sorting by name prints the lines of the file, each as often as it is    *)
(* there, in the order of strcmp or in the reverse order.                  *)
THEOREM SortsRight == Spec => []SortedListings
<1>1. BookInv /\ ShownInv => SortedListings
  <2> SUFFICES ASSUME BookInv, ShownInv, shown.cmd = "sort",
                      NEW name \in 1 .. 2, shown.arg = <<name>>
               PROVE  SortedListings
    BY DEF SortedListings
  <2>1. PICK choice \in 1 .. 4 : shown.arg = <<choice>> /\ shown.lines \in Sorted(file, choice)
    BY DEF ShownInv, SortShown
  <2> DEFINE lines == shown.lines
             Place(r) == IF shown.arg = <<1>> THEN Rank[r.name] ELSE 0 - Rank[r.name]
  <2>2. file \in Seq(Record)
    BY DEF BookInv, TypeOK
  <2>3. choice \in 1 .. 2 /\ (shown.arg = <<1>> <=> choice = 1)
    BY <2>1
  <2>4. lines \in Rearrangements(file) /\ InOrder(lines, Len(file), Key(choice))
    BY <2>1, <2>2, <2>3, BubbleSorts DEF Sorted
  <2>5. lines \in [1 .. Len(file) -> Record] /\ DOMAIN lines = 1 .. Len(file)
    BY <2>2, <2>4, RearrangementsAre
  <2>6. \A r \in Record : Place(r) = Key(choice)[r]
    BY <2>3 DEF Key
  <2>7. \A i, j \in DOMAIN lines : i < j => Place(lines[i]) <= Place(lines[j])
    <3> SUFFICES ASSUME NEW i \in DOMAIN lines, NEW j \in DOMAIN lines, i < j
                 PROVE  Place(lines[i]) <= Place(lines[j])
      OBVIOUS
    <3>1. lines[i] \in Record /\ lines[j] \in Record
      BY <2>5
    <3>2. Key(choice)[lines[i]] <= Key(choice)[lines[j]]
      BY <2>4, <2>5 DEF InOrder
    <3> HIDE DEF Place
    <3> QED BY <2>6, <3>1, <3>2
  <2>8. \A r \in Record : Often(lines, r) = Often(file, r)
    BY <2>2, <2>4, AsOften
  <2> QED BY <2>7, <2>8 DEF SortedListings, Often
<1> QED
  BY <1>1, ShownInvariant, PTL
=============================================================================
