----------------------------- MODULE GradeBook ------------------------------
(***************************************************************************)
(* What hw1's grade file promises, without lines, system calls or a log: a *)
(* book with at most one grade for each student.  A grade is entered in    *)
(* one step, which changes no other student's, or not at all.  From when   *)
(* the book is opened for rewriting until the grade is entered, it may be  *)
(* lost; before that, giving up leaves it as it was.                       *)
(***************************************************************************)
CONSTANTS
  Names,    \* the students the promise is made to
  Others,   \* the students for whom nothing is promised
  Grades,   \* what may be entered
  NoGrade,  \* the grade of a student who is not in the book
  NoEntry   \* nothing is being entered

VARIABLES
  book,      \* the grade of each student
  entry,     \* the student and the grade being entered
  rewriting  \* the book is being rewritten

bookVars == <<book, entry, rewriting>>

Empty == [m \in Names |-> NoGrade]

(* The book after n's grade g has been entered.                            *)
Entered(b, n, g) == [m \in Names |-> IF m = n THEN g ELSE b[m]]

Init == book = Empty /\ entry = NoEntry /\ rewriting = FALSE

Start(n, g) ==
  /\ entry = NoEntry
  /\ entry' = [name |-> n, grade |-> g]
  /\ UNCHANGED <<book, rewriting>>

Open ==
  /\ entry # NoEntry /\ ~rewriting
  /\ rewriting' = TRUE
  /\ UNCHANGED <<book, entry>>

Commit ==
  /\ entry # NoEntry
  /\ book' = Entered(book, entry.name, entry.grade)
  /\ entry' = NoEntry /\ rewriting' = FALSE

Abandon ==
  /\ entry # NoEntry /\ ~rewriting
  /\ entry' = NoEntry
  /\ UNCHANGED <<book, rewriting>>

(* The rewriting fails: some students have what they should, the others    *)
(* nothing.                                                                *)
Lose ==
  /\ entry # NoEntry /\ rewriting
  /\ \E kept \in SUBSET Names :
       book' = [m \in Names |-> IF m \in kept
                                THEN Entered(book, entry.name, entry.grade)[m]
                                ELSE NoGrade]
  /\ entry' = NoEntry /\ rewriting' = FALSE

Next ==
  \/ \E n \in Names \cup Others, g \in Grades : Start(n, g)
  \/ Open \/ Commit \/ Abandon \/ Lose

Spec == Init /\ [][Next]_bookVars
=============================================================================
