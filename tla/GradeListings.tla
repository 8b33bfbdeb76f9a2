--------------------------- MODULE GradeListings ----------------------------
(***************************************************************************)
(* What hw1 prints of a grade file: its first lines, a page of it, or all  *)
(* of it sorted by one of two comparisons.  A file is a sequence of        *)
(* records with a name and a grade.                                        *)
(***************************************************************************)
EXTENDS Integers, Sequences, SequencesExt

CONSTANTS
  Rank    \* Rank[n]: the place of n's lines in the order of strcmp

(* The grades, in the order of the code's table.                           *)
grade_order == <<"NA", "VF", "FF", "DD", "DC", "CC", "CB", "BB", "BA", "AA">>

is_valid_grade(g) == \E i \in DOMAIN grade_order : grade_order[i] = g

GradeIndex(g) == CHOOSE i \in DOMAIN grade_order : grade_order[i] = g

(* The first five lines.                                                   *)
FirstFive(f) == SubSeq(f, 1, IF Len(f) < 5 THEN Len(f) ELSE 5)

(* list_some prints lines start to end, and stops reading behind end.      *)
StartLine(num, page) == num * (page - 1) + 1

(* Mutant: end_line is one too large.                                      *)
EndLineTooFar(num, page) == StartLine(num, page) + num

EndLine(num, page) == StartLine(num, page) + num - 1

Page(f, num, page) ==
  LET first == StartLine(num, page)
      last == EndLine(num, page)
  IN SubSeq(f, IF first < 1 THEN 1 ELSE first, IF last > Len(f) THEN Len(f) ELSE last)

(* current_line when the loop ends is behind the file or behind the page.  *)
BeyondFile(f, num, page) ==
  LET last == EndLine(num, page)
      behind == IF last < 0 THEN 1 ELSE last + 1
  IN (IF behind > Len(f) + 1 THEN Len(f) + 1 ELSE behind) < StartLine(num, page)

-----------------------------------------------------------------------------
(* strcmp of two lines.  Lines of one student are equal (OneGradeEach of   *)
(* GradeFile), so the name decides.                                        *)
strcmp(a, b) == Rank[a.name] - Rank[b.name]

compare_grades_ascending(a, b) == GradeIndex(b.grade) - GradeIndex(a.grade)

compare_grades_descending(a, b) == GradeIndex(a.grade) - GradeIndex(b.grade)

(* The comparison of each choice of the sort menu.                         *)
Compare(choice, a, b) ==
  CASE choice = 1 -> strcmp(a, b)
    [] choice = 2 -> 0 - strcmp(a, b)
    [] choice = 3 -> compare_grades_ascending(a, b)
    [] choice = 4 -> compare_grades_descending(a, b)

(* One sweep of the bubble sort over the first n + 1 lines.                *)
Sweep(f, n, choice) ==
  FoldLeft(LAMBDA s, j : IF Compare(choice, s[j], s[j + 1]) > 0
                         THEN [s EXCEPT ![j] = s[j + 1], ![j + 1] = s[j]]
                         ELSE s,
           f, [j \in 1 .. n |-> j])

(* Mutant: the sweeps begin one line too short.                            *)
BubbleSortShort(f, choice) ==
  FoldLeft(LAMBDA s, i : Sweep(s, Len(f) - i - 1, choice),
           f, [i \in 1 .. Len(f) - 2 |-> i])

BubbleSort(f, choice) ==
  FoldLeft(LAMBDA s, i : Sweep(s, Len(f) - i, choice),
           f, [i \in 1 .. Len(f) - 1 |-> i])

(* qsort: any rearrangement in which no neighbours are out of order.       *)
Rearrangements(f) ==
  {[i \in DOMAIN f |-> f[p[i]]] : p \in
     {q \in [DOMAIN f -> DOMAIN f] : \A i, j \in DOMAIN f : q[i] = q[j] => i = j}}

qsort(f, choice) ==
  {s \in Rearrangements(f) : \A i \in 1 .. Len(f) - 1 : Compare(choice, s[i], s[i + 1]) <= 0}

(* What the sort menu may print.                                           *)
Sorted(f, choice) == IF choice <= 2 THEN {BubbleSort(f, choice)} ELSE qsort(f, choice)
=============================================================================
