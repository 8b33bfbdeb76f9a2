------------------------------- MODULE MCMWCp -------------------------------
(***************************************************************************)
(* Small instances of MWCp: two workers and the source trees below.        *)
(***************************************************************************)
EXTENDS MWCp

CONSTANTS src, sub, f1, f2, f3, pipe

(* src/ holds f1, the FIFO pipe and sub/; sub/ holds the empty f2 and f3;  *)
(* or src/ does not exist.                                                 *)
TreeNames == {src, sub, f1, f2, f3, pipe}
TreeKind == [n \in TreeNames |-> CASE n = src -> {"dir", "missing"}
                                   [] n = sub -> {"dir"}
                                   [] n = pipe -> {"fifo"}
                                   [] OTHER -> {"reg"}]
TreeParent == [n \in TreeNames \ {src} |-> IF n \in {f2, f3} THEN sub ELSE src]
TreeChunks == [n \in TreeNames |-> IF n = f1 THEN 1 ELSE 0]

(* src/ holds sub/ and three files; sub/ is empty.                         *)
FlatNames == {src, sub, f1, f2, f3}
FlatKind == [n \in FlatNames |-> IF n \in {src, sub} THEN {"dir"} ELSE {"reg"}]
FlatParent == [n \in FlatNames \ {src} |-> src]
FlatChunks == [n \in FlatNames |-> IF n = f1 THEN 2 ELSE 1]

(* src/ holds two files and sub/, which is empty; or src is a regular      *)
(* file, or does not exist.                                                *)
PairNames == {src, sub, f1, f2}
PairKind == [n \in PairNames |-> CASE n = src -> {"dir", "reg", "missing"}
                                   [] n = sub -> {"dir"}
                                   [] OTHER -> {"reg"}]
PairParent == [n \in PairNames \ {src} |-> src]
PairChunks == [n \in PairNames |-> 1]
=============================================================================
