----------------------------- MODULE MCFileCrawler -----------------------------
EXTENDS FileCrawler, TLC

CONSTANT PatternMax   \* bound: length of the patterns and names of PatternsAgree

NameA == 3
NameB == 4
NameF == 5

MCMatching == {NameA, NameF}

\* The bracket expression of the patterns that are tried.
MCBrackets == ("[cd]" :> {"c", "d"})

(* What may be at a place: a file, a directory, one that must not be read, *)
(* a directory of which readdir does not know the type, and a socket.      *)
File      == [type |-> 8, opens |-> FALSE]
Directory == [type |-> 4, opens |-> TRUE]
Locked    == [type |-> 4, opens |-> FALSE]
Untyped   == [type |-> 0, opens |-> TRUE]
Socket    == [type |-> 12, opens |-> FALSE]

\* Nothing at p, or one of the kinds there, with children if it can be opened.
Below(p, kinds, children) ==
  {[q \in {} |-> File]} \cup
  UNION {IF k.opens THEN {c @@ (p :> k) : c \in children} ELSE {p :> k} : k \in kinds}

Both(S, T) == {s @@ t : s \in S, t \in T}

Leaf == {[q \in {} |-> File]}

(* A directory with a file and with another directory that has a file, any *)
(* of them missing, and a directory with a file beside it, or none.        *)
MCTrees ==
  LET A == <<NameA>>
      B == <<NameB>>
      AB == <<NameA, NameB>>
      ab == Below(AB, {Directory}, Below(Append(AB, NameF), {File}, Leaf))
      as == Below(A, {Directory, Locked, Untyped},
                  Both(ab, Below(Append(A, NameF), {File, Socket}, Leaf)))
      bs == Below(B, {Directory}, {Append(B, NameF) :> File})
  IN  {t @@ (<< >> :> Directory) : t \in Both(as, bs)}

MCArguments ==
  {<<(<<Nothing>>), <<Dot>>>>, <<Root>>, <<(<<NameA, Nothing>>), <<Dot, NameB>>>>,
   <<(<<NameB>>), <<NameB, Nothing>>, <<NameA>>>>}
-----------------------------------------------------------------------------
Strings(S) == UNION {[1..n -> S] : n \in 0..PatternMax}

PatternsAgree ==
  \A p \in Strings({"*", "?", ".", "c", "[cd]"}), t \in Strings({".", "c", "d"}) :
    RegexMatches(cvtPattern(p), t) <=> ShellMatches(p, t)

(* A pattern without operators means to the regular expressions what it    *)
(* means to the shell: `*' and `?' stand for the same, also next to one    *)
(* another, and `.' for itself (file_crawler_single.c:14).                 *)
PatternMeaning == at.main = "compile" => PatternsAgree
=============================================================================
