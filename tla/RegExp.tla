--------------------------------- MODULE RegExp ---------------------------------
(***************************************************************************)
(* extraCredit/re.c: an engine around regcomp and regexec.  The engine     *)
(* keeps what it has allocated (`storage': itself, and what regcomp        *)
(* allocated) beside its fields.  Below it, the language of the patterns   *)
(* that the file crawler compiles, as regexec matches it.                  *)
(***************************************************************************)
EXTENDS Integers, Sequences

CONSTANT Brackets   \* the bracket expressions, such as "[ch]", and what each lists

\* The characters that mean something else to regcomp than to the shell.
Operators == {"\\", "+", "(", ")", "|", "^", "$", "{", "["}

ASSUME RegExpAssumption == DOMAIN Brackets \cap (Operators \cup {"*", "?", "."}) = {}

REG_NOMATCH == 1
REG_BADPAT  == 2

\* No engine: before re_create, after re_destroy, or when malloc failed.
NoEngine == [status |-> "none", compSts |-> 0, execSts |-> 0, storage |-> {}]

\* execSts is left as malloc returned it; re_compile sets it before its first use.
re_create == [NoEngine EXCEPT !.status = "ALLOCATED", !.storage = {"engine"}]

(* What an earlier pattern allocated is freed first; code is regcomp's     *)
(* result, which allocates nothing that stays when it fails.               *)
re_compile(re, code) ==
  LET freed == IF re.status = "COMPILED" THEN re.storage \ {"program"} ELSE re.storage
  IN  [status  |-> IF code = 0 THEN "COMPILED" ELSE "ALLOCATED",
       compSts |-> code, execSts |-> 0,
       storage |-> IF code = 0 THEN freed \cup {"program"} ELSE freed]

Compiled(re) == re.compSts = 0

(* re_match, where regexec answers code: the engine after it, and the      *)
(* result. An engine without a program matches nothing.                    *)
re_match(re, code) == IF re.status = "COMPILED" THEN [re EXCEPT !.execSts = code] ELSE re
Matched(re) == re.status = "COMPILED" /\ re.execSts = 0

re_destroy(re) ==
  [NoEngine EXCEPT !.storage = re.storage \ ({"engine"} \cup
     IF re.status = "COMPILED" THEN {"program"} ELSE {})]
-----------------------------------------------------------------------------
(* Patterns and expressions are sequences of characters and of bracket     *)
(* expressions of ordinary characters, which mean the same to the shell    *)
(* and to regcomp, and which stand for one of those that they list.        *)
Stands(e, char) == IF e \in DOMAIN Brackets THEN char \in Brackets[e] ELSE char = e

(* Whether regexec finds a match of an extended regular expression that is *)
(* anchored at both ends and made of characters other than operators, of   *)
(* bracket expressions, of `.', of escaped characters, and of `*' behind   *)
(* one of these; m[<<i, j>>] says it of the expression from i on and the   *)
(* text from j on.                                                         *)
RegexMatches(pattern, text) ==
  LET last == Len(pattern)
      m[here \in (1..last) \X (1..(Len(text) + 1))] ==
        LET i == here[1]
            j == here[2]
            char == IF pattern[i] = "\\" THEN i + 1 ELSE i
            fits == /\ j <= Len(text)
                    /\ pattern[i] = "." \/ Stands(pattern[char], text[j])
        IN  IF i = last THEN j = Len(text) + 1
            ELSE IF pattern[char + 1] = "*"
            THEN m[<<char + 2, j>>] \/ (fits /\ m[<<i, j + 1>>])
            ELSE fits /\ m[<<char + 1, j + 1>>]
  IN  pattern[1] = "^" /\ pattern[last] = "$" /\ m[<<2, 1>>]
=============================================================================
