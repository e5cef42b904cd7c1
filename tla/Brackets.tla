------------------------------ MODULE Brackets -------------------------------
(***************************************************************************)
(* SplitBracketParameter of src/common/brackets.go: one left-to-right scan *)
(* of the string, remembering the index of the last '[' and of the last    *)
(* ']'.  A string is a sequence of characters over a small alphabet; the   *)
(* Go indices are shifted by one so that "unset" (-1) is 0.                *)
(***************************************************************************)
EXTENDS Naturals, Sequences, FiniteSets

CONSTANTS
    Chars,      \* the alphabet: "[", "]" and letters
    MaxLen      \* the longest string checked

ASSUME BracketsAssumption ==
    /\ {"[", "]"} \subseteq Chars
    /\ MaxLen \in Nat

\* Every string of at most MaxLen characters.
Strings == UNION {[1 .. n -> Chars] : n \in 0 .. MaxLen}

\* The result: the error class, or "none" and the values.
Errs == {"none", "doubleOpen", "noOpening"}

VARIABLES
    bracketed,  \* the argument
    i,          \* the loop index
    startIndex, \* index of the last '['
    endIndex,   \* index of the last ']'
    values,     \* the values found so far
    err,        \* the error returned
    returned    \* the function has returned

vars == <<bracketed, i, startIndex, endIndex, values, err, returned>>

TypeOK ==
    /\ bracketed \in Strings
    /\ i \in 1 .. MaxLen + 1
    /\ startIndex \in 0 .. MaxLen
    /\ endIndex \in 0 .. MaxLen
    /\ values \in Seq(Strings)
    /\ err \in Errs
    /\ returned \in BOOLEAN

Init ==
    /\ bracketed \in Strings
    /\ i = 1
    /\ startIndex = 0
    /\ endIndex = 0
    /\ values = <<>>
    /\ err = "none"
    /\ returned = FALSE

\* Return from inside the loop with an error and nil values.
Fail(e) ==
    /\ err' = e
    /\ values' = <<>>
    /\ returned' = TRUE
    /\ UNCHANGED <<i, startIndex, endIndex>>

\* case '[': a '[' after the last ']' is a double open.
ScanOpen ==
    /\ ~ returned /\ i <= Len(bracketed) /\ bracketed[i] = "["
    /\ IF startIndex > endIndex
       THEN Fail("doubleOpen")
       ELSE /\ startIndex' = i
            /\ i' = i + 1
            /\ UNCHANGED <<endIndex, values, err, returned>>
    /\ UNCHANGED bracketed

\* Mutation: a ']' is accepted whenever some '[' was seen.
ScanCloseNoRecheck ==
    /\ ~ returned /\ i <= Len(bracketed) /\ bracketed[i] = "]"
    /\ IF startIndex = 0
       THEN Fail("noOpening")
       ELSE /\ endIndex' = i
            /\ values' = Append(values, SubSeq(bracketed, startIndex + 1, i - 1))
            /\ i' = i + 1
            /\ UNCHANGED <<startIndex, err, returned>>
    /\ UNCHANGED bracketed

\* case ']': no '[' yet, or none since the last ']', is an error; otherwise
\* the text between the two brackets is a value.
ScanClose ==
    /\ ~ returned /\ i <= Len(bracketed) /\ bracketed[i] = "]"
    /\ IF startIndex = 0 \/ startIndex < endIndex
       THEN Fail("noOpening")
       ELSE /\ endIndex' = i
            /\ values' = Append(values, SubSeq(bracketed, startIndex + 1, i - 1))
            /\ i' = i + 1
            /\ UNCHANGED <<startIndex, err, returned>>
    /\ UNCHANGED bracketed

\* Any other character.
ScanOther ==
    /\ ~ returned /\ i <= Len(bracketed) /\ bracketed[i] \notin {"[", "]"}
    /\ i' = i + 1
    /\ UNCHANGED <<bracketed, startIndex, endIndex, values, err, returned>>

\* After the loop: a '[' never closed is a double open.
Finish ==
    /\ ~ returned /\ i > Len(bracketed)
    /\ IF (startIndex # 0 /\ endIndex = 0) \/ startIndex > endIndex
       THEN Fail("doubleOpen")
       ELSE /\ returned' = TRUE
            /\ UNCHANGED <<i, startIndex, endIndex, values, err>>
    /\ UNCHANGED bracketed

Next == ScanOpen \/ ScanClose \/ ScanOther \/ Finish

Spec == Init /\ [][Next]_vars

-----------------------------------------------------------------------------
(* The contract of spec.md 4.1, stated without the scan: the brackets of  *)
(* a valid string alternate '[' ']', starting with '[' and ending with   *)
(* ']', and the k-th ']' closes the k-th value, the text since the '['    *)
(* before it.  The first bracket out of turn names the error: a '[' after *)
(* a '[' is a double open, a ']' after a ']' (or first) has no opening;   *)
(* an unclosed '[' at the end is a double open.                           *)

IsBracket(c) == c \in {"[", "]"}

\* The positions of the brackets before position p, and the last of them.
Before(s, p) == {q \in 1 .. p - 1 : IsBracket(s[q])}
LastBefore(s, p) == CHOOSE q \in Before(s, p) : \A r \in Before(s, p) : r <= q

\* The bracket before position p; the start of the string counts as a ']'.
PrevBracket(s, p) == IF Before(s, p) = {} THEN "]" ELSE s[LastBefore(s, p)]

\* The brackets that repeat the one before them.
OutOfTurn(s, p) == IsBracket(s[p]) /\ s[p] = PrevBracket(s, p)
Bad(s) == {p \in 1 .. Len(s) : OutOfTurn(s, p)}

RefError(s) ==
    IF Bad(s) # {}
    THEN IF s[CHOOSE p \in Bad(s) : \A q \in Bad(s) : p <= q] = "["
         THEN "doubleOpen" ELSE "noOpening"
    ELSE IF PrevBracket(s, Len(s) + 1) = "[" THEN "doubleOpen" ELSE "none"

\* The positions of the ']' up to position p.
Closes(s, p) == {q \in 1 .. p : s[q] = "]"}

RefValues(s) ==
    IF RefError(s) # "none" THEN <<>>
    ELSE [k \in 1 .. Cardinality(Closes(s, Len(s))) |->
            LET c == CHOOSE c \in Closes(s, Len(s)) : Cardinality(Closes(s, c)) = k
            IN  SubSeq(s, LastBefore(s, c) + 1, c - 1)]

\* SplitBracketParameter returns what the contract of spec.md 4.1 says, for
\* every string of at most MaxLen characters: the same error class, and on
\* success the bracketed texts in order.
MatchesContract ==
    returned => (err = RefError(bracketed) /\ values = RefValues(bracketed))

=============================================================================
