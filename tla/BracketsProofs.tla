---------------------------- MODULE BracketsProofs ----------------------------
(***************************************************************************)
(* Proof that SplitBracketParameter meets the contract of spec.md 4.1 for *)
(* every string, of any length and over any alphabet.                     *)
(*                                                                         *)
(* MatchesContract speaks of returned states only; the loop invariant     *)
(* Scanned says what the scan has established of the prefix before i:    *)
(* no bracket in it is out of turn, startIndex and endIndex are the last  *)
(* '[' and the last ']' in it (so startIndex > endIndex says the last     *)
(* bracket is a '[', lemma PrevAt), and values holds one text per ']'     *)
(* read, the k-th for the ']' with k ']' up to it.  Each case of the     *)
(* switch either keeps Scanned for one more character or fails at the    *)
(* first bracket out of turn (FirstBad); after the loop, an open still    *)
(* pending is the contract's unclosed '[' and otherwise the values are    *)
(* the contract's (ValuesAtEnd).                                           *)
(***************************************************************************)
EXTENDS Brackets, FiniteSetTheorems, SequenceTheorems, TLAPS

USE BracketsAssumption

\* What the scan knows of the prefix bracketed[1 .. i - 1] it has read; a
\* Go index is the model's minus one, so 0 is the Go code's -1, unset.
Scanned ==
    /\ \A p \in 1 .. i - 1 : ~ OutOfTurn(bracketed, p)
    /\ startIndex \in 0 .. i - 1
    /\ endIndex \in 0 .. i - 1
    /\ startIndex # 0 => bracketed[startIndex] = "["
    /\ \A q \in startIndex + 1 .. i - 1 : bracketed[q] # "["
    /\ endIndex # 0 => bracketed[endIndex] = "]" /\ startIndex # 0
    /\ \A q \in endIndex + 1 .. i - 1 : bracketed[q] # "]"
    /\ err = "none"
    /\ values \in Seq(Seq(Chars))
    /\ Len(values) = Cardinality(Closes(bracketed, i - 1))
    /\ \A k \in 1 .. Len(values) :
         \E c \in Closes(bracketed, i - 1) :
           /\ Cardinality(Closes(bracketed, c)) = k
           /\ values[k] = SubSeq(bracketed, LastBefore(bracketed, c) + 1, c - 1)

-----------------------------------------------------------------------------
(* Lemmas about the operators of the contract.                             *)

\* The greatest element of a set of integers is the one CHOOSE names.
LEMMA MaxIs ==
    ASSUME NEW B \in SUBSET Int, NEW m \in B, \A r \in B : r <= m
    PROVE  (CHOOSE q \in B : \A r \in B : r <= q) = m
<1>1. \E q \in B : \A r \in B : r <= q
  OBVIOUS
<1>2. PICK c \in B : c = CHOOSE q \in B : \A r \in B : r <= q
  BY <1>1
<1>3. \A r \in B : r <= c
  BY <1>1, <1>2
<1>4. QED
  BY <1>2, <1>3

\* The least element of a set of integers is the one CHOOSE names.
LEMMA MinIs ==
    ASSUME NEW B \in SUBSET Int, NEW m \in B, \A r \in B : m <= r
    PROVE  (CHOOSE q \in B : \A r \in B : q <= r) = m
<1>1. \E q \in B : \A r \in B : q <= r
  OBVIOUS
<1>2. PICK c \in B : c = CHOOSE q \in B : \A r \in B : q <= r
  BY <1>1
<1>3. \A r \in B : c <= r
  BY <1>1, <1>2
<1>4. QED
  BY <1>2, <1>3

\* The ']' up to position p are a finite set, one larger at each ']'.
LEMMA ClosesStep ==
    ASSUME NEW s \in Seq(Chars), NEW p \in Nat
    PROVE  /\ IsFiniteSet(Closes(s, p))
           /\ Cardinality(Closes(s, p)) \in Nat
           /\ p \in 1 .. Len(s) =>
                /\ Closes(s, p - 1) \subseteq Closes(s, p)
                /\ Cardinality(Closes(s, p)) =
                     IF s[p] = "]" THEN Cardinality(Closes(s, p - 1)) + 1
                     ELSE Cardinality(Closes(s, p - 1))
<1>1. IsFiniteSet(Closes(s, p)) /\ Cardinality(Closes(s, p)) \in Nat
  <2>1. IsFiniteSet(1 .. p)
    BY FS_Interval
  <2>2. Closes(s, p) \subseteq 1 .. p
    BY DEF Closes
  <2>3. QED
    BY <2>1, <2>2, FS_Subset, FS_CardinalityType
<1>2. ASSUME p \in 1 .. Len(s)
      PROVE  /\ Closes(s, p - 1) \subseteq Closes(s, p)
             /\ Cardinality(Closes(s, p)) =
                  IF s[p] = "]" THEN Cardinality(Closes(s, p - 1)) + 1
                  ELSE Cardinality(Closes(s, p - 1))
  <2>1. IsFiniteSet(Closes(s, p - 1))
    <3>1. IsFiniteSet(1 .. p - 1)
      BY FS_Interval
    <3>2. QED
      BY <1>2, <3>1, FS_Subset DEF Closes
  <2>2. p \notin Closes(s, p - 1)
    BY DEF Closes
  <2>3. CASE s[p] = "]"
    <3>1. Closes(s, p) = Closes(s, p - 1) \cup {p}
      BY <1>2, <2>3 DEF Closes
    <3>2. QED
      BY <2>1, <2>2, <2>3, <3>1, FS_AddElement
  <2>4. CASE s[p] # "]"
    <3>1. Closes(s, p) = Closes(s, p - 1)
      BY <1>2, <2>4 DEF Closes
    <3>2. QED
      BY <2>4, <3>1
  <2>5. QED
    BY <2>3, <2>4
<1>3. QED
  BY <1>1, <1>2

\* Of two ']', the later one has more ']' up to it.
LEMMA ClosesStrict ==
    ASSUME NEW s \in Seq(Chars), NEW n \in Nat,
           NEW c1 \in Closes(s, n), NEW c2 \in Closes(s, n), c1 < c2
    PROVE  Cardinality(Closes(s, c1)) < Cardinality(Closes(s, c2))
<1>1. c1 \in Nat /\ c2 \in Nat
  BY DEF Closes
<1>2. IsFiniteSet(Closes(s, c2)) /\ Cardinality(Closes(s, c2)) \in Nat
      /\ Cardinality(Closes(s, c1)) \in Nat
  BY <1>1, ClosesStep
<1>3. Closes(s, c1) \subseteq Closes(s, c2)
  BY <1>1 DEF Closes
<1>4. c2 \in Closes(s, c2) /\ c2 \notin Closes(s, c1)
  BY <1>1 DEF Closes
<1>5. QED
  BY <1>2, <1>3, <1>4, FS_Subset

(***************************************************************************)
(* What startIndex and endIndex say of the prefix before position j: the  *)
(* last '[' and the last ']' in it.  The later of the two is the last     *)
(* bracket, so the bracket before j is a '[' exactly when startIndex >    *)
(* endIndex, the Go code's test for a pending open.                       *)
(***************************************************************************)
LEMMA PrevAt ==
    ASSUME NEW s \in Seq(Chars), NEW j \in 1 .. Len(s) + 1,
           NEW st \in 0 .. j - 1, NEW en \in 0 .. j - 1,
           st # 0 => s[st] = "[", \A q \in st + 1 .. j - 1 : s[q] # "[",
           en # 0 => s[en] = "]", \A q \in en + 1 .. j - 1 : s[q] # "]"
    PROVE  /\ PrevBracket(s, j) = IF st > en THEN "[" ELSE "]"
           /\ st > en => LastBefore(s, j) = st
<1>1. CASE st = 0 /\ en = 0
  <2>1. Before(s, j) = {}
    BY <1>1 DEF Before, IsBracket
  <2>2. QED
    BY <1>1, <2>1 DEF PrevBracket
<1>2. CASE st > en
  <2>1. st \in Before(s, j)
    BY <1>2 DEF Before, IsBracket
  <2>2. \A r \in Before(s, j) : r <= st
    BY <1>2 DEF Before, IsBracket
  <2>3. LastBefore(s, j) = st
    BY <2>1, <2>2, MaxIs DEF LastBefore, Before
  <2>4. QED
    BY <1>2, <2>1, <2>3 DEF PrevBracket
<1>3. CASE en > st
  <2>1. en \in Before(s, j)
    BY <1>3 DEF Before, IsBracket
  <2>2. \A r \in Before(s, j) : r <= en
    BY <1>3 DEF Before, IsBracket
  <2>3. LastBefore(s, j) = en
    BY <2>1, <2>2, MaxIs DEF LastBefore, Before
  <2>4. QED
    BY <1>3, <2>1, <2>3 DEF PrevBracket
<1>4. QED
  BY <1>1, <1>2, <1>3

(***************************************************************************)
(* A bracket out of turn at position j, with none before it, is the first *)
(* one, and names the error of the whole string.                          *)
(***************************************************************************)
LEMMA FirstBad ==
    ASSUME NEW s \in Seq(Chars), NEW j \in 1 .. Len(s),
           \A p \in 1 .. j - 1 : ~ OutOfTurn(s, p), OutOfTurn(s, j)
    PROVE  RefError(s) = IF s[j] = "[" THEN "doubleOpen" ELSE "noOpening"
<1>1. j \in Bad(s) /\ \A q \in Bad(s) : j <= q
  BY DEF Bad
<1>2. (CHOOSE p \in Bad(s) : \A q \in Bad(s) : p <= q) = j
  BY <1>1, MinIs DEF Bad
<1>3. QED
  BY <1>1, <1>2 DEF RefError

-----------------------------------------------------------------------------
BInv ==
    /\ bracketed \in Seq(Chars)
    /\ i \in 1 .. Len(bracketed) + 1
    /\ returned \in BOOLEAN
    /\ ~ returned => Scanned
    /\ returned => MatchesContract

LEMMA InitBInv == Init => BInv
<1> SUFFICES ASSUME Init PROVE BInv
  OBVIOUS
<1>1. /\ i = 1 /\ startIndex = 0 /\ endIndex = 0 /\ values = <<>>
      /\ err = "none" /\ returned = FALSE
  BY Zenon DEF Init
<1>2. bracketed \in Seq(Chars)
  <2>1. PICK n \in 0 .. MaxLen : bracketed \in [1 .. n -> Chars]
    BY Zenon DEF Init, Strings
  <2>2. QED
    BY <2>1
<1>3. Cardinality(Closes(bracketed, 0)) = 0
  <2>1. Closes(bracketed, 0) = {}
    BY DEF Closes
  <2>2. QED
    BY <2>1, FS_EmptySet
<1>4. Scanned
  BY <1>1, <1>3 DEF Scanned
<1>5. i \in 1 .. Len(bracketed) + 1
  BY <1>1, <1>2
<1>6. QED
  BY <1>1, <1>2, <1>4, <1>5 DEF BInv

(***************************************************************************)
(* case '[': a pending open makes this '[' the first bracket out of turn, *)
(* and the double open is the contract's error; otherwise it becomes the  *)
(* last '[' and the ']' read so far are the same.                          *)
(***************************************************************************)
LEMMA ScanOpenBInv ==
    ASSUME BInv, ScanOpen
    PROVE  BInv'
<1> DEFINE s == bracketed
<1>1. /\ s \in Seq(Chars) /\ i \in 1 .. Len(s) /\ s[i] = "[" /\ Scanned
      /\ ~ returned /\ s' = s
  BY DEF BInv, ScanOpen
<1>2. PrevBracket(s, i) = IF startIndex > endIndex THEN "[" ELSE "]"
  <2>1. /\ startIndex \in 0 .. i - 1 /\ endIndex \in 0 .. i - 1
        /\ startIndex # 0 => s[startIndex] = "["
        /\ \A q \in startIndex + 1 .. i - 1 : s[q] # "["
        /\ endIndex # 0 => s[endIndex] = "]"
        /\ \A q \in endIndex + 1 .. i - 1 : s[q] # "]"
    BY <1>1 DEF Scanned
  <2>2. i \in 1 .. Len(s) + 1
    BY <1>1
  <2>3. QED
    BY <1>1, <2>1, <2>2, PrevAt, Zenon
<1>3. CASE startIndex > endIndex
  <2>1. OutOfTurn(s, i)
    BY <1>1, <1>2, <1>3 DEF OutOfTurn, IsBracket
  <2>2. RefError(s) = "doubleOpen"
    BY <1>1, <2>1, FirstBad DEF Scanned
  <2>3. /\ err' = "doubleOpen" /\ values' = <<>> /\ returned' = TRUE
        /\ UNCHANGED i
    BY <1>1, <1>3 DEF ScanOpen, Fail
  <2>4. QED
    BY <1>1, <2>2, <2>3 DEF BInv, MatchesContract, RefValues
<1>4. CASE ~ (startIndex > endIndex)
  <2>1. /\ startIndex' = i /\ i' = i + 1
        /\ UNCHANGED <<endIndex, values, err, returned>>
    BY <1>1, <1>4 DEF ScanOpen
  <2>2. ~ OutOfTurn(s, i)
    BY <1>1, <1>2, <1>4 DEF OutOfTurn
  <2>3. /\ Closes(s, i - 1) \subseteq Closes(s, i)
        /\ Cardinality(Closes(s, i)) = Cardinality(Closes(s, i - 1))
    BY <1>1, ClosesStep
  <2>4. QED
    BY <1>1, <2>1, <2>2, <2>3 DEF BInv, Scanned
<1>5. QED
  BY <1>3, <1>4

(***************************************************************************)
(* case ']': with no open pending this ']' is the first bracket out of    *)
(* turn, and has no opening; otherwise it closes the open at startIndex,  *)
(* and the text between the two is the value of the next ']'.            *)
(***************************************************************************)
LEMMA ScanCloseBInv ==
    ASSUME BInv, ScanClose
    PROVE  BInv'
<1> DEFINE s == bracketed
           st == startIndex
           en == endIndex
<1>1. /\ s \in Seq(Chars) /\ i \in 1 .. Len(s) /\ s[i] = "]" /\ Scanned
      /\ ~ returned /\ s' = s
  BY DEF BInv, ScanClose
<1>2. /\ PrevBracket(s, i) = IF st > en THEN "[" ELSE "]"
      /\ st > en => LastBefore(s, i) = st
  <2>1. /\ st \in 0 .. i - 1 /\ en \in 0 .. i - 1
        /\ st # 0 => s[st] = "["
        /\ \A q \in st + 1 .. i - 1 : s[q] # "["
        /\ en # 0 => s[en] = "]"
        /\ \A q \in en + 1 .. i - 1 : s[q] # "]"
    BY <1>1 DEF Scanned
  <2>2. i \in 1 .. Len(s) + 1
    BY <1>1
  <2>3. QED
    BY <1>1, <2>1, <2>2, PrevAt, Zenon
<1>3. (st = 0 \/ st < en) <=> ~ (st > en)
  BY <1>1 DEF Scanned
<1>4. CASE st = 0 \/ st < en
  <2>1. OutOfTurn(s, i)
    BY <1>1, <1>2, <1>3, <1>4 DEF OutOfTurn, IsBracket
  <2>2. RefError(s) = "noOpening"
    BY <1>1, <2>1, FirstBad DEF Scanned
  <2>3. /\ err' = "noOpening" /\ values' = <<>> /\ returned' = TRUE
        /\ UNCHANGED i
    BY <1>1, <1>4 DEF ScanClose, Fail
  <2>4. QED
    BY <1>1, <2>2, <2>3 DEF BInv, MatchesContract, RefValues
<1>5. CASE ~ (st = 0 \/ st < en)
  <2> DEFINE v == SubSeq(s, st + 1, i - 1)
  <2>1. /\ st > en /\ LastBefore(s, i) = st /\ ~ OutOfTurn(s, i)
    BY <1>1, <1>2, <1>3, <1>5 DEF OutOfTurn
  <2>2. /\ endIndex' = i /\ i' = i + 1 /\ values' = Append(values, v)
        /\ UNCHANGED <<startIndex, err, returned>>
    BY <1>1, <1>5 DEF ScanClose
  <2>3. /\ Closes(s, i - 1) \subseteq Closes(s, i)
        /\ Cardinality(Closes(s, i)) = Cardinality(Closes(s, i - 1)) + 1
        /\ i \in Closes(s, i)
    <3>1. /\ Closes(s, i - 1) \subseteq Closes(s, i)
          /\ Cardinality(Closes(s, i)) = Cardinality(Closes(s, i - 1)) + 1
      BY <1>1, ClosesStep
    <3>2. i \in Closes(s, i)
      BY <1>1 DEF Closes
    <3>3. QED
      BY <3>1, <3>2
  <2>4. v \in Seq(Chars)
    <3>1. \A q \in st + 1 .. i - 1 : s[q] \in Chars
      BY <1>1 DEF Scanned
    <3>2. QED
      BY <1>1, <3>1, SubSeqProperties DEF Scanned
  <2>5. /\ values' \in Seq(Seq(Chars))
        /\ Len(values') = Len(values) + 1
        /\ \A k \in 1 .. Len(values) : values'[k] = values[k]
        /\ values'[Len(values) + 1] = v
    BY <1>1, <2>2, <2>4, AppendProperties DEF Scanned
  <2>6. Len(values') = Cardinality(Closes(s, i' - 1))
    BY <1>1, <2>2, <2>3, <2>5 DEF Scanned
  <2>7. \A k \in 1 .. Len(values') :
          \E c \in Closes(s, i' - 1) :
            /\ Cardinality(Closes(s, c)) = k
            /\ values'[k] = SubSeq(s, LastBefore(s, c) + 1, c - 1)
    <3>0. i' - 1 = i
      BY <1>1, <2>2
    <3>1. SUFFICES ASSUME NEW k \in 1 .. Len(values')
                   PROVE  \E c \in Closes(s, i) :
                            /\ Cardinality(Closes(s, c)) = k
                            /\ values'[k] = SubSeq(s, LastBefore(s, c) + 1, c - 1)
      BY <3>0, Zenon
    <3>2. CASE k \in 1 .. Len(values)
      BY <1>1, <2>3, <2>5, <3>2 DEF Scanned
    <3>3. CASE k = Len(values) + 1
      BY <1>1, <2>1, <2>3, <2>5, <3>3 DEF Scanned
    <3>4. QED
      BY <1>1, <2>5, <3>2, <3>3 DEF Scanned
  <2>8. /\ \A p \in 1 .. i' - 1 : ~ OutOfTurn(s, p)
        /\ startIndex' \in 0 .. i' - 1 /\ endIndex' \in 0 .. i' - 1
        /\ startIndex' # 0 => s[startIndex'] = "["
        /\ \A q \in startIndex' + 1 .. i' - 1 : s[q] # "["
        /\ endIndex' # 0 => s[endIndex'] = "]" /\ startIndex' # 0
        /\ \A q \in endIndex' + 1 .. i' - 1 : s[q] # "]"
        /\ err' = "none"
    BY <1>1, <2>1, <2>2 DEF Scanned
  <2>9. Scanned'
    BY <1>1, <2>5, <2>6, <2>7, <2>8 DEF Scanned
  <2>10. QED
    BY <1>1, <2>2, <2>9 DEF BInv
<1>6. QED
  BY <1>4, <1>5

\* Any other character: only the index moves.
LEMMA ScanOtherBInv ==
    ASSUME BInv, ScanOther
    PROVE  BInv'
<1> DEFINE s == bracketed
<1>1. /\ s \in Seq(Chars) /\ i \in 1 .. Len(s) /\ ~ IsBracket(s[i]) /\ Scanned
      /\ ~ returned
      /\ i' = i + 1 /\ UNCHANGED <<bracketed, startIndex, endIndex, values, err, returned>>
  BY DEF BInv, ScanOther, IsBracket
<1>2. ~ OutOfTurn(s, i)
  BY <1>1 DEF OutOfTurn
<1>3. /\ Closes(s, i - 1) \subseteq Closes(s, i)
      /\ Cardinality(Closes(s, i)) = Cardinality(Closes(s, i - 1))
  BY <1>1, ClosesStep DEF IsBracket
<1>4. Scanned'
  BY <1>1, <1>2, <1>3 DEF Scanned, IsBracket
<1>5. QED
  BY <1>1, <1>4 DEF BInv

(***************************************************************************)
(* The values the scan collected, one per ']' in order, are the           *)
(* contract's: the k-th ']' is the only one with k ']' up to it.          *)
(***************************************************************************)
LEMMA ValuesAtEnd ==
    ASSUME NEW s \in Seq(Chars), NEW vals \in Seq(Seq(Chars)),
           Len(vals) = Cardinality(Closes(s, Len(s))),
           \A k \in 1 .. Len(vals) :
             \E c \in Closes(s, Len(s)) :
               /\ Cardinality(Closes(s, c)) = k
               /\ vals[k] = SubSeq(s, LastBefore(s, c) + 1, c - 1)
    PROVE  vals = [k \in 1 .. Cardinality(Closes(s, Len(s))) |->
                     LET c == CHOOSE c \in Closes(s, Len(s)) :
                                Cardinality(Closes(s, c)) = k
                     IN  SubSeq(s, LastBefore(s, c) + 1, c - 1)]
<1> DEFINE C == Closes(s, Len(s))
           Kth(k) == CHOOSE c \in C : Cardinality(Closes(s, c)) = k
<1>1. ASSUME NEW k \in 1 .. Len(vals)
      PROVE  vals[k] = SubSeq(s, LastBefore(s, Kth(k)) + 1, Kth(k) - 1)
  <2>1. PICK c \in C : /\ Cardinality(Closes(s, c)) = k
                       /\ vals[k] = SubSeq(s, LastBefore(s, c) + 1, c - 1)
    OBVIOUS
  <2>2. Kth(k) \in C /\ Cardinality(Closes(s, Kth(k))) = k
    BY <2>1
  <2>3. Kth(k) = c
    <3>1. ~ (c < Kth(k)) /\ ~ (Kth(k) < c)
      BY <2>1, <2>2, ClosesStrict
    <3>2. c \in Nat /\ Kth(k) \in Nat
      BY <2>2 DEF Closes
    <3>3. QED
      BY <3>1, <3>2
  <2>4. QED
    BY <2>1, <2>3
<1>2. QED
  BY <1>1

(***************************************************************************)
(* After the loop: an open still pending is the unclosed '[' of the       *)
(* contract; otherwise no bracket was out of turn, the last one is a ']', *)
(* and the values are complete.                                           *)
(***************************************************************************)
LEMMA FinishBInv ==
    ASSUME BInv, Finish
    PROVE  BInv'
<1> DEFINE s == bracketed
           st == startIndex
           en == endIndex
<1>1. /\ s \in Seq(Chars) /\ i = Len(s) + 1 /\ Scanned /\ ~ returned /\ s' = s
  BY DEF BInv, Finish
<1>2. PrevBracket(s, i) = IF st > en THEN "[" ELSE "]"
  <2>1. /\ st \in 0 .. i - 1 /\ en \in 0 .. i - 1
        /\ st # 0 => s[st] = "["
        /\ \A q \in st + 1 .. i - 1 : s[q] # "["
        /\ en # 0 => s[en] = "]"
        /\ \A q \in en + 1 .. i - 1 : s[q] # "]"
    BY <1>1 DEF Scanned
  <2>2. i \in 1 .. Len(s) + 1
    BY <1>1
  <2>3. QED
    BY <1>1, <2>1, <2>2, PrevAt, Zenon
<1>3. Bad(s) = {}
  BY <1>1 DEF Scanned, Bad
<1>4. ((st # 0 /\ en = 0) \/ st > en) <=> st > en
  BY <1>1 DEF Scanned
<1>5. CASE st > en
  <2>1. RefError(s) = "doubleOpen"
    BY <1>1, <1>2, <1>3, <1>5 DEF RefError
  <2>2. /\ err' = "doubleOpen" /\ values' = <<>> /\ returned' = TRUE
        /\ UNCHANGED i
    BY <1>1, <1>4, <1>5 DEF Finish, Fail
  <2>3. QED
    BY <1>1, <2>1, <2>2 DEF BInv, MatchesContract, RefValues
<1>6. CASE ~ (st > en)
  <2>1. RefError(s) = "none"
    BY <1>1, <1>2, <1>3, <1>6 DEF RefError
  <2>2. /\ returned' = TRUE /\ UNCHANGED <<i, values, err>>
    BY <1>1, <1>4, <1>6 DEF Finish
  <2>3. values = RefValues(s)
    <3>1. /\ values \in Seq(Seq(Chars))
          /\ Len(values) = Cardinality(Closes(s, Len(s)))
          /\ \A k \in 1 .. Len(values) :
               \E c \in Closes(s, Len(s)) :
                 /\ Cardinality(Closes(s, c)) = k
                 /\ values[k] = SubSeq(s, LastBefore(s, c) + 1, c - 1)
      BY <1>1 DEF Scanned
    <3>2. values = [k \in 1 .. Cardinality(Closes(s, Len(s))) |->
                      LET c == CHOOSE c \in Closes(s, Len(s)) :
                                 Cardinality(Closes(s, c)) = k
                      IN  SubSeq(s, LastBefore(s, c) + 1, c - 1)]
      BY <1>1, <3>1, ValuesAtEnd
    <3>3. QED
      BY <2>1, <3>2 DEF RefValues
  <2>4. QED
    BY <1>1, <2>1, <2>2, <2>3 DEF BInv, MatchesContract, Scanned
<1>7. QED
  BY <1>5, <1>6

LEMMA NextBInv == BInv /\ [Next]_vars => BInv'
<1> SUFFICES ASSUME BInv, [Next]_vars PROVE BInv'
  OBVIOUS
<1>1. CASE ScanOpen
  BY <1>1, ScanOpenBInv
<1>2. CASE ScanClose
  BY <1>2, ScanCloseBInv
<1>3. CASE ScanOther
  BY <1>3, ScanOtherBInv
<1>4. CASE Finish
  BY <1>4, FinishBInv
<1>5. CASE UNCHANGED vars
  BY <1>5 DEF BInv, Scanned, MatchesContract, vars
<1>6. QED
  BY <1>1, <1>2, <1>3, <1>4, <1>5 DEF Next

THEOREM BracketsInvariant == Spec => []BInv
BY InitBInv, NextBInv, PTL DEF Spec

(***************************************************************************)
(* SplitBracketParameter returns what the contract of spec.md 4.1 says    *)
(* for every string over every alphabet, of any length: the error of the  *)
(* first bracket out of turn, or of an unclosed '[', and otherwise the    *)
(* texts of the bracket pairs in order.                                    *)
(***************************************************************************)
THEOREM MatchesContractHolds == Spec => []MatchesContract
<1>1. BInv => MatchesContract
  <2> SUFFICES ASSUME BInv, returned PROVE MatchesContract
    BY DEF MatchesContract
  <2> QED
    BY DEF BInv
<1>2. QED
  BY <1>1, BracketsInvariant, PTL

=============================================================================
