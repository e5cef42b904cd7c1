----------------------------- MODULE Pagination ------------------------------
(***************************************************************************)
(* newPagination and FormatQuery of src/query/pagination.go, against the  *)
(* reading of page parameters that spec.md 4.4 describes.  A url.Values is *)
(* abstracted to its page keys: a function from the keys present to their *)
(* integer values (the other keys are passed through untouched).          *)
(***************************************************************************)
EXTENDS Naturals

CONSTANTS
    Vals        \* the integers a pagination may hold, 0 included

ASSUME PaginationAssumption == 0 \in Vals /\ Vals \subseteq Nat

\* The page query keys.
Keys == {"limit", "offset", "number", "size"}

\* A pagination: its type and its two values (limit and offset, or number
\* and size).
Paginations == [type : {"offset", "page"}, a : Vals, b : Vals]

\* The url.Values: the page keys present and their values.
Queries == UNION {[K -> Vals] : K \in SUBSET Keys}

VARIABLES
    p,          \* the pagination
    given,      \* the url.Values passed to FormatQuery
    query,      \* the url.Values FormatQuery returned
    formatted   \* FormatQuery has returned

vars == <<p, given, query, formatted>>

\* newPagination(a, b, tp): TpLimitOffset and TpPage set the two values and
\* the type; an unknown type leaves the zero Pagination, whose type is the
\* first, the offset type.
NewPagination(a, b, tp) ==
    CASE tp = "TpLimitOffset" -> [type |-> "offset", a |-> a, b |-> b]
      [] tp = "TpPage"        -> [type |-> "page", a |-> a, b |-> b]
      [] OTHER                -> [type |-> "offset", a |-> 0, b |-> 0]

\* url.Values.Set: the key takes the value, the others are kept.
Set(q, k, v) == [x \in DOMAIN q \cup {k} |-> IF x = k THEN v ELSE q[x]]

\* The keys of each pagination type.
KeyA(t) == IF t = "offset" THEN "limit" ELSE "number"
KeyB(t) == IF t = "offset" THEN "offset" ELSE "size"

\* Mutation: the zero value is written out instead of omitted.
FormatQueryZero(pg, q) == Set(Set(q, KeyA(pg.type), pg.a), KeyB(pg.type), pg.b)

\* FormatQuery(q...): the given query (or a new one); each value that is not
\* zero is Set under the key of the pagination's type.
FormatQuery(pg, q) ==
    LET q1 == IF pg.a # 0 THEN Set(q, KeyA(pg.type), pg.a) ELSE q
    IN  IF pg.b # 0 THEN Set(q1, KeyB(pg.type), pg.b) ELSE q1

Init ==
    /\ \E a, b \in Vals, tp \in {"TpLimitOffset", "TpPage", "TpCursor"} :
         p = NewPagination(a, b, tp)
    /\ given \in Queries
    /\ query = given
    /\ formatted = FALSE

Format ==
    /\ ~ formatted
    /\ query' = FormatQuery(p, given)
    /\ formatted' = TRUE
    /\ UNCHANGED <<p, given>>

Next == Format

Spec == Init /\ [][Next]_vars

-----------------------------------------------------------------------------
(* Reading the page keys back (spec.md 4.4): both families at once is a    *)
(* conflict; otherwise the family present gives the type, an absent key    *)
(* reads as zero, and no page key at all is no pagination.                 *)

Conflict == [type |-> "conflict", a |-> 0, b |-> 0]
NoPagination == [type |-> "none", a |-> 0, b |-> 0]

Parse(q) ==
    LET K == DOMAIN q
        get(k) == IF k \in K THEN q[k] ELSE 0
    IN  IF K \cap {"limit", "offset"} # {} /\ K \cap {"number", "size"} # {}
        THEN Conflict
        ELSE IF K = {} THEN NoPagination
        ELSE IF K \cap {"limit", "offset"} # {}
        THEN [type |-> "offset", a |-> get("limit"), b |-> get("offset")]
        ELSE [type |-> "page", a |-> get("number"), b |-> get("size")]

\* What a pagination reads back as: zero values are "not set", and a
\* pagination with nothing set is none.
Expected(pg) == IF pg.a = 0 /\ pg.b = 0 THEN NoPagination ELSE pg

\* FormatQuery into a new query renders the pagination so that reading the
\* query back gives the same pagination, zero values omitted (spec.md 4.4).
RoundTrip ==
    (formatted /\ DOMAIN given = {}) => Parse(query) = Expected(p)

=============================================================================
