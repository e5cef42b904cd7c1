--------------------------- MODULE PaginationProofs ---------------------------
(***************************************************************************)
(* Proof that FormatQuery round-trips: for every set Vals of values, a     *)
(* pagination that newPagination builds, formatted into a new query, reads *)
(* back as itself with its zero values unset.  The argument is a fact      *)
(* about the operators alone (FormatRoundTrip): FormatQuery Sets only the  *)
(* keys of the pagination's own family, and only for values that are not *)
(* zero, so reading the keys back finds that family or no key at all.     *)
(* The invariant PInv then says that p is a pagination newPagination can  *)
(* build and that a returned query is FormatQuery's result.               *)
(***************************************************************************)
EXTENDS Pagination, TLAPS

USE PaginationAssumption

PInv ==
    /\ p \in Paginations
    /\ given \in Queries
    /\ formatted \in BOOLEAN
    /\ query = IF formatted THEN FormatQuery(p, given) ELSE given

\* Every result of newPagination is a pagination of one of the two types.
LEMMA NewPaginationType ==
    ASSUME NEW a \in Vals, NEW b \in Vals, NEW tp
    PROVE  NewPagination(a, b, tp) \in Paginations
BY DEF NewPagination, Paginations

(***************************************************************************)
(* FormatQuery into an empty query: the keys present are exactly the keys *)
(* of the pagination's family whose value is not zero, each holding that  *)
(* value.                                                                  *)
(***************************************************************************)
LEMMA FormatKeys ==
    ASSUME NEW pg \in Paginations, NEW q, DOMAIN q = {}
    PROVE  LET r == FormatQuery(pg, q)
           IN  /\ DOMAIN r = {k \in {KeyA(pg.type), KeyB(pg.type)} :
                                 IF k = KeyA(pg.type) THEN pg.a # 0 ELSE pg.b # 0}
               /\ pg.a # 0 => r[KeyA(pg.type)] = pg.a
               /\ pg.b # 0 => r[KeyB(pg.type)] = pg.b
<1> DEFINE ka == KeyA(pg.type)
           kb == KeyB(pg.type)
<1>1. ka # kb
  BY DEF KeyA, KeyB, Paginations
<1>2. CASE pg.a # 0 /\ pg.b # 0
  <2>1. FormatQuery(pg, q) = Set(Set(q, ka, pg.a), kb, pg.b)
    BY <1>2 DEF FormatQuery
  <2>2. QED
    BY <1>1, <1>2, <2>1 DEF Set
<1>3. CASE pg.a # 0 /\ pg.b = 0
  <2>1. FormatQuery(pg, q) = Set(q, ka, pg.a)
    BY <1>3 DEF FormatQuery
  <2>2. QED
    BY <1>1, <1>3, <2>1 DEF Set
<1>4. CASE pg.a = 0 /\ pg.b # 0
  <2>1. FormatQuery(pg, q) = Set(q, kb, pg.b)
    BY <1>4 DEF FormatQuery
  <2>2. QED
    BY <1>1, <1>4, <2>1 DEF Set
<1>5. CASE pg.a = 0 /\ pg.b = 0
  <2>1. FormatQuery(pg, q) = q
    BY <1>5 DEF FormatQuery
  <2>2. QED
    BY <1>1, <1>5, <2>1
<1>6. QED
  BY <1>2, <1>3, <1>4, <1>5

(***************************************************************************)
(* Reading back what FormatQuery wrote into an empty query gives the      *)
(* pagination, or no pagination when both of its values are zero.         *)
(***************************************************************************)
LEMMA FormatRoundTrip ==
    ASSUME NEW pg \in Paginations, NEW q, DOMAIN q = {}
    PROVE  Parse(FormatQuery(pg, q)) = Expected(pg)
<1> DEFINE r == FormatQuery(pg, q)
<1>1. /\ DOMAIN r = {k \in {KeyA(pg.type), KeyB(pg.type)} :
                       IF k = KeyA(pg.type) THEN pg.a # 0 ELSE pg.b # 0}
      /\ pg.a # 0 => r[KeyA(pg.type)] = pg.a
      /\ pg.b # 0 => r[KeyB(pg.type)] = pg.b
  BY FormatKeys
<1>2. pg = [type |-> pg.type, a |-> pg.a, b |-> pg.b]
  BY DEF Paginations
<1>3. CASE pg.type = "offset"
  BY <1>1, <1>2, <1>3 DEF Parse, Expected, KeyA, KeyB, NoPagination
<1>4. CASE pg.type = "page"
  BY <1>1, <1>2, <1>4 DEF Parse, Expected, KeyA, KeyB, NoPagination
<1>5. QED
  BY <1>3, <1>4 DEF Paginations

LEMMA InitPInv == Init => PInv
BY NewPaginationType DEF Init, PInv

LEMMA NextPInv == PInv /\ [Next]_vars => PInv'
<1> SUFFICES ASSUME PInv, [Next]_vars PROVE PInv'
  OBVIOUS
<1>1. CASE Format
  BY <1>1 DEF PInv, Format
<1>2. CASE UNCHANGED vars
  BY <1>2 DEF PInv, vars
<1>3. QED
  BY <1>1, <1>2 DEF Next

THEOREM PaginationInvariant == Spec => []PInv
BY InitPInv, NextPInv, PTL DEF Spec

(***************************************************************************)
(* FormatQuery into a new query renders every pagination newPagination    *)
(* builds (TpLimitOffset, TpPage or an unknown type) so that reading the  *)
(* page keys back gives the same pagination, zero values omitted, for any *)
(* values.                                                                 *)
(***************************************************************************)
THEOREM RoundTripHolds == Spec => []RoundTrip
<1>1. PInv => RoundTrip
  BY FormatRoundTrip DEF PInv, RoundTrip
<1>2. QED
  BY <1>1, PaginationInvariant, PTL

=============================================================================
