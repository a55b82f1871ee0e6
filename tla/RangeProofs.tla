----------------------------- MODULE RangeProofs -----------------------------
(***************************************************************************)
(* Theorems about ranges of blocks, for every chain: BlockRange, what the   *)
(* search for the blocks of a day returns and what its exceptions mean; and *)
(* ExportAll, what the runs of export_all leave on disk, whatever stopped   *)
(* them.                                                                    *)
(***************************************************************************)
EXTENDS BlockRange, ExportAll, FiniteSetTheorems, TLAPS

(* The bounds a and b of the search for time t *)
Brackets(a, b, t) ==
  /\ a \in 1 .. head /\ b \in 1 .. head
  /\ \/ a = b /\ ts[a] = t
     \/ b = a + 1 /\ ts[a] < t /\ t < ts[b]

(* Before the first step of a search its bounds are the first block and one  *)
(* not before the block seen at the call; afterwards y is between them.      *)
SearchInv == /\ lo \in 1 .. head /\ hi \in 1 .. head /\ lo <= hi
             /\ Inside \/ (lo = 1 /\ seen <= hi)

SecondInv == /\ lo \in 1 .. head /\ hi \in 1 .. head
             /\ lo < est /\ est < hi /\ ts[lo] < y /\ y < ts[hi]

StartInv == \/ bounds = <<0, 0>> /\ (query.start < ts[1] \/ ts[seen] < query.start)
            \/ Brackets(bounds[1], bounds[2], query.start)

AnswerInv == RangeExact /\ ErrorsJustified

IInv == /\ TypeOK
        /\ pc = "last" => lo = 1
        /\ pc = "search" => SearchInv
        /\ pc = "second" => SecondInv
        /\ (pc # "idle" /\ side = "end") => StartInv
        /\ pc # "idle" => answer = None
        /\ AnswerInv

(* Timestamps increase along the chain. *)
LEMMA Monotone ==
  ASSUME TypeOK
  PROVE  /\ \A b \in Blocks : ts[b] \in Int
         /\ \A a, b \in Blocks : a < b => ts[a] < ts[b]
         /\ \A a, b \in Blocks : ts[a] <= ts[b] => a <= b
         /\ 1 .. head \subseteq Blocks /\ head \in Int /\ 1 \in 1 .. head
         /\ seen \in 1 .. head
         /\ query.start \in Int /\ query.end \in Int /\ y \in Int
<1>1. ts \in [Blocks -> Times] /\ \A a, b \in Blocks : a < b => ts[a] < ts[b]
  BY DEF TypeOK, Chains
<1>2. \A b \in Blocks : ts[b] \in Int
  BY <1>1, BlockRangeAssumption DEF Times
<1>3. \A b \in Blocks : b \in Int
  BY BlockRangeAssumption DEF Blocks
<1>4. ASSUME NEW a \in Blocks, NEW b \in Blocks, ts[a] <= ts[b] PROVE a <= b
  <2>1. b < a => ts[b] < ts[a]
    BY <1>1
  <2> QED BY <1>2, <1>3, <1>4, <2>1
<1>5. 1 .. head \subseteq Blocks /\ head \in Int /\ 1 \in 1 .. head /\ seen \in 1 .. head
  BY BlockRangeAssumption DEF TypeOK, Blocks
<1>6. query.start \in Int /\ query.end \in Int
  BY BlockRangeAssumption DEF TypeOK
<1>7. y \in Int
  BY <1>6 DEF y
<1> QED BY <1>1, <1>2, <1>4, <1>5, <1>6, <1>7

(* find_best_bounds returns points of its list around y. *)
LEMMA BestBoundsAround ==
  ASSUME TypeOK, NEW P \in SUBSET (1 .. head), NEW b \in BestBounds(P)
  PROVE  /\ b[1] \in 1 .. head /\ b[2] \in 1 .. head /\ b[1] <= b[2]
         /\ b[1] \in P /\ b[2] \in P
         /\ ts[b[1]] <= y /\ y <= ts[b[2]]
<1>1. b[1] \in P /\ b[2] \in P /\ ts[b[1]] <= y /\ y <= ts[b[2]]
  BY DEF BestBounds, Around
<1>2. b[1] \in Blocks /\ b[2] \in Blocks
  BY <1>1, Monotone
<1>3. ts[b[1]] <= ts[b[2]]
  BY <1>1, <1>2, Monotone
<1> QED BY <1>1, <1>2, <1>3, Monotone

(* The range that two brackets give has all wanted blocks and no other. *)
LEMMA ReturnOK ==
  ASSUME IInv, pc = "search", side = "end",
         NEW a, NEW b, Brackets(a, b, query.end), Return(bounds, <<a, b>>),
         UNCHANGED <<ts, head, query, seen>>
  PROVE  AnswerInv' /\ answer' \in [kind : Kinds, first : Blocks, last : Blocks]
<1>1. TypeOK /\ StartInv
  BY DEF IInv
<1>2. a \in Blocks /\ b \in Blocks /\ a \in Int /\ b \in Int /\ a \in 1 .. head
  BY <1>1, Monotone, BlockRangeAssumption DEF Brackets, Blocks
<1>3. \A c \in 1 .. MaxBlock : c \in Blocks /\ c \in Int
  BY BlockRangeAssumption DEF Blocks
<1>4. \A c \in 1 .. MaxBlock : ts[c] <= query.end <=> c <= a
  <2> SUFFICES ASSUME NEW c \in 1 .. MaxBlock PROVE ts[c] <= query.end <=> c <= a
    OBVIOUS
  <2>1. c \in Blocks /\ c \in Int /\ ts[c] \in Int /\ ts[a] \in Int /\ ts[b] \in Int
    BY <1>1, <1>2, <1>3, Monotone
  <2>2. (c < a => ts[c] < ts[a]) /\ (a < c => ts[a] < ts[c]) /\ (b < c => ts[b] < ts[c])
    BY <1>1, <1>2, <2>1, Monotone
  <2>3. query.end \in Int
    BY <1>1, Monotone
  <2> QED BY <1>2, <2>1, <2>2, <2>3 DEF Brackets
<1>5. /\ bounds[1] \in Blocks /\ bounds[2] \in Blocks
      /\ bounds[1] \in Int /\ bounds[2] \in Int
  BY <1>1, BlockRangeAssumption DEF TypeOK, Bounds, Blocks
<1>6. ASSUME Brackets(bounds[1], bounds[2], query.start)
      PROVE  \A c \in 1 .. MaxBlock : query.start <= ts[c] <=> bounds[2] <= c
  <2> SUFFICES ASSUME NEW c \in 1 .. MaxBlock
               PROVE  query.start <= ts[c] <=> bounds[2] <= c
    OBVIOUS
  <2> DEFINE p == bounds[1]
             q == bounds[2]
  <2>1. c \in Blocks /\ c \in Int /\ ts[c] \in Int /\ ts[p] \in Int /\ ts[q] \in Int
    BY <1>1, <1>3, <1>5, Monotone
  <2>2. (c < q => ts[c] < ts[q]) /\ (q < c => ts[q] < ts[c]) /\ (c < p => ts[c] < ts[p])
    BY <1>1, <1>5, <2>1, Monotone
  <2>3. query.start \in Int
    BY <1>1, Monotone
  <2>4. \/ p = q /\ ts[p] = query.start
        \/ q = p + 1 /\ ts[p] < query.start /\ query.start < ts[q]
    BY <1>6 DEF Brackets
  <2>5. p \in Int /\ q \in Int
    BY <1>5
  <2> QED BY <2>1, <2>2, <2>3, <2>4, <2>5
<1>7. ASSUME bounds = <<0, 0>>, query.start < ts[1]
      PROVE  \A c \in 1 .. MaxBlock : query.start <= ts[c]
  <2> SUFFICES ASSUME NEW c \in 1 .. MaxBlock PROVE query.start <= ts[c]
    OBVIOUS
  <2>1. c \in Blocks /\ c \in Int /\ 1 \in Blocks
    BY <1>1, <1>3, Monotone
  <2>2. 1 < c => ts[1] < ts[c]
    BY <1>1, <2>1, Monotone
  <2>3. query.start \in Int /\ ts[1] \in Int /\ ts[c] \in Int
    BY <1>1, <2>1, Monotone
  <2> QED BY <1>7, <2>1, <2>2, <2>3
<1>8. answer' = IF bounds = <<a, b>> /\ bounds[1] # bounds[2] THEN Error("no blocks")
                ELSE [kind  |-> "range",
                      first |-> IF bounds[2] = 1 THEN 0 ELSE bounds[2],
                      last  |-> a]
  BY DEF Return
<1>9. answer' \in [kind : Kinds, first : Blocks, last : Blocks]
  <2>1. 0 \in Blocks
    BY BlockRangeAssumption DEF Blocks
  <2> QED BY <1>2, <1>5, <1>8, <2>1 DEF Kinds, Error
<1>10. CASE bounds = <<a, b>> /\ bounds[1] # bounds[2]
  <2>1. answer' = Error("no blocks")
    BY <1>8, <1>10
  <2>2. Brackets(bounds[1], bounds[2], query.start) /\ b = a + 1
    BY <1>1, <1>2, <1>10 DEF StartInv, Brackets
  <2>3. \A c \in 1 .. MaxBlock : query.start <= ts[c] <=> b <= c
    BY <1>6, <1>10, <2>2
  <2>4. \A c \in 1 .. MaxBlock : ~Wanted(c)
    BY <1>2, <1>3, <1>4, <2>2, <2>3 DEF Wanted
  <2> QED BY <1>9, <2>1, <2>4 DEF AnswerInv, RangeComplete, RangeExact, ErrorsJustified, Error, Wanted
<1>11. CASE ~(bounds = <<a, b>> /\ bounds[1] # bounds[2])
  <2> DEFINE first == IF bounds[2] = 1 THEN 0 ELSE bounds[2]
  <2>1. answer'.kind = "range" /\ answer'.first = first /\ answer'.last = a
    BY <1>8, <1>11
  <2>2. CASE Brackets(bounds[1], bounds[2], query.start)
    <3>1. \A c \in 1 .. MaxBlock : query.start <= ts[c] <=> first <= c
      BY <1>3, <1>5, <1>6, <2>2
    <3>2. \A c \in 1 .. MaxBlock : Wanted(c) <=> first <= c /\ c <= a
      BY <1>4, <3>1 DEF Wanted
    <3> QED BY <1>9, <2>1, <3>2
          DEF AnswerInv, RangeComplete, RangeExact, NothingElse, ErrorsJustified, Wanted
  <2>3. CASE bounds = <<0, 0>> /\ query.start < ts[1]
    <3>1. \A c \in 1 .. MaxBlock : query.start <= ts[c] /\ first <= c
      BY <1>3, <1>7, <2>3
    <3>2. \A c \in 1 .. MaxBlock : Wanted(c) <=> first <= c /\ c <= a
      BY <1>4, <3>1 DEF Wanted
    <3> QED BY <1>9, <2>1, <3>2
          DEF AnswerInv, RangeComplete, RangeExact, NothingElse, ErrorsJustified, Wanted
  <2>4. CASE bounds = <<0, 0>> /\ ts[seen] < query.start
    <3>1. \A c \in 1 .. MaxBlock : first <= c
      BY <1>3, <2>4
    <3>2. \A c \in 1 .. MaxBlock : Wanted(c) => first <= c /\ c <= a
      BY <1>4, <3>1 DEF Wanted
    <3>3. seen \in Blocks /\ ts[seen] \in Int /\ query.start \in Int
      BY <1>1, Monotone
    <3>4. ~(query.start <= ts[seen])
      BY <2>4, <3>3
    <3> QED BY <1>9, <2>1, <3>2, <3>4
          DEF AnswerInv, RangeComplete, RangeExact, ErrorsJustified, Wanted
  <2> QED BY <1>1, <2>2, <2>3, <2>4 DEF StartInv
<1> QED BY <1>9, <1>10, <1>11

-----------------------------------------------------------------------------
LEMMA InitIInv == Init => IInv
<1> SUFFICES ASSUME Init PROVE IInv
  OBVIOUS
<1>1. TypeOK
  BY BlockRangeAssumption
  DEF Init, TypeOK, None, Kinds, Bounds, Blocks, Times
<1>2. AnswerInv
  BY DEF Init, None, AnswerInv, RangeComplete, RangeExact, ErrorsJustified
<1> QED BY <1>1, <1>2 DEF Init, IInv

(* The end of a search, for the start or for the end *)
LEMMA FoundOK ==
  ASSUME IInv, pc = "search", NEW a, NEW b, Brackets(a, b, y), Found(a, b),
         UNCHANGED <<ts, head, cached, callVars, searchVars>>
  PROVE  IInv'
<1>1. TypeOK
  BY DEF IInv
<1>2. UNCHANGED <<ts, head, cached, calls, query, seen, lo, hi, est>>
  BY DEF callVars, searchVars
<1>3. a \in Blocks /\ b \in Blocks
  BY <1>1, Monotone DEF Brackets
<1>4. CASE side = "start"
  <2>1. bounds' = <<a, b>> /\ side' = "end" /\ pc' = "lookup" /\ answer' = answer
    BY <1>4 DEF Found, NextSide
  <2>2. TypeOK'
    BY <1>1, <1>2, <1>3, <2>1 DEF TypeOK, Bounds
  <2>3. StartInv'
    BY <1>2, <1>4, <2>1 DEF StartInv, Brackets, y
  <2>4. AnswerInv' /\ answer' = None
    BY <1>2, <2>1 DEF IInv, AnswerInv, RangeComplete, RangeExact, ErrorsJustified,
      NothingElse, Wanted
  <2> QED BY <2>1, <2>2, <2>3, <2>4 DEF IInv
<1>5. CASE side # "start"
  <2>1. side = "end" /\ y = query.end
    BY <1>1, <1>5 DEF TypeOK, y
  <2>2. Return(bounds, <<a, b>>)
    BY <1>5 DEF Found
  <2>3. AnswerInv' /\ answer' \in [kind : Kinds, first : Blocks, last : Blocks]
    BY <1>2, <2>1, <2>2, ReturnOK
  <2>4. pc' = "idle" /\ UNCHANGED <<side, bounds>>
    BY <2>2 DEF Return
  <2>5. TypeOK'
    BY <1>1, <1>2, <2>3, <2>4 DEF TypeOK
  <2> QED BY <2>3, <2>4, <2>5 DEF IInv
<1> QED BY <1>4, <1>5

(* A step that leaves the answer alone, the query and the chain too. *)
LEMMA AnswerKept ==
  ASSUME AnswerInv, UNCHANGED <<ts, query, seen, answer>>
  PROVE  AnswerInv'
  BY DEF AnswerInv, RangeComplete, RangeExact, ErrorsJustified, NothingElse, Wanted

LEMMA LookupOK == ASSUME IInv, Lookup PROVE IInv'
<1>1. TypeOK /\ AnswerInv /\ pc = "lookup" /\ answer = None
  BY DEF IInv, Lookup
<1>2. UNCHANGED <<ts, head, cached, calls, query, seen, side, est, bounds, answer>>
  BY DEF Lookup, callVars
<1>3. StartInv => StartInv'
  BY <1>2 DEF StartInv, Brackets
<1>4. AnswerInv'
  BY <1>1, <1>2, AnswerKept
<1>5. CASE pc' = "first" /\ UNCHANGED <<lo, hi>>
  <2>1. TypeOK'
    BY <1>1, <1>2, <1>5 DEF TypeOK
  <2> QED BY <1>1, <1>2, <1>3, <1>4, <1>5, <2>1 DEF IInv
<1>6. CASE \E b \in BestBounds(cached) : lo' = b[1] /\ hi' = b[2] /\ pc' = "search"
  <2>1. PICK b \in BestBounds(cached) : lo' = b[1] /\ hi' = b[2] /\ pc' = "search"
    BY <1>6
  <2>2. cached \in SUBSET (1 .. head)
    BY <1>1 DEF TypeOK
  <2>3. /\ lo' \in 1 .. head /\ hi' \in 1 .. head /\ lo' <= hi'
        /\ ts[lo'] <= y /\ y <= ts[hi']
    BY <1>1, <2>1, <2>2, BestBoundsAround
  <2>4. SearchInv'
    BY <1>2, <2>3 DEF SearchInv, Inside, y
  <2>5. TypeOK'
    BY <1>1, <1>2, <2>1, <2>3, Monotone DEF TypeOK
  <2> QED BY <1>1, <1>2, <1>3, <1>4, <2>1, <2>4, <2>5 DEF IInv
<1> QED BY <1>5, <1>6 DEF Lookup

LEMMA PointsOK == ASSUME IInv, GetFirstPoint \/ GetLastPoint PROVE IInv'
<1>1. TypeOK /\ AnswerInv /\ pc # "idle" /\ answer = None
  BY DEF IInv, GetFirstPoint, GetLastPoint
<1>2. UNCHANGED <<ts, head, calls, query, seen, side, est, bounds, answer>>
  BY DEF GetFirstPoint, GetLastPoint, callVars
<1>3. StartInv => StartInv'
  BY <1>2 DEF StartInv, Brackets
<1>4. AnswerInv'
  BY <1>1, <1>2, AnswerKept
<1>5. 1 \in Blocks /\ head \in Blocks /\ 1 \in 1 .. head /\ head \in 1 .. head
      /\ seen <= head /\ 1 <= head
  BY <1>1, BlockRangeAssumption DEF TypeOK, Blocks
<1>6. CASE GetFirstPoint
  <2>1. pc' = "last" /\ lo' = 1 /\ hi' = hi /\ cached' = cached \cup {1}
    BY <1>6 DEF GetFirstPoint
  <2>2. TypeOK'
    BY <1>1, <1>2, <1>5, <2>1 DEF TypeOK
  <2> QED BY <1>1, <1>2, <1>3, <1>4, <2>1, <2>2 DEF IInv
<1>7. CASE GetLastPoint
  <2>1. /\ pc = "last" /\ pc' = "search" /\ lo' = lo /\ hi' = head
        /\ cached' = cached \cup {head}
    BY <1>7 DEF GetLastPoint
  <2>2. lo = 1
    BY <2>1 DEF IInv
  <2>3. TypeOK'
    BY <1>1, <1>2, <1>5, <2>1 DEF TypeOK
  <2>4. SearchInv'
    BY <1>2, <1>5, <2>1, <2>2 DEF SearchInv
  <2> QED BY <1>1, <1>2, <1>3, <1>4, <2>1, <2>3, <2>4 DEF IInv
<1> QED BY <1>6, <1>7

LEMMA OutOfBoundsOK == ASSUME IInv, OutOfBounds PROVE IInv'
<1>1. TypeOK /\ AnswerInv /\ answer = None /\ SearchInv /\ pc = "search" /\ ~Inside
  BY DEF IInv, OutOfBounds
<1>2. UNCHANGED <<ts, head, cached, calls, query, seen, lo, hi, est>>
  BY DEF OutOfBounds, callVars, searchVars
<1>3. y < ts[1] \/ ts[seen] < y
  <2>1. lo = 1 /\ seen <= hi /\ hi \in 1 .. head /\ seen \in 1 .. head
    BY <1>1, Monotone DEF SearchInv
  <2>2. /\ hi \in Blocks /\ seen \in Blocks /\ 1 \in Blocks
        /\ hi \in Int /\ seen \in Int
    BY <1>1, <2>1, Monotone
  <2>3. seen < hi => ts[seen] < ts[hi]
    BY <1>1, <2>2, Monotone
  <2>4. ts[seen] \in Int /\ ts[hi] \in Int /\ ts[1] \in Int /\ y \in Int
    BY <1>1, <2>2, Monotone
  <2> QED BY <1>1, <2>1, <2>2, <2>3, <2>4 DEF Inside
<1>4. 0 \in Blocks
  BY BlockRangeAssumption DEF Blocks
<1>5. CASE side = "start"
  <2>1. bounds' = <<0, 0>> /\ side' = "end" /\ pc' = "lookup" /\ answer' = answer
    BY <1>5 DEF OutOfBounds, NextSide
  <2>2. TypeOK'
    BY <1>1, <1>2, <1>4, <2>1 DEF TypeOK, Bounds
  <2>3. StartInv'
    BY <1>2, <1>3, <1>5, <2>1 DEF StartInv, y
  <2>4. AnswerInv'
    BY <1>1, <1>2, <2>1, AnswerKept
  <2> QED BY <1>1, <2>1, <2>2, <2>3, <2>4 DEF IInv
<1>6. CASE side # "start"
  <2>1. pc' = "idle" /\ answer' = Error("out of bounds") /\ UNCHANGED <<side, bounds>>
    BY <1>6 DEF OutOfBounds
  <2>2. y = query.end
    BY <1>6 DEF y
  <2>3. TypeOK'
    BY <1>1, <1>2, <1>4, <2>1 DEF TypeOK, Error, Kinds
  <2>4. AnswerInv'
    BY <1>2, <1>3, <2>1, <2>2
    DEF AnswerInv, RangeComplete, RangeExact, ErrorsJustified, Error
  <2> QED BY <2>1, <2>3, <2>4 DEF IInv
<1> QED BY <1>5, <1>6

LEMMA SettleOK == ASSUME IInv, Settle PROVE IInv'
<1>1. TypeOK /\ SearchInv /\ pc = "search" /\ Inside
  BY DEF IInv, Settle
<1>2. UNCHANGED <<ts, head, cached, callVars, searchVars>>
  BY DEF Settle
<1>3. /\ lo \in 1 .. head /\ hi \in 1 .. head /\ lo <= hi /\ lo \in Int /\ hi \in Int
      /\ ts[lo] \in Int /\ ts[hi] \in Int /\ y \in Int
  BY <1>1, Monotone DEF SearchInv
<1>4. CASE y = ts[lo] /\ Found(lo, lo)
  <2>1. Brackets(lo, lo, y)
    BY <1>3, <1>4 DEF Brackets
  <2> QED BY <1>1, <1>2, <1>4, <2>1, FoundOK
<1>5. CASE y # ts[lo] /\ y = ts[hi] /\ Found(hi, hi)
  <2>1. Brackets(hi, hi, y)
    BY <1>3, <1>5 DEF Brackets
  <2> QED BY <1>1, <1>2, <1>5, <2>1, FoundOK
<1>6. CASE y \notin {ts[lo], ts[hi]} /\ hi - lo <= 1 /\ Found(lo, hi)
  <2>1. ts[lo] < y /\ y < ts[hi]
    BY <1>1, <1>3, <1>6 DEF Inside
  <2>2. lo # hi
    BY <1>3, <2>1
  <2>3. Brackets(lo, hi, y)
    BY <1>3, <1>6, <2>1, <2>2 DEF Brackets
  <2> QED BY <1>1, <1>2, <1>6, <2>3, FoundOK
<1> QED BY <1>4, <1>5, <1>6 DEF Settle

(* Two estimates between two bounds leave neighbours around y. *)
LEMMA BoundsRemain ==
  ASSUME TypeOK, SecondInv, NEW x \in 1 .. head, lo < x, x < hi
  PROVE  BestBounds({lo, est, x, hi}) # {}
<1> DEFINE P == {lo, est, x, hi}
           low == IF est <= x THEN est ELSE x
           high == IF est <= x THEN x ELSE est
<1>1. /\ lo \in 1 .. head /\ est \in 1 .. head /\ hi \in 1 .. head
      /\ lo \in Int /\ est \in Int /\ hi \in Int /\ x \in Int
  BY BlockRangeAssumption DEF TypeOK, SecondInv, Blocks
<1>2. /\ lo < low /\ low <= high /\ high < hi /\ low \in P /\ high \in P
      /\ low \in 1 .. head /\ high \in 1 .. head
      /\ \A r \in P : r = lo \/ r = low \/ r = high \/ r = hi
  BY <1>1 DEF SecondInv
<1>3. /\ ts[lo] < y /\ y < ts[hi] /\ y \in Int
      /\ ts[lo] \in Int /\ ts[hi] \in Int /\ ts[low] \in Int /\ ts[high] \in Int
  BY <1>1, <1>2, Monotone DEF SecondInv
<1>4. low \in Int /\ high \in Int
  BY <1>1
<1> HIDE DEF low, high
<1>5. CASE y <= ts[low]
  <2>1. <<lo, low>> \in BestBounds(P)
    BY <1>1, <1>2, <1>3, <1>4, <1>5 DEF BestBounds, Around
  <2> QED BY <2>1
<1>6. CASE ts[low] < y /\ y <= ts[high]
  <2>1. <<low, high>> \in BestBounds(P)
    BY <1>1, <1>2, <1>3, <1>4, <1>6 DEF BestBounds, Around
  <2> QED BY <2>1
<1>7. CASE ts[high] < y
  <2>1. <<high, hi>> \in BestBounds(P)
    BY <1>1, <1>2, <1>3, <1>4, <1>7 DEF BestBounds, Around
  <2> QED BY <2>1
<1> QED BY <1>3, <1>5, <1>6, <1>7

LEMMA EstimatesOK ==
  ASSUME IInv, NEW x \in Blocks, Estimate1(x) \/ Estimate2(x) PROVE IInv'
<1>1. TypeOK /\ AnswerInv /\ pc # "idle" /\ answer = None
  BY DEF IInv, Estimate1, Estimate2
<1>2. lo < x /\ x < hi
  BY DEF Estimate1, Estimate2, Between
<1>3. ASSUME Estimate2(x) PROVE BestBounds({lo, est, x, hi}) # {}
  <2>1. SecondInv /\ lo \in 1 .. head /\ hi \in 1 .. head
    BY <1>3 DEF IInv, SecondInv, Estimate2
  <2>2. x \in 1 .. head
    BY <1>1, <1>2, <2>1, BlockRangeAssumption DEF TypeOK, Blocks
  <2> QED BY <1>1, <1>2, <2>1, <2>2, BoundsRemain
<1>4. UNCHANGED <<ts, head, calls, query, seen, side, bounds, answer>>
  BY <1>3 DEF Estimate1, Estimate2, callVars
<1>5. StartInv => StartInv'
  BY <1>4 DEF StartInv, Brackets
<1>6. AnswerInv'
  BY <1>1, <1>4, AnswerKept
<1>7. lo \in 1 .. head /\ hi \in 1 .. head /\ lo < x /\ x < hi
  BY <1>2 DEF IInv, SearchInv, SecondInv, Estimate1, Estimate2
<1>8. x \in 1 .. head /\ lo \in Int /\ hi \in Int /\ x \in Int
  BY <1>1, <1>7, BlockRangeAssumption DEF TypeOK, Blocks
<1>9. CASE Estimate1(x)
  <2>1. /\ pc' = "second" /\ est' = x /\ lo' = lo /\ hi' = hi
        /\ cached' = cached \cup {x}
        /\ Inside /\ y \notin {ts[lo], ts[hi]}
    BY <1>9 DEF Estimate1
  <2>2. ts[lo] \in Int /\ ts[hi] \in Int /\ y \in Int
    BY <1>1, <1>7, Monotone
  <2>3. ts[lo] < y /\ y < ts[hi]
    BY <2>1, <2>2 DEF Inside
  <2>4. SecondInv'
    BY <1>4, <1>7, <2>1, <2>3 DEF SecondInv, y
  <2>5. TypeOK'
    BY <1>1, <1>4, <1>8, <2>1 DEF TypeOK
  <2> QED BY <1>1, <1>4, <1>5, <1>6, <2>1, <2>4, <2>5 DEF IInv
<1>10. CASE Estimate2(x)
  <2>1. /\ pc = "second" /\ pc' = "search" /\ est' = est
        /\ cached' = cached \cup {x}
    BY <1>10, <1>3 DEF Estimate2
  <2>2. lo < est /\ est < hi
    BY <2>1 DEF IInv, SecondInv
  <2>3. {lo, est, x, hi} \in SUBSET (1 .. head)
    BY <1>1, <1>7, <1>8, <2>2, BlockRangeAssumption DEF TypeOK, Blocks
  <2>4. PICK b \in BestBounds({lo, est, x, hi}) : lo' = b[1] /\ hi' = b[2]
    BY <1>10, <1>3 DEF Estimate2
  <2>5. /\ lo' \in 1 .. head /\ hi' \in 1 .. head /\ lo' <= hi'
        /\ ts[lo'] <= y /\ y <= ts[hi']
    BY <1>1, <2>3, <2>4, BestBoundsAround
  <2>6. SearchInv'
    BY <1>4, <2>5 DEF SearchInv, Inside, y
  <2>7. TypeOK'
    BY <1>1, <1>4, <1>8, <2>1, <2>5, Monotone DEF TypeOK
  <2> QED BY <1>1, <1>4, <1>5, <1>6, <2>1, <2>6, <2>7 DEF IInv
<1> QED BY <1>9, <1>10

LEMMA GrowOK == ASSUME IInv, Grow PROVE IInv'
<1>1. TypeOK
  BY DEF IInv
<1>2. /\ head < MaxBlock /\ head' = head + 1
      /\ UNCHANGED <<ts, cached, calls, query, seen, pc, side, lo, hi, est, bounds, answer>>
  BY DEF Grow, callVars, searchVars
<1>3. 1 .. head \subseteq 1 .. head' /\ head' \in 1 .. MaxBlock
  BY <1>1, <1>2, BlockRangeAssumption DEF TypeOK
<1>4. TypeOK'
  BY <1>1, <1>2, <1>3 DEF TypeOK
<1>5. /\ SearchInv => SearchInv'
      /\ SecondInv => SecondInv'
      /\ StartInv => StartInv'
  BY <1>2, <1>3 DEF SearchInv, SecondInv, StartInv, Brackets, Inside, y
<1>6. AnswerInv'
  BY <1>2, AnswerKept DEF IInv
<1> QED BY <1>2, <1>4, <1>5, <1>6 DEF IInv

LEMMA NextIInv == IInv /\ [Next]_vars => IInv'
<1> SUFFICES ASSUME IInv, [Next]_vars PROVE IInv'
  OBVIOUS
<1>1. ASSUME NEW s \in 0 .. MaxTime + 1, NEW e \in 0 .. MaxTime + 1, Call(s, e)
      PROVE  IInv'
  <2>1. /\ query' = [start |-> s, end |-> e] /\ seen' = head /\ calls' = calls + 1
        /\ pc' = "lookup" /\ side' = "start" /\ answer' = None /\ calls < MaxCalls
        /\ UNCHANGED <<ts, head, cached, lo, hi, est, bounds>>
    BY <1>1 DEF Call, searchVars
  <2>2. calls + 1 \in 0 .. MaxCalls /\ head \in 1 .. head
    BY <2>1, BlockRangeAssumption DEF IInv, TypeOK
  <2>3. None \in [kind : Kinds, first : Blocks, last : Blocks]
    BY BlockRangeAssumption DEF None, Kinds, Blocks
  <2>4. TypeOK'
    BY <2>1, <2>2, <2>3 DEF IInv, TypeOK
  <2>5. AnswerInv'
    BY <2>1 DEF None, AnswerInv, RangeComplete, RangeExact, ErrorsJustified
  <2> QED BY <2>1, <2>4, <2>5 DEF IInv
<1>2. CASE Search
  BY <1>2, LookupOK, PointsOK, OutOfBoundsOK, SettleOK, EstimatesOK DEF Search
<1>3. CASE RequestFails
  <2>1. /\ pc' = "idle" /\ answer' = Error("request failed")
        /\ UNCHANGED <<ts, head, cached, calls, query, seen, side, lo, hi, est, bounds>>
    BY <1>3 DEF RequestFails, callVars, searchVars
  <2>2. Error("request failed") \in [kind : Kinds, first : Blocks, last : Blocks]
    BY BlockRangeAssumption DEF Error, Kinds, Blocks
  <2>3. TypeOK'
    BY <2>1, <2>2 DEF IInv, TypeOK
  <2>4. AnswerInv'
    BY <2>1 DEF Error, AnswerInv, RangeComplete, RangeExact, ErrorsJustified
  <2> QED BY <2>1, <2>3, <2>4 DEF IInv
<1>4. CASE Grow
  BY <1>4, GrowOK
<1>5. CASE UNCHANGED vars
  <2>1. UNCHANGED <<ts, head, cached, calls, query, seen, pc, side, lo, hi, est,
                    bounds, answer>>
    BY <1>5 DEF vars, callVars, searchVars
  <2>2. TypeOK'
    BY <2>1 DEF IInv, TypeOK
  <2>3. /\ SearchInv => SearchInv'
        /\ SecondInv => SecondInv'
        /\ StartInv => StartInv'
    BY <2>1 DEF SearchInv, SecondInv, StartInv, Brackets, Inside, y
  <2>4. AnswerInv'
    BY <2>1, AnswerKept DEF IInv
  <2> QED BY <2>1, <2>2, <2>3, <2>4 DEF IInv
<1> QED BY <1>1, <1>2, <1>3, <1>4, <1>5 DEF Next

(* The invariant that the theorems below follow from *)
THEOREM Invariant == Spec => []IInv
  BY InitIInv, NextIInv, PTL DEF Spec

(* The search never leaves the chain: every block it asks for exists. *)
THEOREM TypeCorrect == Spec => []TypeOK
<1>1. IInv => TypeOK
  BY DEF IInv
<1> QED BY <1>1, Invariant, PTL

(* get_block_range_for_timestamps leaves no block of the range out, on every *)
(* chain, however it grows and whatever earlier calls have cached, and has   *)
(* no other in it, if the chain had reached the start of the range when the  *)
(* call was made.                                                            *)
THEOREM RangeExactTheorem == Spec => []RangeExact
<1>1. IInv => RangeExact
  BY DEF IInv, AnswerInv
<1> QED BY <1>1, Invariant, PTL

(* "does not cover any blocks" and "do not completely cover the given time   *)
(* range" are raised only when that is so.                                   *)
THEOREM ErrorsTheorem == Spec => []ErrorsJustified
<1>1. IInv => ErrorsJustified
  BY DEF IInv, AnswerInv
<1> QED BY <1>1, Invariant, PTL

-----------------------------------------------------------------------------
(* export_all *)

(* What the two lookups of a day find, of the chain as it will ever be: the   *)
(* first block of the day or genesis, and the last block of the day.          *)
IsFirst(b, day) == /\ b \in BlocksOfChain
                   /\ b = 0 \/ \A c \in BlocksOfChain : b <= c <=> day <= Chain[c].day
IsLast(b, day) == /\ b \in BlocksOfChain /\ \A c \in BlocksOfChain : c <= b <=> Chain[c].day <= day

(* The partitions that a request can have: the batch, or the blocks of a day. *)
IsPart(p) ==
  /\ p \in [dir : Int, first : Int, last : Int] /\ p.dir \in Partitions
  /\ ByBlock => p = RangeOf(p.dir)
  /\ ~ByBlock => IsFirst(p.first, p.dir) /\ IsLast(p.last, p.dir) /\ p.last <= newest

PartOf(f) == [dir |-> f.dir, first |-> f.first, last |-> f.last]

(* What a file of a partition should hold. *)
Created(p) == UNION {Chain[b].creates : b \in BlocksIn(p)}
Moved(p) == UNION {Chain[b].tokens : b \in BlocksIn(p)}
Right(kind, p) ==
  CASE kind \in {"transactions", "hashes", "receipts"} -> BlocksIn(p)
    [] kind = "transfers" -> {b \in BlocksIn(p) : Chain[b].tokens # {}}
    [] kind \in {"addresses", "contracts"} -> Created(p)
    [] kind \in {"token_addresses", "tokens"} -> Moved(p)

IsRight(kind, p) == File(kind, p) \in DOMAIN files /\ files[File(kind, p)] = Right(kind, p)

FileKinds == {"transactions", "transfers", "hashes", "receipts", "addresses", "contracts",
          "token_addresses", "tokens"}
Kept(kind) == kind \in {"transactions", "receipts", "contracts"} \/ (kind = "tokens" /\ request.filters)

ExportTypeOK ==
  /\ eaPhase \in {"next", "lookup", "jobs", "finished", "failed"} /\ request \in Requests
  /\ newest \in BlocksOfChain /\ todo \subseteq Partitions /\ step \in 0 .. Len(JobFiles)
  /\ eaPhase = "finished" => todo = {}

(* Every file is of a partition; of transactions it has no block but its own. *)
FilesOK ==
  \A f \in DOMAIN files :
    /\ f \in [kind : FileKinds, dir : Int, first : Int, last : Int] /\ IsPart(PartOf(f))
    /\ f.kind = "transactions" => files[f] \subseteq BlocksIn(PartOf(f))

CompleteOK ==
  \A p \in complete :
    /\ IsPart(p) /\ p.last <= newest
    /\ \A kind \in FileKinds : Kept(kind) => IsRight(kind, p)

(* The partition being exported: its jobs so far have written their files, and *)
(* what is right if none was torn.                                             *)
CurrentOK ==
  eaPhase = "jobs" =>
    /\ IsPart(part) /\ part.dir \notin todo /\ part \notin complete
    /\ step > 0 => part.last <= newest
    /\ Whole(part) => \A i \in 1 .. step : IsRight(JobFiles[i], part)

(* The day whose first block has been looked up. *)
DayLookedUp ==
  eaPhase = "lookup" =>
    /\ ~ByBlock /\ newest >= 1 /\ step = 0 /\ part \in [dir : Int, first : Int, last : Int]
    /\ part.dir \in Partitions /\ part.dir \notin todo /\ IsFirst(part.first, part.dir)

(* What a run has behind it is complete or torn, and nothing temporary is left *)
(* of it, even of an earlier run.                                              *)
Behind(x) == x \in Partitions \ todo /\ (eaPhase \in {"lookup", "jobs"} => x # part.dir)
Torn(x) == \E f \in torn : f.dir = x
RunOK ==
  eaPhase \in {"next", "lookup", "jobs", "finished"} =>
    /\ \A x \in Partitions : Behind(x) => Torn(x) \/ \E p \in complete : p.dir = x
    /\ \A f \in DOMAIN files : f.kind \in Temporary => ~Behind(f.dir)

ExportInv == ExportTypeOK /\ FilesOK /\ CompleteOK /\ CurrentOK /\ DayLookedUp /\ RunOK

LEMMA LeastNatural ==
  ASSUME NEW T \in SUBSET Nat, T # {}
  PROVE  \E x \in T : \A z \in T : x <= z
<1>1. PICK x \in T : \A z \in T : ~ (<<z, x>> \in OpToRel(<, Nat))
  BY NatLessThanWellFounded, WFMin
<1>2. \A z \in T : ~(z < x)
  BY <1>1 DEF OpToRel
<1> QED
  BY <1>2

LEMMA MinAndMax ==
  ASSUME NEW T \in SUBSET Nat, T # {}, NEW n \in Nat, \A t \in T : t <= n
  PROVE  /\ Min(T) \in T /\ \A t \in T : Min(T) <= t
         /\ Max(T) \in T /\ \A t \in T : Max(T) >= t
<1>1. \E x \in T : \A z \in T : x <= z
  BY LeastNatural
<1>2. \E x \in T : \A z \in T : x >= z
  <2> DEFINE U == {n - t : t \in T}
  <2>1. U \in SUBSET Nat /\ U # {}
    <3>1. \A t \in T : n - t \in Nat
      OBVIOUS
    <3> QED
      BY <3>1
  <2> HIDE DEF U
  <2>2. PICK u \in U : \A v \in U : u <= v
    BY <2>1, LeastNatural
  <2>3. PICK x \in T : u = n - x
    BY <2>2 DEF U
  <2>4. \A z \in T : n - x <= n - z
    BY <2>2, <2>3 DEF U
  <2>5. \A z \in T : x >= z
    BY <2>4
  <2> QED
    BY <2>5
<1>3. Min(T) \in T /\ \A t \in T : Min(T) <= t
  BY <1>1 DEF Min
<1>4. Max(T) \in T /\ \A t \in T : Max(T) >= t
  BY <1>2 DEF Max
<1> QED
  BY <1>3, <1>4

LEMMA RequestFields ==
  ASSUME request \in Requests
  PROVE  /\ request.first \in Nat /\ request.last \in Nat /\ request.size \in Nat
         /\ request.filters \in BOOLEAN /\ (ByBlock => request.size > 0)
<1>1. request \in [kind : {"block", "date"}, first : Nat, last : Nat, size : Nat, filters : BOOLEAN]
  BY ExportAssumption
<1>2. ByBlock => request.size > 0
  BY ExportAssumption DEF ByBlock
<1> QED
  BY <1>1, <1>2

LEMMA PartitionBounds ==
  ASSUME request \in Requests, NEW x \in Partitions
  PROVE  x \in Nat /\ request.first <= x /\ x <= request.last
BY RequestFields DEF Partitions

(* Two batches do not overlap. *)
LEMMA BatchesApart ==
  ASSUME request \in Requests, ByBlock, NEW x \in Partitions, NEW z \in Partitions, x < z
  PROVE  x + request.size <= z
<1>1. request.first \in Nat /\ request.last \in Nat /\ request.size \in Nat /\ request.size > 0
  BY RequestFields
<1>2. PICK j \in Nat : x = request.first + j * request.size
  BY <1>1 DEF Partitions
<1>3. PICK k \in Nat : z = request.first + k * request.size
  BY <1>1 DEF Partitions
<1> DEFINE s == request.size
<1> HIDE DEF s
<1>4. s \in Nat /\ s > 0 /\ j * s < k * s
  BY <1>1, <1>2, <1>3 DEF s
<1>5. j < k
  <2> SUFFICES ASSUME ~(j < k) PROVE FALSE
    OBVIOUS
  <2>1. PICK d \in Nat : j = k + d
    <3>1. j - k \in Nat /\ j = k + (j - k)
      OBVIOUS
    <3> QED
      BY <3>1
  <2>2. j * s = k * s + d * s /\ d * s \in Nat /\ k * s \in Nat
    BY <1>4, <2>1
  <2> QED
    BY <1>4, <2>2
<1>6. PICK d \in Nat : k = j + 1 + d
  <2>1. k - j - 1 \in Nat /\ k = j + 1 + (k - j - 1)
    BY <1>5
  <2> QED
    BY <2>1
<1>7. k * s = j * s + s + d * s /\ d * s \in Nat /\ j * s \in Nat
  BY <1>4, <1>6
<1> QED
  BY <1>1, <1>2, <1>3, <1>4, <1>7 DEF s

(* Every block that was asked for is in a batch. *)
LEMMA BatchOf ==
  ASSUME request \in Requests, ByBlock, NEW b \in request.first .. request.last
  PROVE  \E x \in Partitions : x <= b /\ b < x + request.size
<1>1. request.first \in Nat /\ request.last \in Nat /\ request.size \in Nat /\ request.size > 0
  BY RequestFields
<1> DEFINE starts == {k \in Nat : request.first + k * request.size > b}
<1>2. starts # {}
  <2>1. b + 1 \in Nat /\ (b + 1) * request.size >= b + 1
    <3>1. PICK s \in Nat : request.size = s + 1
      <4>1. request.size - 1 \in Nat /\ request.size = (request.size - 1) + 1
        BY <1>1
      <4> QED
        BY <4>1
    <3>2. (b + 1) * (s + 1) = (b + 1) * s + (b + 1) /\ (b + 1) * s \in Nat
      BY <1>1
    <3> QED
      BY <1>1, <3>1, <3>2
  <2>2. request.first + (b + 1) * request.size > b
    BY <1>1, <2>1
  <2> QED
    BY <2>1, <2>2
<1>3. PICK k \in starts : \A j \in starts : k <= j
  <2>1. starts \in SUBSET Nat
    OBVIOUS
  <2> HIDE DEF starts
  <2> QED
    BY <1>2, <2>1, LeastNatural
<1>4. k > 0
  BY <1>1
<1>5. PICK j \in Nat : k = j + 1
  <2>1. k - 1 \in Nat /\ k = (k - 1) + 1
    BY <1>4
  <2> QED
    BY <2>1
<1>6. j \notin starts
  BY <1>3, <1>5
<1>7. request.first + j * request.size <= b
  BY <1>1, <1>5, <1>6
<1>8. (j + 1) * request.size = j * request.size + request.size /\ j * request.size \in Nat
  BY <1>1
<1>9. b < request.first + j * request.size + request.size
  BY <1>1, <1>3, <1>5, <1>8
<1>10. j <= j * request.size
  <2>1. PICK s \in Nat : request.size = s + 1
    <3>1. request.size - 1 \in Nat /\ request.size = (request.size - 1) + 1
      BY <1>1
    <3> QED
      BY <3>1
  <2>2. j * (s + 1) = j * s + j /\ j * s \in Nat
    OBVIOUS
  <2> QED
    BY <2>1, <2>2
<1>11. request.first + j * request.size \in Partitions /\ j \in 0 .. request.last
  BY <1>1, <1>7, <1>8, <1>10 DEF Partitions
<1> QED
  BY <1>7, <1>9, <1>11

LEMMA RangeIsPart ==
  ASSUME ExportTypeOK, NEW x \in Partitions, ByBlock
  PROVE  IsPart(RangeOf(x)) /\ RangeOf(x).dir = x
<1>1. x \in Nat /\ request.last \in Nat /\ request.size \in Nat
  BY PartitionBounds, RequestFields DEF ExportTypeOK
<1> DEFINE p == RangeOf(x)
<1>2. p \in [dir : Int, first : Int, last : Int] /\ p.dir = x
  BY <1>1 DEF RangeOf
<1> HIDE DEF p
<1>3. p = RangeOf(p.dir)
  BY <1>2 DEF p
<1>4. IsPart(p)
  BY <1>2, <1>3 DEF IsPart
<1> QED
  BY <1>2, <1>4 DEF p

(* The chain as far as the node has it. *)
LEMMA OfTheChain ==
  ASSUME ExportTypeOK, newest >= 1
  PROVE  /\ newest \in Nat /\ BlocksOfChain \subseteq Nat /\ 0 .. newest \subseteq BlocksOfChain
         /\ 0 \in BlocksOfChain /\ 1 \in BlocksOfChain /\ Chain[0].day = Chain[1].day
         /\ \A b \in BlocksOfChain : Chain[b].day \in Int
         /\ \A b, c \in BlocksOfChain : b <= c => Chain[b].day <= Chain[c].day
<1>1. newest \in BlocksOfChain
  BY DEF ExportTypeOK
<1>2. BlocksOfChain \subseteq Nat /\ 0 .. newest \subseteq BlocksOfChain
  BY <1>1, ExportAssumption DEF BlocksOfChain
<1>3. newest \in Nat
  BY <1>1, <1>2
<1>4. 0 \in 0 .. newest /\ 1 \in 0 .. newest
  BY <1>3
<1>5. 0 \in BlocksOfChain /\ 1 \in BlocksOfChain
  BY <1>2, <1>4
<1> QED
  BY <1>2, <1>3, <1>5, ExportAssumption DEF BlocksOfChain

(* The first lookup: the first block of the day, or genesis. *)
LEMMA FirstFound ==
  ASSUME ExportTypeOK, newest >= 1, NEW x \in Int
  PROVE  IsFirst(FirstOf(x), x)
<1>1. /\ newest \in Nat /\ BlocksOfChain \subseteq Nat /\ 0 .. newest \subseteq BlocksOfChain
      /\ 0 \in BlocksOfChain /\ 1 \in BlocksOfChain /\ Chain[0].day = Chain[1].day
      /\ \A b \in BlocksOfChain : Chain[b].day \in Int
      /\ \A b, c \in BlocksOfChain : b <= c => Chain[b].day <= Chain[c].day
  BY OfTheChain
<1>2. CASE Later(x) = {} \/ Min(Later(x)) = 1
  BY <1>1, <1>2 DEF FirstOf, IsFirst
<1>3. CASE ~(Later(x) = {} \/ Min(Later(x)) = 1)
  <2> DEFINE m == Min(Later(x))
  <2>1. Later(x) \in SUBSET Nat /\ Later(x) # {} /\ \A t \in Later(x) : t <= newest
    BY <1>1, <1>3 DEF Later
  <2>2. m \in Later(x) /\ \A t \in Later(x) : m <= t
    BY <1>1, <2>1, MinAndMax
  <2>3. FirstOf(x) = m /\ m # 1
    BY <1>3 DEF FirstOf
  <2> HIDE DEF m
  <2>4. m \in 1 .. newest /\ m \in BlocksOfChain /\ x <= Chain[m].day
    BY <1>1, <2>2 DEF Later
  <2>5. ~(x <= Chain[1].day)
    BY <1>1, <2>2, <2>3, <2>4 DEF Later
  <2>6. ASSUME NEW c \in BlocksOfChain PROVE m <= c <=> x <= Chain[c].day
    <3>1. CASE m <= c
      BY <1>1, <2>4, <3>1
    <3>2. CASE ~(m <= c)
      <4>1. c \in Nat /\ c < m /\ c <= newest
        BY <1>1, <2>4, <3>2
      <4>2. CASE c = 0
        BY <1>1, <2>5, <3>2, <4>1, <4>2
      <4>3. CASE c # 0
        BY <2>2, <4>1, <4>3, <1>1 DEF Later
      <4> QED
        BY <4>2, <4>3
    <3> QED
      BY <3>1, <3>2
  <2> QED
    BY <2>3, <2>4, <2>6 DEF IsFirst
<1> QED
  BY <1>2, <1>3

(* The second: it raises until the day is over, so it finds its last block. *)
LEMMA LastFound ==
  ASSUME ExportTypeOK, newest >= 1, NEW x \in Int, Covered(x)
  PROVE  IsLast(LastOf(x), x) /\ LastOf(x) \in Nat /\ LastOf(x) <= newest
<1>1. /\ newest \in Nat /\ BlocksOfChain \subseteq Nat /\ 0 .. newest \subseteq BlocksOfChain
      /\ 0 \in BlocksOfChain /\ 1 \in BlocksOfChain /\ Chain[0].day = Chain[1].day
      /\ \A b \in BlocksOfChain : Chain[b].day \in Int
      /\ \A b, c \in BlocksOfChain : b <= c => Chain[b].day <= Chain[c].day
  BY OfTheChain
<1>2. \A b, c \in BlocksOfChain : b < c /\ Chain[b].ends => Chain[b].day < Chain[c].day
  BY ExportAssumption DEF BlocksOfChain
<1> DEFINE D == {b \in 1 .. newest : Chain[b].day <= x}
           m == Max(D)
<1>3. Chain[1].day <= x /\ 1 \in D
  BY <1>1 DEF Covered
<1>4. D \in SUBSET Nat /\ D # {} /\ \A t \in D : t <= newest
  BY <1>1, <1>3
<1> HIDE DEF D
<1>5. m \in D /\ \A t \in D : m >= t
  BY <1>1, <1>4, MinAndMax
<1>6. LastOf(x) = m
  BY DEF LastOf, D
<1> HIDE DEF m
<1>7. m \in 1 .. newest /\ m \in BlocksOfChain /\ m \in Nat /\ m <= newest /\ Chain[m].day <= x
  BY <1>1, <1>5 DEF D
<1>8. ASSUME NEW c \in BlocksOfChain, c <= m PROVE Chain[c].day <= x
  <2>1. Chain[c].day <= Chain[m].day /\ Chain[c].day \in Int /\ Chain[m].day \in Int
    BY <1>1, <1>7, <1>8
  <2> QED
    BY <1>7, <2>1
<1>9. ASSUME NEW c \in BlocksOfChain, Chain[c].day <= x PROVE c <= m
  <2>1. c \in Nat
    BY <1>1
  <2>2. CASE c = 0
    BY <1>7, <2>2
  <2>3. CASE c # 0 /\ c <= newest
    BY <1>5, <1>9, <2>1, <2>3, <1>1 DEF D
  <2>4. CASE ~(c <= newest)
    <3>1. PICK b \in 1 .. newest : Chain[b].day > x \/ (Chain[b].day = x /\ Chain[b].ends)
      BY DEF Covered
    <3>2. b \in BlocksOfChain /\ b \in Nat /\ b <= c /\ b < c
      BY <1>1, <2>1, <2>4, <3>1
    <3>3. Chain[b].day <= Chain[c].day /\ Chain[b].day \in Int /\ Chain[c].day \in Int
      BY <1>1, <3>2
    <3>4. CASE Chain[b].day > x
      BY <1>9, <3>3, <3>4
    <3>5. CASE Chain[b].day = x /\ Chain[b].ends
      <4>1. Chain[b].day < Chain[c].day
        BY <1>2, <3>2, <3>5
      <4> QED
        BY <1>9, <3>3, <3>5, <4>1
    <3> QED
      BY <3>1, <3>4, <3>5
  <2> QED
    BY <2>2, <2>3, <2>4
<1> QED
  BY <1>6, <1>7, <1>8, <1>9 DEF IsLast

(* What the invariant is about is the same when the node has the same blocks. *)
LEMMA SameChain ==
  ASSUME UNCHANGED <<request, newest>>
  PROVE  /\ \A p : (IsPart(p)' <=> IsPart(p)) /\ BlocksIn(p)' = BlocksIn(p)
         /\ \A kind, p : Right(kind, p)' = Right(kind, p)
         /\ \A kind : Kept(kind)' <=> Kept(kind)
         /\ Partitions' = Partitions /\ JobFiles' = JobFiles
<1>1. Partitions' = Partitions
  BY DEF Partitions, ByBlock
<1>2. \A x : RangeOf(x)' = RangeOf(x)
  BY DEF RangeOf
<1>3. \A p : IsPart(p)' <=> IsPart(p)
  BY <1>1, <1>2 DEF IsPart, ByBlock, IsFirst, IsLast, BlocksOfChain
<1>4. \A p : BlocksIn(p)' = BlocksIn(p)
  BY DEF BlocksIn, BlocksOfChain
<1>5. \A kind, p : Right(kind, p)' = Right(kind, p)
  BY <1>4 DEF Right, Created, Moved
<1>6. JobFiles' = JobFiles /\ \A kind : Kept(kind)' <=> Kept(kind)
  BY DEF JobFiles, Kept
<1> QED
  BY <1>1, <1>3, <1>4, <1>5, <1>6

(* The order of the jobs: each reads what an earlier one has written. *)
Source == [kind \in FileKinds |->
             CASE kind = "hashes" -> "transactions" [] kind = "receipts" -> "hashes"
               [] kind = "addresses" -> "receipts" [] kind = "contracts" -> "addresses"
               [] kind = "token_addresses" -> "transfers" [] kind = "tokens" -> "token_addresses"
               [] OTHER -> "chain"]

LEMMA JobOrder ==
  ASSUME request \in Requests
  PROVE  /\ Len(JobFiles) \in {5, 8} /\ JobFiles[1] = "transactions"
         /\ \A i \in 1 .. Len(JobFiles) : JobFiles[i] \in FileKinds
         /\ \A i, j \in 1 .. Len(JobFiles) : JobFiles[i] = JobFiles[j] => i = j
         /\ \A i \in 1 .. Len(JobFiles) :
              Source[JobFiles[i]] # "chain" => \E j \in 1 .. i - 1 : JobFiles[j] = Source[JobFiles[i]]
         /\ \A kind \in FileKinds : Kept(kind) => \E i \in 1 .. Len(JobFiles) : JobFiles[i] = kind
<1>1. request.filters \in BOOLEAN
  BY RequestFields
<1>2. CASE request.filters
  <2>1. JobFiles = <<"transactions", "transfers", "hashes", "receipts", "addresses", "contracts",
                     "token_addresses", "tokens">>
    BY <1>2 DEF JobFiles
  <2> HIDE DEF JobFiles
  <2>2. /\ Len(JobFiles) = 8 /\ JobFiles[1] = "transactions" /\ JobFiles[2] = "transfers"
        /\ JobFiles[3] = "hashes" /\ JobFiles[4] = "receipts" /\ JobFiles[5] = "addresses"
        /\ JobFiles[6] = "contracts" /\ JobFiles[7] = "token_addresses" /\ JobFiles[8] = "tokens"
    BY <2>1
  <2>3. \A i \in 1 .. 8 : i \in {1, 2, 3, 4, 5, 6, 7, 8}
    OBVIOUS
  <2>4. \A i \in 1 .. 8 : JobFiles[i] \in FileKinds
    BY <2>2, <2>3 DEF FileKinds
  <2>5. \A i, j \in 1 .. 8 : JobFiles[i] = JobFiles[j] => i = j
    BY <2>2, <2>3
  <2>6. ASSUME NEW i \in 1 .. 8, Source[JobFiles[i]] # "chain"
        PROVE  \E j \in 1 .. i - 1 : JobFiles[j] = Source[JobFiles[i]]
    <3>1. CASE i \in {1, 2}
      BY <2>2, <2>6, <3>1 DEF Source, FileKinds
    <3>2. CASE i = 3
      <4>1. Source[JobFiles[i]] = JobFiles[1]
        BY <2>2, <3>2 DEF Source, FileKinds
      <4> QED
        BY <3>2, <4>1
    <3>3. CASE i = 4
      <4>1. Source[JobFiles[i]] = JobFiles[3]
        BY <2>2, <3>3 DEF Source, FileKinds
      <4> QED
        BY <3>3, <4>1
    <3>4. CASE i = 5
      <4>1. Source[JobFiles[i]] = JobFiles[4]
        BY <2>2, <3>4 DEF Source, FileKinds
      <4> QED
        BY <3>4, <4>1
    <3>5. CASE i = 6
      <4>1. Source[JobFiles[i]] = JobFiles[5]
        BY <2>2, <3>5 DEF Source, FileKinds
      <4> QED
        BY <3>5, <4>1
    <3>6. CASE i = 7
      <4>1. Source[JobFiles[i]] = JobFiles[2]
        BY <2>2, <3>6 DEF Source, FileKinds
      <4> QED
        BY <3>6, <4>1
    <3>7. CASE i = 8
      <4>1. Source[JobFiles[i]] = JobFiles[7]
        BY <2>2, <3>7 DEF Source, FileKinds
      <4> QED
        BY <3>7, <4>1
    <3> QED
      BY <2>3, <3>1, <3>2, <3>3, <3>4, <3>5, <3>6, <3>7
  <2>7. ASSUME NEW kind \in FileKinds, Kept(kind)
        PROVE  \E i \in 1 .. 8 : JobFiles[i] = kind
    <3>1. kind \in {JobFiles[1], JobFiles[4], JobFiles[6], JobFiles[8]}
      BY <2>2, <2>7 DEF Kept
    <3> QED
      BY <3>1
  <2> QED
    BY <2>2, <2>4, <2>5, <2>6, <2>7
<1>3. CASE ~request.filters
  <2>1. JobFiles = <<"transactions", "hashes", "receipts", "addresses", "contracts">>
    BY <1>3 DEF JobFiles
  <2> HIDE DEF JobFiles
  <2>2. /\ Len(JobFiles) = 5 /\ JobFiles[1] = "transactions" /\ JobFiles[2] = "hashes"
        /\ JobFiles[3] = "receipts" /\ JobFiles[4] = "addresses" /\ JobFiles[5] = "contracts"
    BY <2>1
  <2>3. \A i \in 1 .. 5 : i \in {1, 2, 3, 4, 5}
    OBVIOUS
  <2>4. \A i \in 1 .. 5 : JobFiles[i] \in FileKinds
    BY <2>2, <2>3 DEF FileKinds
  <2>5. \A i, j \in 1 .. 5 : JobFiles[i] = JobFiles[j] => i = j
    BY <2>2, <2>3
  <2>6. ASSUME NEW i \in 1 .. 5, Source[JobFiles[i]] # "chain"
        PROVE  \E j \in 1 .. i - 1 : JobFiles[j] = Source[JobFiles[i]]
    <3>1. CASE i = 1
      BY <2>2, <2>6, <3>1 DEF Source, FileKinds
    <3>2. CASE i > 1
      <4>1. Source[JobFiles[i]] = JobFiles[i - 1]
        BY <2>2, <2>3, <3>2 DEF Source, FileKinds
      <4> QED
        BY <3>2, <4>1
    <3> QED
      BY <3>1, <3>2
  <2>7. ASSUME NEW kind \in FileKinds, Kept(kind)
        PROVE  \E i \in 1 .. 5 : JobFiles[i] = kind
    <3>1. kind \in {JobFiles[1], JobFiles[3], JobFiles[5]}
      BY <1>3, <2>2, <2>7 DEF Kept
    <3> QED
      BY <3>1
  <2> QED
    BY <2>2, <2>4, <2>5, <2>6, <2>7
<1> QED
  BY <1>1, <1>2, <1>3

LEMMA FileFields ==
  ASSUME NEW kind \in FileKinds, NEW p \in [dir : Int, first : Int, last : Int]
  PROVE  /\ File(kind, p) \in [kind : FileKinds, dir : Int, first : Int, last : Int]
         /\ File(kind, p).kind = kind /\ File(kind, p).dir = p.dir /\ PartOf(File(kind, p)) = p
         /\ \A k \in FileKinds, q \in [dir : Int, first : Int, last : Int] :
              File(k, q) = File(kind, p) => k = kind /\ q = p
<1>1. PartOf(File(kind, p)) = p
  BY DEF File, PartOf
<1>2. ASSUME NEW k \in FileKinds, NEW q \in [dir : Int, first : Int, last : Int],
             File(k, q) = File(kind, p)
      PROVE  k = kind /\ q = p
  <2>1. PartOf(File(k, q)) = q
    BY DEF File, PartOf
  <2>2. File(k, q).kind = k /\ File(kind, p).kind = kind
    BY DEF File
  <2> QED
    BY <1>1, <1>2, <2>1, <2>2
<1> QED
  BY <1>1, <1>2 DEF File

LEMMA ExportInitOK == ExportInit => ExportInv
<1> SUFFICES ASSUME ExportInit
             PROVE  ExportInv
  OBVIOUS
<1>1. /\ eaPhase = "failed" /\ request \in Requests /\ newest \in BlocksOfChain /\ todo = {}
      /\ step = 0 /\ files = NoFiles /\ complete = {}
  BY DEF ExportInit
<1>2. DOMAIN files = {}
  BY <1>1 DEF NoFiles
<1>3. Len(JobFiles) \in Nat
  BY <1>1, JobOrder
<1>4. ExportTypeOK
  BY <1>1, <1>3 DEF ExportTypeOK
<1> QED
  BY <1>1, <1>2, <1>4 DEF ExportInv, FilesOK, CompleteOK, CurrentOK, DayLookedUp, RunOK

(* The chain grows: what was right of a partition that had all of its blocks is. *)
LEMMA MineOK ==
  ASSUME ExportInv, Mine
  PROVE  ExportInv'
<1>1. /\ newest' = newest + 1 /\ newest' \in BlocksOfChain
      /\ UNCHANGED <<eaPhase, request, todo, part, step, files, complete, torn>>
  BY DEF Mine
<1>2. newest \in Nat /\ newest \in BlocksOfChain /\ request \in Requests
  BY ExportAssumption DEF ExportInv, ExportTypeOK, BlocksOfChain
<1>3. Partitions' = Partitions /\ JobFiles' = JobFiles /\ (ByBlock' <=> ByBlock) /\ BlocksOfChain' = BlocksOfChain
  BY <1>1 DEF Partitions, JobFiles, ByBlock, BlocksOfChain
<1>4. /\ \A x : RangeOf(x)' = RangeOf(x)
      /\ \A b, day : (IsFirst(b, day)' <=> IsFirst(b, day)) /\ (IsLast(b, day)' <=> IsLast(b, day))
  BY <1>1 DEF RangeOf, IsFirst, IsLast, BlocksOfChain
<1>5. \A p : IsPart(p) => IsPart(p)'
  <2> SUFFICES ASSUME NEW p, IsPart(p)
               PROVE  IsPart(p)'
    OBVIOUS
  <2>1. CASE ByBlock
    BY <1>3, <1>4, <2>1 DEF IsPart
  <2>2. CASE ~ByBlock
    <3>1. p.last \in Int /\ p.last <= newest
      BY <2>2 DEF IsPart
    <3>2. p.last <= newest'
      BY <1>1, <1>2, <3>1
    <3> QED
      BY <1>3, <1>4, <2>2, <3>2 DEF IsPart
  <2> QED
    BY <2>1, <2>2
<1>6. ASSUME NEW p, IsPart(p)
      PROVE  BlocksIn(p) \subseteq BlocksIn(p)'
  BY <1>1, <1>2, ExportAssumption DEF BlocksIn, BlocksOfChain
<1>7. ASSUME NEW p, IsPart(p), p.last <= newest
      PROVE  p.last <= newest' /\ BlocksIn(p)' = BlocksIn(p) /\ \A kind : Right(kind, p)' = Right(kind, p)
  <2>1. p.last \in Int /\ BlocksOfChain \subseteq Nat
    BY <1>7, ExportAssumption DEF IsPart, BlocksOfChain
  <2>2. p.last <= newest' /\ BlocksIn(p)' = BlocksIn(p)
    <3>1. p.last <= newest' /\ \A b \in Nat : b <= p.last => b <= newest /\ b <= newest'
      BY <1>1, <1>2, <1>7, <2>1
    <3> QED
      BY <1>3, <2>1, <3>1 DEF BlocksIn
  <2> QED
    BY <2>2 DEF Right, Created, Moved
<1>8. ExportTypeOK'
  BY <1>1, <1>3 DEF ExportInv, ExportTypeOK
<1>9. FilesOK'
  <2>1. \A f \in DOMAIN files : f \in [kind : FileKinds, dir : Int, first : Int, last : Int] /\ IsPart(PartOf(f))
    BY DEF ExportInv, FilesOK
  <2>2. ASSUME NEW f \in DOMAIN files, f.kind = "transactions"
        PROVE  files[f] \subseteq BlocksIn(PartOf(f))'
    BY <1>6, <2>1, <2>2 DEF ExportInv, FilesOK
  <2>3. \A f : PartOf(f)' = PartOf(f)
    BY DEF PartOf
  <2> QED
    BY <1>1, <1>5, <2>1, <2>2, <2>3 DEF FilesOK
<1>10. \A kind, p : IsPart(p) /\ p.last <= newest /\ IsRight(kind, p) => IsRight(kind, p)'
  BY <1>1, <1>7 DEF IsRight, File
<1>11. \A kind : Kept(kind)' <=> Kept(kind)
  BY <1>1 DEF Kept
<1>12. CompleteOK'
  BY <1>1, <1>5, <1>7, <1>10, <1>11 DEF ExportInv, CompleteOK
<1>13. CurrentOK'
  <2> SUFFICES ASSUME eaPhase = "jobs"
               PROVE  /\ IsPart(part)' /\ part.dir \notin todo /\ part \notin complete
                      /\ step > 0 => part.last <= newest'
                      /\ Whole(part) => \A i \in 1 .. step : IsRight(JobFiles[i], part)'
    BY <1>1, <1>3 DEF CurrentOK, Whole
  <2>1. /\ IsPart(part) /\ part.dir \notin todo /\ part \notin complete
        /\ step > 0 => part.last <= newest
        /\ Whole(part) => \A i \in 1 .. step : IsRight(JobFiles[i], part)
    BY DEF ExportInv, CurrentOK
  <2>2. PICK p : p = part
    OBVIOUS
  <2>3. IsPart(part)'
    <3>1. IsPart(p)'
      BY <1>5, <2>1, <2>2
    <3> QED
      BY <1>1, <2>2, <3>1 DEF IsPart
  <2>4. step > 0 => part.last <= newest'
    BY <1>7, <2>1
  <2>5. ASSUME Whole(part), NEW i \in 1 .. step
        PROVE  IsRight(JobFiles[i], part)'
    <3>1. step > 0
      BY DEF ExportInv, ExportTypeOK
    <3>2. PICK kind : kind = JobFiles[i]
      OBVIOUS
    <3>3. IsRight(kind, p)'
      BY <1>10, <2>1, <2>2, <2>5, <3>1, <3>2
    <3> QED
      BY <1>1, <1>3, <2>2, <3>2, <3>3 DEF IsRight
  <2> QED
    BY <2>1, <2>3, <2>4, <2>5
<1>14. RunOK'
  BY <1>1, <1>3 DEF ExportInv, RunOK, Behind, Torn
<1>15. DayLookedUp'
  <2> SUFFICES ASSUME eaPhase = "lookup"
               PROVE  /\ ~ByBlock /\ newest' >= 1 /\ step = 0 /\ part \in [dir : Int, first : Int, last : Int]
                      /\ part.dir \in Partitions /\ part.dir \notin todo /\ IsFirst(part.first, part.dir)
    BY <1>1, <1>3 DEF DayLookedUp, IsFirst
  <2>1. newest' >= 1
    BY <1>1, <1>2 DEF ExportInv, DayLookedUp
  <2> QED
    BY <2>1 DEF ExportInv, DayLookedUp
<1> QED
  BY <1>8, <1>9, <1>12, <1>13, <1>14, <1>15 DEF ExportInv

(* The steps that leave the files and the finished partitions alone. *)
LEMMA SameFiles ==
  ASSUME ExportInv, UNCHANGED <<request, newest, files>>, complete' \subseteq complete
  PROVE  FilesOK' /\ CompleteOK' /\ \A kind, p : IsRight(kind, p)' <=> IsRight(kind, p)
<1>1. \A kind, p : IsRight(kind, p)' <=> IsRight(kind, p)
  BY SameChain DEF IsRight, File
<1>2. FilesOK'
  BY SameChain DEF ExportInv, FilesOK, PartOf
<1>3. CompleteOK'
  BY SameChain, <1>1 DEF ExportInv, CompleteOK
<1> QED
  BY <1>1, <1>2, <1>3

LEMMA RunFinishKilledOK ==
  ASSUME ExportInv, Run \/ Finish \/ Killed \/ LookupRaises
  PROVE  ExportInv'
<1>1. UNCHANGED <<request, newest, files, complete>>
  BY DEF Run, Finish, Killed, LookupRaises
<1>2. FilesOK' /\ CompleteOK'
  BY <1>1, SameFiles
<1>3. Len(JobFiles) \in Nat /\ Partitions' = Partitions /\ JobFiles' = JobFiles
  BY <1>1, JobOrder, SameChain DEF ExportInv, ExportTypeOK
<1>4. CASE Run
  <2>1. eaPhase' = "next" /\ todo' = Partitions /\ step' = 0
    BY <1>4 DEF Run
  <2>2. ExportTypeOK'
    BY <1>1, <1>3, <2>1 DEF ExportInv, ExportTypeOK
  <2>3. RunOK'
    BY <1>1, <1>3, <2>1 DEF RunOK, Behind
  <2> QED
    BY <1>2, <2>1, <2>2, <2>3 DEF ExportInv, CurrentOK, DayLookedUp
<1>5. CASE Finish
  <2>1. eaPhase = "next" /\ eaPhase' = "finished" /\ todo = {} /\ UNCHANGED <<todo, part, step, torn>>
    BY <1>5 DEF Finish
  <2>2. ExportTypeOK'
    BY <1>1, <1>3, <2>1 DEF ExportInv, ExportTypeOK
  <2>3. RunOK'
    BY <1>1, <1>3, <2>1 DEF ExportInv, RunOK, Behind, Torn
  <2> QED
    BY <1>2, <2>1, <2>2, <2>3 DEF ExportInv, CurrentOK, DayLookedUp
<1>6. CASE Killed \/ LookupRaises
  <2>1. eaPhase' = "failed" /\ UNCHANGED <<todo, part, step>>
    BY <1>6 DEF Killed, LookupRaises
  <2>2. ExportTypeOK'
    BY <1>1, <1>3, <2>1 DEF ExportInv, ExportTypeOK
  <2> QED
    BY <1>2, <2>1, <2>2 DEF ExportInv, CurrentOK, DayLookedUp, RunOK
<1> QED
  BY <1>4, <1>5, <1>6

(* The next partition is begun: it is not behind the run any more. *)
LEMMA BeginOK ==
  ASSUME ExportInv, eaPhase = "next", UNCHANGED <<request, newest, files, torn>>,
         NEW x \in todo, todo' = todo \ {x}, step' = 0, part'.dir = x, complete' = complete \ {part'},
         eaPhase' \in {"lookup", "jobs"}
  PROVE  /\ ExportTypeOK' /\ FilesOK' /\ CompleteOK' /\ RunOK'
         /\ x \in Partitions /\ Partitions' = Partitions /\ JobFiles' = JobFiles
<1>1. FilesOK' /\ CompleteOK'
  BY SameFiles
<1>2. Len(JobFiles) \in Nat /\ Partitions' = Partitions /\ JobFiles' = JobFiles /\ x \in Partitions
  BY JobOrder, SameChain DEF ExportInv, ExportTypeOK
<1>3. ExportTypeOK'
  BY <1>2 DEF ExportInv, ExportTypeOK
<1>4. ASSUME NEW z \in Partitions, Behind(z)'
      PROVE  Behind(z) /\ z # x
  BY <1>2, <1>4 DEF Behind
<1>5. ASSUME NEW z \in Partitions, Behind(z)'
      PROVE  Torn(z)' \/ \E p \in complete' : p.dir = z
  <2>1. Torn(z) \/ \E p \in complete : p.dir = z
    BY <1>4, <1>5 DEF ExportInv, RunOK
  <2>2. CASE Torn(z)
    BY <2>2 DEF Torn
  <2>3. ASSUME NEW p \in complete, p.dir = z
        PROVE  p \in complete'
    <3>1. p # part'
      BY <1>4, <1>5, <2>3
    <3> QED
      BY <3>1
  <2> QED
    BY <2>1, <2>2, <2>3
<1>6. ASSUME NEW f \in DOMAIN files, f.kind \in Temporary, Behind(f.dir)'
      PROVE  FALSE
  <2>1. f.dir \in Partitions
    BY <1>2, <1>6 DEF Behind
  <2> QED
    BY <1>4, <1>6, <2>1 DEF ExportInv, RunOK
<1>7. RunOK'
  BY <1>2, <1>5, <1>6 DEF RunOK, Temporary
<1> QED
  BY <1>1, <1>2, <1>3, <1>7

LEMMA NextBatchOK ==
  ASSUME ExportInv, NextBatch
  PROVE  ExportInv'
<1>1. PICK x \in todo : Take(x) /\ part' = RangeOf(x)
  BY DEF NextBatch
<1>2. /\ eaPhase = "next" /\ todo' = todo \ {x} /\ step' = 0 /\ eaPhase' = "jobs"
      /\ complete' = complete \ {part'} /\ UNCHANGED <<request, newest, files, torn>> /\ ByBlock
  BY <1>1 DEF NextBatch, Take
<1>3. IsPart(part') /\ part'.dir = x
  BY <1>1, <1>2, RangeIsPart DEF ExportInv, ExportTypeOK
<1>4. /\ ExportTypeOK' /\ FilesOK' /\ CompleteOK' /\ RunOK'
  BY <1>2, <1>3, BeginOK
<1>5. CurrentOK'
  <2>1. PICK p : p = part'
    OBVIOUS
  <2>2. IsPart(p)'
    BY <1>2, <1>3, <2>1, SameChain
  <2>3. IsPart(part)'
    BY <2>1, <2>2 DEF IsPart
  <2> QED
    BY <1>2, <1>3, <2>3 DEF CurrentOK
<1> QED
  BY <1>2, <1>4, <1>5 DEF ExportInv, DayLookedUp

LEMMA LookupStartOK ==
  ASSUME ExportInv, LookupStart
  PROVE  ExportInv'
<1>1. PICK x \in todo : Take(x) /\ part' = [dir |-> x, first |-> FirstOf(x), last |-> -1]
  BY DEF LookupStart
<1>2. /\ eaPhase = "next" /\ todo' = todo \ {x} /\ step' = 0 /\ ~ByBlock
      /\ eaPhase' = IF newest >= 1 THEN "lookup" ELSE "failed"
      /\ UNCHANGED <<request, newest, files, complete, torn>>
  BY <1>1 DEF LookupStart, Take
<1>3. x \in Partitions /\ x \in Nat /\ Len(JobFiles) \in Nat /\ Partitions' = Partitions /\ JobFiles' = JobFiles
  BY <1>2, PartitionBounds, JobOrder, SameChain DEF ExportInv, ExportTypeOK
<1>4. CASE newest >= 1
  <2>1. IsFirst(FirstOf(x), x)
    BY <1>3, <1>4, FirstFound DEF ExportInv
  <2>2. FirstOf(x) \in Nat
    BY <2>1, ExportAssumption DEF IsFirst, BlocksOfChain
  <2>3. /\ part' \in [dir : Int, first : Int, last : Int] /\ part'.dir = x
        /\ part'.first = FirstOf(x) /\ part'.last = -1
    BY <1>1, <1>3, <2>2
  <2>4. part' \notin complete
    <3> SUFFICES ASSUME part' \in complete PROVE FALSE
      OBVIOUS
    <3>1. IsLast(part'.last, x)
      BY <1>2, <2>3 DEF ExportInv, CompleteOK, IsPart
    <3> QED
      BY <2>3, <3>1, ExportAssumption DEF IsLast, BlocksOfChain
  <2>5. /\ ExportTypeOK' /\ FilesOK' /\ CompleteOK' /\ RunOK'
    <3>1. complete' = complete \ {part'} /\ eaPhase' = "lookup"
      BY <1>2, <1>4, <2>4
    <3> QED
      BY <1>2, <2>3, <3>1, BeginOK
  <2>6. DayLookedUp'
    <3>1. PICK b : b = FirstOf(x)
      OBVIOUS
    <3>2. IsFirst(b, x)'
      BY <2>1, <3>1 DEF IsFirst, BlocksOfChain
    <3>3. IsFirst(part.first, part.dir)'
      BY <2>3, <3>1, <3>2 DEF IsFirst
    <3>4. ByBlock' <=> ByBlock
      BY <1>2 DEF ByBlock
    <3> QED
      BY <1>2, <1>3, <1>4, <2>3, <3>3, <3>4 DEF DayLookedUp
  <2> QED
    BY <1>2, <1>4, <2>5, <2>6 DEF ExportInv, CurrentOK
<1>5. CASE ~(newest >= 1)
  <2>1. eaPhase' = "failed"
    BY <1>2, <1>5
  <2>2. FilesOK' /\ CompleteOK'
    BY <1>2, SameFiles
  <2>3. ExportTypeOK'
    BY <1>2, <1>3, <2>1 DEF ExportInv, ExportTypeOK
  <2> QED
    BY <2>1, <2>2, <2>3 DEF ExportInv, CurrentOK, DayLookedUp, RunOK
<1> QED
  BY <1>4, <1>5

LEMMA LookupEndOK ==
  ASSUME ExportInv, LookupEnd
  PROVE  ExportInv'
<1>1. /\ eaPhase = "lookup" /\ Covered(part.dir) /\ part' = [part EXCEPT !.last = LastOf(part.dir)]
      /\ eaPhase' = "jobs" /\ complete' = complete \ {part'}
      /\ UNCHANGED <<request, newest, todo, step, files, torn>>
  BY DEF LookupEnd
<1>2. /\ ~ByBlock /\ newest >= 1 /\ step = 0 /\ part \in [dir : Int, first : Int, last : Int]
      /\ part.dir \in Partitions /\ part.dir \notin todo /\ IsFirst(part.first, part.dir)
  BY <1>1 DEF ExportInv, DayLookedUp
<1>3. IsLast(LastOf(part.dir), part.dir) /\ LastOf(part.dir) \in Nat /\ LastOf(part.dir) <= newest
  BY <1>1, <1>2, LastFound DEF ExportInv
<1>4. /\ part' \in [dir : Int, first : Int, last : Int] /\ part'.dir = part.dir
      /\ part'.first = part.first /\ part'.last = LastOf(part.dir)
  BY <1>1, <1>2, <1>3
<1>5. FilesOK' /\ CompleteOK'
  BY <1>1, SameFiles
<1>6. Partitions' = Partitions /\ JobFiles' = JobFiles
  BY <1>1, SameChain
<1>7. ExportTypeOK'
  BY <1>1, <1>6 DEF ExportInv, ExportTypeOK
<1>8. CurrentOK'
  <2>1. IsPart(part')
    BY <1>2, <1>3, <1>4 DEF IsPart
  <2>2. PICK p : p = part'
    OBVIOUS
  <2>3. IsPart(p)'
    BY <1>1, <2>1, <2>2, SameChain
  <2>4. IsPart(part)'
    BY <2>2, <2>3 DEF IsPart
  <2> QED
    BY <1>1, <1>2, <1>4, <2>4 DEF CurrentOK
<1>9. RunOK'
  <2>1. \A x : Behind(x)' <=> Behind(x)
    BY <1>1, <1>4, <1>6 DEF Behind
  <2>2. ASSUME NEW x \in Partitions, Behind(x)
        PROVE  Torn(x)' \/ \E p \in complete' : p.dir = x
    <3>1. Torn(x) \/ \E p \in complete : p.dir = x
      BY <1>1, <2>2 DEF ExportInv, RunOK
    <3>2. x # part'.dir
      BY <1>1, <1>4, <2>2 DEF Behind
    <3> QED
      BY <1>1, <3>1, <3>2 DEF Torn
  <2>3. \A f \in DOMAIN files : f.kind \in Temporary => ~Behind(f.dir)
    BY <1>1 DEF ExportInv, RunOK
  <2> QED
    BY <1>1, <1>6, <2>1, <2>2, <2>3 DEF RunOK, Temporary
<1> QED
  BY <1>1, <1>5, <1>7, <1>8, <1>9 DEF ExportInv, DayLookedUp

(* A job that runs to its end writes what it should: the files it reads, which *)
(* an earlier job of this run has written, are right, if none was torn.        *)
LEMMA WrittenIsRight ==
  ASSUME ExportInv, eaPhase = "jobs", step < Len(JobFiles), Whole(part)
  PROVE  Written(JobFiles[step + 1]) = Right(JobFiles[step + 1], part)
<1> DEFINE kind == JobFiles[step + 1]
<1>1. request \in Requests /\ step \in Nat /\ Len(JobFiles) \in Nat
  BY JobOrder DEF ExportInv, ExportTypeOK
<1>2. kind \in FileKinds
  BY <1>1, JobOrder
<1>3. ASSUME Source[kind] # "chain"
      PROVE  Read(Source[kind]) = Right(Source[kind], part)
  <2>1. PICK j \in 1 .. step : JobFiles[j] = Source[kind]
    <3>1. \E j \in 1 .. (step + 1) - 1 : JobFiles[j] = Source[kind]
      BY <1>1, <1>3, JobOrder
    <3>2. (step + 1) - 1 = step
      BY <1>1
    <3> QED
      BY <3>1, <3>2
  <2>2. IsRight(JobFiles[j], part)
    BY DEF ExportInv, CurrentOK
  <2> QED
    BY <2>1, <2>2 DEF IsRight, Read
<1> SUFFICES Written(kind) = Right(kind, part)
  OBVIOUS
<1> HIDE DEF kind
<1>4. CASE kind = "transactions"
  BY <1>4 DEF Written, Right
<1>5. CASE kind = "transfers"
  BY <1>5 DEF Written, Right
<1>6. CASE kind = "hashes"
  <2>1. Source[kind] = "transactions"
    BY <1>6 DEF Source, FileKinds
  <2>2. Written(kind) = Read("transactions")
    BY <1>6 DEF Written
  <2>3. Right(kind, part) = BlocksIn(part) /\ Right("transactions", part) = BlocksIn(part)
    BY <1>6 DEF Right
  <2> QED
    BY <1>3, <2>1, <2>2, <2>3
<1>7. CASE kind = "receipts"
  <2>1. Source[kind] = "hashes"
    BY <1>7 DEF Source, FileKinds
  <2>2. Written(kind) = Read("hashes")
    BY <1>7 DEF Written
  <2>3. Right(kind, part) = BlocksIn(part) /\ Right("hashes", part) = BlocksIn(part)
    BY <1>7 DEF Right
  <2> QED
    BY <1>3, <2>1, <2>2, <2>3
<1>8. CASE kind = "addresses"
  <2>1. Source[kind] = "receipts"
    BY <1>8 DEF Source, FileKinds
  <2>2. Written(kind) = UNION {Chain[b].creates : b \in Read("receipts")}
    BY <1>8 DEF Written
  <2>3. Right(kind, part) = Created(part) /\ Right("receipts", part) = BlocksIn(part)
    BY <1>8 DEF Right
  <2> QED
    BY <1>3, <2>1, <2>2, <2>3 DEF Created
<1>9. CASE kind = "contracts"
  <2>1. Source[kind] = "addresses"
    BY <1>9 DEF Source, FileKinds
  <2>2. Written(kind) = Read("addresses")
    BY <1>9 DEF Written
  <2>3. Right(kind, part) = Created(part) /\ Right("addresses", part) = Created(part)
    BY <1>9 DEF Right
  <2> QED
    BY <1>3, <2>1, <2>2, <2>3
<1>10. CASE kind = "token_addresses"
  <2>1. Source[kind] = "transfers"
    BY <1>10 DEF Source, FileKinds
  <2>2. Written(kind) = UNION {Chain[b].tokens : b \in Read("transfers")}
    BY <1>10 DEF Written
  <2>3. Right(kind, part) = Moved(part)
    BY <1>10 DEF Right
  <2>4. Right("transfers", part) = {b \in BlocksIn(part) : Chain[b].tokens # {}}
    BY DEF Right
  <2>5. UNION {Chain[b].tokens : b \in {c \in BlocksIn(part) : Chain[c].tokens # {}}} = Moved(part)
    BY DEF Moved
  <2> QED
    BY <1>3, <2>1, <2>2, <2>3, <2>4, <2>5
<1>11. CASE kind = "tokens"
  <2>1. Source[kind] = "token_addresses"
    BY <1>11 DEF Source, FileKinds
  <2>2. Written(kind) = Read("token_addresses")
    BY <1>11 DEF Written
  <2>3. Right(kind, part) = Moved(part) /\ Right("token_addresses", part) = Moved(part)
    BY <1>11 DEF Right
  <2> QED
    BY <1>3, <2>1, <2>2, <2>3
<1> QED
  BY <1>2, <1>4, <1>5, <1>6, <1>7, <1>8, <1>9, <1>10, <1>11 DEF FileKinds

(* A write to a file of the partition being exported touches no other file. *)
LEMMA WriteOK ==
  ASSUME ExportInv, eaPhase = "jobs", step < Len(JobFiles), NEW what \in SUBSET Written(JobFiles[step + 1]),
         Write(JobFiles[step + 1], what), UNCHANGED <<request, newest, complete>>
  PROVE  /\ FilesOK' /\ CompleteOK'
         /\ DOMAIN files' = DOMAIN files \cup {File(JobFiles[step + 1], part)}
         /\ files'[File(JobFiles[step + 1], part)] = what
         /\ \A i \in 1 .. step : IsRight(JobFiles[i], part) =>
              /\ File(JobFiles[i], part) \in DOMAIN files'
              /\ files'[File(JobFiles[i], part)] = Right(JobFiles[i], part)
<1> DEFINE kind == JobFiles[step + 1]
<1>1. /\ request \in Requests /\ step \in Nat /\ Len(JobFiles) \in Nat /\ step + 1 \in 1 .. Len(JobFiles)
      /\ IsPart(part) /\ part \notin complete
  BY JobOrder DEF ExportInv, ExportTypeOK, CurrentOK
<1>2. kind \in FileKinds /\ part \in [dir : Int, first : Int, last : Int]
  BY <1>1, JobOrder DEF IsPart
<1>3. kind = "transactions" => what \subseteq BlocksIn(part)
  BY DEF Written
<1>4. \A i \in 1 .. step : JobFiles[i] \in FileKinds /\ JobFiles[i] # kind
  BY <1>1, JobOrder
<1> HIDE DEF kind
<1>5. files' = [f \in DOMAIN files \cup {File(kind, part)} |-> IF f = File(kind, part) THEN what ELSE files[f]]
  BY DEF Write, kind
<1>6. /\ DOMAIN files' = DOMAIN files \cup {File(kind, part)} /\ files'[File(kind, part)] = what
      /\ \A f \in DOMAIN files : f # File(kind, part) => files'[f] = files[f]
  BY <1>5
<1>7. FilesOK'
  <2> SUFFICES ASSUME NEW f \in DOMAIN files'
               PROVE  /\ f \in [kind : FileKinds, dir : Int, first : Int, last : Int] /\ IsPart(PartOf(f))
                      /\ f.kind = "transactions" => files'[f] \subseteq BlocksIn(PartOf(f))
    BY SameChain DEF FilesOK, PartOf
  <2>1. CASE f = File(kind, part)
    <3>1. /\ f \in [kind : FileKinds, dir : Int, first : Int, last : Int]
          /\ PartOf(f) = part /\ f.kind = kind
      BY <1>2, <2>1, FileFields
    <3> QED
      BY <1>1, <1>3, <1>6, <2>1, <3>1
  <2>2. CASE f # File(kind, part)
    <3>1. f \in DOMAIN files /\ files'[f] = files[f]
      BY <1>6, <2>2
    <3> QED
      BY <3>1 DEF ExportInv, FilesOK
  <2> QED
    BY <2>1, <2>2
<1>8. CompleteOK'
  <2>0. /\ newest' = newest /\ complete' = complete
        /\ \A p : IsPart(p)' <=> IsPart(p)
        /\ \A k : Kept(k)' <=> Kept(k)
    BY SameChain
  <2> SUFFICES ASSUME NEW p \in complete
               PROVE  IsPart(p) /\ p.last <= newest /\ \A k \in FileKinds : Kept(k) => IsRight(k, p)'
    BY <2>0 DEF CompleteOK, FileKinds
  <2> SUFFICES ASSUME NEW k \in FileKinds, Kept(k)
               PROVE  IsRight(k, p)'
    BY DEF ExportInv, CompleteOK
  <2>1. IsPart(p) /\ p.last <= newest /\ IsRight(k, p)
    BY DEF ExportInv, CompleteOK
  <2>2. p # part /\ p \in [dir : Int, first : Int, last : Int]
    BY <1>1, <2>1 DEF IsPart
  <2>3. File(k, p) # File(kind, part)
    BY <1>2, <2>2, FileFields
  <2>4. File(k, p) \in DOMAIN files' /\ files'[File(k, p)] = Right(k, p)
    BY <1>6, <2>1, <2>3 DEF IsRight
  <2>5. IsRight(k, p)'
    BY <2>4, SameChain DEF IsRight, File
  <2> QED
    BY <2>1, <2>5
<1>9. ASSUME NEW i \in 1 .. step, IsRight(JobFiles[i], part)
      PROVE  /\ File(JobFiles[i], part) \in DOMAIN files'
             /\ files'[File(JobFiles[i], part)] = Right(JobFiles[i], part)
  <2>1. File(JobFiles[i], part) # File(kind, part)
    BY <1>2, <1>4, FileFields
  <2> QED
    BY <1>6, <1>9, <2>1 DEF IsRight
<1> QED
  BY <1>6, <1>7, <1>8, <1>9 DEF kind

LEMMA WritingKeepsRun ==
  ASSUME ExportInv, eaPhase = "jobs", eaPhase' = "jobs", UNCHANGED <<todo, part, complete>>,
         torn \subseteq torn', Partitions' = Partitions,
         NEW kind, DOMAIN files' = DOMAIN files \cup {File(kind, part)}
  PROVE  RunOK'
<1>1. \A x : (Behind(x)' <=> Behind(x)) /\ (Torn(x) => Torn(x)')
  BY DEF Behind, Torn
<1>2. File(kind, part).dir = part.dir /\ ~Behind(part.dir)
  BY DEF File, Behind
<1>3. /\ \A x \in Partitions : Behind(x) => Torn(x) \/ \E p \in complete : p.dir = x
      /\ \A f \in DOMAIN files : f.kind \in Temporary => ~Behind(f.dir)
  BY DEF ExportInv, RunOK
<1>4. \A f \in DOMAIN files' : f.kind \in Temporary => ~Behind(f.dir)
  BY <1>2, <1>3
<1> QED
  BY <1>1, <1>3, <1>4 DEF RunOK, Temporary

LEMMA JobOK ==
  ASSUME ExportInv, Job
  PROVE  ExportInv'
<1> DEFINE kind == JobFiles[step + 1]
           what == Written(kind)
<1>1. /\ eaPhase = "jobs" /\ eaPhase' = "jobs" /\ step < Len(JobFiles) /\ step' = step + 1
      /\ kind \in {"transactions", "transfers"} => part.last <= newest
      /\ Write(kind, what) /\ UNCHANGED <<request, newest, todo, part, complete, torn>>
  BY DEF Job
<1>2. request \in Requests /\ step \in Nat /\ Len(JobFiles) \in Nat /\ JobFiles[1] = "transactions"
  BY JobOrder DEF ExportInv, ExportTypeOK
<1>3. /\ FilesOK' /\ CompleteOK'
      /\ DOMAIN files' = DOMAIN files \cup {File(kind, part)} /\ files'[File(kind, part)] = what
      /\ \A i \in 1 .. step : IsRight(JobFiles[i], part) =>
           /\ File(JobFiles[i], part) \in DOMAIN files'
           /\ files'[File(JobFiles[i], part)] = Right(JobFiles[i], part)
  BY <1>1, WriteOK
<1>4. Whole(part) => what = Right(kind, part)
  BY <1>1, WrittenIsRight
<1>5. Partitions' = Partitions /\ JobFiles' = JobFiles
  BY <1>1, SameChain
<1>6. ExportTypeOK'
  BY <1>1, <1>2, <1>5 DEF ExportInv, ExportTypeOK
<1>7. /\ IsPart(part) /\ part.dir \notin todo /\ part \notin complete
      /\ step > 0 => part.last <= newest
      /\ Whole(part) => \A i \in 1 .. step : IsRight(JobFiles[i], part)
  BY <1>1 DEF ExportInv, CurrentOK
<1>8. CurrentOK'
  <2>1. part.last <= newest
    BY <1>1, <1>2, <1>7
  <2>2. ASSUME Whole(part), NEW i \in 1 .. step + 1
        PROVE  IsRight(JobFiles[i], part)'
    <3>1. /\ File(JobFiles[i], part) \in DOMAIN files'
          /\ files'[File(JobFiles[i], part)] = Right(JobFiles[i], part)
      <4>1. CASE i = step + 1
        BY <1>3, <1>4, <2>2, <4>1
      <4>2. CASE i # step + 1
        <5>1. i \in 1 .. step
          BY <1>2, <4>2
        <5> QED
          BY <1>3, <1>7, <2>2, <5>1
      <4> QED
        BY <4>1, <4>2
    <3>2. PICK k, p : k = JobFiles[i] /\ p = part
      OBVIOUS
    <3>3. Right(k, p)' = Right(k, p)
      BY <1>1, SameChain
    <3>4. IsRight(k, p)'
      BY <3>1, <3>2, <3>3 DEF IsRight, File
    <3> QED
      BY <1>1, <1>5, <3>2, <3>4 DEF IsRight
  <2>3. IsPart(part)'
    <3>1. PICK p : p = part
      OBVIOUS
    <3>2. IsPart(p)'
      BY <1>1, <1>7, <3>1, SameChain
    <3> QED
      BY <1>1, <3>1, <3>2 DEF IsPart
  <2> QED
    BY <1>1, <1>5, <1>7, <2>1, <2>2, <2>3 DEF CurrentOK, Whole
<1>9. RunOK'
  BY <1>1, <1>3, <1>5, WritingKeepsRun
<1> QED
  BY <1>1, <1>3, <1>6, <1>8, <1>9 DEF ExportInv, DayLookedUp

(* The same, of a job whose file lost its end: the partition is torn. *)
LEMMA JobTruncatesOK ==
  ASSUME ExportInv, JobTruncates
  PROVE  ExportInv'
<1> DEFINE kind == JobFiles[step + 1]
<1>1. /\ eaPhase = "jobs" /\ eaPhase' = "jobs" /\ step < Len(JobFiles) /\ step' = step + 1
      /\ kind \in {"transactions", "transfers"} => part.last <= newest
      /\ torn' = torn \cup {File(kind, part)}
      /\ UNCHANGED <<request, newest, todo, part, complete>>
  BY DEF JobTruncates
<1>2. PICK what \in SUBSET Written(kind) : Write(kind, what)
  BY DEF JobTruncates
<1>3. FilesOK' /\ CompleteOK' /\ DOMAIN files' = DOMAIN files \cup {File(kind, part)}
  BY <1>1, <1>2, WriteOK
<1>4. /\ request \in Requests /\ step \in Nat /\ Len(JobFiles) \in Nat /\ JobFiles[1] = "transactions"
      /\ Partitions' = Partitions /\ JobFiles' = JobFiles
  BY <1>1, JobOrder, SameChain DEF ExportInv, ExportTypeOK
<1>5. ExportTypeOK'
  BY <1>1, <1>4 DEF ExportInv, ExportTypeOK
<1>6. /\ IsPart(part) /\ part.dir \notin todo /\ part \notin complete
      /\ step > 0 => part.last <= newest
  BY <1>1 DEF ExportInv, CurrentOK
<1>7. ~Whole(part)'
  <2>1. File(kind, part).dir = part.dir
    BY DEF File
  <2>2. File(kind, part) \in torn' /\ part' = part
    BY <1>1
  <2> HIDE DEF kind
  <2> QED
    BY <2>1, <2>2 DEF Whole
<1>8. IsPart(part)'
  <2>1. PICK p : p = part
    OBVIOUS
  <2>2. IsPart(p)'
    BY <1>1, <1>6, <2>1, SameChain
  <2> QED
    BY <1>1, <2>1, <2>2 DEF IsPart
<1>9. part.last <= newest
  BY <1>1, <1>4, <1>6
<1>10. CurrentOK'
  BY <1>1, <1>6, <1>7, <1>8, <1>9 DEF CurrentOK
<1>11. RunOK'
  BY <1>1, <1>3, <1>4, WritingKeepsRun
<1> QED
  BY <1>1, <1>3, <1>5, <1>10, <1>11 DEF ExportInv, DayLookedUp

LEMMA JobStopsOK ==
  ASSUME ExportInv, JobStops
  PROVE  ExportInv'
<1>1. PICK what \in SUBSET Written(JobFiles[step + 1]) : Write(JobFiles[step + 1], what)
  BY DEF JobStops
<1>2. /\ eaPhase = "jobs" /\ eaPhase' = "failed" /\ step < Len(JobFiles)
      /\ UNCHANGED <<request, newest, todo, part, step, complete>>
  BY DEF JobStops
<1>3. FilesOK' /\ CompleteOK'
  BY <1>1, <1>2, WriteOK
<1>4. ExportTypeOK'
  <2>1. Partitions' = Partitions /\ JobFiles' = JobFiles
    BY <1>2, SameChain
  <2> QED
    BY <1>2, <2>1 DEF ExportInv, ExportTypeOK
<1> QED
  BY <1>2, <1>3, <1>4 DEF ExportInv, CurrentOK, DayLookedUp, RunOK

(* The end of a partition: everything it keeps was written by its jobs. *)
LEMMA CleanOK ==
  ASSUME ExportInv, Clean
  PROVE  ExportInv'
<1>1. /\ eaPhase = "jobs" /\ eaPhase' = "next" /\ step = Len(JobFiles)
      /\ complete' = complete \cup {p \in {part} : Whole(p)}
      /\ UNCHANGED <<request, newest, todo, part, step, torn>>
  BY DEF Clean
<1>2. files' = [f \in {g \in DOMAIN files : g.dir # part.dir \/ g.kind \notin Temporary} |-> files[f]]
  BY DEF Clean
<1>3. /\ DOMAIN files' = {g \in DOMAIN files : g.dir # part.dir \/ g.kind \notin Temporary}
      /\ \A f \in DOMAIN files' : files'[f] = files[f]
  BY <1>2
<1>4. request \in Requests /\ Len(JobFiles) \in {5, 8}
  BY JobOrder DEF ExportInv, ExportTypeOK
<1>5. /\ Partitions' = Partitions /\ JobFiles' = JobFiles /\ \A p : IsPart(p)' <=> IsPart(p)
      /\ \A kind, p : Right(kind, p)' = Right(kind, p) /\ \A k : Kept(k)' <=> Kept(k)
      /\ \A p : BlocksIn(p)' = BlocksIn(p)
  BY <1>1, SameChain
<1>6. /\ IsPart(part) /\ part.last <= newest
      /\ Whole(part) => \A i \in 1 .. Len(JobFiles) : IsRight(JobFiles[i], part)
  BY <1>1, <1>4 DEF ExportInv, CurrentOK
<1>7. ExportTypeOK'
  BY <1>1, <1>5 DEF ExportInv, ExportTypeOK
<1>8. FilesOK'
  <2>1. \A f : PartOf(f)' = PartOf(f)
    BY DEF PartOf
  <2> QED
    BY <1>3, <1>5, <2>1 DEF ExportInv, FilesOK
<1>9. CompleteOK'
  <2> SUFFICES ASSUME NEW p \in complete'
               PROVE  IsPart(p) /\ p.last <= newest /\ \A k \in FileKinds : Kept(k) => IsRight(k, p)'
    BY <1>1, <1>5 DEF CompleteOK, FileKinds
  <2>1. IsPart(p) /\ p.last <= newest
    BY <1>1, <1>6 DEF ExportInv, CompleteOK
  <2> SUFFICES ASSUME NEW k \in FileKinds, Kept(k)
               PROVE  IsRight(k, p)'
    BY <2>1
  <2>2. IsRight(k, p)
    <3>1. CASE p \in complete
      BY <3>1 DEF ExportInv, CompleteOK
    <3>2. CASE p = part /\ Whole(part)
      <4>1. PICK i \in 1 .. Len(JobFiles) : JobFiles[i] = k
        BY <1>4, JobOrder
      <4> QED
        BY <1>6, <3>2, <4>1
    <3> QED
      BY <1>1, <3>1, <3>2
  <2>3. k \notin Temporary
    BY DEF Kept, Temporary
  <2>4. File(k, p).kind = k
    BY DEF File
  <2>5. File(k, p) \in DOMAIN files' /\ files'[File(k, p)] = Right(k, p)
    BY <1>3, <2>2, <2>3, <2>4 DEF IsRight
  <2> QED
    BY <1>5, <2>5 DEF IsRight, File
<1>10. RunOK'
  <2>1. ASSUME NEW x, Behind(x)'
        PROVE  x \in Partitions \ todo /\ (x # part.dir => Behind(x))
    BY <1>1, <1>5, <2>1 DEF Behind
  <2>2. ASSUME NEW x \in Partitions, Behind(x)'
        PROVE  Torn(x)' \/ \E p \in complete' : p.dir = x
    <3>1. CASE x = part.dir
      BY <1>1, <3>1 DEF Torn, Whole
    <3>2. CASE x # part.dir
      <4>1. Torn(x) \/ \E p \in complete : p.dir = x
        BY <1>1, <2>1, <2>2, <3>2 DEF ExportInv, RunOK
      <4> QED
        BY <1>1, <4>1 DEF Torn
    <3> QED
      BY <3>1, <3>2
  <2>3. ASSUME NEW f \in DOMAIN files', f.kind \in Temporary, Behind(f.dir)'
        PROVE  FALSE
    <3>1. f \in DOMAIN files /\ f.dir # part.dir
      BY <1>3, <2>3
    <3>2. Behind(f.dir)
      BY <2>1, <2>3, <3>1
    <3> QED
      BY <1>1, <2>3, <3>1, <3>2 DEF ExportInv, RunOK
  <2> QED
    BY <1>1, <1>5, <2>2, <2>3 DEF RunOK, Temporary
<1> QED
  BY <1>7, <1>8, <1>9, <1>10, <1>1 DEF ExportInv, CurrentOK, DayLookedUp

LEMMA ExportNextOK == ExportInv /\ [ExportNext]_exportVars => ExportInv'
<1> SUFFICES ASSUME ExportInv, [ExportNext]_exportVars
             PROVE  ExportInv'
  OBVIOUS
<1>1. CASE UNCHANGED exportVars
  <2>1. UNCHANGED <<eaPhase, request, newest, todo, part, step, files, complete, torn>>
    BY <1>1 DEF exportVars
  <2>2. FilesOK' /\ CompleteOK' /\ JobFiles' = JobFiles /\ Partitions' = Partitions
    BY <2>1, SameFiles, SameChain
  <2>3. ExportTypeOK' /\ RunOK'
    BY <2>1, <2>2 DEF ExportInv, ExportTypeOK, RunOK, Behind, Torn
  <2>4. CurrentOK'
    BY <2>1, <2>2 DEF ExportInv, CurrentOK, IsPart, IsRight, File, Right, BlocksIn, Created, Moved,
       BlocksOfChain, Partitions, ByBlock, RangeOf, IsFirst, IsLast, Whole
  <2>5. DayLookedUp'
    BY <2>1, <2>2 DEF ExportInv, DayLookedUp, IsFirst, BlocksOfChain, ByBlock
  <2> QED
    BY <2>2, <2>3, <2>4, <2>5 DEF ExportInv
<1> QED
  BY <1>1, MineOK, RunFinishKilledOK, NextBatchOK, LookupStartOK, LookupEndOK, JobOK, JobTruncatesOK,
     JobStopsOK, CleanOK DEF ExportNext

LEMMA ExportInvariant == ExportSpec => []ExportInv
  BY ExportInitOK, ExportNextOK, PTL DEF ExportSpec

(* However often runs of export_all stopped in the middle of a file, for any   *)
(* chain, any request and any number of runs: a partition that reached its end *)
(* holds all of its blocks, contracts and tokens and no others, unless the     *)
(* close of one of its files swallowed an error.                               *)
THEOREM PartitionsCompleteTheorem == ExportSpec => []PartitionsComplete
<1>1. ExportInv => PartitionsComplete
  <2> SUFFICES ASSUME ExportInv, NEW p \in complete
               PROVE  /\ files[File("transactions", p)] = BlocksIn(p)
                      /\ files[File("receipts", p)] = BlocksIn(p)
                      /\ files[File("contracts", p)] = Created(p)
                      /\ request.filters => files[File("tokens", p)] = Moved(p)
    BY DEF PartitionsComplete, Created, Moved
  <2>1. \A kind \in FileKinds : Kept(kind) => files[File(kind, p)] = Right(kind, p)
    BY DEF ExportInv, CompleteOK, IsRight
  <2>2. /\ {"transactions", "receipts", "contracts", "tokens"} \subseteq FileKinds
        /\ Kept("transactions") /\ Kept("receipts") /\ Kept("contracts")
        /\ request.filters => Kept("tokens")
    BY DEF FileKinds, Kept
  <2>3. /\ Right("transactions", p) = BlocksIn(p) /\ Right("receipts", p) = BlocksIn(p)
        /\ Right("contracts", p) = Created(p) /\ Right("tokens", p) = Moved(p)
    BY DEF Right
  <2> QED
    BY <2>1, <2>2, <2>3
<1> QED
  BY <1>1, ExportInvariant, PTL

LEMMA BlocksOnDisk ==
  ASSUME ExportInv, eaPhase = "finished", torn = {}, NEW b \in BlocksOfChain,
         (IF ByBlock THEN b ELSE Chain[b].day) \in request.first .. request.last
  PROVE  \E f \in Files("transactions") : b \in files[f]
<1>1. request \in Requests /\ todo = {} /\ b \in Nat /\ newest \in Nat
  BY ExportAssumption DEF ExportInv, ExportTypeOK, BlocksOfChain
<1>2. \A x \in Partitions : \E p \in complete : p.dir = x
  BY <1>1 DEF ExportInv, RunOK, Behind, Torn
<1>3. ASSUME NEW p \in complete
      PROVE  /\ IsPart(p) /\ p.last <= newest
             /\ File("transactions", p) \in Files("transactions")
             /\ files[File("transactions", p)] = BlocksIn(p)
  <2>1. IsPart(p) /\ p.last <= newest /\ IsRight("transactions", p)
    BY DEF ExportInv, CompleteOK, Kept, FileKinds
  <2>2. File("transactions", p).kind = "transactions"
    BY DEF File
  <2>3. Right("transactions", p) = BlocksIn(p)
    BY DEF Right
  <2> QED
    BY <2>1, <2>2, <2>3 DEF IsRight, Files
<1>4. CASE ByBlock
  <2>1. PICK x \in Partitions : x <= b /\ b < x + request.size
    BY <1>1, <1>4, BatchOf
  <2>2. PICK p \in complete : p.dir = x
    BY <1>2
  <2>3. p = RangeOf(x) /\ p.last <= newest
    BY <1>3, <1>4, <2>2 DEF IsPart
  <2>4. x \in Nat /\ request.size \in Nat /\ request.last \in Nat /\ b <= request.last
    BY <1>1, <1>4, PartitionBounds, RequestFields
  <2>5. p.first = x /\ p.last \in Nat /\ b <= p.last
    BY <1>1, <1>4, <2>1, <2>3, <2>4 DEF RangeOf
  <2>6. b \in BlocksIn(p)
    BY <1>1, <2>1, <2>3, <2>5 DEF BlocksIn
  <2> QED
    BY <1>3, <2>6
<1>5. CASE ~ByBlock
  <2>1. Chain[b].day \in Partitions
    BY <1>5 DEF Partitions
  <2>2. PICK p \in complete : p.dir = Chain[b].day
    BY <1>2, <2>1
  <2>3. IsFirst(p.first, p.dir) /\ IsLast(p.last, p.dir) /\ p.last <= newest
    BY <1>3, <1>5 DEF IsPart
  <2>4. Chain[b].day \in Int /\ Chain[b].day <= Chain[b].day
    BY ExportAssumption DEF BlocksOfChain
  <2>5. p.first <= b /\ b <= p.last
    BY <1>1, <2>2, <2>3, <2>4 DEF IsFirst, IsLast
  <2>6. p.last \in Nat /\ b <= newest
    BY <1>1, <2>3, <2>5, ExportAssumption DEF IsLast, BlocksOfChain
  <2>7. b \in BlocksIn(p)
    BY <2>5, <2>6 DEF BlocksIn
  <2> QED
    BY <1>3, <2>7
<1> QED
  BY <1>4, <1>5

LEMMA FilesApart ==
  ASSUME ExportInv, NEW f \in Files("transactions"), NEW g \in Files("transactions"),
         f # g, NEW b \in files[f] \cap files[g]
  PROVE  Early(f) \/ Early(g)
<1>1. request \in Requests /\ BlocksOfChain \subseteq Nat
  BY ExportAssumption DEF ExportInv, ExportTypeOK, BlocksOfChain
<1>2. ASSUME NEW h \in Files("transactions"), b \in files[h]
      PROVE  /\ h \in [kind : FileKinds, dir : Int, first : Int, last : Int]
             /\ IsPart(PartOf(h)) /\ h.kind = "transactions"
             /\ b \in BlocksOfChain /\ h.first <= b /\ b <= h.last
  <2>1. /\ h \in [kind : FileKinds, dir : Int, first : Int, last : Int]
        /\ IsPart(PartOf(h)) /\ b \in BlocksIn(PartOf(h)) /\ h.kind = "transactions"
    BY <1>2 DEF ExportInv, FilesOK, Files
  <2>2. PartOf(h).first = h.first /\ PartOf(h).last = h.last
    BY DEF PartOf
  <2> QED
    BY <2>1, <2>2 DEF BlocksIn
<1>3. ASSUME f.dir = g.dir, f.first = g.first, f.last = g.last
      PROVE  FALSE
  <2>1. f.kind = g.kind
    BY <1>2
  <2> QED
    BY <1>2, <1>3, <2>1
<1>4. ASSUME NEW h \in {f, g}
      PROVE  PartOf(h).dir = h.dir /\ PartOf(h).first = h.first /\ PartOf(h).last = h.last
  BY DEF PartOf
<1>5. b \in Nat
  BY <1>1, <1>2
<1>6. CASE ByBlock
  <2>1. ASSUME NEW h \in {f, g}
        PROVE  h.dir \in Partitions /\ h.first = h.dir /\ h.last = RangeOf(h.dir).last /\ h.dir \in Nat
    <3>1. PartOf(h) = RangeOf(h.dir) /\ h.dir \in Partitions
      BY <1>2, <1>4, <1>6 DEF IsPart
    <3>2. RangeOf(h.dir).first = h.dir
      BY <1>6 DEF RangeOf
    <3>3. PartOf(h).first = h.first /\ PartOf(h).last = h.last
      BY <1>4
    <3>4. h.dir \in Nat
      BY <1>1, <3>1, PartitionBounds
    <3> QED
      BY <3>1, <3>2, <3>3, <3>4
  <2>2. f.dir # g.dir
    BY <1>3, <2>1
  <2>3. ASSUME NEW h \in {f, g}
        PROVE  b < h.dir + request.size /\ h.dir <= b
    <3>1. RangeOf(h.dir).last <= h.dir + request.size - 1
      <4>1. request.size \in Nat /\ request.last \in Nat /\ h.dir \in Nat
        BY <1>1, <2>1, RequestFields
      <4> QED
        BY <1>6, <4>1 DEF RangeOf
    <3>2. h.first <= b /\ b <= h.last /\ h.last \in Int
      BY <1>2
    <3>3. request.size \in Nat /\ h.dir \in Nat
      BY <1>1, <2>1, RequestFields
    <3> QED
      BY <1>5, <2>1, <3>1, <3>2, <3>3
  <2>4. CASE f.dir < g.dir
    <3>1. f.dir + request.size <= g.dir
      BY <1>1, <1>6, <2>1, <2>4, BatchesApart
    <3>2. request.size \in Nat /\ f.dir \in Nat /\ g.dir \in Nat
      BY <1>1, <2>1, RequestFields
    <3> QED
      BY <1>5, <2>3, <3>1, <3>2
  <2>5. CASE g.dir < f.dir
    <3>1. g.dir + request.size <= f.dir
      BY <1>1, <1>6, <2>1, <2>5, BatchesApart
    <3>2. request.size \in Nat /\ f.dir \in Nat /\ g.dir \in Nat
      BY <1>1, <2>1, RequestFields
    <3> QED
      BY <1>5, <2>3, <3>1, <3>2
  <2>6. f.dir \in Nat /\ g.dir \in Nat
    BY <2>1
  <2> QED
    BY <2>2, <2>4, <2>5, <2>6
<1>7. CASE ~ByBlock
  <2> SUFFICES ASSUME ~Early(f), ~Early(g)
               PROVE  FALSE
    OBVIOUS
  <2>1. ASSUME NEW h \in {f, g}
        PROVE  IsFirst(h.first, h.dir) /\ IsLast(h.last, h.dir) /\ h.dir \in Int /\ ~Early(h)
    BY <1>2, <1>4, <1>7 DEF IsPart
  <2>2. \A c \in BlocksOfChain : Chain[c].day \in Int
    BY ExportAssumption DEF BlocksOfChain
  <2>3. ASSUME NEW h \in {f, g}
        PROVE  h.dir = Chain[b].day
    <3>1. b \in BlocksOfChain /\ h.first <= b /\ b <= h.last
      BY <1>2
    <3>2. Chain[b].day <= h.dir
      BY <2>1, <3>1 DEF IsLast
    <3>3. h.dir <= Chain[b].day
      <4>1. CASE h.first = 0
        <5>1. Chain[0].day = h.dir /\ 0 \in BlocksOfChain
          BY <1>7, <2>1, <4>1 DEF Early, IsFirst
        <5>2. Chain[0].day <= Chain[b].day
          BY <1>5, <3>1, <5>1, ExportAssumption DEF BlocksOfChain
        <5> QED
          BY <5>1, <5>2
      <4>2. CASE h.first # 0
        BY <2>1, <3>1, <4>2 DEF IsFirst
      <4> QED
        BY <4>1, <4>2
    <3> QED
      BY <2>1, <2>2, <3>1, <3>2, <3>3
  <2>4. ASSUME NEW h \in {f, g}, NEW i \in {f, g}
        PROVE  h.first <= i.first /\ h.last <= i.last
    <3>1. h.dir = i.dir /\ h.first \in Nat /\ i.first \in Nat /\ i.last \in BlocksOfChain /\ i.first \in BlocksOfChain
      BY <1>1, <2>1, <2>3 DEF IsFirst, IsLast
    <3>2. h.last \in BlocksOfChain /\ h.last \in Nat /\ i.last \in Nat
      BY <1>1, <2>1, <3>1 DEF IsLast
    <3>3. h.last <= i.last
      <4>1. Chain[h.last].day <= h.dir
        BY <2>1, <3>2 DEF IsLast
      <4> QED
        BY <2>1, <3>1, <3>2, <4>1 DEF IsLast
    <3>4. h.first <= i.first
      <4>1. CASE h.first = 0
        BY <3>1, <4>1
      <4>2. CASE h.first # 0
        <5>1. i.dir <= Chain[i.first].day
          <6>1. CASE i.first = 0
            BY <1>7, <2>1, <3>1, <6>1 DEF Early, IsFirst
          <6>2. CASE i.first # 0
            BY <2>1, <3>1, <6>2 DEF IsFirst
          <6> QED
            BY <6>1, <6>2
        <5> QED
          BY <2>1, <3>1, <4>2, <5>1 DEF IsFirst
      <4> QED
        BY <4>1, <4>2
    <3> QED
      BY <3>3, <3>4
  <2>5. f.first \in Nat /\ g.first \in Nat /\ f.last \in Nat /\ g.last \in Nat
    BY <1>1, <2>1 DEF IsFirst, IsLast
  <2>6. f.first = g.first /\ f.last = g.last
    BY <2>4, <2>5
  <2> QED
    BY <1>3, <2>3, <2>6
<1> QED
  BY <1>6, <1>7

(* After a run of export_all that finished, whatever runs stopped before it:   *)
(* each block is in a file, if no close swallowed an error, and in one only,   *)
(* but for days whose first block came between the two lookups of a run, which *)
(* then begins at genesis; and nothing temporary is left.                      *)
THEOREM DiskIsCleanTheorem == ExportSpec => []DiskIsClean
<1>1. ExportInv => EachBlockOnce
  BY BlocksOnDisk, FilesApart DEF EachBlockOnce
<1>2. ExportInv => NothingTemporary
  <2> SUFFICES ASSUME ExportInv, eaPhase = "finished", NEW f \in DOMAIN files, f.kind \in Temporary
               PROVE  FALSE
    BY DEF NothingTemporary
  <2>1. todo = {} /\ IsPart(PartOf(f)) /\ PartOf(f).dir = f.dir
    BY DEF ExportInv, ExportTypeOK, FilesOK, PartOf
  <2>2. Behind(f.dir)
    BY <2>1 DEF IsPart, Behind
  <2> QED
    BY <2>2 DEF ExportInv, RunOK
<1>3. ExportInv => DiskIsClean
  BY <1>1, <1>2 DEF DiskIsClean
<1> QED
  BY <1>3, ExportInvariant, PTL
=============================================================================
