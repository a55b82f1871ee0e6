---------------------------- MODULE IFASIProofs ----------------------------
(***************************************************************************)
(* Proofs about IFASI: eviction never changes what a streaming query sees,  *)
(* for any window, gap and clean-up interval and any order of transactions, *)
(* and the transaction that closes a 2-cycle or a ring of three sees it if  *)
(* it is not later than the window allows for.                              *)
(***************************************************************************)
EXTENDS IFASI, TLAPS

(* The index holds every edge of the window, and no edge that was never      *)
(* inserted; no edge is newer than current_time.                             *)
Unevicted == /\ outE \subseteq all /\ inE \subseteq all
             /\ \A e \in all : /\ e.t <= now
                               /\ e.t >= now - Window => e \in outE /\ e \in inE

IInv == IndexTypeOK /\ Unevicted /\ latest \subseteq all

LEMMA InitIInv == IndexInit => IInv
BY IFASIAssumption DEF IndexInit, IInv, IndexTypeOK, Unevicted, Times

LEMMA NextIInv == IInv /\ [IndexNext]_index => IInv'
<1> SUFFICES ASSUME IInv, [IndexNext]_index PROVE IInv'
  OBVIOUS
<1> USE IFASIAssumption DEF Times
<1>1. ASSUME NEW e \in Edge, InsertEdge(e) PROVE IInv'
  <2>1. /\ e.t \in 0 .. MaxTime /\ now' \in 0 .. MaxTime
        /\ e.t <= now' /\ now <= now'
    BY <1>1 DEF InsertEdge, Newer, Edge, IInv, IndexTypeOK
  <2>2. IndexTypeOK'
    <3>1. outE' \in SUBSET Edge /\ inE' \in SUBSET Edge
      BY <1>1 DEF InsertEdge, Unexpired, IInv, IndexTypeOK
    <3>2. count' \in 0 .. MaxEdges
      BY <1>1 DEF InsertEdge, IInv, IndexTypeOK
    <3>3. all' \in SUBSET Edge /\ latest' \in SUBSET Edge
      BY <1>1 DEF InsertEdge, IInv, IndexTypeOK
    <3> QED BY <2>1, <3>1, <3>2, <3>3 DEF IndexTypeOK
  <2>3. Unevicted'
    <3>1. /\ all' = all \cup {e}
          /\ \/ outE' = Unexpired(outE \cup {e}, now') /\ inE' = Unexpired(inE \cup {e}, now')
             \/ outE' = outE \cup {e} /\ inE' = inE \cup {e}
      BY <1>1 DEF InsertEdge
    <3>2. outE' \subseteq all' /\ inE' \subseteq all'
      BY <3>1 DEF Unexpired, IInv, Unevicted
    <3>3. ASSUME NEW f \in all' PROVE f.t \in Int /\ f.t <= now'
      BY <2>1, <3>1, <3>3 DEF IInv, Unevicted, IndexTypeOK, Edge
    <3>4. ASSUME NEW f \in all', f.t >= now' - Window PROVE f \in outE' /\ f \in inE'
      <4>1. f.t >= now - Window \/ f = e
        BY <2>1, <3>1, <3>3, <3>4 DEF IInv, IndexTypeOK
      <4>2. f \in outE \cup {e} /\ f \in inE \cup {e}
        BY <3>1, <4>1 DEF IInv, Unevicted
      <4> QED BY <3>1, <3>4, <4>2 DEF Unexpired
    <3> QED BY <3>2, <3>3, <3>4 DEF Unevicted
  <2>4. latest' \subseteq all'
    BY <1>1 DEF InsertEdge
  <2> QED BY <2>2, <2>3, <2>4 DEF IInv
<1>2. CASE UNCHANGED index
  BY <1>2 DEF index, IInv, IndexTypeOK, Unevicted
<1> QED BY <1>1, <1>2 DEF IndexNext

THEOREM Invariant == IndexSpec => []IInv
BY InitIInv, NextIInv, PTL DEF IndexSpec

(* The index keeps its types. *)
THEOREM TypeCorrect == IndexSpec => []IndexTypeOK
BY Invariant, PTL DEF IInv

-----------------------------------------------------------------------------
(* A set of edges O that has the edges of A from time lo on answers queries  *)
(* that look back no further than lo as A does.                              *)
LEMMA QueriesAgree ==
  ASSUME NEW A, \A e \in A : e.t \in Int,
         NEW O \in SUBSET A,
         NEW lo \in Int, \A e \in A : e.t >= lo => e \in O,
         NEW n, NEW ref \in Int, ref - LookBack >= lo
  PROVE  /\ Cycles2(O, n, ref) = Cycles2(A, n, ref)
         /\ Cycles3(O, n, ref) = Cycles3(A, n, ref)
         /\ FanOut(O, n, ref) = FanOut(A, n, ref)
         /\ FanIn(O, n, ref) = FanIn(A, n, ref)
         /\ BurstOut(O, n, ref) = BurstOut(A, n, ref)
         /\ BurstIn(O, n, ref) = BurstIn(A, n, ref)
<1>1. /\ Gap \in Int /\ BurstWindow \in Int
      /\ LookBack \in Int /\ Gap <= LookBack /\ BurstWindow <= LookBack
  BY IFASIAssumption DEF LookBack, Newer
<1>2. ASSUME NEW e \in A, Near(ref, e.t, Gap) \/ Near(ref, e.t, BurstWindow)
      PROVE  e \in O
  <2>1. e.t \in Int
    OBVIOUS
  <2>2. e.t >= lo
    BY <1>1, <1>2, <2>1 DEF Near
  <2> QED BY <2>2
<1>3. ASSUME NEW e \in A, NEW f \in A, Near(ref, e.t, Gap), f.t > e.t
      PROVE  f \in O
  <2>1. e.t \in Int /\ f.t \in Int
    OBVIOUS
  <2>2. f.t >= lo
    BY <1>1, <1>3, <2>1 DEF Near
  <2> QED BY <2>2
<1>4. Cycles2(O, n, ref) = Cycles2(A, n, ref)
  <2>1. ASSUME NEW p \in A \X A, Near(ref, p[1].t, Gap), p[2].t > p[1].t
        PROVE  p \in O \X O
    <3>1. p[1] \in A /\ p[2] \in A /\ p = <<p[1], p[2]>>
      OBVIOUS
    <3>2. p[1] \in O
      BY <1>2, <2>1, <3>1
    <3>3. p[2] \in O
      BY <1>3, <2>1, <3>1
    <3> QED BY <3>1, <3>2, <3>3
  <2>2. O \X O \subseteq A \X A
    OBVIOUS
  <2> QED BY <2>1, <2>2, Zenon DEF Cycles2
<1>5. Cycles3(O, n, ref) = Cycles3(A, n, ref)
  <2>1. ASSUME NEW p \in A \X A \X A, Near(ref, p[1].t, Gap),
               p[2].t > p[1].t, p[3].t > p[2].t
        PROVE  p \in O \X O \X O
    <3>1. p[1] \in A /\ p[2] \in A /\ p[3] \in A /\ p = <<p[1], p[2], p[3]>>
      OBVIOUS
    <3>2. p[1] \in O
      BY <1>2, <2>1, <3>1
    <3>3. p[2] \in O
      BY <1>3, <2>1, <3>1
    <3>4. p[3].t > p[1].t
      <4>1. p[1].t \in Int /\ p[2].t \in Int /\ p[3].t \in Int
        BY <3>1
      <4> QED BY <2>1, <4>1
    <3>5. p[3] \in O
      BY <1>3, <2>1, <3>1, <3>4
    <3> QED BY <3>1, <3>2, <3>3, <3>5
  <2>2. O \X O \X O \subseteq A \X A \X A
    OBVIOUS
  <2> QED BY <2>1, <2>2, Zenon DEF Cycles3
<1>6. FanOut(O, n, ref) = FanOut(A, n, ref) /\ FanIn(O, n, ref) = FanIn(A, n, ref)
  BY <1>2, Zenon DEF FanOut, FanIn
<1>7. BurstOut(O, n, ref) = BurstOut(A, n, ref) /\ BurstIn(O, n, ref) = BurstIn(A, n, ref)
  BY <1>2 DEF BurstOut, BurstIn
<1> QED BY <1>4, <1>5, <1>6, <1>7

(* Eviction is invisible to every query whose reach ends inside the window of *)
(* the newest transaction.                                                    *)
LEMMA IInvTransparent == IInv => EvictionTransparent
<1> SUFFICES ASSUME IInv, NEW n \in Nodes, NEW ref \in Times,
                    ref >= now - (Window - LookBack)
             PROVE  Features(outE, inE, n, ref) = Features(all, all, n, ref)
  BY DEF EvictionTransparent
<1> DEFINE lo == now - Window
<1>1. /\ lo \in Int /\ ref \in Int /\ LookBack \in Int /\ Window \in Int /\ now \in Int
      /\ \A e \in all : e.t \in Int
  BY IFASIAssumption DEF IInv, IndexTypeOK, Times, Edge, LookBack, Newer
<1>2. ref - LookBack >= lo
  BY <1>1
<1>3. outE \in SUBSET all /\ \A e \in all : e.t >= lo => e \in outE
  BY DEF IInv, Unevicted
<1>4. inE \in SUBSET all /\ \A e \in all : e.t >= lo => e \in inE
  BY DEF IInv, Unevicted
<1> HIDE DEF lo
<1>5. /\ Cycles2(outE, n, ref) = Cycles2(all, n, ref)
      /\ Cycles3(outE, n, ref) = Cycles3(all, n, ref)
      /\ FanOut(outE, n, ref) = FanOut(all, n, ref)
      /\ BurstOut(outE, n, ref) = BurstOut(all, n, ref)
  BY <1>1, <1>2, <1>3, QueriesAgree
<1>6. /\ FanIn(inE, n, ref) = FanIn(all, n, ref)
      /\ BurstIn(inE, n, ref) = BurstIn(all, n, ref)
  BY <1>1, <1>2, <1>4, QueriesAgree, SMTT(30)
<1> QED BY <1>5, <1>6 DEF Features

(* Streaming queries never notice the clean-up. *)
THEOREM EvictionTransparentTheorem == IndexSpec => []EvictionTransparent
BY Invariant, IInvTransparent, PTL

-----------------------------------------------------------------------------
(* The transaction that closes a transfer there and back within Gap sees it. *)
LEMMA IInvSeesCycle2 ==
  ASSUME IInv
  PROVE  Cycle2SeenWhenClosed
<1> SUFFICES ASSUME NEW e \in latest, NEW f \in all, InTime(e), f.src = e.dst, f.dst = e.src,
                    f.t < e.t, e.t - f.t <= Gap
             PROVE  <<f, e>> \in Cycles2(outE, e.dst, e.t)
  BY DEF Cycle2SeenWhenClosed
<1>1. /\ e \in all /\ now \in Int
      /\ e.t \in Int /\ f.t \in Int /\ Gap \in Nat /\ Window \in Nat
  BY IFASIAssumption DEF IInv, IndexTypeOK, Edge, Times
<1>2. e \in outE /\ f \in outE
  BY <1>1 DEF IInv, Unevicted, InTime
<1>3. Near(e.t, f.t, Gap)
  BY <1>1 DEF Near
<1> QED BY <1>2, <1>3 DEF Cycles2

(* The transaction that closes a ring of three within Gap sees it. *)
LEMMA IInvSeesCycle3 ==
  ASSUME IInv
  PROVE  Cycle3SeenWhenClosed
<1> SUFFICES ASSUME NEW e \in latest, NEW f \in all, NEW g \in all,
                    InTime(e), ClosesRing(f, g, e, Gap)
             PROVE  <<f, g, e>> \in Cycles3(outE, e.dst, e.t)
  BY DEF Cycle3SeenWhenClosed
<1>1. /\ e \in all /\ now \in Int
      /\ e.t \in Int /\ f.t \in Int /\ g.t \in Int /\ Gap \in Nat /\ Window \in Nat
  BY IFASIAssumption DEF IInv, IndexTypeOK, Edge, Times
<1>2. f.t < g.t /\ g.t < e.t /\ e.t - f.t <= Gap
  BY DEF ClosesRing
<1>3. e \in outE /\ f \in outE /\ g \in outE
  BY <1>1, <1>2 DEF IInv, Unevicted, InTime
<1>4. /\ Near(e.t, f.t, Gap) /\ g.t > f.t /\ g.t - f.t <= Gap
      /\ e.t > g.t /\ e.t - f.t <= 2 * Gap
  BY <1>1, <1>2 DEF Near
<1>5. f.src = e.dst /\ g.src = f.dst /\ g.dst = e.src /\ g.dst # e.dst
  BY DEF ClosesRing
<1> QED BY <1>3, <1>4, <1>5 DEF Cycles3

(* No ring of two or three closed within Gap goes unseen, for any gap, window *)
(* and order of arrival.                                                      *)
THEOREM CyclesSeenTheorem == IndexSpec => []CyclesSeenWhenClosed
<1>1. IInv => CyclesSeenWhenClosed
  BY IInvSeesCycle2, IInvSeesCycle3 DEF CyclesSeenWhenClosed
<1> QED BY <1>1, Invariant, PTL
=============================================================================
