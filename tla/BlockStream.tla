----------------------------- MODULE BlockStream -----------------------------
(***************************************************************************)
(* What the streaming command promises its sink, without files, crashes or *)
(* retries: a resumable stream of block numbers.  The stream begins once,  *)
(* at `origin'.  Blocks above the durable mark may be delivered any number *)
(* of times, at most Window of them ahead of the mark, and the mark moves  *)
(* only over blocks that have been delivered.  Module Streamer implements  *)
(* this specification.                                                     *)
(***************************************************************************)
EXTENDS Integers

CONSTANTS Window,   (* how far delivery may run ahead of the mark *)
          Unset     (* origin and mark before the stream begins; not an integer *)

VARIABLES origin, mark, delivered
streamVars == <<origin, mark, delivered>>

StreamInit == /\ origin = Unset
              /\ mark = Unset
              /\ delivered = {}

(* The stream begins: nothing is owed below its first block. *)
Begin == /\ origin = Unset
         /\ origin' \in Nat
         /\ mark' = origin' - 1
         /\ UNCHANGED delivered

(* Blocks mark+1 .. n reach the sink; some of them may have done so before. *)
Deliver == /\ mark # Unset
           /\ \E n \in mark .. mark + Window :
                delivered' = delivered \cup (mark + 1 .. n)
           /\ UNCHANGED <<origin, mark>>

(* The mark advances, over delivered blocks only. *)
Commit == /\ mark # Unset
          /\ mark' \in Int
          /\ mark' > mark
          /\ mark + 1 .. mark' \subseteq delivered
          /\ UNCHANGED <<origin, delivered>>

StreamNext == Begin \/ Deliver \/ Commit

StreamSpec == StreamInit /\ [][StreamNext]_streamVars
==============================================================================
