-------------------------- MODULE DeliveredWindow --------------------------
(***************************************************************************)
(* r8-redundant's `DeliveredWindow`: the identities of the latest          *)
(* deliveries in an array that is indexed by the delivery id modulo the    *)
(* window size.                                                            *)
(*                                                                         *)
(* The window is the record [high, prints]; `high` is 0 while              *)
(* `high_water` is None (a delivery id is never 0).  The code keeps a bit  *)
(* and a fingerprint for each index and sets and clears them together, so  *)
(* `prints` holds NoPrint where the bit is zero.  A fingerprint is the     *)
(* identity of the delivered bytes.                                        *)
(***************************************************************************)
EXTENDS Integers

CONSTANTS
  DELIVERED_WINDOW_IDS,   \* identities kept (4096)
  DELIVERY_GAP            \* largest forward step of the high-water mark (65536)

ASSUME WindowAssumption ==
  /\ DELIVERED_WINDOW_IDS \in Nat \ {0}
  /\ DELIVERY_GAP \in Nat

NoPrint == 0              \* byte identities are positive

Index(id) == id % DELIVERED_WINDOW_IDS

EmptyPrints == [i \in 0 .. DELIVERED_WINDOW_IDS - 1 |-> NoPrint]

NewDelivered == [high |-> 0, prints |-> EmptyPrints]

\* seen
Seen(w, id) ==
  /\ id <= w.high
  /\ w.high - id < DELIVERED_WINDOW_IDS
  /\ w.prints[Index(id)] # NoPrint

\* too_old
TooOld(w, id) ==
  id <= w.high /\ w.high - id >= DELIVERED_WINDOW_IDS

\* Faulty variant: the latest fingerprint is compared.
MatchesLatest(w, id, bytes) == w.prints[Index(w.high)] = bytes

\* matches
Matches(w, id, bytes) == w.prints[Index(id)] = bytes

\* The forward-gap rule of preview_inbound_inner; the first id has none.
WithinGap(w, id) == w.high = 0 \/ id - w.high <= DELIVERY_GAP

\* Faulty variant: skipped ids keep what their index held a window ago.
ClearedNothing(w, id) == w.prints

\* The array after `insert` has cleared what an advance to id overwrites: the
\* indices of the ids after the high-water mark, or everything.
Cleared(w, id) ==
  IF w.high = 0 \/ id <= w.high THEN w.prints
  ELSE IF id - w.high >= DELIVERED_WINDOW_IDS THEN EmptyPrints
  ELSE [i \in DOMAIN w.prints |->
          IF \E v \in w.high + 1 .. id : Index(v) = i
          THEN NoPrint ELSE w.prints[i]]

\* Faulty variant: a late id lowers the high-water mark.
InsertLowering(w, id, bytes) ==
  [high |-> id,
   prints |-> [Cleared(w, id) EXCEPT ![Index(id)] = bytes]]

\* insert
Insert(w, id, bytes) ==
  [high |-> IF id > w.high THEN id ELSE w.high,
   prints |-> [Cleared(w, id) EXCEPT ![Index(id)] = bytes]]
=============================================================================
