---------------------------- MODULE ReplayWindow ----------------------------
(***************************************************************************)
(* The sliding anti-replay window of r8-session: `ReplayWindow`, its       *)
(* two-phase use (`preview` hands out a `ReplayCommit` token, `commit`     *)
(* re-validates and marks) and the sending side's `Counters`.              *)
(*                                                                         *)
(* A window is the record [largest, bits, generation].  The 64 words of    *)
(* `bits` are the set of the deltas (distance below `largest`) whose bit   *)
(* is one, so shifting the words left is adding to every delta and         *)
(* dropping those that leave the window.                                   *)
(***************************************************************************)
EXTENDS Integers

CONSTANTS
  REPLAY_WINDOW,    \* width of the window, in counters
  REPLAY_JUMP_MAX,  \* largest forward jump once a counter was accepted
  U64_MAX           \* the reserved counter, also the last generation

ASSUME ReplayAssumption ==
  /\ REPLAY_WINDOW \in Nat \ {0}
  /\ REPLAY_JUMP_MAX \in Nat
  /\ U64_MAX \in Nat \ {0}

\* Zero and u64::MAX are never valid counters.
Counter == 1 .. U64_MAX - 1

WindowType ==
  [largest : 0 .. U64_MAX - 1,
   bits : SUBSET (0 .. REPLAY_WINDOW - 1),
   generation : 0 .. U64_MAX]

\* u64::saturating_add
SaturatingAdd(a, b) == IF a + b > U64_MAX THEN U64_MAX ELSE a + b

-----------------------------------------------------------------------------

\* ReplayWindow::new
NewWindow == [largest |-> 0, bits |-> {}, generation |-> 0]

\* ReplayWindow::check.  The code's `delta < REPLAY_WINDOW` guards the array
\* index; a delta outside the window is in no set of bits.
Check(w, c) ==
  /\ c # 0 /\ c # U64_MAX
  /\ w.largest > 0 => c <= SaturatingAdd(w.largest, REPLAY_JUMP_MAX)
  /\ w.largest > 0 => SaturatingAdd(c, REPLAY_WINDOW) > w.largest
  /\ c <= w.largest => w.largest - c \notin w.bits

\* Faulty variant: the bits are not moved together with `largest`.
ShiftLeftForgotten(bits, n) == IF n >= REPLAY_WINDOW THEN {} ELSE bits

\* The words after shifting left by n: bits pushed out of the top are lost.
ShiftLeft(bits, n) ==
  IF n >= REPLAY_WINDOW THEN {}
  ELSE {d \in 0 .. REPLAY_WINDOW - 1 : d - n \in bits}

\* ReplayWindow::mark
Mark(w, c) ==
  IF c > w.largest
  THEN [largest |-> c,
        bits |-> ShiftLeft(w.bits, c - w.largest) \cup {0},
        generation |-> w.generation]
  ELSE [w EXCEPT !.bits = @ \cup {w.largest - c}]

\* ReplayWindow::preview, for a counter that passes check
Token(w, c) == [counter |-> c, generation |-> w.generation]

\* The conditions under which ReplayWindow::commit accepts a token
CanCommit(w, t) ==
  /\ t.generation = w.generation
  /\ Check(w, t.counter)
  /\ w.generation < U64_MAX            \* checked_add(1)

\* The window a successful ReplayWindow::commit leaves
Committed(w, t) ==
  [Mark(w, t.counter) EXCEPT !.generation = w.generation + 1]

-----------------------------------------------------------------------------

\* Counters::can_reserve; `reserve` then returns `next` and advances it.
CanReserve(next) == next # 0 /\ next # U64_MAX
=============================================================================
