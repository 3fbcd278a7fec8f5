---------------------------- MODULE SampleWindow ----------------------------
(***************************************************************************)
(* What the buffering of input signals promises, without the circular      *)
(* buffer: for every input signal the last cap samples taken by the        *)
(* synchronisation signal, oldest first.                                   *)
(***************************************************************************)
EXTENDS Integers, Sequences

CONSTANTS Vectors,    \* the values a signal can have
          Sizes       \* the buffer sizes that can be asked for

VARIABLES cap,        \* cap[i]: the number of samples kept for signal i
          win,        \* win[i]: the samples kept, oldest first
          now         \* the time of the last tick

vars == <<cap, win, now>>

Keep(n, s) == IF Len(s) <= n THEN s ELSE SubSeq(s, Len(s) - n + 1, Len(s))

Init == cap = << >> /\ win = << >> /\ now = 0

(* A new signal is not buffered. *)
Open ==
  /\ cap' = Append(cap, 0)
  /\ win' = Append(win, << >>)
  /\ UNCHANGED now

(* A buffer of k samples keeps the k most recent of those it had. *)
SetCapacity(i, k) ==
  /\ cap' = [cap EXCEPT ![i] = k]
  /\ win' = [win EXCEPT ![i] = Keep(k, @)]
  /\ UNCHANGED now

(* A tick samples the first m signals; a sample enters a buffer at its end *)
(* and the oldest leaves it when the buffer is full.                       *)
Tick(m, taken) ==
  /\ now' = now + 1
  /\ win' = [i \in 1 .. Len(win) |->
               IF i <= m
               THEN Keep(cap[i], Append(win[i], [ts |-> now', data |-> taken[i]]))
               ELSE win[i]]
  /\ UNCHANGED cap

Next ==
  \/ Open
  \/ \E i \in 1 .. Len(cap), k \in Sizes : SetCapacity(i, k)
  \/ \E m \in 0 .. Len(cap) : \E taken \in [1 .. m -> Vectors] : Tick(m, taken)

Spec == Init /\ [][Next]_vars
=============================================================================
