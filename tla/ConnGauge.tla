----------------------------- MODULE ConnGauge -----------------------------
(***************************************************************************)
(* What connection tracking promises: a request is counted at most once,   *)
(* on one peer, uncounted at most once and only after it was counted, and  *)
(* the gauge of a peer moves with exactly these events.                    *)
(***************************************************************************)
EXTENDS Integers

CONSTANTS Tasks, Slots

VARIABLES
  state,  \* state[t]: "new", "counted" or "over"
  slot,   \* slot[t]: where a counted task is counted, 0 elsewhere
  gauge   \* gauge[s]: the number a slot shows

Init ==
  /\ state = [t \in Tasks |-> "new"]
  /\ slot = [t \in Tasks |-> 0]
  /\ gauge = [s \in Slots |-> 0]

Acquire(t, s) ==
  /\ state[t] = "new"
  /\ state' = [state EXCEPT ![t] = "counted"]
  /\ slot' = [slot EXCEPT ![t] = s]
  /\ gauge' = [gauge EXCEPT ![s] = @ + 1]

Drop(t) ==
  /\ state[t] = "counted"
  /\ state' = [state EXCEPT ![t] = "over"]
  /\ slot' = [slot EXCEPT ![t] = 0]
  /\ gauge' = [gauge EXCEPT ![slot[t]] = @ - 1]

Refuse(t) ==
  /\ state[t] = "new"
  /\ state' = [state EXCEPT ![t] = "over"]
  /\ UNCHANGED <<slot, gauge>>

Next ==
  \E t \in Tasks :
    \/ \E s \in Slots : Acquire(t, s)
    \/ Drop(t)
    \/ Refuse(t)

Spec == Init /\ [][Next]_<<state, slot, gauge>>
=============================================================================
