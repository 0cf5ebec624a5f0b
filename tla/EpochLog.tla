------------------------------ MODULE EpochLog ------------------------------
(***************************************************************************)
(* What an execution-fenced session journal promises its users: a log with *)
(* one epoch open at a time.  Whoever executes the session opens a new     *)
(* epoch; an entry belongs to the epoch open when it is written, or is     *)
(* written from outside any epoch (the control plane), and entries are     *)
(* never changed.  Who holds a lease, what time it is and which head a     *)
(* writer expects do not appear here.                                      *)
(***************************************************************************)
EXTENDS Integers, Sequences

CONSTANT Sessions

VARIABLES
  log,    \* per session, the epochs its entries were written in (0: outside)
  epoch   \* per session, the newest epoch opened

Init ==
  /\ log = [s \in Sessions |-> <<>>]
  /\ epoch = [s \in Sessions |-> 0]

Open(s) ==
  /\ epoch' = [epoch EXCEPT ![s] = @ + 1]
  /\ UNCHANGED log

\* An entry of the open epoch; there is none before the first Open.
Write(s) ==
  /\ epoch[s] > 0
  /\ log' = [log EXCEPT ![s] = Append(@, epoch[s])]
  /\ UNCHANGED epoch

WriteOutside(s) ==
  /\ log' = [log EXCEPT ![s] = Append(@, 0)]
  /\ UNCHANGED epoch

Next == \E s \in Sessions : Open(s) \/ Write(s) \/ WriteOutside(s)

Spec == Init /\ [][Next]_<<log, epoch>>
=============================================================================
