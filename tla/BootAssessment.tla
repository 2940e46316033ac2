--------------------------- MODULE BootAssessment ---------------------------
(***************************************************************************)
(* What boot counting promises, without files, caches or a boot loader: a  *)
(* ledger that gives every counted entry an allowance of starts.  A try is *)
(* spent before the entry runs, so tries that remain and starts that were  *)
(* made never exceed the allowance; the allowance only grows when the ESP  *)
(* refuses to record a try.  Only the running entry is judged: good        *)
(* (Unlimited tries) or bad (none).                                        *)
(***************************************************************************)
EXTENDS Naturals

CONSTANTS Entry, Nobody, Unlimited, MaxTries

VARIABLES
  tries,     \* tries[e]: what the ESP durably says e has left
  starts,    \* starts[e]: how often e was handed control while counted
  allowed,   \* allowed[e]: how often it may be
  running    \* the entry whose kernel runs, or Nobody

ledger == <<tries, starts, allowed, running>>

Init ==
  /\ tries \in [Entry -> {MaxTries, Unlimited}]
  /\ starts = [e \in Entry |-> 0]
  /\ allowed = [e \in Entry |-> MaxTries]
  /\ running = Nobody

InBalance(e) == tries[e] # Unlimited => starts[e] + tries[e] =< allowed[e]

\* Tries are only ever given up, and only counted entries have any to give.
OnlySpent ==
  \A e \in Entry : \/ tries'[e] = tries[e]
                   \/ tries[e] # Unlimited /\ tries'[e] \in 0 .. tries[e]

\* Tries reach the disk, whether or not a start follows.
Spend ==
  /\ running = Nobody
  /\ OnlySpent
  /\ UNCHANGED <<starts, allowed, running>>

\* A counted entry starts out of its allowance, an uncounted one freely.
Start(e) ==
  /\ running = Nobody
  /\ running' = e
  /\ OnlySpent
  /\ starts' \in {starts, [starts EXCEPT ![e] = @ + 1]}
  /\ starts' = starts => tries[e] = Unlimited
  /\ (\A d \in Entry : InBalance(d))'
  /\ UNCHANGED allowed

\* The ESP refused to record a try of e.
Refuse(e) ==
  /\ running = Nobody
  /\ allowed' = [allowed EXCEPT ![e] = @ + 1]
  /\ UNCHANGED <<tries, starts, running>>

\* The running entry is found good, or bad.
Judge ==
  /\ running # Nobody
  /\ \E verdict \in {Unlimited, 0} : tries' = [tries EXCEPT ![running] = verdict]
  /\ running' \in {running, Nobody}
  /\ UNCHANGED <<starts, allowed>>

Stop ==
  /\ running' = Nobody
  /\ UNCHANGED <<tries, starts, allowed>>

Next ==
  \/ Spend \/ Judge \/ Stop
  \/ \E e \in Entry : Start(e) \/ Refuse(e)

Spec == Init /\ [][Next]_ledger

=============================================================================
