------------------------------ MODULE SerialQueue ------------------------------
(***************************************************************************)
(* What the evaluation scheduler promises its users, without tables,       *)
(* leases, tokens or processes (docs/core/mvp-scope.md, "Evaluation        *)
(* scheduling"): jobs wait in one total order, exactly one executes at a   *)
(* time, always the first of that order and only while progression is      *)
(* automatic, and an end that is not a success stops progression.          *)
(***************************************************************************)
CONSTANTS Jobs, NoJob

VARIABLES waiting,   \* the jobs that have not started
          ahead,     \* the pairs <<j, k>> of them where j starts before k
          active,    \* the job in the active slot, or NoJob
          result,    \* how each ended job ended ("none" before that)
          automatic  \* progression is enabled

vars == <<waiting, ahead, active, result, automatic>>

Orders(R, S) ==
    /\ R \subseteq S \X S
    /\ \A j \in S : <<j, j>> \notin R
    /\ \A j, k \in S : j # k => <<j, k>> \in R \/ <<k, j>> \in R
    /\ \A j, k, l \in S : <<j, k>> \in R /\ <<k, l>> \in R => <<j, l>> \in R

Init ==
    /\ waiting = {} /\ ahead = {}
    /\ active = NoJob
    /\ result = [j \in Jobs |-> "none"]
    /\ automatic = FALSE

\* A new job starts after all the others.
Submit(j) ==
    /\ j \notin waiting \cup {active}
    /\ result[j] = "none"
    /\ waiting' = waiting \cup {j}
    /\ ahead' = ahead \cup (waiting \X {j})
    /\ UNCHANGED <<active, result, automatic>>

Reorder ==
    /\ Orders(ahead', waiting)
    /\ UNCHANGED <<waiting, active, result, automatic>>

\* A job stops waiting and the others keep their order.
Leaves(j) ==
    /\ j \in waiting
    /\ waiting' = waiting \ {j}
    /\ ahead' = ahead \cap (waiting' \X waiting')

Remove(j) ==
    /\ Leaves(j)
    /\ result' = [result EXCEPT ![j] = "CANCELLED"]
    /\ UNCHANGED <<active, automatic>>

MayStart(j) ==
    /\ automatic /\ active = NoJob
    /\ \A k \in waiting : <<k, j>> \notin ahead

Start(j) ==
    /\ MayStart(j) /\ Leaves(j)
    /\ active' = j
    /\ UNCHANGED <<result, automatic>>

\* The first job cannot be started; nothing starts after it by itself.
Refuse(j) ==
    /\ MayStart(j) /\ Leaves(j)
    /\ result' = [result EXCEPT ![j] = "FAILED"]
    /\ automatic' = FALSE
    /\ UNCHANGED active

End ==
    /\ active # NoJob
    /\ \E r \in {"COMPLETED", "CANCELLED", "FAILED"} :
           /\ result' = [result EXCEPT ![active] = r]
           /\ automatic' \in {automatic, FALSE}
           /\ r # "COMPLETED" => automatic' = FALSE
    /\ active' = NoJob
    /\ UNCHANGED <<waiting, ahead>>

SetAutomatic ==
    /\ automatic' \in BOOLEAN
    /\ UNCHANGED <<waiting, ahead, active, result>>

Next ==
    \/ \E j \in Jobs : Submit(j) \/ Remove(j) \/ Start(j) \/ Refuse(j)
    \/ Reorder \/ End \/ SetAutomatic

Spec == Init /\ [][Next]_vars

===============================================================================
