------------------------------ MODULE ScopeLock ------------------------------
(***************************************************************************)
(* What the dispatcher promises of the runs of the pipelines: a scope has  *)
(* at most one run at work ("one active op per scope"), a run works once,  *)
(* for one scope, and the next one starts only after it is over.           *)
(***************************************************************************)

CONSTANTS Pipelines, Instances

VARIABLES working,    \* the runs at work, per pipeline
          finished    \* the runs that are over

vars == <<working, finished>>

Init == /\ working = [p \in Pipelines |-> {}]
        /\ finished = {}

Launch(p, i) == /\ working[p] = {}
                /\ i \notin finished
                /\ \A q \in Pipelines : i \notin working[q]
                /\ working' = [working EXCEPT ![p] = {i}]
                /\ UNCHANGED finished

End(p, i) == /\ i \in working[p]
             /\ working' = [working EXCEPT ![p] = @ \ {i}]
             /\ finished' = finished \cup {i}

Next == \E p \in Pipelines, i \in Instances : Launch(p, i) \/ End(p, i)

Spec == Init /\ [][Next]_vars

==============================================================================
