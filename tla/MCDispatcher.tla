----------------------------- MODULE MCDispatcher -----------------------------
(***************************************************************************)
(* Values for the constants of Dispatcher.                                 *)
(***************************************************************************)
EXTENDS Dispatcher, TLC

CONSTANTS p1, h1, h2, i1, i2, i3

TwoHandlers == {h1, h2}

\* Two calls that may be asked for anything
AllDuties == [h \in TwoHandlers |-> Operations]

\* Two callers of start
StartDuties == [h \in TwoHandlers |-> {"start"}]

\* Start requests beside the timer
TimerDuties == h1 :> {"start"} @@ h2 :> {"watch"}

AllFaults == FaultKinds
NoFaults == {}

\* What a handler and a run may meet without a lost reply or a second delivery
KnownFaults == {"crash", "die", "startError"}
LiveFaults == {"die", "startError", "redeliver"}
CrashOnly == {"crash"}

Symmetric == Permutations({i1, i2}) \cup Permutations(TwoHandlers)
SymmetricThree == Permutations({i1, i2, i3}) \cup Permutations(TwoHandlers)

Busy(h) == ~At(h, "idle") /\ ~At(h, "dead")
OnlyStarts == \A h \in Handlers : Busy(h) => loc[h].op = "start"
Alone == \A g, h \in Handlers : Busy(g) /\ Busy(h) => g = h

\* A completion may also clear the placeholder of a call that died
CompletionFrees(a) ==
  a \in Instances /\ \E h \in Handlers : At(h, "dead") /\ runState[loc[a].p].active = h

NoStaleClear == \A a \in Actors : ClearWrite(a) => ClearsOwn(a) \/ CompletionFrees(a)

\* Time, which no property here reads, passes only when the runs are over
Over == \A i \in Instances : run[i].phase \in {"Completed", "Failed", "Purged"}

\* No clear is stale, and two calls overlap only where both are start requests
FreshStarts ==
  /\ NoStaleClear
  /\ (Alone \/ OnlyStarts)'
  /\ now' # now => Over

===============================================================================
