---------------------------- MODULE MCActivityLog -----------------------------
(* Configurations of ActivityLog for TLC *)
EXTENDS ActivityLog

CONSTANTS s1, s2

Operation(sub, key, since, retains) ==
  [sub |-> sub, key |-> key, since |-> since, retains |-> retains]
Occurs(op, id, at, status, big, opaque) ==
  [op |-> op, id |-> id, at |-> at, rank |-> id, status |-> status, big |-> big,
   opaque |-> opaque]

\* A write whose projection fails each time, another one of a recipe deployed
\* later, and one that spills and settles: the two leave it no room in a replay
Stubborn == Operation(s1, 1, 1, TRUE)
Later == Operation(s1, 2, 2, TRUE)
Large == Operation(s1, 3, 1, TRUE)

TheOps == {Stubborn, Large, Later}
TheEvents == {Occurs(Stubborn, 1, 0, "accepted", FALSE, TRUE),
              Occurs(Large, 1, 0, "accepted", TRUE, FALSE),
              Occurs(Large, 2, 0, "succeeded", FALSE, FALSE),
              Occurs(Later, 1, 1, "accepted", FALSE, TRUE)}
TheWhole == {Large, Later}

\* The same write, when the source may show its stages apart
SplitOps == {Large}
SplitEvents == {e \in TheEvents : e.op = Large}

\* alone: one subscription, deployments; the stubborn write appears first, the later
\* one may join it, and a replay may fail.
\* beside: a second subscription, whose failure leaves the first one's pages at
\* work; failures and flushes, and after a torn flush a deployment, when the events
\* have left the window; the world changes between two orchestrations
VARIABLE scenario

Began(s) == \E u \in Slots : units[u] = NoUnit /\ units'[u] # NoUnit /\ units'[u].sub = s

WithinAlone ==
  /\ \A u \in Slots : units'[u] # NoUnit => units'[u].sub = s1
  /\ phase' # "state"
  /\ fails' # fails => phase = "replay" /\ version = 2 /\ now >= 2
  /\ now = 0 /\ (now' = 1 \/ visible' # {}) => EventsOf(Stubborn) \subseteq visible'

\* The stubborn write shows, as it must for the clock to go on, to no new plan
WithinBeside ==
  /\ visible' \subseteq EventsOf(Large)
                  \cup (IF torn /\ now = 2 THEN EventsOf(Stubborn) ELSE {})
  /\ EventsOf(Stubborn) \subseteq visible => phase' = "idle"
  /\ <<now', version', visible'>> # <<now, version, visible>> => phase = "idle"
  /\ version' # version => torn /\ now = 3
  /\ Began(s2) => Began(s1) /\ fails = 0

Within ==
  /\ scenario' = scenario
  /\ scenario = "alone" => WithinAlone
  /\ scenario = "beside" => WithinBeside

MCInit == Init /\ scenario \in {"alone", "beside"}
MCNext == Next /\ Within
MCLiveSpec ==
  /\ MCInit /\ [][MCNext]_<<vars, scenario>>
  /\ WF_<<vars, scenario>>((Step \/ Resolve({s1})) /\ Within)


\* One subscription, without failures, deployments or flushes
MCSplitSpec ==
  /\ Init /\ scenario = "split"
  /\ [][MCNext /\ fails' = 0 /\ version' = 1 /\ phase' # "state"]_<<vars, scenario>>

===============================================================================
