---------------------------- MODULE MCUsageRefresh -----------------------------
(* Configurations of UsageRefresh for TLC *)
EXTENDS UsageRefresh

CONSTANTS a, b

PerSub(subs) == [base |-> "per-sub", subs |-> subs]
PerBilling(subs) == [base |-> "per-billing", subs |-> subs]

\* The configurations over two subscriptions, and how they may follow.  Under
\* per-billing one subscription is not exchanged for the other: per-sub has that
AllScopes == {PerSub(s) : s \in {{a}, {b}, {a, b}}}
               \cup {PerBilling(s) : s \in {{a}, {a, b}, Whole}}
AnyChange == AllScopes \X AllScopes

\* A scope that only grows, for either base, or moves to the whole profile
SomeScopes == {PerSub({a}), PerSub({a, b}), PerBilling({a}), PerBilling({a, b}),
               PerBilling(Whole)}
Growing == {<<PerSub({a}), PerSub({a, b})>>, <<PerBilling({a}), PerBilling({a, b})>>,
            <<PerSub({a, b}), PerBilling({a, b})>>,
            <<PerBilling({a, b}), PerBilling(Whole)>>}

\* One subscription that comes and goes
PerSubScopes == {PerSub({a}), PerSub({a, b})}
Reverting == PerSubScopes \X PerSubScopes

===============================================================================
