-------------------------------- MODULE Results --------------------------------
(***************************************************************************)
(* What the scripts under analysis/ make of the runs they find: a run is   *)
(* known by the name of its directory, and of several runs of one setting  *)
(* and repetition one is taken, by comparing names as strings.             *)
(*                                                                         *)
(* A row is the name of a run without its scenario, cut as                 *)
(* load_summary_runs cuts it: [policy, load, budget, rep, stamp], with the *)
(* load in percent ("-50pct") and the budget ("-c2M") or nothing for them, *)
(* and as stamp the second of its start, here the number of the run.       *)
(***************************************************************************)
EXTENDS Naturals

CONSTANTS
    TagOrder,          \* pairs of a load and a budget, in the order strings
                       \* compare them: "-100pct-c2M" comes before "-50pct-c2M",
                       \* "-c100k" before "-c2M", and no tag last
    RepMin, RepMax     \* the repetitions a script looks at

ASSUME TagAssumption == DOMAIN TagOrder \subseteq Nat

Rank(row) == CHOOSE i \in DOMAIN TagOrder : TagOrder[i] = <<row.load, row.budget>>

Key(row, fields) == [f \in fields |-> row[f]]

\* Mutant: the oldest of the runs.
LaterStampFirst(a, b) == a.stamp > b.stamp

\* a's name is less than b's.  Only rows that agree in policy and repetition
\* are compared, so that the tags decide and then the stamp.
Before(a, b) ==
    \/ Rank(a) < Rank(b)
    \/ Rank(a) = Rank(b) /\ a.stamp < b.stamp

\* The last name of each key, among the repetitions wanted.
SelectLatest(rows, fields) ==
    LET wanted == {row \in rows : row.rep \in RepMin .. RepMax}
    IN  {row \in wanted :
            ~ \E other \in wanted :
                Key(other, fields) = Key(row, fields) /\ Before(row, other)}

ByCell == {"policy", "budget", "rep"}
ByPolicy == {"policy", "rep"}
ByLoad == {"load", "rep"}
ByPolicyAndLoad == {"policy", "load", "rep"}

\* The runs behind one cell of a comparison of budgets, none of them before
\* a given stamp.
Cell(rows, policy, budget, from) ==
    {row \in SelectLatest(rows, ByCell) :
        row.policy = policy /\ row.budget = budget /\ row.stamp >= from}

\* The runs behind a policy, whatever their budgets.
OfPolicy(rows, policy) ==
    SelectLatest({row \in rows : row.policy = policy}, ByPolicy)

\* The runs behind the loads of a sweep with one policy.
LoadSweep(rows, policy) ==
    SelectLatest({row \in rows : row.policy = policy}, ByLoad)
=============================================================================
