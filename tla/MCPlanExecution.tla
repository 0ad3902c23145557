-------------------------- MODULE MCPlanExecution --------------------------
(* Plans of three tasks: every dependency graph, circular ones among them. *)
EXTENDS PlanExecution

Three == 1 .. 3
None  == [t \in Three |-> {}]

Plan(strategy, tasks, dependsOn, unfit, selected) ==
  [strategy |-> strategy, tasks |-> tasks, dependsOn |-> dependsOn, unfit |-> unfit, selected |-> selected]

Graphs3 == {Plan("sequential", Three, d, {}, Three) : d \in {e \in [Three -> SUBSET Three] : 2 \notin e[3]}}

Others == {
  Plan("sequential", Three, [None EXCEPT ![2] = {1}, ![3] = {2}], {}, {1, 3}),  \* 2 is not confirmed
  Plan("sequential", Three, [None EXCEPT ![2] = {1}, ![3] = {2}], {}, Three),
  Plan("sequential", {1, 2}, [None EXCEPT ![2] = {3}], {}, Three),              \* depends on no task
  Plan("sequential", {1}, None, {1}, Three),
  Plan("sequential", {1}, None, {}, {}),                                        \* nothing is left
  Plan("ordered_parallel", Three, None, {}, Three),
  Plan("ordered_parallel", {1}, None, {}, Three),
  Plan("single", {1}, None, {}, Three),
  Plan("single", {1, 2}, None, {}, Three),
  Plan("conversational", {}, None, {}, Three)}

AllPlans == Graphs3 \cup Others
Chain    == {Plan("sequential", Three, [None EXCEPT ![2] = {1}, ![3] = {2}], {}, Three)}
=============================================================================
