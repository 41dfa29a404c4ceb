-------------------------- MODULE MC_DataAgentGraph --------------------------
(* Ten plans: one per way the routes and the bypass can go.                  *)
EXTENDS DataAgentGraph

MCDatasets == {"orders", "stores", "items"}
MCRelevantDatasets == {"orders"}

Sql(datasets) == [strategy |-> "sql", chart |-> FALSE, datasets |-> datasets,
                  dependsOn |-> {}]
SqlThenPython == [strategy |-> "sql_then_python", chart |-> FALSE,
                  datasets |-> {"stores"}, dependsOn |-> {1}]
Chart == [strategy |-> "python", chart |-> TRUE, datasets |-> {},
          dependsOn |-> {1}]
Python == [strategy |-> "python", chart |-> FALSE, datasets |-> {},
           dependsOn |-> {}]

Plan(complexity, asks, questions, steps) ==
    [complexity |-> complexity, asks |-> asks, questions |-> questions,
     ambiguous |-> FALSE, steps |-> steps]

MCPlans ==
    { Plan("conversational", FALSE, FALSE, <<>>),
      Plan("analytical", TRUE, TRUE, <<Sql({"orders"})>>),
      Plan("conversational", TRUE, FALSE, <<>>),
      Plan("simple", FALSE, FALSE, <<Sql({"orders"})>>),
      Plan("simple", FALSE, FALSE, <<Sql({"orders", "stores", "items"})>>),
      Plan("simple", FALSE, FALSE, <<Sql({"orders"}), Chart>>),
      Plan("analytical", FALSE, FALSE, <<Sql({"orders"}), SqlThenPython>>),
      Plan("analytical", FALSE, FALSE, <<Python, Chart>>),
      Plan("analytical", FALSE, FALSE, <<>>),
      Plan("simple", FALSE, FALSE, <<>>) }
=============================================================================
