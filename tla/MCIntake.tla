------------------------------ MODULE MCIntake ------------------------------
(* The instance of Intake that TLC checks.                                 *)
EXTENDS Intake
MCMaxRuns == [langchain |-> 1, llamaindex |-> 2]
MCSetup == {
   [family |-> "langchain", transport |-> "queue",
    max |-> NoLimit, skip |-> FALSE, others |-> 2, calls |-> 2],
   [family |-> "langchain", transport |-> "async",
    max |-> NoLimit, skip |-> FALSE, others |-> 2, calls |-> 2],
   [family |-> "langchain", transport |-> "group",
    max |-> NoLimit, skip |-> TRUE, others |-> 2, calls |-> 2],
   [family |-> "langchain", transport |-> "group",
    max |-> 1, skip |-> FALSE, others |-> 1, calls |-> 2],
   [family |-> "langchain", transport |-> "anonymous",
    max |-> 0, skip |-> FALSE, others |-> 1, calls |-> 2],
   [family |-> "llamaindex", transport |-> "async",
    max |-> NoLimit, skip |-> FALSE, others |-> 0, calls |-> 1]}
=============================================================================
