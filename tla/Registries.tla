----------------------------- MODULE Registries -----------------------------
(***************************************************************************)
(* The process-wide registries of consumers and of deprecation notices,    *)
(* and the commands that read them.  Every method holds its registry's     *)
(* lock throughout, so a method is one step; warn_if_deprecated() shows    *)
(* the notice after it, and _cmd_check_consumers() takes the lock twice.   *)
(*                                                                         *)
(* A version is <<major, minor>>.  Namespaces, contacts and the wording of *)
(* a notice are left out: they are stored and given back.                  *)
(***************************************************************************)
EXTENDS Naturals, Sequences, SequencesExt

CONSTANTS
  Client,     \* threads that use the registries
  Tool,       \* tool names
  Version,    \* versions that consumers require
  Installed,  \* _CURRENT_SCHEMA_VERSION
  Spelling,   \* event types as they are passed, some with blanks around them
  Strip,      \* Strip[s]: the spelling without them
  Nothing     \* None

ASSUME RegistriesAssumption ==
  /\ Version \cup {Installed} \subseteq Nat \X Nat
  /\ Strip \in [Spelling -> Spelling]
  /\ \A s \in Spelling : Strip[Strip[s]] = Strip[s]

VARIABLES
  records,  \* ConsumerRegistry._records
  notices,  \* DeprecationRegistry._notices: how often a type was marked
  report,   \* report[t]: the last check-consumers, with what all() gave it and
            \*   (history) whether the registry was cleared since
  warning,  \* warning[t]: the last warn_if_deprecated()
  marks     \* how many notices there ever were

registryVars == <<records, notices, report, warning, marks>>

NoReport == [at |-> "none", listed |-> <<>>, bad |-> {}, cleared |-> FALSE]
NoWarning == [at |-> "none", type |-> Nothing, notice |-> 0, since |-> 0]

RegistriesInit ==
  /\ records = <<>>
  /\ notices = [s \in Spelling |-> 0]
  /\ report = [t \in Client |-> NoReport]
  /\ warning = [t \in Client |-> NoWarning]
  /\ marks = 0

Free(t) == report[t].at # "listed" /\ warning[t].at # "got"

----------------------------------------------------------------------------
\* Consumers

Record == [tool : Tool, version : Version]

\* A tool that registers again gets another record; by_tool() keeps to the first.
Register(t, tool, version) ==
  /\ Free(t)
  /\ records' = Append(records, [tool |-> tool, version |-> version])
  /\ UNCHANGED <<notices, report, warning, marks>>

Compatible(version) == version[1] = Installed[1] /\ version[2] <= Installed[2]

ByTool(tool) ==
  CHOOSE i \in DOMAIN records :
    /\ records[i].tool = tool
    /\ \A j \in 1 .. i - 1 : records[j].tool # tool

\* Mutant of Incompatible: only the record that by_tool() finds counts.
IncompatibleByTool ==
  {r \in ToSet(records) : r = records[ByTool(r.tool)] /\ ~Compatible(r.version)}

\* check_compatible(), of which the order is left out
Incompatible == {r \in ToSet(records) : ~Compatible(r.version)}

ClearConsumers(t) ==
  /\ Free(t)
  /\ records' = <<>>
  /\ report' = [u \in Client |-> [report[u] EXCEPT !.cleared = TRUE]]
  /\ UNCHANGED <<notices, warning, marks>>

\* check-consumers, up to all()
CheckConsumers(t) ==
  /\ Free(t)
  /\ report' = [report EXCEPT ![t] =
       [at |-> IF records = <<>> THEN "empty" ELSE "listed", listed |-> records,
        bad |-> {}, cleared |-> FALSE]]
  /\ UNCHANGED <<records, notices, warning, marks>>

\* The rest of it.
ReportConsumers(t) ==
  /\ report[t].at = "listed"
  /\ report' = [report EXCEPT ![t].bad = Incompatible,
                              ![t].at = IF Incompatible = {} THEN "ok" ELSE "incompatible"]
  /\ UNCHANGED <<records, notices, warning, marks>>

----------------------------------------------------------------------------
\* Deprecation notices.  mark_deprecated() stores under the stripped type, the
\* other methods look up the type as it is passed.

MarkDeprecated(t, s) ==
  /\ Free(t)
  /\ marks' = marks + 1
  /\ notices' = [notices EXCEPT ![Strip[s]] = marks']
  /\ UNCHANGED <<records, report, warning>>

RemoveNotice(t, s) ==
  /\ Free(t)
  /\ notices' = [notices EXCEPT ![s] = 0]
  /\ UNCHANGED <<records, report, warning, marks>>

ClearNotices(t) ==
  /\ Free(t)
  /\ notices' = [s \in Spelling |-> 0]
  /\ UNCHANGED <<records, report, warning, marks>>

\* warn_if_deprecated(), up to the get()
GetNotice(t, s) ==
  /\ Free(t)
  /\ warning' = [warning EXCEPT ![t] =
       [at |-> IF notices[s] = 0 THEN "silent" ELSE "got", type |-> s,
        notice |-> notices[s], since |-> marks]]
  /\ UNCHANGED <<records, notices, report, marks>>

\* The rest of it.
ShowNotice(t) ==
  /\ warning[t].at = "got"
  /\ warning' = [warning EXCEPT ![t].at = "shown"]
  /\ UNCHANGED <<records, notices, report, marks>>

RegistriesTypeOK ==
  /\ records \in Seq(Record)
  /\ notices \in [Spelling -> 0 .. marks]
  /\ report \in [Client ->
       [at : {"none", "empty", "listed", "ok", "incompatible"},
        listed : Seq(Record), bad : SUBSET Record, cleared : BOOLEAN]]
  /\ warning \in [Client ->
       [at : {"none", "silent", "got", "shown"}, type : Spelling \cup {Nothing},
        notice : 0 .. marks, since : 0 .. marks]]
  /\ marks \in Nat

----------------------------------------------------------------------------
\* check-consumers counts the consumers with one acquisition of the lock and
\* compares them with another.  Unless the registry was cleared between, "all N
\* consumers are compatible" is true of the N it counted, and every counted
\* consumer that is not compatible is reported: one that registered twice too.
ReportSound ==
  \A t \in Client :
    LET counted == ToSet(report[t].listed)
        wrong == {r \in counted : ~Compatible(r.version)}
    IN  ~report[t].cleared =>
          /\ report[t].at = "ok" => wrong = {}
          /\ report[t].at = "incompatible" => wrong \subseteq report[t].bad
=============================================================================
