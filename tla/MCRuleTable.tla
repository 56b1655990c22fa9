---------------------------- MODULE MCRuleTable -----------------------------
(* Instances of RuleTable for TLC. *)
EXTENDS RuleTable, TLC

Row(name, method, enabled) == [name |-> name, method |-> method, enabled |-> enabled]

MCDemoRules == << Row("demo1", None, TRUE), Row("demo2", None, TRUE) >>

\* A rule of an administrator that has the name of a demo rule; a full update
\* that renames and disables; partial ones that set a method, and enable.
MCAsks ==
    { [kind |-> "post",   body |-> Row("demo1", "GET", TRUE)],
      [kind |-> "put",    body |-> Row("own", None, FALSE)],
      [kind |-> "patch",  body |-> Row(None, "GET", None)],
      [kind |-> "patch",  body |-> Row(None, None, TRUE)],
      [kind |-> "delete", body |-> NoValues] }

MCSymmetry == Permutations(Requests) \cup Permutations(Processes)
=============================================================================
