---------------------------- MODULE MCTriageInput ----------------------------
(* Three alert rules, two of one name.                                       *)
EXTENDS TriageInput

AlertRule == {[name |-> "cpu", severity |-> "warning"], [name |-> "cpu", severity |-> "critical"],
              [name |-> "disk", severity |-> "warning"]}
=============================================================================
