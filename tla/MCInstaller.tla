---------------------------- MODULE MCInstaller ----------------------------
(* A machine that is just enough, and ones that each lack something.      *)
EXTENDS Installer

Enough ==
  [vendor |-> "Intel", flags |-> {"lm", "nx", "vmx"}, cores |-> 4, ram |-> 4, os |-> "Red Hat",
   version |-> 7, size |-> [f \in Folders |-> IF f = "/" THEN 45 ELSE MinSize(f)]]

FewMachines ==
  {Enough, [Enough EXCEPT !.vendor = "AMD", !.flags = {"lm", "svm"}, !.os = "CentOS"],
   [Enough EXCEPT !.os = "another"],
   [Enough EXCEPT !.size["/var/log/audit"] = Missing]}
=============================================================================
