------------------------------ MODULE MCRunner ------------------------------
(* Plans of jobs for TLC. *)
EXTENDS Runner, TLC

S(op, arg) == [op |-> op, arg |-> arg]

J(steps) == [commit |-> "x", steps |-> steps]

MCRevisions == (1 :> {"x"}) @@ (2 :> {"x", "y"})

MCPlans ==
    {\* packages come, go and come again
     << J(<<S("provision", 1)>>), J(<<S("revoke-source", 1)>>) >>,
     << J(<<S("revoke-source", 1)>>), J(<<S("provision", 1)>>) >>,
     << J(<<S("provision", 2)>>), J(<<S("exec", 0)>>) >>,
     \* a benchmark, and a command after it
     << J(<<S("copy", 0), S("freeze", "first"), S("freeze", "second"), S("compare", 0), S("exec", 0)>>) >>,
     \* profile-guided optimisation
     << J(<<S("freeze", "training"), S("train", 0), S("profile", 0)>>) >> }
=============================================================================
