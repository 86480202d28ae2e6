-------------------------- MODULE MCProcessSupervisor --------------------------
(* Instances of ProcessSupervisor: all supervisors, or those of one tool.     *)
EXTENDS ProcessSupervisor

AllSupervisors == [tool : Tools, platform : Platforms]
AgentSupervisors == [tool : {"agent"}, platform : Platforms]
=============================================================================
