------------------------ MODULE MCWorkflowScheduler ------------------------
(* WorkflowScheduler on small graphs; each .cfg picks one.                  *)
EXTENDS WorkflowScheduler

CONSTANTS a, b, c, g, j, f

(* A neural step a, then the human gate g beside two symbolic branches b   *)
(* and c, then the neural step j that joins them and that b may skip; f     *)
(* replaces a rejected g and a failed c.                                    *)
GateFirst_Steps == {a, b, c, g, j, f}
GateFirst_Out == [s \in GateFirst_Steps |->
    CASE s = a -> <<g, b, c>> [] s \in {b, c, g, f} -> <<j>> [] s = j -> <<>>]
GateFirst_Conditional == {<<b, j>>}
GateFirst_Fallback == [s \in GateFirst_Steps |-> IF s \in {g, c} THEN f ELSE NoStep]
GateFirst_Mode == [s \in GateFirst_Steps |->
    CASE s = g -> "human" [] s \in {a, j} -> "neural" [] OTHER -> "symbolic"]

(* The same graph with the branches before the gate. *)
BranchFirst_Out == [GateFirst_Out EXCEPT ![a] = <<b, c, g>>]

(* A symbolic step, a human gate, and a neural step that may ask too. *)
Chain_Steps == {a, g, j}
Chain_Out == [s \in Chain_Steps |-> CASE s = a -> <<g>> [] s = g -> <<j>> [] s = j -> <<>>]
Chain_Conditional == {}
Chain_Fallback == [s \in Chain_Steps |-> NoStep]
Chain_Mode == [s \in Chain_Steps |->
    CASE s = a -> "symbolic" [] s = g -> "human" [] s = j -> "neural"]

NoControls == {}
AllControls == {"pause", "resume", "terminate"}
=============================================================================
