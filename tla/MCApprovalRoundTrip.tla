------------------------ MODULE MCApprovalRoundTrip ------------------------
(* ApprovalRoundTrip on a workflow of two human gates, one after the other. *)
EXTENDS ApprovalRoundTrip

CONSTANTS g, h

Gates_Steps == {g, h}
Gates_Out == [s \in Gates_Steps |-> IF s = g THEN <<h>> ELSE <<>>]
Gates_Conditional == {}
Gates_Fallback == [s \in Gates_Steps |-> NoStep]
Gates_Mode == [s \in Gates_Steps |-> "human"]

NoControls == {}

Alike == Permutations(Tickets) \cup Permutations(Calls)
=============================================================================
