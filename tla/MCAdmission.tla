---------------------------- MODULE MCAdmission ----------------------------
(* Admission with small sets for TLC. *)
EXTENDS Admission, TLC

OneTenant == [k \in Keys |-> "t1"]
Budget == "default" :> 1 @@ "write" :> 0
=============================================================================
