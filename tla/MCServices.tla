----------------------------- MODULE MCServices -----------------------------
(* The services and scripts beside the index that share nothing with each   *)
(* other: a behaviour runs one of them.                                     *)
EXTENDS StatusHook, Admission, OAuthLogin, EvalBaseline, EvalSmoke

VARIABLE service

Symmetric == Permutations(Questions) \cup Permutations(BaselineRuns)

InitMC ==
  /\ service \in {"hook", "admission", "login", "baseline", "smoke"}
  /\ InitH /\ InitM /\ InitL /\ InitB /\ InitS
  /\ service # "baseline" => indexed = {} /\ vectors = [f \in GoldFiles |-> 0]

NextMC ==
  \/ service = "hook"      /\ NextH /\ UNCHANGED <<mvars, lvars, bvars, svars, service>>
  \/ service = "admission" /\ NextM /\ UNCHANGED <<hvars, lvars, bvars, svars, service>>
  \/ service = "login"     /\ NextL /\ UNCHANGED <<hvars, mvars, bvars, svars, service>>
  \/ service = "baseline"  /\ NextB /\ UNCHANGED <<hvars, mvars, lvars, svars, service>>
  \/ service = "smoke"     /\ NextS /\ UNCHANGED <<hvars, mvars, lvars, bvars, service>>

SpecMC == InitMC /\ [][NextMC]_<<hvars, mvars, lvars, bvars, svars, service>>

=============================================================================
