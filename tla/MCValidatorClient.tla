-------------------------- MODULE MCValidatorClient --------------------------
(* The instance of ValidatorClient that TLC checks. *)
EXTENDS ValidatorClient

(* No other instance; one that is live in epoch 1, before or during a hold-off.              *)
MCElsewhere == {{}, {1}}
=============================================================================
