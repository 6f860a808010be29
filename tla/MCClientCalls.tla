----------------------------- MODULE MCClientCalls -----------------------------
(* ClientCalls on small instances: model values for the pooled objects.      *)
EXTENDS ClientCalls, TLC

================================================================================
