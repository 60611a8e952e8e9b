--------------------------- MODULE MCPricingAudit ---------------------------
(* TLC instances of PricingAudit. *)
EXTENDS PricingAudit

CONSTANT q1

\* Synchronous requests of Relay, with zero estimates.
RelayAttrs ==
  [pref : {"subscription_first", "wallet_only"}, quota : {0, 1}, playground : BOOLEAN,
   force : {FALSE}, task : {FALSE}]

\* Tasks of RelayTask.
TaskAttrs ==
  [pref : {"subscription_first", "wallet_only"}, quota : {1, 2}, playground : {FALSE},
   force : {TRUE}, task : {TRUE}]

AllAttrs == RelayAttrs \cup TaskAttrs
=============================================================================
