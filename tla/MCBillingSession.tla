-------------------------- MODULE MCBillingSession --------------------------
(* TLC instances of BillingSession.                                        *)
EXTENDS BillingSession, TLC

CONSTANTS q1, q2

RequestSymmetry == Permutations(Requests)

Attrs(prefs, quotas, playground, force, task) ==
  {r \in [pref : prefs, quota : quotas, playground : playground, force : force, task : task] :
     r.task => r.force}

\* Requests of a wallet user: API or playground, with the trust bypass, and tasks.
WalletAttrs ==
  Attrs({"wallet_only"}, {1, 2}, {FALSE}, BOOLEAN, BOOLEAN) \cup
  Attrs({"wallet_only"}, {1}, {TRUE}, {FALSE}, {FALSE})

\* Tasks that prefer or may fall back to the subscription, and playground
\* requests that use nothing else.
SubscriptionAttrs ==
  Attrs({"subscription_first", "wallet_first"}, {0, 2}, {FALSE}, {TRUE}, {TRUE}) \cup
  Attrs({"subscription_only"}, {2}, {TRUE}, {FALSE}, {FALSE})

\* Requests of both sorts side by side.
MixedAttrs == WalletAttrs \cup SubscriptionAttrs

\* Tasks whose submission is retried.
TaskAttrs == Attrs({"subscription_first"}, {1, 2}, {FALSE}, {TRUE}, {TRUE})
=============================================================================
