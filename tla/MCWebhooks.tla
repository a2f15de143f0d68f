----------------------------- MODULE MCWebhooks -----------------------------
(* Model values for WebhookDelivery *)
EXTENDS WebhookDelivery
=============================================================================
