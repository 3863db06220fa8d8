------------------------ MODULE MCWebhookDelivery ------------------------
(* Two deliveries and one edit of a member. *)
EXTENDS WebhookDelivery

CONSTANTS d1, d2, e1

Deliveries == {d1, d2}
Edits == {e1}
=============================================================================
