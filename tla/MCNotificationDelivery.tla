----------------------- MODULE MCNotificationDelivery ------------------------
(* Instances of NotificationDelivery with the receivers' answers. *)
EXTENDS NotificationDelivery

MCAnswers == Outcomes

(* The receiver is down. *)
MCDown == {"retry"}
=============================================================================
