--------------------------- MODULE MCAlertPipeline ---------------------------
(* Instances of AlertPipeline for TLC.  Notifier 1 is Telegram, which has   *)
(* no breaker, where notifier 2 has one.                                    *)
EXTENDS AlertPipeline
=============================================================================
