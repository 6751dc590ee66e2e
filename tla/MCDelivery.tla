----------------------------- MODULE MCDelivery -----------------------------
(* The instance of Delivery that TLC checks.                               *)
EXTENDS Delivery
CONSTANTS span, log, metered_span
MCStream == <<span, log, metered_span>>
MCEvent == {span, log, metered_span}
MCTraced == {span, metered_span}
MCMetered == {metered_span}
MCPredicate == {MCEvent, {log}}
=============================================================================
