--------------------------- MODULE MCInboundQueue ---------------------------
(* Two events in one batch, two workers that overtake each other, and two  *)
(* retries: the third failure of an event is its last.                     *)
EXTENDS InboundQueue, TLC

CONSTANTS e1, e2, w1, w2

MCEvents == {e1, e2}
MCOneEvent == {e1}
MCWorkers == {w1, w2}
MCDelayTwo == <<1, 2>>
=============================================================================
