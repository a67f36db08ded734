---------------------------- MODULE MCStrategyAgent ----------------------------
(* Interviews of a few questions about few topics, in two texts. *)
EXTENDS StrategyAgent

CONSTANTS t1, t2

MCText == {t1, t2}
MCWellFormed == {t1}

\* The second is no question; each resembles itself alone.
MCSimilar == {<<t, t>> : t \in MCText}
MCQuality == {"sufficient", "misconception", "bonus_available"}
MCWeak == {3}
MCWeakHistory == {2}
=============================================================================
