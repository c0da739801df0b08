---------------------------- MODULE MCReactions -----------------------------
(* An alarm and its recovery, of one host.  A Reactor with a recovery window  *)
(* matches the alarm, one without a window matches both Signals.              *)
EXTENDS Reactions

CONSTANTS alarm, clear, fast, slow

Names == [r \in Reactors |-> IF r = slow THEN 1 ELSE 2]
MatchRules == {<<alarm, slow>>, <<alarm, fast>>, <<clear, fast>>}
Recovery == {<<clear, alarm>>}
OneHost == Signals \X Signals
Windows == [r \in Reactors |-> IF r = slow THEN 1 ELSE 0]
Cooldowns == [r \in Reactors |-> IF r = fast THEN 1 ELSE 0]
Limits == [r \in Reactors |-> 1]
=============================================================================
