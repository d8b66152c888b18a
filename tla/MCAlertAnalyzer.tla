--------------------------- MODULE MCAlertAnalyzer ---------------------------
(* Small instances of AlertAnalyzer for TLC. *)
EXTENDS AlertAnalyzer, TLC

(* Two days of one month and the first day of the next. *)
MCMonthOf == [d \in 0..LastDay |-> d \div 2]

MCChain == <<"claude-sonnet", "gpt-4o">>
MCChainWithGap == <<"retired-model", "claude-sonnet">>

MCWorker == Server \cup Cli

AlertSymmetry == Permutations(Alert)

==============================================================================
