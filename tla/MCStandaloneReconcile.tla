----------------------- MODULE MCStandaloneReconcile -----------------------
(***************************************************************************)
(* Instances of StandaloneReconcile for TLC: one parameter persistence     *)
(* turns on and off, and one amount of memory it only sets.                *)
(***************************************************************************)
EXTENDS StandaloneReconcile

MCParams == {"appendonly", "repl-backlog-size"}
MCMemParams == {"repl-backlog-size"}
Yes == <<"yes">>
No == <<"no">>
Lots == <<"lots">>

\* With 16 for 1024 and 16 bits for 64: an amount with a unit, one whose product
\* wraps to a positive amount and one whose product wraps to a negative one.
Backlog60 == <<60, "mb">>
Wraps == <<17, "gb">>
Negative == <<9, "gb">>

MCValues == {Yes, No, Lots, Backlog60, Wraps, Negative, <<512, "">>, <<100, "">>}
MCBad == {Lots}

Backlog(v) == [p \in MCMemParams |-> v]
AppendOnly(v) == [p \in {"appendonly"} |-> v]
MCBuiltIn == [p \in MCParams |-> IF p = "appendonly" THEN No ELSE <<100, "">>]
MCEnableConf == [p \in MCParams |-> IF p = "appendonly" THEN Yes ELSE <<512, "">>]
MCDisableConf == AppendOnly(No)

NewSpec(config, persist) ==
    [size |-> 0, image |-> "old", config |-> config, persist |-> persist, exporter |-> FALSE]

\* Created with a spec that needs defaults; any field may be edited, to a value
\* redis refuses and to a size Validate refuses as well.
LiveSpecs == {NewSpec(Backlog(Backlog60), TRUE)}
LiveConfigs == {Backlog(Wraps), Backlog(Negative), Backlog(Lots)}
LiveBudget == [edits |-> 1, faults |-> 1]
============================================================================
