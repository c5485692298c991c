----------------------------- MODULE MCDeployment -----------------------------
(* Two workers; two functions whose configs contend for one host and for   *)
(* the default route.                                                      *)
EXTENDS Deployment

CONSTANTS w1, w2, fnA, fnB, hostA

MCWorkers == {w1, w2}
MCFunctions == {fnA, fnB}
MCHosts == {hostA}
MCListeners == {{hostA}, {AnyHost}, {hostA, AnyHost}}
MCListenersOf ==
  [c \in Configs |-> IF c = "any" THEN {AnyHost}
                    ELSE IF c = "both" THEN {hostA, AnyHost} ELSE {hostA}]
MCInlineCode == [c \in Inline |-> "wasm"]

(* One function has a definition, the other is deployed over the api.      *)
MCStart == {[disk |-> [x \in Functions |-> IF x = fnA THEN "host" ELSE Nothing],
             code |-> [x \in Functions |-> "wasm"]]}
MCWritten == {<<fnA, "any">>, <<fnA, "cron">>, <<fnA, Nothing>>}
MCRebuilt == {}
MCAsked == {<<fnB, "both">>}
=============================================================================
