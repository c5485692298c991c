----------------------------- MODULE MCDefinitions -----------------------------
(* "good" takes the code beside the definition, "inline" holds code that   *)
(* does not compile, "env" names its code by path and reads an env file    *)
(* that may be unreadable, "cron" has a schedule that does not parse.      *)
EXTENDS Definitions

MCInlineCode == [c \in Inline |-> "bad"]

(* A directory with two definitions, one of which has no code yet.         *)
MCStart ==
  {[disk |-> [x \in Functions |-> "good"],
    code |-> [x \in Functions |-> IF x = "f" THEN "wasm" ELSE Missing]]}

(* The file of f is rewritten, that of g only deleted or spoilt, and the   *)
(* code of both may change; the api is sent a version of f.                *)
MCWritten ==
  {<<"f", "inline">>, <<"f", "cron">>} \cup (Functions \X {Nothing, Unparsable})
MCRebuilt == Functions \X (Codes \cup {Missing})
MCDeleted == {<<"f", Nothing>>}
MCAsked == {<<"f", "env">>}
================================================================================
