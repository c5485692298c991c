-------------------------------- MODULE MCCron --------------------------------
(* Task "a" has two versions of its trigger, so that a redeployment leaves *)
(* two entries with one id and different schedules; "b" comes with it in   *)
(* one definition; "c" has an endpoint that is no uri and "d" a schedule   *)
(* that has run out.                                                       *)
EXTENDS Cron

MCTaskIds == {"a", "b", "c", "d"}
MCTriggers == {"a1", "a2", "b1", "c1", "d1"}
MCTaskOf == [tr \in MCTriggers |->
  CASE tr \in {"a1", "a2"} -> "a" [] tr = "b1" -> "b" [] tr = "c1" -> "c"
    [] tr = "d1" -> "d"]
MCSchedule == [tr \in MCTriggers |->
  CASE tr = "a1" -> {1, 5} [] tr = "a2" -> {2, 5} [] tr = "b1" -> {2, 5}
    [] tr = "c1" -> {0, 5} [] tr = "d1" -> {0}]
MCBadEndpoint == {"c1"}
MCConfigs == {<<"a1", "b1">>, <<"a2">>, <<"c1", "d1">>}
MCBadConfigs == {<<"c1">>}
=============================================================================
