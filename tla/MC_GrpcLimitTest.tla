------------------------- MODULE MC_GrpcLimitTest -------------------------
(* The gRPC session-limit scripts scaled down: three calls against a      *)
(* limit of two, where the scripts place six against three.               *)
EXTENDS GrpcLimitTest

CONSTANTS u1, u2, u3

MCUsers == {u1, u2, u3}

(* user787, user788, user789 *)
MCNextUsers == <<u1, u2, u3>>

(* The scripts that do their own cleanup and judge the run.               *)
MCPassScripts == {"verify", "same_user", "simple", "distinct"}
====
