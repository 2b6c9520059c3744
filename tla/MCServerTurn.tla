---------------------------- MODULE MCServerTurn ----------------------------
(* Small instances of ServerTurn for TLC.  One unit of time stands for      *)
(* about 30 seconds of the code's limits (scaled down where they are long). *)
EXTENDS ServerTurn, TLC

DeliverySymmetry == Permutations(Deliveries)

MCKindTwo == <<"other", "deploy">>
MCKindPair == <<"other", "other">>
MCKindSkip == <<"other", "quick", "other">>
MCRetryLong == <<3>>
MCRetryNone == <<>>
MCRetryOne == <<1>>
=============================================================================
