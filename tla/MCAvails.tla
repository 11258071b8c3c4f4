------------------------------- MODULE MCAvails -------------------------------
EXTENDS AvailsProperties, TLC

CONSTANTS capped, open, sold_out

MCCapacity == capped :> 5 @@ open :> 40 @@ sold_out :> 0
MCMinimum == capped :> 2 @@ open :> 3 @@ sold_out :> 1
MCCpm == capped :> 2000 @@ open :> 3000 @@ sold_out :> 1000
MCDimensions == <<"device", "geo">>

Value(list, values) == [list |-> list, values |-> values]
MCTargetings ==
  {<<>>, "geo" :> Value(FALSE, <<"US">>), "geo" :> Value(TRUE, <<>>),
   "geo" :> Value(TRUE, <<"US", "CA">>) @@ "device" :> Value(TRUE, <<"ctv">>)}

(* Another vendor's vocabulary: its own metric, the same words as ours     *)
(* with a number, a negative number, a text or nothing.                    *)
MCForeign ==
  {[datasource |-> "vendor", target |-> t, target_values |-> v] :
     t \in {"impressions", "requestedimpressions", "budget"},
     v \in {<<>>, <<4>>, <<0 - 1>>, <<NotANumber>>}}
===============================================================================
