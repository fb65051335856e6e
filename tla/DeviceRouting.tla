---------------------------- MODULE DeviceRouting ----------------------------
(***************************************************************************)
(* The pure decisions of device.py and api.py that every gate command      *)
(* goes through: where a command is attempted first, what an answer of     *)
(* the cloud counts as, and whether a failed cloud attempt may be repeated *)
(* over BLE.                                                               *)
(***************************************************************************)

CommandRoute == {"CLOUD", "BLE_CLOUD_OFFLINE", "BLE_NO_CLOUD_ROUTE", "NO_ROUTE"}

\* device.decide_command_route: the first matching row wins.
DecideCommandRoute(bleConfigured, cloudOffline, lastUpdateSuccess, hasRoute) ==
    IF bleConfigured /\ (cloudOffline \/ ~lastUpdateSuccess)
    THEN "BLE_CLOUD_OFFLINE"
    ELSE IF hasRoute THEN "CLOUD"
    ELSE IF bleConfigured THEN "BLE_NO_CLOUD_ROUTE" ELSE "NO_ROUTE"

(***************************************************************************)
(* What comes back for one action request: the shape of the answer and     *)
(* whether the cloud carried the action out.  An error code in "meta" is   *)
(* the only answer that tells the action was not executed; a "meta"        *)
(* mapping without a usable code, an answer without a "meta" mapping, one  *)
(* that is no mapping and a lost answer tell nothing.                      *)
(***************************************************************************)
CloudAnswer ==
    {[shape |-> "code200",   executed |-> TRUE],
     [shape |-> "errorCode", executed |-> FALSE]}
      \cup [shape : {"noCode", "noMeta", "notDict", "lost"}, executed : BOOLEAN]

\* api.send_iot_action: returned, EzvizActionRejected, or any other exception.  A "meta"
\* mapping is a rejection unless its code is the number 200.
SendIotAction(answer) ==
    CASE answer.shape \in {"code200", "noMeta"}   -> "returned"
      [] answer.shape \in {"errorCode", "noCode"} -> "EzvizActionRejected"
      [] OTHER                                    -> "otherError"

\* api.should_fallback_to_ble with its isinstance test widened to every
\* pyezvizapi error (a mutation).
FallbackOnAnyError(outcome) == outcome \in {"EzvizActionRejected", "otherError"}

\* api.should_fallback_to_ble
ShouldFallbackToBle(outcome) == outcome = "EzvizActionRejected"

==============================================================================
