---------------------------- MODULE MCEventLinking ----------------------------
(* Small instances of EventLinking for TLC.                                 *)
EXTENDS EventLinking, TLC

CONSTANTS l1, l2, s1, s2, e1, e2, e3

(* One source reports twice, once perhaps without a day.                    *)
Reported == (e1 :> s1) @@ (e2 :> s1) @@ (e3 :> s2)
Days == (e1 :> {1}) @@ (e2 :> {0, 1}) @@ (e3 :> {2})

(* Everything happens on one day.                                           *)
SameDay == (e1 :> {1}) @@ (e2 :> {1}) @@ (e3 :> {1})
=============================================================================
