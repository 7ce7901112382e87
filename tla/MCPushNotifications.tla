-------------------------- MODULE MCPushNotifications --------------------------
(* Instances of PushNotifications for TLC: requests are all alike, as are     *)
(* senders and users.                                                         *)
EXTENDS PushNotifications, TLC

Alike == Permutations(Requests) \cup Permutations(Senders) \cup Permutations(Users)
===============================================================================
