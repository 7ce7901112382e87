------------------------------ MODULE LocalBroker ------------------------------
(***************************************************************************)
(* One topic of the in-process broker: the list of its subscribers, which  *)
(* Subscribe replaces without a lock, a goroutine for every message        *)
(* published, which hands it to the subscribers one after the other over   *)
(* unbuffered channels, and Unsubscribe, which closes a channel under      *)
(* those goroutines.  A subscriber is a worker's Run loop.                 *)
(*                                                                         *)
(* A list is a slice: append writes into its array where that has room, so *)
(* two lists may share an array and one append change what another list    *)
(* holds.                                                                  *)
(***************************************************************************)
EXTENDS Integers, Sequences, SequencesExt

CONSTANTS
  Subscribers,
  Messages,
  Leavers,    \* subscribers whose Run ends with Unsubscribe
  Quitters,   \* subscribers whose Run just ends
  Capacities  \* the capacities of the arrays that make and append allocate

ASSUME BrokerAssumption ==
  /\ Leavers \subseteq Subscribers
  /\ Quitters \subseteq Subscribers
  /\ Leavers \cap Quitters = {}
  /\ Capacities \subseteq Nat

VARIABLES
  registry,   \* the subscribers stored under the topic, <<>> if there is no topic
  client,     \* what each subscriber is doing
  loaded,     \* the list its Subscribe has in hand
  overlaps,   \* history: subscribers whose Subscribe overlapped its own
  active,     \* subscriptor.active
  closed,     \* the subscribers whose channel is closed
  list,       \* the list of a message's goroutine
  passed,     \* how many of its elements the goroutine has done with
  sending,    \* the subscriber it has found active and is about to send to
  accepted,   \* history: the list when the message was accepted
  received,   \* history: the messages each subscriber has received
  panicked    \* a goroutine has sent on a closed channel, which ends the process

clientVars == <<registry, client, loaded, overlaps, active, closed>>
messageVars == <<list, passed, sending, accepted, received, panicked>>
vars == <<clientVars, messageVars>>

ClientStates == {"outside", "subscribing", "storing", "waiting", "busy", "leaving", "closing", "gone"}

Init == /\ registry = <<>>
        /\ client = [s \in Subscribers |-> "outside"]
        /\ loaded = [s \in Subscribers |-> <<>>]
        /\ overlaps = [s \in Subscribers |-> {}]
        /\ active = [s \in Subscribers |-> FALSE]
        /\ closed = {}
        /\ list = [m \in Messages |-> <<>>]
        /\ passed = [m \in Messages |-> 0]
        /\ sending = [m \in Messages |-> {}]
        /\ accepted = [m \in Messages |-> <<>>]
        /\ received = [s \in Subscribers |-> {}]
        /\ panicked = FALSE

At(s, before, after) == client[s] = before /\ client' = [client EXCEPT ![s] = after]

-------------------------------------------------------------------------------
(* Slices                                                                  *)

(* append has to copy the list into a new array.                           *)
Full(q) == Len(q) \in Capacities \cup {0}

(* The subscriber whose append has made the array of a list.  Every        *)
(* Subscribe makes at most one, so it stands for the array.                *)
Maker(q) == q[Max({i \in DOMAIN q : i - 1 \in Capacities \cup {0}})]

(* What a list holds when s is appended to q: if that writes into the      *)
(* list's own array, s takes the place behind the elements of q.           *)
Written(r, q, s) ==
  IF ~Full(q) /\ Len(r) > Len(q) /\ Maker(r) = Maker(q)
  THEN [r EXCEPT ![Len(q) + 1] = s]
  ELSE r

-------------------------------------------------------------------------------
(* Subscribe: load the list, append to it, store it.                       *)

InSubscribe(s) == client[s] \in {"subscribing", "storing"}

LoadSubscriptors(s) ==
  /\ At(s, "outside", "subscribing")
  /\ loaded' = [loaded EXCEPT ![s] = registry]
  /\ LET others == {u \in Subscribers : InSubscribe(u)}
     IN overlaps' = [u \in Subscribers |-> CASE u = s -> others
                                             [] u \in others -> overlaps[u] \cup {s}
                                             [] OTHER -> overlaps[u]]
  /\ UNCHANGED <<registry, active, closed, messageVars>>

(* Mutant of AppendSubscriptor: the first subscriber's list is made with   *)
(* one element, which stays empty.                                         *)
AppendAfterEmptyElement(s) ==
  /\ At(s, "subscribing", "storing")
  /\ loaded' = [loaded EXCEPT ![s] = Append(IF @ = <<>> THEN <<"nil">> ELSE @, s)]
  /\ active' = [active EXCEPT ![s] = TRUE]
  /\ UNCHANGED <<registry, overlaps, closed, messageVars>>

AppendSubscriptor(s) ==
  /\ At(s, "subscribing", "storing")
  /\ LET Now(q) == Written(q, loaded[s], s)
     IN /\ registry' = Now(registry)
        /\ loaded' = [u \in Subscribers |-> IF u = s THEN Append(loaded[s], s) ELSE Now(loaded[u])]
        /\ list' = [m \in Messages |-> Now(list[m])]
  /\ active' = [active EXCEPT ![s] = TRUE]
  /\ UNCHANGED <<overlaps, closed, passed, sending, accepted, received, panicked>>

StoreSubscriptors(s) ==
  /\ At(s, "storing", "waiting")
  /\ registry' = loaded[s]
  /\ UNCHANGED <<loaded, overlaps, active, closed, messageVars>>

(* The Run loop has handled a message.                                     *)
Handled(s) ==
  /\ At(s, "busy", "waiting")
  /\ UNCHANGED <<registry, loaded, overlaps, active, closed, messageVars>>

(* The Run loop ends: it takes no more messages.                           *)
Quit(s) ==
  /\ s \in Quitters
  /\ \/ At(s, "waiting", "gone")
     \/ At(s, "busy", "gone")
  /\ UNCHANGED <<registry, loaded, overlaps, active, closed, messageVars>>

Leave(s) ==
  /\ s \in Leavers
  /\ At(s, "waiting", "leaving")
  /\ UNCHANGED <<registry, loaded, overlaps, active, closed, messageVars>>

(* Mutant of Unsubscribe: the list is stored without its first entry,      *)
(* whoever that is.                                                        *)
UnsubscribeFirst(s) ==
  /\ \/ /\ s \in ToSet(registry)
        /\ At(s, "leaving", "closing")
        /\ active' = [active EXCEPT ![s] = FALSE]
        /\ registry' = Tail(registry)
     \/ /\ s \notin ToSet(registry)
        /\ At(s, "leaving", "gone")
        /\ UNCHANGED <<active, registry>>
  /\ UNCHANGED <<loaded, overlaps, closed, messageVars>>

(* Unsubscribe: nothing happens to a subscriber that is not in the list;   *)
(* one that is stays in it, inactive, and its channel is closed.           *)
Unsubscribe(s) ==
  /\ \/ /\ s \in ToSet(registry)
        /\ At(s, "leaving", "closing")
        /\ active' = [active EXCEPT ![s] = FALSE]
     \/ /\ s \notin ToSet(registry)
        /\ At(s, "leaving", "gone")
        /\ UNCHANGED active
  /\ UNCHANGED <<registry, loaded, overlaps, closed, messageVars>>

CloseReceiver(s) ==
  /\ At(s, "closing", "gone")
  /\ closed' = closed \cup {s}
  /\ UNCHANGED <<registry, loaded, overlaps, active, messageVars>>

-------------------------------------------------------------------------------
(* Publish and publishToSubscriptors                                       *)

(* Publish starts a goroutine for the list it finds; without a topic it    *)
(* returns ErrTopicNotFound and nothing happens.                           *)
Publish(m) ==
  /\ accepted[m] = <<>>
  /\ registry # <<>>
  /\ accepted' = [accepted EXCEPT ![m] = registry]
  /\ list' = [list EXCEPT ![m] = registry]
  /\ UNCHANGED <<clientVars, passed, sending, received, panicked>>

(* The goroutine's next subscriber.                                        *)
HasNext(m) == passed[m] < Len(list[m]) /\ sending[m] = {}
Following(m) == list[m][passed[m] + 1]

Pass(m) == passed' = [passed EXCEPT ![m] = @ + 1]

(* Mutants of TestActive: a subscriber that is busy is passed over; the    *)
(* goroutine returns at a subscriber that is inactive.                     *)
TestWaiting(m) ==
  /\ HasNext(m)
  /\ LET s == Following(m)
     IN \/ /\ active[s] /\ client[s] = "waiting"
           /\ sending' = [sending EXCEPT ![m] = {s}]
           /\ UNCHANGED passed
        \/ ~(active[s] /\ client[s] = "waiting") /\ Pass(m) /\ UNCHANGED sending
  /\ UNCHANGED <<clientVars, list, accepted, received, panicked>>

TestActiveOrReturn(m) ==
  /\ HasNext(m)
  /\ LET s == Following(m)
     IN \/ active[s] /\ sending' = [sending EXCEPT ![m] = {s}] /\ UNCHANGED passed
        \/ ~active[s] /\ passed' = [passed EXCEPT ![m] = Len(list[m])] /\ UNCHANGED sending
  /\ UNCHANGED <<clientVars, list, accepted, received, panicked>>

TestActive(m) ==
  /\ HasNext(m)
  /\ LET s == Following(m)
     IN \/ active[s] /\ sending' = [sending EXCEPT ![m] = {s}] /\ UNCHANGED passed
        \/ ~active[s] /\ Pass(m) /\ UNCHANGED sending
  /\ UNCHANGED <<clientVars, list, accepted, received, panicked>>

(* The send meets the subscriber's receive.                                *)
Deliver(m) ==
  /\ \E s \in sending[m] : /\ s \notin closed
                           /\ At(s, "waiting", "busy")
                           /\ received' = [received EXCEPT ![s] = @ \cup {m}]
  /\ Pass(m)
  /\ sending' = [sending EXCEPT ![m] = {}]
  /\ UNCHANGED <<registry, loaded, overlaps, active, closed, list, accepted, panicked>>

SendOnClosed(m) ==
  /\ sending[m] \cap closed # {}
  /\ panicked' = TRUE
  /\ UNCHANGED <<clientVars, list, passed, sending, accepted, received>>

-------------------------------------------------------------------------------
Next ==
  /\ ~panicked
  /\ \/ \E s \in Subscribers : \/ LoadSubscriptors(s) \/ AppendSubscriptor(s) \/ StoreSubscriptors(s)
                               \/ Handled(s)
                               \/ Quit(s) \/ Leave(s) \/ Unsubscribe(s) \/ CloseReceiver(s)
     \/ \E m \in Messages : Publish(m) \/ TestActive(m) \/ Deliver(m) \/ SendOnClosed(m)

Spec == Init /\ [][Next]_vars

(* Handlers return, goroutines run, and a subscriber that keeps receiving  *)
(* takes each of the senders that wait for it in the end (the senders      *)
(* blocked on a channel form a queue).  Nobody need subscribe, publish or  *)
(* leave.                                                                  *)
Fairness ==
  /\ \A s \in Subscribers :
        WF_vars(~panicked /\ (Handled(s) \/ Unsubscribe(s) \/ CloseReceiver(s)))
  /\ \A m \in Messages : /\ WF_vars(~panicked /\ (TestActive(m) \/ SendOnClosed(m)))
                         /\ SF_vars(~panicked /\ Deliver(m))

FairSpec == Spec /\ Fairness
-------------------------------------------------------------------------------
TypeOK ==
  /\ registry \in Seq(Subscribers)
  /\ client \in [Subscribers -> ClientStates]
  /\ loaded \in [Subscribers -> Seq(Subscribers)]
  /\ overlaps \in [Subscribers -> SUBSET Subscribers]
  /\ active \in [Subscribers -> BOOLEAN]
  /\ closed \subseteq Subscribers
  /\ list \in [Messages -> Seq(Subscribers)]
  /\ passed \in [Messages -> Nat]
  /\ sending \in [Messages -> SUBSET Subscribers]
  /\ accepted \in [Messages -> Seq(Subscribers)]
  /\ received \in [Subscribers -> SUBSET Messages]
  /\ panicked \in BOOLEAN

Subscribed(s) == client[s] \in {"waiting", "busy"}

(* A Subscribe that overlapped its own and had not seen it has appended.   *)
Overtaken(s) == \E u \in overlaps[s] : client[u] # "subscribing"

(* A subscriber is only missing from the list when its Subscribe           *)
(* overlapped another one that had not seen it; leaving and closing never  *)
(* cost anybody else the subscription.                                     *)
LostOnlyByOverlap ==
  \A s \in Subscribers : Subscribed(s) /\ s \notin ToSet(registry) => Overtaken(s)

(* Each subscriber that a message has passed has received it or was        *)
(* unsubscribed, and those it has still to reach are those it was accepted *)
(* for, although the list may be written under its goroutine: only who has *)
(* lost the subscription to an overlap may lose the message.               *)
PassedMeansReceived ==
  \A m \in Messages, s \in Subscribers : \A i \in DOMAIN accepted[m] :
    accepted[m][i] = s => \/ Overtaken(s)
                          \/ i <= passed[m] /\ (m \in received[s] \/ ~active[s])
                          \/ i > passed[m] /\ list[m][i] = s

(* Every subscriber of the list gets an accepted message, however many     *)
(* others are busy, unless it stops receiving or has been overtaken, the   *)
(* message's goroutine waits for a subscriber that has stopped without     *)
(* unsubscribing, or the process has panicked.                             *)
Hangs(m) == \E u \in sending[m] : client[u] = "gone"

EveryoneIsServed ==
  \A m \in Messages, s \in Subscribers :
    s \in ToSet(accepted[m]) ~> \/ m \in received[s] \/ ~Subscribed(s) \/ Overtaken(s)
                                \/ Hangs(m) \/ panicked
===============================================================================
