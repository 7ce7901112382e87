--------------------------- MODULE PushNotifications ---------------------------
(***************************************************************************)
(* Push tokens and the notifications sent to them.  A client registers the *)
(* token of its browser or phone for a user and unregisters it; the push   *)
(* notification workers and broadcasts send to the tokens they find, and   *)
(* unregister those whose subscription turns out to be gone.               *)
(***************************************************************************)
EXTENDS Integers, FiniteSets

CONSTANTS
  Tokens,
  WebTokens,        \* those the push services of browsers know
  Users,            \* of the tenant
  Senders,          \* the workers' goroutines and broadcast requests
  Requests,         \* registrations and unregistrations, each used once
  Null,
  MaxNotifications, \* bound: notifications
  MaxFaults         \* bound: failed calls and restarts

ASSUME PushAssumption ==
  /\ WebTokens \subseteq Tokens /\ Null \notin Users
  /\ IsFiniteSet(Tokens) /\ IsFiniteSet(Requests)
  /\ MaxNotifications \in Nat /\ MaxFaults \in Nat

VARIABLES
  row,         \* of each token, unique by an index: its own ID and its user
  nextId,      \* the ID of the next row
  gone,        \* subscriptions the push service does not know any more
  job,         \* what a sender is doing: whom it still has to send to
  request,     \* what each request is doing, and the row it has found
  sent,        \* notifications so far
  registered,  \* history: acknowledged, and not asked to be unregistered since
  overtaken,   \* history: those whose row was to be deleted when they were acknowledged
  due,         \* history: tokens registered since a sender began
  reached,     \* history: those that have accepted its notification
  missed,      \* history: those that a failure kept from it
  faults

tableVars == <<row, nextId>>
historyVars == <<registered, overtaken, due, reached, missed>>
vars == <<tableVars, gone, job, request, sent, historyVars, faults>>

NoRow == [id |-> 0, user |-> Null]
AtRest == [stage |-> "idle", users |-> {}, tokens |-> {}, token |-> Null, found |-> NoRow]
HasEnded == [stage |-> "done", kind |-> "none", token |-> Null, user |-> Null, found |-> NoRow]
NoRequest == [stage |-> "idle", kind |-> "none", token |-> Null, user |-> Null, found |-> NoRow]

(* Some tokens are registered already.                                     *)
Init ==
  /\ nextId = Cardinality(Tokens) + 1
  /\ LET id == CHOOSE f \in [Tokens -> 1..Cardinality(Tokens)] :
                 \A t1, t2 \in Tokens : f[t1] = f[t2] => t1 = t2
     IN \E owner \in [Tokens -> Users \cup {Null}] :
          row = [t \in Tokens |-> IF owner[t] = Null THEN NoRow
                                  ELSE [id |-> id[t], user |-> owner[t]]]
  /\ registered = {<<t, row[t].user>> : t \in {u \in Tokens : row[u] # NoRow}}
  /\ overtaken = {}
  /\ gone = {}
  /\ job = [s \in Senders |-> AtRest] /\ sent = 0
  /\ request = [q \in Requests |-> NoRequest]
  /\ due = [s \in Senders |-> {}] /\ reached = [s \in Senders |-> {}]
  /\ missed = [s \in Senders |-> {}]
  /\ faults = 0

Fault == faults < MaxFaults /\ faults' = faults + 1

TokensOf(us) == {t \in Tokens : row[t] # NoRow /\ row[t].user \in us}

-------------------------------------------------------------------------------
(* The repository                                                          *)

SetRow(t, r) ==
  /\ row' = [row EXCEPT ![t] = r]
  /\ due' = IF r.id = row[t].id THEN due ELSE [s \in Senders |-> due[s] \ {t}]

(* Mutant of Delete: by the token.                                         *)
DeleteWhatever(t, found) == SetRow(t, NoRow) /\ UNCHANGED nextId

(* The second half of DeleteByToken: the row that was found is deleted, by *)
(* its ID, if it is still there.                                           *)
Delete(t, found) ==
  /\ IF row[t].id = found.id THEN SetRow(t, NoRow) ELSE UNCHANGED <<row, due>>
  /\ UNCHANGED nextId

(* Mutant of Existing: the first half of Upsert, without the user.         *)
ExistingOfAnyone(t, u) == row[t]

(* The first half of Upsert: the user's row with the token.                *)
Existing(t, u) == IF row[t].user = u THEN row[t] ELSE NoRow

(* The second half: without one a row is created, unless another has the   *)
(* token; otherwise it is saved, which is an insert with the old ID if it  *)
(* has been deleted in the meantime.                                       *)
Stores(q) == \/ row[q.token] = NoRow
             \/ q.found # NoRow /\ row[q.token].id = q.found.id

Store(q) ==
  IF q.found = NoRow
  THEN SetRow(q.token, [id |-> nextId, user |-> q.user]) /\ nextId' = nextId + 1
  ELSE SetRow(q.token, q.found) /\ UNCHANGED nextId

-------------------------------------------------------------------------------
(* Requests                                                                *)

(* UnregisterToken looks for the row, and nobody counts on the             *)
(* registration any more.  If there is none it ends there.                 *)
AskUnregister(q, t) ==
  /\ request[q].stage = "idle" /\ row[t] # NoRow
  /\ request' = [request EXCEPT ![q] =
       [NoRequest EXCEPT !.stage = "found",
                         !.kind = "unregister", !.token = t, !.found = row[t]]]
  /\ registered' = {r \in registered : r[1] # t}
  /\ UNCHANGED <<tableVars, gone, job, sent, overtaken, due, reached, missed, faults>>

AskRegister(q, t, u) ==
  /\ request[q].stage = "idle"
  /\ request' = [request EXCEPT ![q] =
       [stage |-> "found", kind |-> "register", token |-> t, user |-> u, found |-> Existing(t, u)]]
  /\ UNCHANGED <<tableVars, gone, job, sent, historyVars, faults>>

(* An unregistration has found this very row and is about to delete it.    *)
Doomed(t, id) ==
  \E q \in Requests : request[q].stage = "found" /\ request[q].kind = "unregister"
                      /\ request[q].token = t /\ request[q].found.id = id

Unregister(q) ==
  /\ request[q].stage = "found" /\ request[q].kind = "unregister"
  /\ request' = [request EXCEPT ![q] = HasEnded]
  /\ \/ Delete(request[q].token, request[q].found) /\ UNCHANGED faults
     \/ Fault /\ UNCHANGED <<tableVars, due>>
  /\ UNCHANGED <<gone, job, sent, registered, overtaken, reached, missed>>

Register(q) ==
  /\ request[q].stage = "found" /\ request[q].kind = "register"
  /\ request' = [request EXCEPT ![q] = HasEnded]
  /\ LET t == request[q].token
         new == {<<t, request[q].user>>}
     IN \/ /\ Stores(request[q]) /\ Store(request[q])
           /\ registered' = {r \in registered : r[1] # t} \cup new
           /\ overtaken' = IF Doomed(t, row'[t].id) THEN overtaken \cup new ELSE overtaken \ new
           /\ UNCHANGED faults
        \/ /\ \/ ~Stores(request[q]) /\ UNCHANGED faults
              \/ Fault
           /\ UNCHANGED <<tableVars, registered, overtaken, due>>
  /\ UNCHANGED <<gone, job, sent, reached, missed>>

(* The user withdraws the permission, or the browser's profile is deleted. *)
Expire(t) ==
  /\ t \in WebTokens \ gone
  /\ gone' = gone \cup {t}
  /\ UNCHANGED <<tableVars, job, request, sent, historyVars, faults>>

-------------------------------------------------------------------------------
(* Senders                                                                 *)

Misses(s, ts) == /\ Fault /\ missed' = [missed EXCEPT ![s] = @ \cup ts]

(* handleNotification, for all users of the tenant or the one the message  *)
(* names; SendBroadcastToUser.  If FindByTenant fails the notification is  *)
(* dropped, for all of them.                                               *)
Begin(s, audience) ==
  /\ job[s].stage = "idle" /\ sent < MaxNotifications
  /\ sent' = sent + 1
  /\ due' = [due EXCEPT ![s] = TokensOf(audience)]
  /\ \E users \in {audience, {}} :
       /\ job' = [job EXCEPT ![s] = [AtRest EXCEPT !.stage = "sending", !.users = users]]
       /\ \/ users = audience /\ UNCHANGED <<missed, faults>>
          \/ users = {} /\ audience = Users /\ Misses(s, TokensOf(Users))
  /\ UNCHANGED <<tableVars, gone, request, registered, overtaken, reached>>

(* sendToUser lists the tokens of the next user; an error is logged, and   *)
(* it goes on.                                                             *)
ListTokensByUserID(s, u) ==
  /\ job[s].stage = "sending" /\ job[s].tokens = {}
  /\ u \in job[s].users
  /\ \/ job' = [job EXCEPT ![s].users = @ \ {u}, ![s].tokens = TokensOf({u})]
        /\ UNCHANGED <<missed, faults>>
     \/ job' = [job EXCEPT ![s].users = @ \ {u}] /\ Misses(s, TokensOf({u}))
  /\ UNCHANGED <<tableVars, gone, request, sent, registered, overtaken, due, reached>>

(* Mutant of Rest: a failure ends the notification.                        *)
Nothing(tokens) == {}

(* What is left of the list after a failure.                               *)
Rest(tokens) == tokens

(* Mutant of Expired: every failure is taken for it.                       *)
NotAccepted(outcome) == outcome # "accepted"

(* The push services of browsers answer 404 or 410; nobody else has an     *)
(* answer that counts as ErrSubscriptionExpired.                           *)
Expired(outcome) == outcome = "gone"

SendPushNotification(s, t, outcome) ==
  /\ job[s].stage = "sending" /\ t \in job[s].tokens
  /\ LET left == job[s].tokens \ {t}
     IN IF outcome = "accepted"
        THEN /\ job' = [job EXCEPT ![s].tokens = left]
             /\ reached' = [reached EXCEPT ![s] = @ \cup {t}]
        ELSE /\ job' = [job EXCEPT ![s].stage = IF Expired(outcome) THEN "expired" ELSE @,
                                   ![s].token = IF Expired(outcome) THEN t ELSE @,
                                   ![s].tokens = Rest(left)]
             /\ UNCHANGED reached
  /\ IF outcome = "failed" THEN Misses(s, {t})
     ELSE outcome = (IF t \in gone THEN "gone" ELSE "accepted") /\ UNCHANGED <<missed, faults>>
  /\ UNCHANGED <<tableVars, gone, request, sent, registered, overtaken, due>>

Continue(s) == job' = [job EXCEPT ![s] = [@ EXCEPT !.stage = "sending", !.token = Null,
                                                  !.found = NoRow]]

(* UnregisterToken, which finds the row and deletes it.                    *)
FindExpired(s) ==
  LET t == job[s].token
  IN /\ job[s].stage = "expired"
     /\ \/ /\ IF row[t] = NoRow THEN Continue(s)
              ELSE job' = [job EXCEPT ![s].stage = "found", ![s].found = row[t]]
           /\ UNCHANGED <<missed, faults>>
        \/ Continue(s) /\ Misses(s, {t})
     /\ UNCHANGED <<tableVars, gone, request, sent, registered, overtaken, due, reached>>

DeleteExpired(s) ==
  LET t == job[s].token
  IN /\ job[s].stage = "found"
     /\ Continue(s)
     /\ \/ Delete(t, job[s].found) /\ UNCHANGED <<missed, faults>>
        \/ Misses(s, {t}) /\ UNCHANGED <<tableVars, due>>
     /\ UNCHANGED <<gone, request, sent, registered, overtaken, reached>>

Done(s) == job[s].stage = "sending" /\ job[s].users = {} /\ job[s].tokens = {}

(* The worker takes the next message.                                      *)
End(s) ==
  /\ Done(s)
  /\ job' = [job EXCEPT ![s] = AtRest]
  /\ due' = [due EXCEPT ![s] = {}]
  /\ reached' = [reached EXCEPT ![s] = {}] /\ missed' = [missed EXCEPT ![s] = {}]
  /\ UNCHANGED <<tableVars, gone, request, sent, registered, overtaken, faults>>

(* The process starts again: only the rows stay.                           *)
Restart ==
  /\ Fault
  /\ job' = [s \in Senders |-> AtRest]
  /\ request' = [q \in Requests |-> IF request[q].stage = "idle" THEN NoRequest ELSE HasEnded]
  /\ due' = [s \in Senders |-> {}]
  /\ reached' = due' /\ missed' = due'
  /\ UNCHANGED <<tableVars, gone, sent, registered, overtaken>>

Audiences == {{u} : u \in Users} \cup {Users}

Next ==
  \/ \E q \in Requests, t \in Tokens :
       \/ AskUnregister(q, t)
       \/ \E u \in Users : AskRegister(q, t, u)
  \/ \E q \in Requests : Unregister(q) \/ Register(q)
  \/ \E t \in Tokens : Expire(t)
  \/ \E s \in Senders :
       \/ \E audience \in Audiences : Begin(s, audience)
       \/ \E u \in Users : ListTokensByUserID(s, u)
       \/ \E t \in Tokens, outcome \in {"accepted", "gone", "failed"} :
            SendPushNotification(s, t, outcome)
       \/ FindExpired(s) \/ DeleteExpired(s) \/ End(s)
  \/ Restart

Spec == Init /\ [][Next]_vars
-------------------------------------------------------------------------------
MaxId == Cardinality(Tokens) + Cardinality(Requests)
Row == [id : 0..MaxId, user : Users \cup {Null}]

TypeOK ==
  /\ row \in [Tokens -> Row] /\ nextId \in 1..(MaxId + 1)
  /\ gone \subseteq WebTokens
  /\ job \in [Senders -> [stage : {"idle", "sending", "expired", "found"},
                          users : SUBSET Users, tokens : SUBSET Tokens,
                          token : Tokens \cup {Null}, found : Row]]
  /\ request \in [Requests -> [stage : {"idle", "found", "done"},
                               kind : {"none", "register", "unregister"},
                               token : Tokens \cup {Null}, user : Users \cup {Null}, found : Row]]
  /\ \A s \in Senders : job[s].stage \in {"expired", "found"} => job[s].token \in gone
  /\ \A t1, t2 \in Tokens : row[t1].id = row[t2].id /\ t1 # t2 => row[t1] = NoRow
  /\ sent \in 0..MaxNotifications /\ faults \in 0..MaxFaults

(* Whoever has been told that a token is registered is the user who gets   *)
(* its notifications, until somebody asks to unregister it or the          *)
(* subscription is gone: another user's registration of the same token, a  *)
(* sender that unregisters, or an unregistration that was asked for before *)
(* and is late cannot take that away.  There is one exception: Upsert has  *)
(* saved a row that an unregistration had already found, and which that    *)
(* one then deletes by its ID.                                             *)
RegistrationLostOnlyByOverlap ==
  \A r \in registered : \/ row[r[1]] # NoRow /\ row[r[1]].user = r[2]
                        \/ r \in overtaken
                        \/ r[1] \in gone

(* When a sender has done with a notification, every token that was        *)
(* registered all the time has accepted it, or the call that failed was    *)
(* one to send to this very token or to unregister it, to list its user's  *)
(* tokens, or to find the users of the tenant, which is for all of them.   *)
(* Another token or another user that fails does not keep it from it, and  *)
(* one whose subscription is gone is not registered any more.              *)
EveryoneIsTold ==
  \A s \in Senders : Done(s) => due[s] \subseteq reached[s] \cup missed[s]
===============================================================================
