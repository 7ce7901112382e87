------------------------ MODULE PushNotificationsProofs ------------------------
(***************************************************************************)
(* What may take an acknowledged registration away, and what may keep a    *)
(* notification from a token that stays registered: for any number of      *)
(* tokens, users, senders, requests and failures.                          *)
(***************************************************************************)
EXTENDS PushNotifications, FunctionTheorems, FiniteSetTheorems, TLAPS

(* The rows a token has had that somebody still knows of: the one that is  *)
(* stored, and those that requests and senders have found.                 *)
FoundByRequests(t) ==
  {request[q].found : q \in {p \in Requests : request[p].stage = "found" /\ request[p].token = t}}
FoundBySenders(t) ==
  {job[s].found : s \in {r \in Senders : job[r].stage = "found" /\ job[r].token = t}}
Known(t) == {row[t]} \cup FoundByRequests(t) \cup FoundBySenders(t)

(* A row's ID says which token and which user it is of, and the next ID is *)
(* a new one.                                                              *)
IdsIdentify ==
  \A t, u \in Tokens : \A r \in Known(t), v \in Known(u) :
    r.id = v.id => (r = NoRow /\ v = NoRow) \/ (t = u /\ r = v)
IdsAreOld ==
  \A t \in Tokens : \A r \in Known(t) : r.id < nextId /\ (r.id = 0 => r = NoRow)

(* There are enough IDs for the requests that may still need one.          *)
Open == {q \in Requests : request[q].stage # "done"}
IdsSuffice == nextId + Cardinality(Open) <= MaxId + 1

RequestsFit ==
  \A q \in Requests : request[q].stage = "found" =>
    /\ request[q].token \in Tokens /\ request[q].kind \in {"register", "unregister"}
    /\ request[q].kind = "register" =>
         request[q].user \in Users /\ request[q].found.user \in {Null, request[q].user}
    /\ request[q].kind = "register" /\ request[q].found.user = Null => request[q].found = NoRow

HistoryOK ==
  /\ registered \subseteq Tokens \X Users
  /\ due \in [Senders -> SUBSET Tokens]
  /\ reached \in [Senders -> SUBSET Tokens] /\ missed \in [Senders -> SUBSET Tokens]

(* A row that an unregistration is about to delete is nobody's             *)
(* registration, unless that has been acknowledged since.                  *)
DoomedIsOvertaken ==
  \A t \in Tokens : Doomed(t, row[t].id) =>
    \A r \in registered : r[1] = t => r \in overtaken \/ t \in gone

(* A token that has been registered since a sender began has a row, and it *)
(* is the one the sender has found, if it has found one.                   *)
DueIsStored ==
  \A s \in Senders : \A t \in due[s] :
    row[t] # NoRow /\ (job[s].stage = "found" /\ job[s].token = t => job[s].found = row[t])

(* A sender has told such a token, has failed to, or will come to it.      *)
ToldOrWillBe ==
  \A s \in Senders : job[s].stage # "idle" =>
    \A t \in due[s] :
      \/ t \in reached[s] \cup missed[s] \cup job[s].tokens
      \/ row[t].user \in job[s].users
      \/ job[s].stage \in {"expired", "found"} /\ job[s].token = t

IInv == /\ TypeOK /\ HistoryOK /\ IdsIdentify /\ IdsAreOld /\ IdsSuffice /\ RequestsFit
        /\ DoomedIsOvertaken /\ DueIsStored /\ ToldOrWillBe /\ RegistrationLostOnlyByOverlap

-------------------------------------------------------------------------------
(* The rows                                                                *)

(* Whoever knows of a row keeps to it or forgets it.                       *)
LEMMA NothingNew ==
  ASSUME IInv, \A t \in Tokens : \A r \in Known(t)' : r \in Known(t) \/ r = NoRow,
         nextId' = nextId
  PROVE  (IdsIdentify /\ IdsAreOld)'
<1>1. nextId \in Nat /\ nextId > 0
  BY DEF IInv, TypeOK
<1>2. IdsIdentify'
  BY DEF IInv, IdsIdentify, IdsAreOld, NoRow
<1>3. IdsAreOld'
  BY <1>1 DEF IInv, IdsAreOld, NoRow
<1>4. QED BY <1>2, <1>3

(* One token has a new row.                                                *)
LEMMA OneNew ==
  ASSUME IInv, NEW new, NEW c \in Tokens, new.id = nextId, nextId' = nextId + 1,
         \A t \in Tokens : \A r \in Known(t)' :
           r \in Known(t) \/ r = NoRow \/ (t = c /\ r = new)
  PROVE  (IdsIdentify /\ IdsAreOld)'
<1>1. nextId \in Nat /\ nextId > 0
  BY DEF IInv, TypeOK
<1>2. \A t \in Tokens : \A r \in Known(t) : r.id < nextId /\ r.id # nextId /\ r.id < nextId + 1
  <2>1. \A t \in Tokens : \A r \in Known(t) : r.id \in Int
    BY DEF IInv, TypeOK, Known, FoundByRequests, FoundBySenders, Row
  <2>2. QED BY <1>1, <2>1 DEF IInv, IdsAreOld
<1>3. IdsIdentify'
  BY <1>1, <1>2 DEF IInv, IdsIdentify, IdsAreOld, NoRow
<1>4. IdsAreOld'
  BY <1>1, <1>2 DEF IInv, IdsAreOld, NoRow
<1>5. QED BY <1>3, <1>4

(* What deleting a row that somebody has found amounts to.                 *)
LEMMA DeleteEffect ==
  ASSUME IInv, NEW t \in Tokens, NEW found \in Known(t), Delete(t, found)
  PROVE  /\ nextId' = nextId /\ row' \in [Tokens -> Row] /\ due' \in [Senders -> SUBSET Tokens]
         /\ row'[t] \in {NoRow, row[t]} /\ (row[t] = found => row'[t] = NoRow)
         /\ row'[t] # row[t] => row[t] = found
         /\ \A u \in Tokens \ {t} : row'[u] = row[u]
         /\ \A s \in Senders : due'[s] \subseteq due[s] /\ \A u \in due'[s] : row'[u] = row[u]
<1> USE DEF IInv, TypeOK, HistoryOK, Delete
<1>1. NoRow \in Row
  <2>1. MaxId \in Nat
    BY FS_CardinalityType, PushAssumption DEF MaxId
  <2>2. QED BY <2>1 DEF NoRow, Row
<1>2. row[t] \in Known(t)
  BY DEF Known
<1>3. row[t].id = found.id => row[t] = found
  BY <1>2 DEF IdsIdentify
<1>4. row[t].id = 0 => row[t] = NoRow
  BY <1>2 DEF IdsAreOld
<1>5. CASE row[t].id # found.id
  BY <1>5
<1>6. CASE row[t].id = found.id /\ row[t] = NoRow
  BY <1>3, <1>6, <1>1 DEF SetRow
<1>7. CASE row[t].id = found.id /\ row[t] # NoRow
  <2>1. NoRow.id # row[t].id
    BY <1>4, <1>7 DEF NoRow
  <2>2. row' = [row EXCEPT ![t] = NoRow] /\ due' = [s \in Senders |-> due[s] \ {t}]
    BY <1>7, <2>1 DEF SetRow
  <2>3. QED BY <1>1, <1>3, <1>7, <2>2
<1>8. QED BY <1>5, <1>6, <1>7

(* What storing the row of a registration amounts to.                      *)
LEMMA StoreEffect ==
  ASSUME IInv, NEW q \in Requests, request[q].stage = "found", request[q].kind = "register",
         Stores(request[q]), Store(request[q])
  PROVE  LET t == request[q].token
         IN /\ row' \in [Tokens -> Row] /\ due' \in [Senders -> SUBSET Tokens]
            /\ row'[t] # NoRow /\ row'[t].user = request[q].user
            /\ \/ row'[t] \in Known(t) /\ nextId' = nextId
               \/ row'[t].id = nextId /\ nextId' = nextId + 1
            /\ \A u \in Tokens \ {t} : row'[u] = row[u]
            /\ \A s \in Senders : due'[s] \subseteq due[s] /\ \A u \in due'[s] : row'[u] = row[u]
<1> USE DEF IInv, TypeOK, HistoryOK, Stores, Store
<1> DEFINE t == request[q].token
<1> DEFINE f == request[q].found
<1> DEFINE new == [id |-> nextId, user |-> request[q].user]
<1>1. t \in Tokens /\ request[q].user \in Users /\ f \in Row /\ f.user \in {Null, request[q].user}
      /\ (f.user = Null => f = NoRow)
  BY DEF RequestsFit
<1>2. row[t] \in Known(t) /\ f \in Known(t)
  BY DEF Known, FoundByRequests
<1>3. row[t].id = f.id => row[t] = f
  BY <1>1, <1>2 DEF IdsIdentify
<1>4. row[t].id < nextId /\ (f.id = 0 => f = NoRow)
  BY <1>1, <1>2 DEF IdsAreOld
<1>5. CASE f = NoRow
  <2>1. row[t] = NoRow
    BY <1>5
  <2>2. new \in Row
    <3>1. Cardinality(Open) \in Nat /\ Cardinality(Open) # 0
      <4>1. IsFiniteSet(Open) /\ q \in Open
        BY FS_Subset, PushAssumption DEF Open
      <4>2. QED BY <4>1, FS_CardinalityType, FS_EmptySet
    <3>2. MaxId \in Nat
      BY FS_CardinalityType, PushAssumption DEF MaxId
    <3>3. QED BY <1>1, <3>1, <3>2 DEF IdsSuffice, Row
  <2>3. row' = [row EXCEPT ![t] = new] /\ due' = [s \in Senders |-> due[s] \ {t}]
        /\ nextId' = nextId + 1
    BY <1>5, <2>1 DEF SetRow, NoRow
  <2>4. new # NoRow
    BY DEF NoRow
  <2>5. QED BY <1>1, <2>2, <2>3, <2>4
<1>6. CASE f # NoRow
  <2>1. row' = [row EXCEPT ![t] = f] /\ nextId' = nextId /\ f.user = request[q].user
    BY <1>1, <1>6 DEF SetRow
  <2>2. CASE row[t] = NoRow
    <3>1. due' = [s \in Senders |-> due[s] \ {t}]
      BY <1>4, <1>6, <2>2 DEF SetRow, NoRow
    <3>2. QED BY <1>1, <1>2, <1>6, <2>1, <3>1
  <2>3. CASE row[t].id = f.id
    <3>1. due' = due
      BY <1>6, <2>3 DEF SetRow
    <3>2. QED BY <1>1, <1>2, <1>3, <1>6, <2>1, <2>3, <3>1
  <2>4. QED BY <1>6, <2>2, <2>3
<1>7. QED BY <1>5, <1>6

(* Fewer requests that may need an ID.                                     *)
LEMMA OpenShrinks ==
  ASSUME IInv, nextId' = nextId, Open' \subseteq Open
  PROVE  IdsSuffice' /\ nextId' \in 1..(MaxId + 1)
<1>1. IsFiniteSet(Open) /\ IsFiniteSet(Open')
  BY FS_Subset, PushAssumption DEF Open
<1>2. Cardinality(Open') \in Nat /\ Cardinality(Open) \in Nat /\ Cardinality(Open') <= Cardinality(Open)
  BY <1>1, FS_Subset, FS_CardinalityType
<1>3. MaxId \in Nat
  BY FS_CardinalityType, PushAssumption DEF MaxId
<1>4. Cardinality(Open)' = Cardinality(Open')
  OBVIOUS
<1>5. QED BY <1>2, <1>3, <1>4 DEF IInv, TypeOK, IdsSuffice

(* The senders do not notice a change of rows that are not due.            *)
LEMMA SendersKeep ==
  ASSUME IInv, UNCHANGED <<job, reached, missed>>,
         \A s \in Senders : due'[s] \subseteq due[s] /\ \A u \in due'[s] : row'[u] = row[u]
  PROVE  (DueIsStored /\ ToldOrWillBe)'
BY DEF IInv, DueIsStored, ToldOrWillBe

-------------------------------------------------------------------------------
(* Requests                                                                *)

LEMMA AskUnregisterStep ==
  ASSUME IInv, NEW q \in Requests, NEW t \in Tokens, AskUnregister(q, t) PROVE IInv'
<1> USE DEF IInv, AskUnregister, tableVars
<1>1. (IdsIdentify /\ IdsAreOld)'
  <2>1. \A u \in Tokens : \A r \in Known(u)' : r \in Known(u)
    BY DEF TypeOK, Known, FoundByRequests, FoundBySenders, NoRequest
  <2>2. QED BY <2>1, NothingNew
<1>2. IdsSuffice'
  <2>1. Open' \subseteq Open
    BY DEF TypeOK, Open
  <2>2. QED BY <2>1, OpenShrinks
<1>3. TypeOK' /\ HistoryOK' /\ RequestsFit'
  BY DEF TypeOK, HistoryOK, RequestsFit, NoRequest
<1>4. DoomedIsOvertaken'
  BY DEF TypeOK, HistoryOK, DoomedIsOvertaken, Doomed, NoRequest
<1>5. DueIsStored' /\ ToldOrWillBe'
  BY DEF DueIsStored, ToldOrWillBe
<1>6. RegistrationLostOnlyByOverlap'
  BY DEF RegistrationLostOnlyByOverlap
<1>7. QED BY <1>1, <1>2, <1>3, <1>4, <1>5, <1>6

LEMMA AskRegisterStep ==
  ASSUME IInv, NEW q \in Requests, NEW t \in Tokens, NEW u \in Users, AskRegister(q, t, u)
  PROVE  IInv'
<1> USE DEF IInv, AskRegister, tableVars, historyVars
<1>1. NoRow \in Row /\ Existing(t, u) \in {NoRow, row[t]} /\ Existing(t, u).user \in {Null, u}
      /\ (Existing(t, u).user = Null => Existing(t, u) = NoRow)
  <2>1. MaxId \in Nat
    BY FS_CardinalityType, PushAssumption DEF MaxId
  <2>2. QED BY <2>1, PushAssumption DEF NoRow, Row, Existing
<1>2. (IdsIdentify /\ IdsAreOld)'
  <2>1. \A v \in Tokens : \A r \in Known(v)' : r \in Known(v) \/ r = NoRow
    BY <1>1 DEF TypeOK, Known, FoundByRequests, FoundBySenders
  <2>2. QED BY <2>1, NothingNew
<1>3. IdsSuffice'
  <2>1. Open' \subseteq Open
    BY DEF TypeOK, Open
  <2>2. QED BY <2>1, OpenShrinks
<1>4. TypeOK' /\ HistoryOK' /\ RequestsFit'
  BY <1>1 DEF TypeOK, HistoryOK, RequestsFit
<1>5. DoomedIsOvertaken'
  BY DEF TypeOK, HistoryOK, DoomedIsOvertaken, Doomed
<1>6. DueIsStored' /\ ToldOrWillBe'
  BY DEF DueIsStored, ToldOrWillBe
<1>7. RegistrationLostOnlyByOverlap'
  BY DEF RegistrationLostOnlyByOverlap
<1>8. QED BY <1>2, <1>3, <1>4, <1>5, <1>6, <1>7

(* A request that is over leaves the rest as it is.                        *)
LEMMA RequestEnds ==
  ASSUME IInv, NEW q \in Requests, request[q].stage = "found",
         request' = [request EXCEPT ![q] = HasEnded], UNCHANGED <<gone, job, sent, reached, missed>>,
         faults' \in 0..MaxFaults, row' \in [Tokens -> Row], due' \in [Senders -> SUBSET Tokens],
         registered' \subseteq Tokens \X Users, nextId' \in 1..(MaxId + 1),
         (IdsIdentify /\ IdsAreOld)'
  PROVE  (TypeOK /\ HistoryOK /\ RequestsFit)'
<1> USE DEF IInv
<1>1. HasEnded \in [stage : {"idle", "found", "done"}, kind : {"none", "register", "unregister"},
                    token : Tokens \cup {Null}, user : Users \cup {Null}, found : Row]
  <2>1. MaxId \in Nat
    BY FS_CardinalityType, PushAssumption DEF MaxId
  <2>2. QED BY <2>1 DEF HasEnded, Row, NoRow
<1>2. \A t1, t2 \in Tokens : row'[t1].id = row'[t2].id /\ t1 # t2 => row'[t1] = NoRow
  BY DEF IdsIdentify, Known
<1>3. TypeOK'
  BY <1>1, <1>2 DEF TypeOK
<1>4. HistoryOK'
  BY DEF HistoryOK
<1>5. RequestsFit'
  BY DEF RequestsFit, TypeOK, HasEnded
<1>6. QED BY <1>3, <1>4, <1>5

LEMMA UnregisterStep == ASSUME IInv, NEW q \in Requests, Unregister(q) PROVE IInv'
<1> USE DEF IInv, Unregister, tableVars
<1> DEFINE t == request[q].token
<1>1. t \in Tokens /\ request[q].found \in Known(t)
  BY DEF RequestsFit, Known, FoundByRequests
<1>2. Open' \subseteq Open /\ request'[q].stage = "done"
      /\ \A p \in Requests \ {q} : request'[p] = request[p]
  BY DEF TypeOK, Open, HasEnded
<1>3. /\ nextId' = nextId /\ row' \in [Tokens -> Row] /\ due' \in [Senders -> SUBSET Tokens]
      /\ \A u \in Tokens : row'[u] \in {NoRow, row[u]}
      /\ \A u \in Tokens : row'[u] # row[u] => u = t /\ row[t] = request[q].found
      /\ \A s \in Senders : due'[s] \subseteq due[s] /\ \A u \in due'[s] : row'[u] = row[u]
  <2>1. CASE Delete(t, request[q].found)
    BY <1>1, <2>1, DeleteEffect
  <2>2. CASE UNCHANGED <<tableVars, due>>
    BY <2>2 DEF TypeOK, HistoryOK
  <2>3. QED BY <2>1, <2>2
<1>4. (IdsIdentify /\ IdsAreOld)'
  <2>1. \A u \in Tokens : \A r \in Known(u)' : r \in Known(u) \/ r = NoRow
    BY <1>2, <1>3 DEF Known, FoundByRequests, FoundBySenders
  <2>2. QED BY <1>3, <2>1, NothingNew
<1>5. IdsSuffice' /\ nextId' \in 1..(MaxId + 1)
  BY <1>2, <1>3, OpenShrinks
<1>6. (TypeOK /\ HistoryOK /\ RequestsFit)'
  <2>1. faults' \in 0..MaxFaults
    BY PushAssumption DEF TypeOK, Fault
  <2>2. registered' \subseteq Tokens \X Users
    BY DEF HistoryOK
  <2>3. QED BY <1>3, <1>4, <1>5, <2>1, <2>2, RequestEnds
<1>7. \A u \in Tokens : row'[u] # row[u] =>
        \A r \in registered : r[1] = u => r \in overtaken \/ u \in gone
  <2>1. \A u \in Tokens : row'[u] # row[u] => Doomed(u, row[u].id)
    BY <1>3 DEF Doomed
  <2>2. QED BY <2>1 DEF DoomedIsOvertaken
<1>8. DoomedIsOvertaken'
  <2>1. \A id : \A u \in Tokens : Doomed(u, id)' => Doomed(u, id)
    BY <1>2 DEF Doomed
  <2>2. QED BY <1>7, <2>1 DEF DoomedIsOvertaken
<1>9. DueIsStored' /\ ToldOrWillBe'
  BY <1>3, SendersKeep
<1>10. RegistrationLostOnlyByOverlap'
  BY <1>7 DEF RegistrationLostOnlyByOverlap, HistoryOK
<1>11. QED BY <1>4, <1>5, <1>6, <1>8, <1>9, <1>10

LEMMA RegisterStep == ASSUME IInv, NEW q \in Requests, Register(q) PROVE IInv'
<1> USE DEF IInv, Register, tableVars
<1> DEFINE t == request[q].token
<1> DEFINE new == {<<t, request[q].user>>}
<1>1. t \in Tokens /\ request[q].user \in Users
  BY DEF RequestsFit
<1>2. Open' = Open \ {q} /\ q \in Open /\ request'[q].stage = "done"
      /\ \A p \in Requests \ {q} : request'[p] = request[p]
  BY DEF TypeOK, Open, HasEnded
<1>3. \A id : \A u \in Tokens : Doomed(u, id)' => Doomed(u, id)
  BY <1>2 DEF Doomed
<1>4. faults' \in 0..MaxFaults
  BY PushAssumption DEF TypeOK, Fault
<1>5. CASE UNCHANGED <<tableVars, registered, overtaken, due>>
  <2>1. (IdsIdentify /\ IdsAreOld)'
    <3>1. \A u \in Tokens : \A r \in Known(u)' : r \in Known(u)
      BY <1>2, <1>5 DEF Known, FoundByRequests, FoundBySenders
    <3>2. QED BY <1>5, <3>1, NothingNew
  <2>2. IdsSuffice' /\ nextId' \in 1..(MaxId + 1)
    BY <1>2, <1>5, OpenShrinks
  <2>3. (TypeOK /\ HistoryOK /\ RequestsFit)'
    <3>1. /\ row' \in [Tokens -> Row] /\ due' \in [Senders -> SUBSET Tokens]
          /\ registered' \subseteq Tokens \X Users
      BY <1>5 DEF TypeOK, HistoryOK
    <3>2. QED BY <1>4, <2>1, <2>2, <3>1, RequestEnds
  <2>4. DoomedIsOvertaken' /\ RegistrationLostOnlyByOverlap'
    BY <1>3, <1>5 DEF DoomedIsOvertaken, RegistrationLostOnlyByOverlap
  <2>5. DueIsStored' /\ ToldOrWillBe'
    BY <1>5 DEF DueIsStored, ToldOrWillBe
  <2>6. QED BY <2>1, <2>2, <2>3, <2>4, <2>5
<1>6. ASSUME Stores(request[q]), Store(request[q]), UNCHANGED faults,
             registered' = {r \in registered : r[1] # t} \cup new,
             overtaken' = IF Doomed(t, row'[t].id) THEN overtaken \cup new ELSE overtaken \ new
      PROVE  IInv'
  <2>1. /\ row' \in [Tokens -> Row] /\ due' \in [Senders -> SUBSET Tokens]
        /\ row'[t] # NoRow /\ row'[t].user = request[q].user
        /\ \/ row'[t] \in Known(t) /\ nextId' = nextId
           \/ row'[t].id = nextId /\ nextId' = nextId + 1
        /\ \A u \in Tokens \ {t} : row'[u] = row[u]
        /\ \A s \in Senders : due'[s] \subseteq due[s] /\ \A u \in due'[s] : row'[u] = row[u]
    BY <1>6, StoreEffect
  <2>2. \A u \in Tokens : \A r \in Known(u)' : r \in Known(u) \/ (u = t /\ r = row'[t])
    BY <1>2, <2>1 DEF Known, FoundByRequests, FoundBySenders
  <2>3. (IdsIdentify /\ IdsAreOld)'
    <3>1. CASE row'[t] \in Known(t) /\ nextId' = nextId
      BY <2>2, <3>1, NothingNew
    <3>2. CASE row'[t].id = nextId /\ nextId' = nextId + 1
      <4>1. \A u \in Tokens : \A r \in Known(u)' : r \in Known(u) \/ r = NoRow \/ (u = t /\ r = row'[t])
        BY <2>2
      <4>2. QED BY <1>1, <3>2, <4>1, OneNew
    <3>3. QED BY <2>1, <3>1, <3>2
  <2>4. IdsSuffice' /\ nextId' \in 1..(MaxId + 1)
    <3>1. IsFiniteSet(Open)
      BY FS_Subset, PushAssumption DEF Open
    <3>2. /\ Cardinality(Open') = Cardinality(Open) - 1
          /\ Cardinality(Open) \in Nat /\ Cardinality(Open') \in Nat
      BY <1>2, <3>1, FS_RemoveElement, FS_CardinalityType
    <3>3. MaxId \in Nat /\ nextId \in Nat /\ nextId > 0
      BY FS_CardinalityType, PushAssumption DEF MaxId, TypeOK
    <3>4. nextId' \in {nextId, nextId + 1}
      BY <2>1
    <3>5. Cardinality(Open)' = Cardinality(Open')
      OBVIOUS
    <3>6. nextId + Cardinality(Open) <= MaxId + 1
      BY DEF IdsSuffice
    <3>7. nextId' + Cardinality(Open)' <= MaxId + 1
      BY <3>2, <3>3, <3>4, <3>5, <3>6
    <3>8. QED BY <3>2, <3>3, <3>4, <3>5, <3>7 DEF IdsSuffice
  <2>5. (TypeOK /\ HistoryOK /\ RequestsFit)'
    <3>1. registered' \subseteq Tokens \X Users
      BY <1>1, <1>6 DEF HistoryOK
    <3>2. QED BY <1>4, <2>1, <2>3, <2>4, <3>1, RequestEnds
  <2>6. DoomedIsOvertaken'
    <3>1. SUFFICES ASSUME NEW u \in Tokens, Doomed(u, row[u].id)', NEW r \in registered', r[1] = u
                   PROVE  r \in overtaken' \/ u \in gone
      BY DEF DoomedIsOvertaken
    <3>2. Doomed(u, row'[u].id)
      BY <1>2, <3>1 DEF Doomed
    <3>3. CASE u = t
      BY <1>6, <3>1, <3>2, <3>3
    <3>4. CASE u # t
      <4>1. Doomed(u, row[u].id)
        BY <2>1, <3>2, <3>4
      <4>2. r \in registered /\ r \notin new
        BY <1>6, <3>1, <3>4
      <4>3. r \in overtaken \/ u \in gone
        BY <3>1, <4>1, <4>2 DEF DoomedIsOvertaken
      <4>4. QED BY <1>6, <4>2, <4>3
    <3>5. QED BY <3>3, <3>4
  <2>7. DueIsStored' /\ ToldOrWillBe'
    BY <2>1, SendersKeep
  <2>8. RegistrationLostOnlyByOverlap'
    <3>1. SUFFICES ASSUME NEW r \in registered'
                   PROVE  \/ row'[r[1]] # NoRow /\ row'[r[1]].user = r[2]
                          \/ r \in overtaken' \/ r[1] \in gone
      BY DEF RegistrationLostOnlyByOverlap
    <3>2. CASE r \in new
      BY <2>1, <3>2
    <3>3. CASE r \notin new
      <4>1. r \in registered /\ r[1] \in Tokens \ {t} /\ (r \in overtaken => r \in overtaken')
        BY <1>6, <3>1, <3>3 DEF HistoryOK
      <4>2. QED BY <2>1, <4>1 DEF RegistrationLostOnlyByOverlap
    <3>4. QED BY <3>2, <3>3
  <2>9. QED BY <2>3, <2>4, <2>5, <2>6, <2>7, <2>8
<1>7. QED BY <1>5, <1>6

LEMMA ExpireStep == ASSUME IInv, NEW t \in Tokens, Expire(t) PROVE IInv'
<1> USE DEF IInv, Expire, tableVars, historyVars
<1>1. (IdsIdentify /\ IdsAreOld)'
  <2>1. \A u \in Tokens : \A r \in Known(u)' : r \in Known(u)
    BY DEF Known, FoundByRequests, FoundBySenders
  <2>2. QED BY <2>1, NothingNew
<1>2. IdsSuffice'
  BY OpenShrinks DEF Open
<1>3. TypeOK' /\ HistoryOK' /\ RequestsFit'
  BY DEF TypeOK, HistoryOK, RequestsFit
<1>4. DoomedIsOvertaken'
  BY DEF DoomedIsOvertaken, Doomed
<1>5. DueIsStored' /\ ToldOrWillBe' /\ RegistrationLostOnlyByOverlap'
  BY DEF historyVars, DueIsStored, ToldOrWillBe, RegistrationLostOnlyByOverlap
<1>6. QED BY <1>1, <1>2, <1>3, <1>4, <1>5

-------------------------------------------------------------------------------
(* Senders                                                                 *)

Jobs == [stage : {"idle", "sending", "expired", "found"}, users : SUBSET Users,
         tokens : SUBSET Tokens, token : Tokens \cup {Null}, found : Row]

LEMMA NoRowIsRow == NoRow \in Row
<1>1. MaxId \in Nat
  BY FS_CardinalityType, PushAssumption DEF MaxId
<1>2. QED BY <1>1 DEF NoRow, Row

(* What the table and the requests say is not touched by senders that      *)
(* find no row but those that are stored.                                  *)
LEMMA SendersOnly ==
  ASSUME IInv, UNCHANGED <<row, nextId, gone, request, registered, overtaken>>,
         \A s \in Senders : job'[s].stage = "found" =>
           job'[s] = job[s] \/ job'[s].found = row[job'[s].token]
  PROVE  (IdsIdentify /\ IdsAreOld /\ IdsSuffice /\ RequestsFit /\ DoomedIsOvertaken
          /\ RegistrationLostOnlyByOverlap)'
<1> USE DEF IInv
<1>1. \A u \in Tokens : \A r \in Known(u)' : r \in Known(u)
  BY DEF Known, FoundByRequests, FoundBySenders
<1>2. (IdsIdentify /\ IdsAreOld)'
  BY <1>1, NothingNew
<1>3. IdsSuffice'
  BY OpenShrinks DEF Open
<1>4. (RequestsFit /\ DoomedIsOvertaken /\ RegistrationLostOnlyByOverlap)'
  BY DEF RequestsFit, DoomedIsOvertaken, Doomed, RegistrationLostOnlyByOverlap
<1>5. QED BY <1>2, <1>3, <1>4

(* Sender s, and nobody else, does something.                              *)
Works(s) == job' \in [Senders -> Jobs] /\ \A r \in Senders \ {s} : job'[r] = job[r]

(* A sender goes on and does not forget a token that is due.               *)
LEMMA SenderGoesOn ==
  ASSUME IInv, NEW s \in Senders, Works(s),
         UNCHANGED <<row, nextId, gone, request, sent, registered, overtaken, due>>,
         job'[s].stage \in {"expired", "found"} => job'[s].token \in gone,
         job'[s].stage = "found" => job'[s].found = row[job'[s].token],
         faults' \in 0..MaxFaults,
         reached' \in [Senders -> SUBSET Tokens], missed' \in [Senders -> SUBSET Tokens],
         \A r \in Senders \ {s} : reached'[r] = reached[r] /\ missed'[r] = missed[r],
         \A t \in due[s] : \/ t \in reached'[s] \cup missed'[s] \cup job'[s].tokens
                           \/ row[t].user \in job'[s].users
                           \/ job'[s].stage \in {"expired", "found"} /\ job'[s].token = t
  PROVE  IInv'
<1> USE DEF IInv, Works
<1>1. (IdsIdentify /\ IdsAreOld /\ IdsSuffice /\ RequestsFit /\ DoomedIsOvertaken
       /\ RegistrationLostOnlyByOverlap)'
  BY SendersOnly
<1>2. TypeOK'
  <2>1. \A r \in Senders : job'[r].stage \in {"expired", "found"} => job'[r].token \in gone
    BY DEF TypeOK
  <2>2. QED BY <2>1 DEF TypeOK, Jobs
<1>3. HistoryOK'
  BY DEF HistoryOK
<1>4. DueIsStored'
  BY DEF DueIsStored
<1>5. ToldOrWillBe'
  BY DEF ToldOrWillBe
<1>6. QED BY <1>1, <1>2, <1>3, <1>4, <1>5

(* A call of sender s has failed, or none has.                             *)
LEMMA MissesTyped ==
  ASSUME IInv, NEW s \in Senders, NEW ts \in SUBSET Tokens,
         Misses(s, ts) \/ UNCHANGED <<missed, faults>>
  PROVE  /\ faults' \in 0..MaxFaults /\ missed' \in [Senders -> SUBSET Tokens]
         /\ \A r \in Senders \ {s} : missed'[r] = missed[r]
         /\ missed[s] \subseteq missed'[s] /\ (Misses(s, ts) => ts \subseteq missed'[s])
BY PushAssumption DEF IInv, TypeOK, HistoryOK, Misses, Fault

LEMMA JobsTyped ==
  ASSUME IInv, NEW s \in Senders
  PROVE  /\ job \in [Senders -> Jobs] /\ NoRow \in Row
         /\ job[s].users \subseteq Users /\ job[s].tokens \subseteq Tokens
         /\ reached \in [Senders -> SUBSET Tokens] /\ missed \in [Senders -> SUBSET Tokens]
BY NoRowIsRow DEF IInv, TypeOK, HistoryOK, Jobs

LEMMA BeginStep ==
  ASSUME IInv, NEW s \in Senders, NEW audience \in Audiences, Begin(s, audience) PROVE IInv'
<1> USE DEF tableVars
<1> DEFINE told == TokensOf(audience)
<1>1. PICK users \in {audience, {}} :
        /\ job' = [job EXCEPT ![s] = [AtRest EXCEPT !.stage = "sending", !.users = users]]
        /\ \/ users = audience /\ UNCHANGED <<missed, faults>>
           \/ users = {} /\ audience = Users /\ Misses(s, TokensOf(Users))
  BY DEF Begin
<1>2. /\ sent < MaxNotifications /\ sent' = sent + 1
      /\ due' = [due EXCEPT ![s] = told]
      /\ UNCHANGED <<row, nextId, gone, request, registered, overtaken, reached>>
  BY DEF Begin
<1>3. /\ Works(s) /\ job'[s].stage = "sending" /\ job'[s].users = users
      /\ job'[s].tokens = {}
  BY <1>1, JobsTyped DEF Works, Jobs, AtRest, Audiences
<1>4. told \in SUBSET Tokens /\ TokensOf(Users) \in SUBSET Tokens
  BY DEF TokensOf
<1>5. /\ faults' \in 0..MaxFaults /\ missed' \in [Senders -> SUBSET Tokens]
      /\ \A r \in Senders \ {s} : missed'[r] = missed[r]
      /\ users = audience \/ told \subseteq missed'[s]
  BY <1>1, <1>4, MissesTyped
<1>6. (IdsIdentify /\ IdsAreOld /\ IdsSuffice /\ RequestsFit /\ DoomedIsOvertaken
       /\ RegistrationLostOnlyByOverlap)'
  BY <1>2, <1>3, SendersOnly DEF Works
<1>7. TypeOK' /\ HistoryOK'
  <2>1. \A r \in Senders : job'[r].stage \in {"expired", "found"} => job'[r].token \in gone
    BY <1>3 DEF IInv, TypeOK, Works
  <2>2. sent' \in 0..MaxNotifications
    BY <1>2, PushAssumption DEF IInv, TypeOK
  <2>3. QED BY <1>2, <1>3, <1>4, <1>5, <2>1, <2>2 DEF IInv, TypeOK, HistoryOK, Works, Jobs
<1>8. /\ due'[s] = told /\ \A r \in Senders \ {s} : due'[r] = due[r]
      /\ \A t \in told : row[t] # NoRow /\ row[t].user \in audience
  BY <1>2 DEF IInv, HistoryOK, TokensOf
<1>9. DueIsStored' /\ ToldOrWillBe'
  BY <1>2, <1>3, <1>5, <1>8 DEF IInv, DueIsStored, ToldOrWillBe, HistoryOK, Works
<1>10. QED BY <1>6, <1>7, <1>9 DEF IInv

LEMMA ListStep ==
  ASSUME IInv, NEW s \in Senders, NEW u \in Users, ListTokensByUserID(s, u) PROVE IInv'
<1> DEFINE left == job[s].users \ {u}
<1> DEFINE kept == <<row, nextId, gone, request, sent, registered, overtaken, due, reached>>
<1>1. \A t \in due[s] : \/ t \in reached[s] \cup missed[s]
                        \/ row[t].user \in left
                        \/ t \in TokensOf({u})
  BY DEF ListTokensByUserID, IInv, ToldOrWillBe, DueIsStored, HistoryOK, TokensOf
<1>2. TokensOf({u}) \in SUBSET Tokens
  BY DEF TokensOf
<1>3. UNCHANGED kept /\ Works(s) /\ job'[s].stage = "sending" /\ job'[s].users = left
  <2>1. /\ job[s].stage = "sending" /\ UNCHANGED kept
        /\ \/ job' = [job EXCEPT ![s].users = @ \ {u}, ![s].tokens = TokensOf({u})]
           \/ job' = [job EXCEPT ![s].users = @ \ {u}]
    BY DEF ListTokensByUserID, tableVars
  <2>2. QED BY <1>2, <2>1, JobsTyped DEF Works, Jobs
<1>4. /\ faults' \in 0..MaxFaults /\ missed' \in [Senders -> SUBSET Tokens]
      /\ \A r \in Senders \ {s} : missed'[r] = missed[r]
      /\ missed[s] \subseteq missed'[s]
      /\ \/ job'[s].tokens = TokensOf({u})
         \/ TokensOf({u}) \subseteq missed'[s]
  <2>1. CASE Misses(s, TokensOf({u}))
    BY <1>2, <2>1, MissesTyped
  <2>2. CASE job' = [job EXCEPT ![s].users = @ \ {u}, ![s].tokens = TokensOf({u})]
             /\ UNCHANGED <<missed, faults>>
    <3>1. job'[s].tokens = TokensOf({u})
      BY <2>2, JobsTyped DEF Jobs
    <3>2. QED BY <1>2, <2>2, <3>1, MissesTyped
  <2>3. QED BY <2>1, <2>2 DEF ListTokensByUserID
<1>5. \A t \in due[s] : \/ t \in reached'[s] \cup missed'[s] \cup job'[s].tokens
                        \/ row[t].user \in job'[s].users
  BY <1>1, <1>3, <1>4
<1>6. QED BY <1>3, <1>4, <1>5, JobsTyped, SenderGoesOn

LEMMA SendStep ==
  ASSUME IInv, NEW s \in Senders, NEW t \in Tokens, NEW outcome \in {"accepted", "gone", "failed"},
         SendPushNotification(s, t, outcome)
  PROVE  IInv'
<1> DEFINE kept == <<row, nextId, gone, request, sent, registered, overtaken, due>>
<1>1. \A u \in due[s] : \/ u \in reached[s] \cup missed[s] \cup (job[s].tokens \ {t})
                        \/ row[u].user \in job[s].users
                        \/ u = t
  BY DEF IInv, ToldOrWillBe, HistoryOK, SendPushNotification
<1>2. job[s].stage = "sending" /\ UNCHANGED kept
  BY DEF SendPushNotification, tableVars
<1>3. /\ Works(s) /\ job'[s].users = job[s].users /\ job'[s].tokens = job[s].tokens \ {t}
      /\ IF outcome = "gone" THEN job'[s].stage = "expired" /\ job'[s].token = t
         ELSE job'[s].stage = "sending"
  BY <1>2, JobsTyped DEF SendPushNotification, Expired, Rest, Works, Jobs
<1>4. /\ faults' \in 0..MaxFaults /\ missed' \in [Senders -> SUBSET Tokens]
      /\ \A r \in Senders \ {s} : missed'[r] = missed[r]
      /\ missed[s] \subseteq missed'[s] /\ (outcome = "failed" => t \in missed'[s])
  BY MissesTyped DEF SendPushNotification
<1>5. /\ reached' \in [Senders -> SUBSET Tokens] /\ reached[s] \subseteq reached'[s]
      /\ \A r \in Senders \ {s} : reached'[r] = reached[r]
      /\ outcome = "accepted" => t \in reached'[s]
  BY JobsTyped DEF SendPushNotification
<1>6. outcome = "gone" => t \in gone
  BY DEF SendPushNotification
<1>7. \A u \in due[s] : \/ u \in reached'[s] \cup missed'[s] \cup job'[s].tokens
                        \/ row[u].user \in job'[s].users
                        \/ job'[s].stage \in {"expired", "found"} /\ job'[s].token = u
  BY <1>1, <1>3, <1>4, <1>5
<1>8. QED BY <1>2, <1>3, <1>4, <1>5, <1>6, <1>7, SenderGoesOn

(* A sender has done with the token whose subscription is gone.            *)
LEMMA ContinueMoves ==
  ASSUME IInv, NEW s \in Senders, Continue(s)
  PROVE  /\ Works(s) /\ job'[s].stage = "sending" /\ job'[s].users = job[s].users
         /\ job'[s].tokens = job[s].tokens
BY JobsTyped DEF Continue, Works, Jobs

LEMMA ContinueStep ==
  ASSUME IInv, NEW s \in Senders, job[s].stage \in {"expired", "found"}, Continue(s),
         UNCHANGED <<row, nextId, gone, request, sent, registered, overtaken, due, reached>>,
         Misses(s, {job[s].token}) \/ UNCHANGED <<missed, faults>>,
         job[s].token \in due[s] => Misses(s, {job[s].token})
  PROVE  IInv'
<1>1. {job[s].token} \in SUBSET Tokens
  BY PushAssumption DEF IInv, TypeOK
<1>2. /\ faults' \in 0..MaxFaults /\ missed' \in [Senders -> SUBSET Tokens]
      /\ \A r \in Senders \ {s} : missed'[r] = missed[r]
      /\ missed[s] \subseteq missed'[s] /\ (job[s].token \in due[s] => job[s].token \in missed'[s])
  BY <1>1, MissesTyped
<1>3. \A u \in due[s] : u \in reached[s] \cup missed'[s] \cup job[s].tokens
                        \/ row[u].user \in job[s].users
  BY <1>2 DEF IInv, ToldOrWillBe
<1>4. QED BY <1>2, <1>3, JobsTyped, ContinueMoves, SenderGoesOn

LEMMA FindStep == ASSUME IInv, NEW s \in Senders, FindExpired(s) PROVE IInv'
<1> DEFINE t == job[s].token
<1> DEFINE kept == <<row, nextId, gone, request, sent, registered, overtaken, due, reached>>
<1>1. t \in Tokens /\ t \in gone /\ row[t] \in Row /\ job[s].stage = "expired" /\ UNCHANGED kept
  BY PushAssumption DEF IInv, TypeOK, FindExpired, tableVars
<1>2. CASE row[t] # NoRow /\ job' = [job EXCEPT ![s].stage = "found", ![s].found = row[t]]
           /\ UNCHANGED <<missed, faults>>
  <2>1. /\ Works(s) /\ job'[s].stage = "found" /\ job'[s].users = job[s].users
        /\ job'[s].tokens = job[s].tokens /\ job'[s].token = t /\ job'[s].found = row[t]
    BY <1>1, <1>2, JobsTyped DEF Works, Jobs
  <2>2. \A u \in due[s] : \/ u \in reached[s] \cup missed[s] \cup job[s].tokens
                          \/ row[u].user \in job[s].users
                          \/ u = t
    BY <1>1 DEF IInv, ToldOrWillBe
  <2>3. faults \in 0..MaxFaults
    BY DEF IInv, TypeOK
  <2>4. QED BY <1>1, <1>2, <2>1, <2>2, <2>3, JobsTyped, SenderGoesOn
<1>3. CASE Continue(s) /\ row[t] = NoRow /\ UNCHANGED <<missed, faults>>
  <2>1. t \notin due[s]
    BY <1>3 DEF IInv, DueIsStored
  <2>2. QED BY <1>1, <1>3, <2>1, ContinueStep
<1>4. CASE Continue(s) /\ Misses(s, {t})
  BY <1>1, <1>4, ContinueStep
<1>5. QED BY <1>2, <1>3, <1>4 DEF FindExpired

LEMMA DeleteStep == ASSUME IInv, NEW s \in Senders, DeleteExpired(s) PROVE IInv'
<1> DEFINE t == job[s].token
<1> DEFINE found == job[s].found
<1>1. /\ t \in Tokens /\ t \in gone /\ found \in Known(t) /\ job[s].stage = "found" /\ Continue(s)
      /\ UNCHANGED <<gone, request, sent, registered, overtaken, reached>>
  BY PushAssumption DEF IInv, TypeOK, DeleteExpired, Known, FoundBySenders
<1>2. CASE Misses(s, {t}) /\ UNCHANGED <<tableVars, due>>
  BY <1>1, <1>2, ContinueStep DEF tableVars
<1>3. CASE Delete(t, found) /\ UNCHANGED <<missed, faults>>
  <2>1. /\ nextId' = nextId /\ row' \in [Tokens -> Row] /\ due' \in [Senders -> SUBSET Tokens]
        /\ row'[t] \in {NoRow, row[t]} /\ (row[t] = found => row'[t] = NoRow)
        /\ \A u \in Tokens \ {t} : row'[u] = row[u]
        /\ \A r \in Senders : due'[r] \subseteq due[r] /\ \A u \in due'[r] : row'[u] = row[u]
    BY <1>1, <1>3, DeleteEffect
  <2>2. /\ Works(s) /\ job'[s].stage = "sending" /\ job'[s].users = job[s].users
        /\ job'[s].tokens = job[s].tokens
    BY <1>1, ContinueMoves
  <2>3. (IdsIdentify /\ IdsAreOld)'
    <3>1. \A u \in Tokens : \A r \in Known(u)' : r \in Known(u) \/ r = NoRow
      BY <1>1, <2>1, <2>2 DEF Known, FoundByRequests, FoundBySenders, Works
    <3>2. QED BY <2>1, <3>1, NothingNew
  <2>4. IdsSuffice' /\ nextId' \in 1..(MaxId + 1)
    BY <1>1, <2>1, OpenShrinks DEF Open
  <2>5. TypeOK'
    <3>1. \A u, v \in Tokens : row'[u].id = row'[v].id /\ u # v => row'[u] = NoRow
      BY <2>3 DEF IdsIdentify, Known
    <3>2. \A r \in Senders : job'[r].stage \in {"expired", "found"} => job'[r].token \in gone
      BY <2>2 DEF IInv, TypeOK, Works
    <3>3. QED BY <1>1, <1>3, <2>1, <2>2, <2>4, <3>1, <3>2 DEF IInv, TypeOK, Works, Jobs
  <2>6. HistoryOK' /\ RequestsFit'
    BY <1>1, <1>3, <2>1 DEF IInv, HistoryOK, RequestsFit
  <2>8. DoomedIsOvertaken' /\ RegistrationLostOnlyByOverlap'
    BY <1>1, <2>1 DEF IInv, HistoryOK, DoomedIsOvertaken, Doomed, RegistrationLostOnlyByOverlap
  <2>9. \A r \in Senders : t \in due[r] /\ r = s => found = row[t]
    BY <1>1 DEF IInv, DueIsStored
  <2>10. t \notin due'[s]
    BY <2>1, <2>9 DEF IInv, DueIsStored
  <2>11. DueIsStored'
    BY <2>1, <2>2 DEF IInv, DueIsStored, Works
  <2>12. ToldOrWillBe'
    BY <1>1, <1>3, <2>1, <2>2, <2>10 DEF IInv, ToldOrWillBe, Works
  <2>13. QED BY <2>3, <2>4, <2>5, <2>6, <2>8, <2>11, <2>12 DEF IInv
<1>4. QED BY <1>2, <1>3 DEF DeleteExpired

LEMMA EndStep == ASSUME IInv, NEW s \in Senders, End(s) PROVE IInv'
<1> USE DEF End, tableVars
<1>1. Works(s) /\ job'[s].stage = "idle"
  BY JobsTyped DEF Works, Jobs, AtRest
<1>2. (IdsIdentify /\ IdsAreOld /\ IdsSuffice /\ RequestsFit /\ DoomedIsOvertaken
       /\ RegistrationLostOnlyByOverlap)'
  BY <1>1, SendersOnly DEF Works
<1>3. TypeOK' /\ HistoryOK'
  <2>1. \A r \in Senders : job'[r].stage \in {"expired", "found"} => job'[r].token \in gone
    BY <1>1 DEF IInv, TypeOK, Works
  <2>2. QED BY <1>1, <2>1 DEF IInv, TypeOK, HistoryOK, Works, Jobs
<1>4. DueIsStored' /\ ToldOrWillBe'
  BY <1>1 DEF IInv, DueIsStored, ToldOrWillBe, HistoryOK, Works
<1>5. QED BY <1>2, <1>3, <1>4 DEF IInv

LEMMA RestartStep == ASSUME IInv, Restart PROVE IInv'
<1> USE DEF Restart, tableVars
<1>1. /\ \A s \in Senders : job'[s] = AtRest /\ due'[s] = {} /\ reached'[s] = {} /\ missed'[s] = {}
      /\ AtRest.stage = "idle"
      /\ UNCHANGED <<row, nextId, gone, sent, registered, overtaken>>
  BY DEF AtRest
<1>2. \A q \in Requests : /\ request'[q] = IF request[q].stage = "idle" THEN NoRequest ELSE HasEnded
                          /\ request'[q].stage # "found"
                          /\ request'[q].stage # "done" => request[q].stage # "done"
  BY DEF NoRequest, HasEnded
<1>3. (IdsIdentify /\ IdsAreOld)'
  <2>1. \A u \in Tokens : \A r \in Known(u)' : r \in Known(u)
    BY <1>1, <1>2 DEF Known, FoundByRequests, FoundBySenders
  <2>2. QED BY <1>1, <2>1, NothingNew
<1>4. IdsSuffice'
  <2>1. Open' \subseteq Open
    BY <1>2 DEF Open
  <2>2. QED BY <1>1, <2>1, OpenShrinks
<1>5. TypeOK'
  <2>1. job' \in [Senders -> Jobs]
    BY NoRowIsRow DEF AtRest, Jobs
  <2>2. request' \in [Requests -> [stage : {"idle", "found", "done"},
                                   kind : {"none", "register", "unregister"},
                                   token : Tokens \cup {Null}, user : Users \cup {Null}, found : Row]]
    BY NoRowIsRow DEF NoRequest, HasEnded
  <2>3. faults' \in 0..MaxFaults
    BY PushAssumption DEF IInv, TypeOK, Fault
  <2>4. QED BY <1>1, <2>1, <2>2, <2>3 DEF IInv, TypeOK, Jobs
<1>6. HistoryOK' /\ RequestsFit'
  BY <1>2 DEF IInv, HistoryOK, RequestsFit
<1>7. DoomedIsOvertaken' /\ RegistrationLostOnlyByOverlap'
  BY <1>1, <1>2 DEF IInv, DoomedIsOvertaken, Doomed, RegistrationLostOnlyByOverlap
<1>8. DueIsStored' /\ ToldOrWillBe'
  BY <1>1 DEF DueIsStored, ToldOrWillBe
<1>9. QED BY <1>3, <1>4, <1>5, <1>6, <1>7, <1>8 DEF IInv

-------------------------------------------------------------------------------
(* There are IDs enough for the tokens that are registered already.        *)
LEMMA IdsExist ==
  \E f \in [Tokens -> 1..Cardinality(Tokens)] : \A t1, t2 \in Tokens : f[t1] = f[t2] => t1 = t2
<1>1. ExistsBijection(Tokens, 1..Cardinality(Tokens))
  BY FS_CardinalityType, Fun_ExistsBijSymmetric, PushAssumption
<1>2. QED BY <1>1 DEF ExistsBijection, Bijection, Injection, IsInjective

LEMMA InitStep == Init => IInv
<1> SUFFICES ASSUME Init PROVE IInv
  OBVIOUS
<1> DEFINE n == Cardinality(Tokens)
<1> DEFINE taken == CHOOSE f \in [Tokens -> 1..n] :
                      \A t1, t2 \in Tokens : f[t1] = f[t2] => t1 = t2
<1>1. taken \in [Tokens -> 1..n] /\ \A t1, t2 \in Tokens : taken[t1] = taken[t2] => t1 = t2
  BY IdsExist
<1>2. \E owner \in [Tokens -> Users \cup {Null}] :
        row = [t \in Tokens |-> IF owner[t] = Null THEN NoRow
                                ELSE [id |-> taken[t], user |-> owner[t]]]
  BY DEF Init
<1> HIDE DEF taken
<1>Rows. PICK id \in [Tokens -> 1..n], owner \in [Tokens -> Users \cup {Null}] :
        /\ \A t1, t2 \in Tokens : id[t1] = id[t2] => t1 = t2
        /\ row = [t \in Tokens |-> IF owner[t] = Null THEN NoRow
                                   ELSE [id |-> id[t], user |-> owner[t]]]
  BY <1>1, <1>2
<1>Start. /\ nextId = n + 1 /\ gone = {} /\ sent = 0 /\ faults = 0
      /\ registered = {<<t, row[t].user>> : t \in {u \in Tokens : row[u] # NoRow}}
      /\ job = [s \in Senders |-> AtRest] /\ request = [q \in Requests |-> NoRequest]
      /\ due = [s \in Senders |-> {}] /\ reached = [s \in Senders |-> {}]
      /\ missed = [s \in Senders |-> {}]
  BY DEF Init
<1>3. n \in Nat /\ Cardinality(Requests) \in Nat /\ MaxId = n + Cardinality(Requests)
  BY FS_CardinalityType, PushAssumption DEF MaxId
<1>4. \A t \in Tokens : /\ row[t] \in Row
                        /\ row[t] = NoRow \/ (row[t].id = id[t] /\ row[t].user \in Users)
                        /\ row[t].id \in 0..n /\ id[t] \in 1..n
  <2>1. SUFFICES ASSUME NEW t \in Tokens
                 PROVE  /\ row[t] \in Row /\ (row[t] = NoRow \/ (row[t].id = id[t] /\ row[t].user \in Users))
                        /\ row[t].id \in 0..n /\ id[t] \in 1..n
    OBVIOUS
  <2>2. CASE owner[t] = Null
    <3>1. row[t] = NoRow /\ id[t] \in 1..n
      BY <1>Rows, <2>2
    <3>2. NoRow.id = 0
      BY DEF NoRow
    <3>3. QED BY <1>3, <3>1, <3>2, NoRowIsRow
  <2>3. CASE owner[t] # Null
    <3>1. row[t] = [id |-> id[t], user |-> owner[t]] /\ owner[t] \in Users /\ id[t] \in 1..n
      BY <1>Rows, <2>3
    <3>2. QED BY <1>3, <3>1 DEF Row
  <2>4. QED BY <2>2, <2>3
<1>5. /\ \A s \in Senders : job[s].stage = "idle" /\ job[s] \in Jobs
      /\ \A q \in Requests : request[q].stage = "idle"
  BY <1>Start, NoRowIsRow DEF AtRest, NoRequest, Jobs
<1>6. \A t1, t2 \in Tokens : row[t1].id = row[t2].id /\ t1 # t2 => row[t1] = NoRow /\ row[t2] = NoRow
  BY <1>Rows, <1>4 DEF NoRow
<1>7. TypeOK
  <2>1. request \in [Requests -> [stage : {"idle", "found", "done"},
                                  kind : {"none", "register", "unregister"},
                                  token : Tokens \cup {Null}, user : Users \cup {Null}, found : Row]]
    BY <1>Start, NoRowIsRow DEF NoRequest
  <2>2. row \in [Tokens -> Row]
    BY <1>Rows, <1>4
  <2>3. nextId \in 1..(MaxId + 1)
    BY <1>3, <1>Start
  <2>4. job \in [Senders -> Jobs]
    BY <1>5, <1>Start
  <2>5. QED BY <1>Start, <1>5, <1>6, <2>1, <2>2, <2>3, <2>4, PushAssumption DEF TypeOK, Jobs
<1>8. HistoryOK
  BY <1>Start, <1>4 DEF HistoryOK
<1>9. \A t \in Tokens : Known(t) = {row[t]}
  BY <1>5 DEF Known, FoundByRequests, FoundBySenders
<1>10. IdsIdentify
  BY <1>6, <1>9 DEF IdsIdentify
<1>11. IdsAreOld
  <2>1. \A t \in Tokens : row[t].id < nextId /\ (row[t].id = 0 => row[t] = NoRow)
    BY <1>Start, <1>3, <1>4
  <2>2. QED BY <1>9, <2>1 DEF IdsAreOld
<1>12. IdsSuffice
  <2>1. Open \subseteq Requests
    BY DEF Open
  <2>2. Cardinality(Open) \in Nat /\ Cardinality(Open) <= Cardinality(Requests)
    BY <2>1, FS_Subset, FS_CardinalityType, PushAssumption
  <2>3. QED BY <1>Start, <1>3, <2>2 DEF IdsSuffice
<1>13. RequestsFit /\ DoomedIsOvertaken
  BY <1>Start, <1>5 DEF RequestsFit, DoomedIsOvertaken, Doomed
<1>14. DueIsStored /\ ToldOrWillBe
  BY <1>Start DEF DueIsStored, ToldOrWillBe
<1>15. RegistrationLostOnlyByOverlap
  BY <1>Start DEF RegistrationLostOnlyByOverlap
<1>16. QED BY <1>7, <1>8, <1>10, <1>11, <1>12, <1>13, <1>14, <1>15 DEF IInv

LEMMA NextStep == IInv /\ [Next]_vars => IInv'
<1> SUFFICES ASSUME IInv, [Next]_vars PROVE IInv'
  OBVIOUS
<1>1. ASSUME NEW q \in Requests, NEW t \in Tokens, AskUnregister(q, t) PROVE IInv'
  BY <1>1, AskUnregisterStep
<1>2. ASSUME NEW q \in Requests, NEW t \in Tokens, NEW u \in Users, AskRegister(q, t, u) PROVE IInv'
  BY <1>2, AskRegisterStep
<1>3. ASSUME NEW q \in Requests, Unregister(q) \/ Register(q) PROVE IInv'
  BY <1>3, UnregisterStep, RegisterStep
<1>4. ASSUME NEW t \in Tokens, Expire(t) PROVE IInv'
  BY <1>4, ExpireStep
<1>5. ASSUME NEW s \in Senders, NEW audience \in Audiences, Begin(s, audience) PROVE IInv'
  BY <1>5, BeginStep
<1>6. ASSUME NEW s \in Senders, NEW u \in Users, ListTokensByUserID(s, u) PROVE IInv'
  BY <1>6, ListStep
<1>7. ASSUME NEW s \in Senders, NEW t \in Tokens, NEW outcome \in {"accepted", "gone", "failed"},
             SendPushNotification(s, t, outcome)
      PROVE  IInv'
  BY <1>7, SendStep
<1>8. ASSUME NEW s \in Senders, FindExpired(s) \/ DeleteExpired(s) \/ End(s) PROVE IInv'
  BY <1>8, FindStep, DeleteStep, EndStep
<1>9. CASE Restart
  BY <1>9, RestartStep
<1>10. CASE UNCHANGED vars
  BY <1>10 DEF vars, tableVars, historyVars, IInv, TypeOK, HistoryOK, IdsIdentify, IdsAreOld, Known,
               FoundByRequests, FoundBySenders, IdsSuffice, Open, RequestsFit,
               DoomedIsOvertaken, Doomed, DueIsStored, ToldOrWillBe, RegistrationLostOnlyByOverlap
<1>11. QED
  BY <1>1, <1>2, <1>3, <1>4, <1>5, <1>6, <1>7, <1>8, <1>9, <1>10 DEF Next

LEMMA Invariance == Spec => []IInv
<1>1. QED BY InitStep, NextStep, PTL DEF Spec

(* The table, the requests and the senders stay well typed; no two tokens  *)
(* share a row's ID, and the rows' IDs suffice for every request; a sender *)
(* unregisters only tokens whose subscription is gone.                     *)
THEOREM PushTypeCorrect == Spec => []TypeOK
<1>1. IInv => TypeOK
  BY DEF IInv
<1>2. QED BY <1>1, Invariance, PTL

(* An acknowledged registration stays until somebody asks to unregister it *)
(* or its subscription is gone, except one that saved a row which an       *)
(* unregistration had found before it.                                     *)
THEOREM RegistrationsStay == Spec => []RegistrationLostOnlyByOverlap
<1>1. IInv => RegistrationLostOnlyByOverlap
  BY DEF IInv
<1>2. QED BY <1>1, Invariance, PTL

(* A notification reaches every token that was registered all the time, if *)
(* no call for this token, its user or its tenant failed.                  *)
THEOREM NobodyIsForgotten == Spec => []EveryoneIsTold
<1>1. IInv => EveryoneIsTold
  BY DEF IInv, ToldOrWillBe, EveryoneIsTold, Done
<1>2. QED BY <1>1, Invariance, PTL
===============================================================================
