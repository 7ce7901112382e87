------------------------- MODULE TenantRegistryProofs --------------------------
(***************************************************************************)
(* What requests that overlap can do to the rows of tenants and devices,   *)
(* for any number of them, of rows and of failures.                        *)
(***************************************************************************)
EXTENDS TenantRegistry, TLAPS

Stages == {"idle", "adopter", "allowed", "read", "checked", "done"}
TenantOps == {"updateTenant", "deleteTenant", "activateTenant", "deactivateTenant"}
DeviceOps == {"adopt", "rename", "hear"}
ConfigOps == {"configure", "configureDefault"}
Ops == {"none", "createTenant", "createDevice", "associate"} \cup TenantOps \cup DeviceOps
         \cup ConfigOps

Requests ==
  [op : Ops, id : Tenants \cup Devices \cup Users \cup {Null},
   value : Names \cup Labels \cup Zones \cup Tenants \cup (SUBSET Tenants) \cup {Null},
   version : Nat]
Copies == TenantRow \cup DeviceRow \cup Zones \cup {Null}
Jobs == [stage : Stages, request : Requests, copy : Copies]

JobsOK == job \in [Clients -> Jobs]

(* A request has an ID and a value of the kind its operation needs.        *)
Typed(c) ==
  LET j == job[c]  r == job[c].request
  IN /\ j.stage \in {"idle", "done"} => r.op = "none"
     /\ r.op \in {"createTenant"} \cup TenantOps \cup ConfigOps => r.id \in Tenants
     /\ r.op \in {"createDevice"} \cup DeviceOps => r.id \in Devices
     /\ r.op \in {"createTenant", "updateTenant", "createDevice"} => r.value \in Names
     /\ r.op = "adopt" => r.value \in Tenants
     /\ r.op = "rename" => r.value \in Labels
     /\ r.op = "associate" => r.id \in Users /\ r.value \in SUBSET Tenants
     /\ r.op \in ConfigOps => r.value \in Zones

(* What a request about a row has read: a tenant that was not deleted, or  *)
(* a device, whose name is still the same.                                 *)
CopyOK(c) ==
  LET j == job[c]  r == job[c].request
  IN /\ r.op \in TenantOps =>
          j.copy \in TenantRow /\ ~j.copy.deleted /\ tenant[r.id] # Null
     /\ r.op \in DeviceOps /\ j.stage = "checked" =>
          j.copy \in DeviceRow /\ device[r.id] # Null /\ device[r.id].name = j.copy.name

(* What is to be created is not there yet, and nobody else creates it.     *)
Creates(c, op) == job[c].request.op = op

FreshIds ==
  \A c \in Clients :
    /\ Creates(c, "createTenant") => tenant[job[c].request.id] = Null
    /\ Creates(c, "createDevice") =>
         /\ device[job[c].request.id] = Null
         /\ job[c].stage = "checked"
         /\ \A o \in Clients \ {c} : Creates(o, "createDevice") =>
              job[o].request.id # job[c].request.id
    /\ Creates(c, "createTenant") =>
         \A o \in Clients \ {c} : Creates(o, "createTenant") =>
           job[o].request.id # job[c].request.id

(* A device that is about to be created has a name that was free; if it no *)
(* longer is, the other was created at the same time.                      *)
KnowsTwins ==
  \A c \in Clients : Creates(c, "createDevice") =>
    \A d \in Named(device, job[c].request.value) : {job[c].request.id, d} \in raced

(* History is kept of tenants and devices.                                 *)
KnownOK == known = [i \in Tenants \cup Devices |-> known[i]]

JobInv == JobsOK /\ \A c \in Clients : Typed(c) /\ CopyOK(c)

IInv == /\ TypeOK /\ JobInv /\ KnownOK /\ FreshIds /\ KnowsTwins
        /\ TwinsOnlyByRace /\ LostOnlyByOverlap

-------------------------------------------------------------------------------
(* How a step leaves the jobs                                              *)

LEMMA GoesOn ==
  ASSUME JobsOK, NEW c \in Clients, NEW s \in Stages \ {"done"}, Goes(c, s)
  PROVE  /\ JobsOK'
         /\ job'[c] = [stage |-> s, request |-> job[c].request, copy |-> job[c].copy]
         /\ \A o \in Clients \ {c} : job'[o] = job[o]
<1>1. job' = [job EXCEPT ![c] = [job[c] EXCEPT !.stage = s]]
  BY DEF Goes, JobsOK
<1>2. [job[c] EXCEPT !.stage = s] = [stage |-> s, request |-> job[c].request, copy |-> job[c].copy]
  BY DEF JobsOK, Jobs
<1>3. [job[c] EXCEPT !.stage = s] \in Jobs
  BY <1>2 DEF JobsOK, Jobs
<1> QED
  BY <1>1, <1>2, <1>3 DEF JobsOK

LEMMA IdleIsJob == Idle \in Jobs /\ Idle.stage = "idle" /\ Idle.request.op = "none"
<1>1. Request("none", Null, Null) \in Requests /\ Request("none", Null, Null).op = "none"
  BY DEF Request, Requests, Ops
<1>2. Null \in Copies /\ "idle" \in Stages
  BY DEF Copies, Stages
<1> QED
  BY <1>1, <1>2 DEF Idle, Jobs

LEMMA IsDone ==
  ASSUME JobsOK, NEW c \in Clients, Goes(c, "done")
  PROVE  /\ JobsOK'
         /\ job'[c].stage = "done" /\ job'[c].request.op = "none"
         /\ \A o \in Clients \ {c} : job'[o] = job[o]
<1> DEFINE d == [Idle EXCEPT !.stage = "done"]
<1>1. d \in Jobs /\ d.stage = "done" /\ d.request.op = "none"
  BY IdleIsJob DEF Jobs, Stages
<1>2. job' = [job EXCEPT ![c] = d]
  BY DEF Goes, JobsOK
<1> HIDE DEF d
<1> QED
  BY <1>1, <1>2 DEF JobsOK

LEMMA Begins ==
  ASSUME JobsOK, NEW c \in Clients, NEW r \in Requests, NEW s \in Stages, NEW k \in Copies,
         Begin(c, r, s, k)
  PROVE  /\ JobsOK'
         /\ job'[c] = [stage |-> s, request |-> r, copy |-> k]
         /\ \A o \in Clients \ {c} : job'[o] = job[o]
         /\ UNCHANGED <<tenant, device, config, user, faults, known, lapped, raced>>
<1>1. [stage |-> s, request |-> r, copy |-> k] \in Jobs
  BY DEF Jobs
<1> QED
  BY <1>1 DEF Begin, JobsOK, tables, history

LEMMA Reads ==
  ASSUME JobsOK, NEW c \in Clients, NEW k \in Copies,
         job' = [job EXCEPT ![c].stage = "checked", ![c].copy = k]
  PROVE  /\ JobsOK'
         /\ job'[c] = [stage |-> "checked", request |-> job[c].request, copy |-> k]
         /\ \A o \in Clients \ {c} : job'[o] = job[o]
<1> DEFINE j == [stage |-> "checked", request |-> job[c].request, copy |-> k]
<1>1. j \in Jobs
  BY DEF JobsOK, Jobs, Stages
<1>2. job' = [job EXCEPT ![c] = [job[c] EXCEPT !.stage = "checked", !.copy = k]]
  BY DEF JobsOK
<1>3. [job[c] EXCEPT !.stage = "checked", !.copy = k] = j
  <2>1. ASSUME NEW x \in Jobs
        PROVE  [x EXCEPT !.stage = "checked", !.copy = k]
                 = [stage |-> "checked", request |-> x.request, copy |-> k]
    <3>1. [x EXCEPT !.stage = "checked"]
            = [stage |-> "checked", request |-> x.request, copy |-> x.copy]
      BY DEF Jobs
    <3>2. [[stage |-> "checked", request |-> x.request, copy |-> x.copy] EXCEPT !.copy = k]
            = [stage |-> "checked", request |-> x.request, copy |-> k]
      OBVIOUS
    <3> QED
      BY <3>1, <3>2
  <2> QED
    BY <2>1 DEF JobsOK
<1> QED
  BY <1>1, <1>2, <1>3 DEF JobsOK

LEMMA RequestIs ==
  ASSUME NEW op \in Ops, NEW i \in Tenants \cup Devices \cup Users,
         NEW v \in Names \cup Labels \cup Zones \cup Tenants \cup (SUBSET Tenants) \cup {Null}
  PROVE  /\ Request(op, i, v) \in Requests
         /\ Request(op, i, v).op = op /\ Request(op, i, v).id = i
         /\ Request(op, i, v).value = v
BY DEF Request, Requests

-------------------------------------------------------------------------------
(* Steps of a request that change no row                                   *)

(* One that creates nothing keeps the invariant if its own job is as the   *)
(* invariant wants it.                                                     *)
LEMMA JobStep ==
  ASSUME IInv, NEW c \in Clients, JobsOK',
         \A o \in Clients \ {c} : job'[o] = job[o],
         UNCHANGED <<tenant, device, config, user, known, lapped, raced>>,
         faults' \in 0..MaxFaults,
         job'[c].request.op \notin {"createTenant", "createDevice"},
         Typed(c)', CopyOK(c)'
  PROVE  IInv'
<1> USE DEF IInv
<1>1. TypeOK'
  <2>1. \A o \in Clients : job'[o].stage \in Stages
    BY DEF JobsOK, Jobs
  <2> QED
    BY <2>1 DEF TypeOK, Stages, TenantRow, DeviceRow
<1>2. JobInv'
  <2>1. ASSUME NEW o \in Clients \ {c} PROVE Typed(o)' /\ CopyOK(o)'
    BY <2>1 DEF JobInv, Typed, CopyOK, TenantRow, DeviceRow
  <2> QED
    BY <2>1 DEF JobInv
<1>3. FreshIds'
  BY DEF FreshIds, Creates
<1>4. KnowsTwins'
  BY DEF KnowsTwins, Creates, Named, Present
<1>5. TwinsOnlyByRace' /\ LostOnlyByOverlap' /\ KnownOK'
  BY DEF TwinsOnlyByRace, LostOnlyByOverlap, Present, KnownOK
<1> QED
  BY <1>1, <1>2, <1>3, <1>4, <1>5

LEMMA FailStep == ASSUME IInv, NEW c \in Clients, Fail(c) PROVE IInv'
<1>1. /\ JobsOK' /\ job'[c].stage = "done" /\ job'[c].request.op = "none"
      /\ \A o \in Clients \ {c} : job'[o] = job[o]
  BY IsDone DEF Fail, IInv, JobInv
<1>2. Typed(c)' /\ CopyOK(c)'
  BY <1>1 DEF Typed, CopyOK, TenantOps, DeviceOps, ConfigOps
<1>3. faults' \in 0..MaxFaults
  BY RegistryAssumption DEF Fail, IInv, TypeOK, RegistryAssumption
<1> QED
  BY <1>1, <1>2, <1>3, JobStep DEF Fail, tables, history

LEMMA CheckNewNameStep == ASSUME IInv, NEW c \in Clients, CheckNewName(c) PROVE IInv'
<1> USE DEF IInv, JobInv
<1>1. CASE Goes(c, "checked")
  <2>1. /\ JobsOK' /\ \A o \in Clients \ {c} : job'[o] = job[o]
        /\ job'[c] = [stage |-> "checked", request |-> job[c].request, copy |-> job[c].copy]
    BY <1>1, GoesOn DEF Stages
  <2>2. Typed(c) /\ CopyOK(c) /\ job[c].request.op = "updateTenant"
    BY DEF CheckNewName, At
  <2>3. Typed(c)' /\ CopyOK(c)'
    BY <2>1, <2>2 DEF CheckNewName, tables, Typed, CopyOK, TenantOps, DeviceOps, ConfigOps
  <2> QED
    BY <2>1, <2>2, <2>3, JobStep DEF CheckNewName, tables, history, TypeOK
<1>2. CASE Goes(c, "done")
  <2>1. /\ JobsOK' /\ job'[c].stage = "done" /\ job'[c].request.op = "none"
        /\ \A o \in Clients \ {c} : job'[o] = job[o]
    BY <1>2, IsDone
  <2>2. Typed(c)' /\ CopyOK(c)'
    BY <2>1 DEF Typed, CopyOK, TenantOps, DeviceOps, ConfigOps
  <2> QED
    BY <2>1, <2>2, JobStep DEF CheckNewName, tables, history, TypeOK
<1> QED
  BY <1>1, <1>2 DEF CheckNewName

LEMMA ReadAdoptedStep == ASSUME IInv, NEW c \in Clients, ReadAdopted(c) PROVE IInv'
<1> USE DEF IInv, JobInv
<1>1. CASE device[job[c].request.id] = Null
  <2>1. /\ JobsOK' /\ job'[c].stage = "done" /\ job'[c].request.op = "none"
        /\ \A o \in Clients \ {c} : job'[o] = job[o]
    BY <1>1, IsDone DEF ReadAdopted
  <2>2. Typed(c)' /\ CopyOK(c)'
    BY <2>1 DEF Typed, CopyOK, TenantOps, DeviceOps, ConfigOps
  <2> QED
    BY <2>1, <2>2, JobStep DEF ReadAdopted, tables, history, TypeOK
<1>2. CASE device[job[c].request.id] # Null
  <2> DEFINE d == job[c].request.id
  <2>1. Typed(c) /\ job[c].request.op = "adopt" /\ d \in Devices
    BY DEF ReadAdopted, At, Typed, DeviceOps
  <2>2. device[d] \in DeviceRow
    BY <1>2, <2>1 DEF TypeOK
  <2>3. /\ JobsOK' /\ \A o \in Clients \ {c} : job'[o] = job[o]
        /\ job'[c] = [stage |-> "checked", request |-> job[c].request, copy |-> device[d]]
    BY <1>2, <2>2, Reads DEF ReadAdopted, Copies
  <2>4. Typed(c)'
    BY <2>1, <2>3 DEF Typed, TenantOps, DeviceOps, ConfigOps
  <2>5. UNCHANGED <<tenant, device, config, user, known, lapped, raced, faults>>
    BY DEF ReadAdopted, tables, history
  <2>6. CopyOK(c)'
    BY <1>2, <2>1, <2>2, <2>3, <2>5 DEF CopyOK, TenantOps
  <2>7. job'[c].request.op \notin {"createTenant", "createDevice"} /\ faults' \in 0..MaxFaults
    BY <2>1, <2>3, <2>5 DEF TypeOK
  <2> QED
    BY <2>3, <2>4, <2>5, <2>6, <2>7, JobStep
<1> QED
  BY <1>1, <1>2

LEMMA ReadConfigurationStep == ASSUME IInv, NEW c \in Clients, ReadConfiguration(c) PROVE IInv'
<1> USE DEF IInv, JobInv
<1> DEFINE t == job[c].request.id
<1>1. Typed(c) /\ job[c].request.op = "configure" /\ t \in Tenants
  BY DEF ReadConfiguration, At, Typed, ConfigOps
<1>2. config[t] \in Copies
  BY <1>1 DEF TypeOK, Copies
<1>3. /\ JobsOK' /\ \A o \in Clients \ {c} : job'[o] = job[o]
      /\ job'[c] = [stage |-> "checked", request |-> job[c].request, copy |-> config[t]]
  BY <1>2, Reads DEF ReadConfiguration
<1>4. Typed(c)' /\ CopyOK(c)'
  BY <1>1, <1>3 DEF Typed, CopyOK, TenantOps, DeviceOps, ConfigOps
<1>5. UNCHANGED <<tenant, device, config, user, known, lapped, raced, faults>>
  BY DEF ReadConfiguration, tables, history
<1>6. job'[c].request.op \notin {"createTenant", "createDevice"} /\ faults' \in 0..MaxFaults
  BY <1>1, <1>3, <1>5 DEF TypeOK
<1> QED
  BY <1>3, <1>4, <1>5, <1>6, JobStep

-------------------------------------------------------------------------------
(* Steps that begin a request                                              *)

LEMMA BeginStep ==
  ASSUME IInv, NEW c \in Clients, NEW r \in Requests, NEW s \in Stages, NEW k \in Copies,
         Begin(c, r, s, k), r.op \notin {"createTenant", "createDevice"},
         Typed(c)', CopyOK(c)'
  PROVE  IInv'
<1>1. /\ JobsOK' /\ job'[c] = [stage |-> s, request |-> r, copy |-> k]
      /\ \A o \in Clients \ {c} : job'[o] = job[o]
      /\ UNCHANGED <<tenant, device, config, user, faults, known, lapped, raced>>
  BY Begins DEF IInv, JobInv
<1>2. faults' \in 0..MaxFaults
  BY <1>1 DEF IInv, TypeOK
<1> QED
  BY <1>1, <1>2, JobStep

LEMMA ReadTenantStep ==
  ASSUME IInv, NEW c \in Clients, NEW t \in Tenants, NEW op \in TenantOps,
         NEW n \in Names \cup {Null}, op = "updateTenant" => n \in Names, NEW v \in Nat,
         ReadTenant(c, t, op, n, v)
  PROVE  IInv'
<1> DEFINE r == [Request(op, t, n) EXCEPT !.version = v]
           s == IF op = "updateTenant" /\ n # tenant[t].name THEN "read" ELSE "checked"
<1>1. r \in Requests /\ r.op = op /\ r.id = t /\ r.value = n
  <2>1. Request(op, t, n) = [op |-> op, id |-> t, value |-> n, version |-> 0]
    BY DEF Request
  <2>2. r = [op |-> op, id |-> t, value |-> n, version |-> v]
    BY <2>1
  <2> QED
    BY <2>2 DEF Requests, Ops
<1>2. tenant[t] \in TenantRow /\ ~tenant[t].deleted /\ tenant[t] # Null
  BY DEF ReadTenant, Editable, IInv, TypeOK
<1>3. s \in Stages /\ s \in {"read", "checked"} /\ tenant[t] \in Copies
  BY <1>2 DEF Stages, Copies
<1>4. Begin(c, r, s, tenant[t])
  BY DEF ReadTenant
<1> HIDE DEF r, s
<1>5. /\ job'[c] = [stage |-> s, request |-> r, copy |-> tenant[t]] /\ UNCHANGED <<tenant, device>>
  BY <1>1, <1>3, <1>4, Begins DEF IInv, JobInv
<1>6. Typed(c)'
  BY <1>1, <1>3, <1>5 DEF Typed, TenantOps, DeviceOps, ConfigOps
<1>7. CopyOK(c)'
  BY <1>1, <1>2, <1>5 DEF CopyOK, TenantOps, DeviceOps
<1>8. r.op \notin {"createTenant", "createDevice"}
  BY <1>1 DEF TenantOps
<1> QED
  BY <1>1, <1>3, <1>4, <1>6, <1>7, <1>8, BeginStep

LEMMA ReadDeviceStep ==
  ASSUME IInv, NEW c \in Clients, NEW d \in Devices, NEW op \in {"rename", "hear"},
         NEW l \in Labels \cup {Null}, op = "rename" => l \in Labels,
         ReadDevice(c, d, op, l)
  PROVE  IInv'
<1>1. /\ Request(op, d, l) \in Requests /\ Request(op, d, l).op = op
      /\ Request(op, d, l).id = d /\ Request(op, d, l).value = l
  BY RequestIs DEF Ops, DeviceOps
<1>2. device[d] \in DeviceRow /\ device[d] # Null
  BY DEF ReadDevice, IInv, TypeOK
<1>3. "checked" \in Stages /\ device[d] \in Copies
  BY <1>2 DEF Stages, Copies
<1>4. Begin(c, Request(op, d, l), "checked", device[d])
  BY DEF ReadDevice
<1>5. /\ job'[c] = [stage |-> "checked", request |-> Request(op, d, l), copy |-> device[d]]
      /\ UNCHANGED <<tenant, device>>
  BY <1>1, <1>3, <1>4, Begins DEF IInv, JobInv
<1>6. Typed(c)'
  BY <1>1, <1>5 DEF Typed, TenantOps, DeviceOps, ConfigOps
<1>7. CopyOK(c)'
  BY <1>1, <1>2, <1>5 DEF CopyOK, TenantOps, DeviceOps
<1>8. Request(op, d, l).op \notin {"createTenant", "createDevice"}
  BY <1>1
<1> QED
  BY <1>1, <1>3, <1>4, <1>6, <1>7, <1>8, BeginStep

(* Requests that have read no row when they begin.                         *)
LEMMA OtherBeginStep ==
  ASSUME IInv, NEW c \in Clients,
         \/ \E t \in Tenants, d \in Devices : CheckAdopter(c, t, d)
         \/ \E u \in Users, ts \in SUBSET Tenants : CheckTenants(c, u, ts)
         \/ \E u \in Users, t \in Tenants, z \in Zones : CheckUser(c, u, t, z)
         \/ \E t \in Tenants : GetOrCreate(c, t)
  PROVE  IInv'
<1> DEFINE K(r, s) ==
      /\ r \in Requests /\ s \in Stages /\ Begin(c, r, s, Null)
      /\ s \in {"adopter", "allowed", "checked"} /\ (r.op = "adopt" => s = "adopter")
      /\ \/ r.op = "adopt" /\ r.id \in Devices /\ r.value \in Tenants
         \/ r.op = "associate" /\ r.id \in Users /\ r.value \in SUBSET Tenants
         \/ r.op \in ConfigOps /\ r.id \in Tenants /\ r.value \in Zones
<1>1. PICK r \in Requests, s \in Stages : K(r, s)
  <2>1. CASE \E t \in Tenants, d \in Devices : CheckAdopter(c, t, d)
    <3>1. PICK t \in Tenants, d \in Devices : CheckAdopter(c, t, d)
      BY <2>1
    <3>2. K(Request("adopt", d, t), "adopter")
      BY <3>1, RequestIs DEF CheckAdopter, Ops, DeviceOps, Stages
    <3> QED
      BY <3>2
  <2>2. CASE \E u \in Users, ts \in SUBSET Tenants : CheckTenants(c, u, ts)
    <3>1. PICK u \in Users, ts \in SUBSET Tenants : CheckTenants(c, u, ts)
      BY <2>2
    <3>2. K(Request("associate", u, ts), "checked")
      BY <3>1, RequestIs DEF CheckTenants, Ops, Stages
    <3> QED
      BY <3>2
  <2>3. CASE \E u \in Users, t \in Tenants, z \in Zones : CheckUser(c, u, t, z)
    <3>1. PICK u \in Users, t \in Tenants, z \in Zones : CheckUser(c, u, t, z)
      BY <2>3
    <3>2. K(Request("configure", t, z), "allowed")
      BY <3>1, RequestIs DEF CheckUser, Ops, ConfigOps, Stages
    <3> QED
      BY <3>2
  <2>4. CASE \E t \in Tenants : GetOrCreate(c, t)
    <3>1. PICK t \in Tenants : GetOrCreate(c, t)
      BY <2>4
    <3>2. K(Request("configureDefault", t, DefaultZone), "checked")
      BY <3>1, RequestIs, RegistryAssumption DEF RegistryAssumption, GetOrCreate, Ops, ConfigOps, Stages
    <3> QED
      BY <3>2
  <2> QED
    BY <2>1, <2>2, <2>3, <2>4
<1>2. Null \in Copies
  BY DEF Copies
<1>3. job'[c] = [stage |-> s, request |-> r, copy |-> Null]
  BY <1>1, <1>2, Begins DEF IInv, JobInv
<1>4. Typed(c)' /\ CopyOK(c)'
  BY <1>1, <1>3 DEF Typed, CopyOK, TenantOps, DeviceOps, ConfigOps
<1>5. r.op \notin {"createTenant", "createDevice"}
  BY <1>1 DEF ConfigOps
<1> QED
  BY <1>1, <1>2, <1>4, <1>5, BeginStep

LEMMA CheckTenantNameStep ==
  ASSUME IInv, NEW c \in Clients, NEW t \in Tenants, NEW n \in Names, CheckTenantName(c, t, n)
  PROVE  IInv'
<1> DEFINE r == Request("createTenant", t, n)
<1>1. r \in Requests /\ r.op = "createTenant" /\ r.id = t /\ r.value = n
  BY RequestIs DEF Ops
<1>2. Begin(c, r, "checked", Null) /\ Fresh(tenant, t)
  BY DEF CheckTenantName
<1> HIDE DEF r
<1>3. /\ JobsOK' /\ job'[c] = [stage |-> "checked", request |-> r, copy |-> Null]
      /\ \A o \in Clients \ {c} : job'[o] = job[o]
      /\ UNCHANGED <<tenant, device, config, user, faults, known, lapped, raced>>
  BY <1>1, <1>2, Begins DEF IInv, JobInv, Copies, Stages
<1> USE DEF IInv
<1>4. TypeOK'
  <2>1. \A o \in Clients : job'[o].stage \in Stages
    BY <1>3 DEF JobsOK, Jobs
  <2> QED
    BY <1>3, <2>1 DEF TypeOK, Stages, TenantRow, DeviceRow
<1>5. JobInv'
  <2>1. ASSUME NEW o \in Clients \ {c} PROVE Typed(o)' /\ CopyOK(o)'
    BY <1>3 DEF JobInv, Typed, CopyOK, TenantRow, DeviceRow
  <2>2. Typed(c)' /\ CopyOK(c)'
    BY <1>1, <1>3 DEF Typed, CopyOK, TenantOps, DeviceOps, ConfigOps
  <2> QED
    BY <1>3, <2>1, <2>2 DEF JobInv
<1>6. FreshIds'
  BY <1>1, <1>2, <1>3 DEF FreshIds, Creates, Fresh
<1>7. KnowsTwins'
  BY <1>1, <1>3 DEF KnowsTwins, Creates, Named, Present
<1>8. TwinsOnlyByRace' /\ LostOnlyByOverlap' /\ KnownOK'
  BY <1>3 DEF TwinsOnlyByRace, LostOnlyByOverlap, Present, KnownOK
<1> QED
  BY <1>4, <1>5, <1>6, <1>7, <1>8

LEMMA CheckDeviceNameStep ==
  ASSUME IInv, NEW c \in Clients, NEW d \in Devices, NEW n \in Names, CheckDeviceName(c, d, n)
  PROVE  IInv'
<1> DEFINE r == Request("createDevice", d, n)
<1>1. r \in Requests /\ r.op = "createDevice" /\ r.id = d /\ r.value = n
  BY RequestIs DEF Ops
<1>2. Begin(c, r, "checked", Null) /\ Fresh(device, d) /\ Named(device, n) = {}
  BY DEF CheckDeviceName
<1> HIDE DEF r
<1>3. /\ JobsOK' /\ job'[c] = [stage |-> "checked", request |-> r, copy |-> Null]
      /\ \A o \in Clients \ {c} : job'[o] = job[o]
      /\ UNCHANGED <<tenant, device, config, user, faults, known, lapped, raced>>
  BY <1>1, <1>2, Begins DEF IInv, JobInv, Copies, Stages
<1> USE DEF IInv
<1>4. TypeOK'
  <2>1. \A o \in Clients : job'[o].stage \in Stages
    BY <1>3 DEF JobsOK, Jobs
  <2> QED
    BY <1>3, <2>1 DEF TypeOK, Stages, TenantRow, DeviceRow
<1>5. JobInv'
  <2>1. ASSUME NEW o \in Clients \ {c} PROVE Typed(o)' /\ CopyOK(o)'
    BY <1>3 DEF JobInv, Typed, CopyOK, TenantRow, DeviceRow
  <2>2. Typed(c)' /\ CopyOK(c)'
    BY <1>1, <1>3 DEF Typed, CopyOK, TenantOps, DeviceOps, ConfigOps
  <2> QED
    BY <1>3, <2>1, <2>2 DEF JobInv
<1>6. FreshIds'
  BY <1>1, <1>2, <1>3 DEF FreshIds, Creates, Fresh
<1>7. KnowsTwins'
  BY <1>1, <1>2, <1>3 DEF KnowsTwins, Creates, Named, Present
<1>8. TwinsOnlyByRace' /\ LostOnlyByOverlap' /\ KnownOK'
  BY <1>3 DEF TwinsOnlyByRace, LostOnlyByOverlap, Present, KnownOK
<1> QED
  BY <1>4, <1>5, <1>6, <1>7, <1>8

-------------------------------------------------------------------------------
(* Steps that write a row: the job is done                                 *)

(* The jobs of the others are as they were, if what they are about to      *)
(* write to is still there and has its name.                               *)
LEMMA JobsKept ==
  ASSUME IInv, NEW c \in Clients, Goes(c, "done"),
         \A t \in Tenants : tenant[t] # Null => tenant'[t] # Null,
         \A d \in Devices : device[d] # Null => device'[d] # Null /\ device'[d].name = device[d].name
  PROVE  /\ JobInv' /\ job'[c].request.op = "none"
         /\ \A o \in Clients \ {c} : job'[o] = job[o]
         /\ \A o \in Clients : job'[o].stage \in Stages
<1> USE DEF IInv, JobInv
<1>1. /\ JobsOK' /\ job'[c].stage = "done" /\ job'[c].request.op = "none"
      /\ \A o \in Clients \ {c} : job'[o] = job[o]
  BY IsDone
<1>2. Typed(c)' /\ CopyOK(c)'
  BY <1>1 DEF Typed, CopyOK, TenantOps, DeviceOps, ConfigOps
<1>3. ASSUME NEW o \in Clients \ {c} PROVE Typed(o)' /\ CopyOK(o)'
  <2>1. Typed(o) /\ CopyOK(o) /\ job'[o] = job[o]
    BY <1>1
  <2>2. Typed(o)'
    BY <2>1 DEF Typed
  <2>3. CopyOK(o)'
    BY <2>1 DEF CopyOK, Typed, TenantRow, DeviceRow
  <2> QED
    BY <2>2, <2>3
<1> QED
  BY <1>1, <1>2, <1>3 DEF JobsOK, Jobs

LEMMA NewRows ==
  ASSUME NEW n \in Names
  PROVE  /\ NewTenant(n) \in TenantRow /\ NewTenant(n) # Null
         /\ NewDevice(n) \in DeviceRow /\ NewDevice(n) # Null /\ NewDevice(n).name = n
<1>1. NewTenant(n) \in TenantRow
  BY DEF NewTenant, TenantRow
<1>2. NewDevice(n) \in DeviceRow /\ NewDevice(n).name = n
  BY DEF NewDevice, DeviceRow
<1> QED
  BY <1>1, <1>2, RegistryAssumption DEF RegistryAssumption

(* What a client is told of a tenant is what is written, if the tenant is  *)
(* not deleted.                                                            *)
LEMMA ToldIsWritten ==
  ASSUME NEW row \in TenantRow, ~row.deleted, NEW op \in TenantOps, NEW n,
         op = "updateTenant" => n \in Names
  PROVE  /\ [Changed(row, op, n) EXCEPT !.version = @ + 1] \in TenantRow
         /\ [Told(row, op, n) EXCEPT !.version = @ + 1]
              = [Changed(row, op, n) EXCEPT !.version = @ + 1]
<1> DEFINE R(a, b, d) == [name |-> a, active |-> b, deleted |-> d, version |-> row.version]
<1>1. /\ row = R(row.name, row.active, row.deleted)
      /\ row.name \in Names /\ row.active \in BOOLEAN /\ row.deleted = FALSE
      /\ row.version \in Nat \ {0}
  BY DEF TenantRow
<1>2. ASSUME NEW a, NEW b, NEW d, NEW x
      PROVE  /\ [R(a, b, d) EXCEPT !.name = x] = R(x, b, d)
             /\ [R(a, b, d) EXCEPT !.active = x] = R(a, x, d)
             /\ [R(a, b, d) EXCEPT !.deleted = x] = R(a, b, x)
  OBVIOUS
<1> DEFINE name == IF op = "updateTenant" THEN n ELSE row.name
           active == op = "activateTenant" \/ (row.active /\ op = "updateTenant")
           deleted == row.deleted \/ op = "deleteTenant"
<1>3. name \in Names /\ active \in BOOLEAN /\ deleted \in BOOLEAN
  BY <1>1
<1>4. Changed(row, op, n) = R(name, active, deleted)
  <2>1. Changed(row, op, n)
          = [[[row EXCEPT !.name = name] EXCEPT !.active = active] EXCEPT !.deleted = deleted]
    <3> HIDE DEF R
    <3> QED
      BY <1>1 DEF Changed, TenantRow
  <2> QED
    BY <1>1, <1>2, <2>1
<1>5. Changed(row, op, n) \in TenantRow
  BY <1>1, <1>3, <1>4 DEF TenantRow
<1>6. Told(row, op, n) = R(name, active, deleted)
  <2>1. CASE op = "updateTenant"
    BY <1>1, <1>2, <2>1 DEF Told
  <2>2. CASE op = "deleteTenant"
    BY <1>1, <1>2, <2>2 DEF Told
  <2>3. CASE op \in {"activateTenant", "deactivateTenant"}
    BY <1>1, <1>2, <2>3 DEF Told
  <2> QED
    BY <2>1, <2>2, <2>3 DEF TenantOps
<1>7. [Changed(row, op, n) EXCEPT !.version = @ + 1] \in TenantRow
  BY <1>5 DEF TenantRow
<1> QED
  BY <1>4, <1>6, <1>7

LEMMA BecomesRow ==
  ASSUME NEW row \in DeviceRow, NEW r \in Requests, r.op \in DeviceOps,
         r.op = "adopt" => r.value \in Tenants, r.op = "rename" => r.value \in Labels
  PROVE  Becomes(row, r) \in DeviceRow /\ Becomes(row, r).name = row.name
<1>1. CASE r.op = "adopt"
  BY <1>1 DEF Becomes, DeviceRow
<1>2. CASE r.op = "rename"
  BY <1>2 DEF Becomes, DeviceRow
<1>3. CASE r.op = "hear"
  BY <1>3 DEF Becomes, DeviceRow
<1> QED
  BY <1>1, <1>2, <1>3 DEF DeviceOps

(* A step that writes users or configurations.                             *)
LEMMA OtherWriteStep ==
  ASSUME IInv, NEW c \in Clients, UpsertUser(c) \/ StoreConfiguration(c)
  PROVE  IInv'
<1> USE DEF IInv, JobInv
<1>1. /\ Goes(c, "done") /\ UNCHANGED <<tenant, device, faults, known, lapped, raced>>
  BY DEF UpsertUser, StoreConfiguration, history
<1>2. /\ JobInv' /\ job'[c].request.op = "none"
      /\ \A o \in Clients \ {c} : job'[o] = job[o]
      /\ \A o \in Clients : job'[o].stage \in Stages
  BY <1>1, JobsKept
<1>3. user' \in [Users -> SUBSET Tenants] /\ config' \in [Tenants -> Zones \cup {Null}]
  <2>1. Typed(c)
    OBVIOUS
  <2>2. CASE UpsertUser(c)
    BY <2>1, <2>2 DEF UpsertUser, At, Typed, TypeOK
  <2>3. CASE StoreConfiguration(c)
    BY <2>1, <2>3 DEF StoreConfiguration, Configures, At, Typed, ConfigOps, TypeOK
  <2> QED
    BY <2>2, <2>3
<1>4. TypeOK'
  BY <1>1, <1>2, <1>3 DEF TypeOK, Stages, TenantRow, DeviceRow
<1>5. FreshIds'
  BY <1>1, <1>2 DEF FreshIds, Creates
<1>6. KnowsTwins'
  BY <1>1, <1>2 DEF KnowsTwins, Creates, Named, Present
<1>7. TwinsOnlyByRace' /\ LostOnlyByOverlap' /\ KnownOK'
  BY <1>1 DEF TwinsOnlyByRace, LostOnlyByOverlap, Present, KnownOK
<1> QED
  BY <1>2, <1>4, <1>5, <1>6, <1>7

(* A step that writes the row of a tenant: a new one, or one that it has   *)
(* read.                                                                   *)
LEMMA TenantWriteStep ==
  ASSUME IInv, NEW c \in Clients, Goes(c, "done"),
         NEW t \in Tenants, NEW new \in TenantRow, NEW copy, NEW told,
         tenant' = [tenant EXCEPT ![t] = new],
         Acknowledge(t, tenant[t], copy, told),
         t \notin lapped /\ tenant[t] = copy => told = new,
         UNCHANGED <<device, config, user, faults>>,
         \A o \in Clients \ {c} : Creates(o, "createTenant") => job[o].request.id # t
  PROVE  IInv'
<1> USE DEF IInv
<1>1. new # Null
  BY RegistryAssumption DEF RegistryAssumption
<1>2. /\ \A u \in Tenants : tenant[u] # Null => tenant'[u] # Null
      /\ \A u \in Tenants : tenant'[u] = IF u = t THEN new ELSE tenant[u]
  BY <1>1 DEF TypeOK
<1>3. /\ JobInv' /\ job'[c].request.op = "none"
      /\ \A o \in Clients \ {c} : job'[o] = job[o]
      /\ \A o \in Clients : job'[o].stage \in Stages
  BY <1>2, JobsKept
<1>4. /\ known' = [known EXCEPT ![t] = told] /\ raced' = raced
      /\ lapped' = IF tenant[t] = copy THEN lapped ELSE lapped \cup {t}
  BY DEF Acknowledge
<1>5. TypeOK'
  BY <1>3, <1>4 DEF TypeOK, Stages, TenantRow, DeviceRow
<1>6. FreshIds'
  BY <1>2, <1>3 DEF FreshIds, Creates, JobInv, Typed
<1>7. KnowsTwins'
  BY <1>3, <1>4 DEF KnowsTwins, Creates, Named, Present
<1>8. TwinsOnlyByRace'
  BY <1>4 DEF TwinsOnlyByRace, Present
<1>9. KnownOK'
  BY <1>4 DEF KnownOK
<1>10. LostOnlyByOverlap'
  <2> SUFFICES ASSUME NEW i \in (Tenants \cup Devices) \ lapped'
               PROVE  known'[i] = IF i \in Tenants THEN tenant'[i] ELSE device'[i]
    BY DEF LostOnlyByOverlap
  <2>1. i \notin lapped
    BY <1>4
  <2>2. CASE i = t
    BY <1>2, <1>4, <2>1, <2>2 DEF KnownOK
  <2>3. CASE i # t
    BY <1>2, <1>4, <2>1, <2>3 DEF KnownOK, LostOnlyByOverlap
  <2> QED
    BY <2>2, <2>3
<1> QED
  BY <1>3, <1>5, <1>6, <1>7, <1>8, <1>9, <1>10

(* A request that is refused when it comes to write.                       *)
LEMMA RefusedStep ==
  ASSUME IInv, NEW c \in Clients, Goes(c, "done"),
         UNCHANGED <<tenant, device, config, user, faults, known, lapped, raced>>
  PROVE  IInv'
<1>1. /\ JobsOK' /\ job'[c].stage = "done" /\ job'[c].request.op = "none"
      /\ \A o \in Clients \ {c} : job'[o] = job[o]
  BY IsDone DEF IInv, JobInv
<1>2. Typed(c)' /\ CopyOK(c)'
  BY <1>1 DEF Typed, CopyOK, TenantOps, DeviceOps, ConfigOps
<1>3. faults' \in 0..MaxFaults
  BY DEF IInv, TypeOK
<1> QED
  BY <1>1, <1>2, <1>3, JobStep

LEMMA StoreTenantStep == ASSUME IInv, NEW c \in Clients, StoreTenant(c) PROVE IInv'
<1> DEFINE r == job[c].request
<1>1. r.op = "createTenant" /\ r.id \in Tenants /\ r.value \in Names /\ tenant[r.id] = Null
  BY DEF StoreTenant, At, IInv, JobInv, Typed, FreshIds, Creates
<1>2. CASE Named(tenant, r.value) = {}
  <2>1. NewTenant(r.value) \in TenantRow
    BY <1>1, NewRows
  <2>2. \A o \in Clients \ {c} : Creates(o, "createTenant") => job[o].request.id # r.id
    BY <1>1 DEF IInv, FreshIds, Creates
  <2>3. /\ Goes(c, "done") /\ tenant' = [tenant EXCEPT ![r.id] = NewTenant(r.value)]
        /\ Acknowledge(r.id, tenant[r.id], Null, NewTenant(r.value))
        /\ UNCHANGED <<device, config, user, faults>>
    BY <1>1, <1>2 DEF StoreTenant, Acknowledge
  <2> HIDE DEF r
  <2> QED
    BY <1>1, <2>1, <2>2, <2>3, TenantWriteStep
<1>3. CASE Named(tenant, r.value) # {}
  BY <1>3, RefusedStep DEF StoreTenant, history
<1> QED
  BY <1>2, <1>3

LEMMA UpdateTenantStep == ASSUME IInv, NEW c \in Clients, UpdateTenant(c) PROVE IInv'
<1> DEFINE r == job[c].request
           copy == job[c].copy
           row == [Changed(copy, r.op, r.value) EXCEPT !.version = @ + 1]
           told == [Told(known[r.id], r.op, r.value) EXCEPT !.version = @ + 1]
<1>1. /\ r.op \in TenantOps /\ r.id \in Tenants /\ (r.op = "updateTenant" => r.value \in Names)
      /\ copy \in TenantRow /\ ~copy.deleted /\ tenant[r.id] # Null
  BY DEF UpdateTenant, IInv, JobInv, Typed, CopyOK, TenantOps
<1>2. CASE Named(tenant, row.name) \subseteq {r.id}
  <2>1. row \in TenantRow
    BY <1>1, ToldIsWritten
  <2>2. ASSUME r.id \notin lapped, tenant[r.id] = copy
        PROVE  told = row
    <3>1. known[r.id] = copy
      BY <1>1, <2>2 DEF IInv, LostOnlyByOverlap
    <3>2. told = [Told(copy, r.op, r.value) EXCEPT !.version = @ + 1]
      BY <3>1
    <3> HIDE DEF told
    <3> QED
      BY <1>1, <3>2, ToldIsWritten
  <2>3. \A o \in Clients \ {c} : Creates(o, "createTenant") => job[o].request.id # r.id
    BY <1>1 DEF IInv, FreshIds, Creates
  <2>4. /\ Goes(c, "done") /\ tenant' = [tenant EXCEPT ![r.id] = row]
        /\ Acknowledge(r.id, tenant[r.id], copy, told)
        /\ UNCHANGED <<device, config, user, faults>>
    BY <1>2 DEF UpdateTenant
  <2> HIDE DEF r, copy, row, told
  <2> QED
    BY <1>1, <2>1, <2>2, <2>3, <2>4, TenantWriteStep, ZenonT(60)
<1>3. CASE ~(Named(tenant, row.name) \subseteq {r.id})
  BY <1>3, RefusedStep DEF UpdateTenant, history
<1> QED
  BY <1>2, <1>3

(* A new device has the name of another only if that was created while the *)
(* name was checked.                                                       *)
LEMMA StoreDeviceStep == ASSUME IInv, NEW c \in Clients, StoreDevice(c) PROVE IInv'
<1> DEFINE r == job[c].request
           new == NewDevice(r.value)
<1> USE DEF IInv
<1>1. /\ r.op = "createDevice" /\ r.id \in Devices /\ r.value \in Names /\ device[r.id] = Null
      /\ \A o \in Clients \ {c} : Creates(o, "createDevice") => job[o].request.id # r.id
  BY DEF StoreDevice, At, JobInv, Typed, FreshIds, Creates
<1>2. new \in DeviceRow /\ new # Null /\ new.name = r.value
  BY <1>1, NewRows
<1>3. /\ Goes(c, "done") /\ device' = [device EXCEPT ![r.id] = new]
      /\ known' = [known EXCEPT ![r.id] = new]
      /\ UNCHANGED <<tenant, config, user, faults, lapped>>
  BY DEF StoreDevice
<1>4. /\ raced \subseteq raced'
      /\ \A o \in Clients \ {c} : At(o, "createDevice", "checked") /\ job[o].request.value = r.value
           => {r.id, job[o].request.id} \in raced'
  BY DEF StoreDevice
<1> DEFINE d == r.id
<1> HIDE DEF r, new
<1>5. /\ \A e \in Devices : device'[e] = IF e = d THEN new ELSE device[e]
      /\ \A e \in Devices : device[e] # Null => device'[e] # Null /\ device'[e].name = device[e].name
  BY <1>1, <1>2, <1>3 DEF TypeOK
<1>6. /\ JobInv' /\ job'[c].request.op = "none"
      /\ \A o \in Clients \ {c} : job'[o] = job[o]
      /\ \A o \in Clients : job'[o].stage \in Stages
  BY <1>3, <1>5, JobsKept
<1>7. TypeOK'
  BY <1>1, <1>2, <1>3, <1>6 DEF TypeOK, Stages, TenantRow, DeviceRow
<1>8. FreshIds'
  BY <1>1, <1>3, <1>5, <1>6 DEF FreshIds, Creates, JobInv, Typed
<1>9. Present(device') = Present(device) \cup {d}
  BY <1>1, <1>2, <1>3, <1>5 DEF Present, TypeOK
<1>10. KnowsTwins'
  <2> SUFFICES ASSUME NEW o \in Clients, Creates(o, "createDevice")',
                      NEW e \in Named(device', job'[o].request.value)
               PROVE  {job'[o].request.id, e} \in raced'
    BY DEF KnowsTwins
  <2>1. o # c /\ job'[o] = job[o] /\ Creates(o, "createDevice") /\ e \in Devices
    <3>1. o # c /\ job'[o] = job[o] /\ Creates(o, "createDevice")
      BY <1>6 DEF Creates
    <3>2. e \in DOMAIN device'
      BY DEF Named, Present
    <3> QED
      BY <1>3, <3>1, <3>2 DEF TypeOK
  <2>2. CASE e = d
    BY <1>2, <1>4, <1>5, <2>1, <2>2 DEF Creates, At, FreshIds, Named
  <2>3. CASE e # d
    BY <1>4, <1>5, <2>1, <2>3 DEF KnowsTwins, Creates, Named, Present, TypeOK
  <2> QED
    BY <2>2, <2>3
<1>11. TwinsOnlyByRace'
  <2>1. ASSUME NEW e \in Present(device), e # d, device[e].name = r.value
        PROVE  {d, e} \in raced'
    BY <1>1, <1>4, <2>1 DEF KnowsTwins, Creates, Named, r
  <2> SUFFICES ASSUME NEW e \in Present(device'), NEW f \in Present(device'), e # f,
                      device'[e].name = device'[f].name
               PROVE  {e, f} \in raced'
    BY DEF TwinsOnlyByRace
  <2>2. e \in Devices /\ f \in Devices
    BY <1>3 DEF Present, TypeOK
  <2>3. CASE e = d
    BY <1>2, <1>5, <1>9, <2>1, <2>2, <2>3
  <2>4. CASE f = d
    <3>1. {d, e} \in raced'
      BY <1>2, <1>5, <1>9, <2>1, <2>2, <2>4
    <3> QED
      BY <2>4, <3>1
  <2>5. CASE e # d /\ f # d
    BY <1>4, <1>5, <1>9, <2>2, <2>5 DEF TwinsOnlyByRace
  <2> QED
    BY <2>3, <2>4, <2>5
<1>12. KnownOK'
  BY <1>3 DEF KnownOK
<1>13. LostOnlyByOverlap'
  <2> SUFFICES ASSUME NEW i \in (Tenants \cup Devices) \ lapped'
               PROVE  known'[i] = IF i \in Tenants THEN tenant'[i] ELSE device'[i]
    BY DEF LostOnlyByOverlap
  <2>1. CASE i = d
    BY <1>1, <1>3, <1>5, <2>1, RegistryAssumption DEF RegistryAssumption, KnownOK
  <2>2. CASE i # d
    BY <1>3, <1>5, <2>2 DEF KnownOK, LostOnlyByOverlap
  <2> QED
    BY <2>1, <2>2
<1> QED
  BY <1>6, <1>7, <1>8, <1>10, <1>11, <1>12, <1>13

LEMMA UpdateDeviceStep == ASSUME IInv, NEW c \in Clients, UpdateDevice(c) PROVE IInv'
<1> DEFINE r == job[c].request
           copy == job[c].copy
           new == Becomes(copy, r)
           told == Becomes(known[r.id], r)
<1> USE DEF IInv
<1>1. /\ r \in Requests /\ r.op \in DeviceOps /\ r.id \in Devices
      /\ (r.op = "adopt" => r.value \in Tenants) /\ (r.op = "rename" => r.value \in Labels)
      /\ copy \in DeviceRow /\ device[r.id] # Null /\ device[r.id].name = copy.name
  BY DEF UpdateDevice, JobInv, JobsOK, Jobs, Typed, CopyOK, DeviceOps
<1>2. new \in DeviceRow /\ new.name = copy.name
  BY <1>1, BecomesRow
<1>3. new # Null
  BY <1>2, RegistryAssumption DEF RegistryAssumption
<1>4. r.id \notin lapped /\ device[r.id] = copy => told = new
  BY <1>1, RegistryAssumption DEF RegistryAssumption, LostOnlyByOverlap
<1>5. /\ Goes(c, "done") /\ device' = [device EXCEPT ![r.id] = new]
      /\ known' = [known EXCEPT ![r.id] = told] /\ raced' = raced
      /\ lapped' = IF device[r.id] = copy THEN lapped ELSE lapped \cup {r.id}
      /\ UNCHANGED <<tenant, config, user, faults>>
  BY DEF UpdateDevice, Acknowledge
<1> DEFINE d == r.id
<1> HIDE DEF r, copy, new, told
<1>6. /\ \A e \in Devices : device'[e] = IF e = d THEN new ELSE device[e]
      /\ \A e \in Devices : device[e] # Null => device'[e] # Null /\ device'[e].name = device[e].name
  BY <1>1, <1>2, <1>3, <1>5 DEF TypeOK
<1>7. /\ JobInv' /\ job'[c].request.op = "none"
      /\ \A o \in Clients \ {c} : job'[o] = job[o]
      /\ \A o \in Clients : job'[o].stage \in Stages
  BY <1>5, <1>6, JobsKept
<1>8. TypeOK'
  BY <1>1, <1>2, <1>5, <1>7 DEF TypeOK, Stages, TenantRow, DeviceRow
<1>9. FreshIds'
  BY <1>1, <1>5, <1>6, <1>7 DEF FreshIds, Creates, JobInv, Typed
<1>10. /\ Present(device') = Present(device)
       /\ \A e \in Present(device) : e \in Devices /\ device'[e].name = device[e].name
  BY <1>1, <1>3, <1>5, <1>6 DEF Present, TypeOK
<1>11. KnowsTwins'
  BY <1>5, <1>7, <1>10 DEF KnowsTwins, Creates, Named
<1>12. TwinsOnlyByRace'
  BY <1>5, <1>10 DEF TwinsOnlyByRace
<1>13. KnownOK'
  BY <1>5 DEF KnownOK
<1>14. LostOnlyByOverlap'
  <2> SUFFICES ASSUME NEW i \in (Tenants \cup Devices) \ lapped'
               PROVE  known'[i] = IF i \in Tenants THEN tenant'[i] ELSE device'[i]
    BY DEF LostOnlyByOverlap
  <2>1. i \notin lapped
    BY <1>5
  <2>2. CASE i = d
    BY <1>1, <1>4, <1>5, <1>6, <2>1, <2>2, RegistryAssumption DEF RegistryAssumption, KnownOK
  <2>3. CASE i # d
    BY <1>5, <1>6, <2>1, <2>3 DEF KnownOK, LostOnlyByOverlap
  <2> QED
    BY <2>2, <2>3
<1> QED
  BY <1>7, <1>8, <1>9, <1>11, <1>12, <1>13, <1>14

-------------------------------------------------------------------------------
(* The invariant is inductive                                              *)

LEMMA InitStep == Init => IInv
<1> SUFFICES ASSUME Init PROVE IInv
  OBVIOUS
<1> USE DEF Init
<1>1. \A n \in Names : NewTenant(n) \in TenantRow /\ NewDevice(n) \in DeviceRow
  BY NewRows
<1>2. \A n \in Names : ~NewTenant(n).deleted
  BY DEF NewTenant
<1>3. job \in [Clients -> Jobs] /\ \A c \in Clients : job[c] = Idle
  BY IdleIsJob
<1>4. JobInv
  BY <1>3, IdleIsJob DEF JobInv, JobsOK, Typed, CopyOK, TenantOps, DeviceOps, ConfigOps
<1>5. tenant \in [Tenants -> TenantRow \cup {Null}] /\ device \in [Devices -> DeviceRow \cup {Null}]
  BY <1>1
<1>6. user \in [Users -> SUBSET Tenants]
  BY <1>5 DEF Present
<1>7. TypeOK
  BY <1>3, <1>5, <1>6, IdleIsJob, RegistryAssumption DEF TypeOK, RegistryAssumption
<1>8. FreshIds /\ KnowsTwins
  BY <1>3, IdleIsJob DEF FreshIds, KnowsTwins, Creates
<1>9. TwinsOnlyByRace
  <2> SUFFICES ASSUME NEW d \in Present(device), NEW e \in Present(device),
                      device[d].name = device[e].name
               PROVE  d = e
    BY DEF TwinsOnlyByRace
  <2>1. device[d].name \in Names
    BY <1>5 DEF Present, DeviceRow
  <2>2. d \in Named(device, device[d].name) /\ e \in Named(device, device[d].name)
    BY DEF Named
  <2> QED
    BY <2>1, <2>2
<1>10. KnownOK /\ LostOnlyByOverlap
  BY DEF KnownOK, LostOnlyByOverlap
<1> QED
  BY <1>4, <1>7, <1>8, <1>9, <1>10 DEF IInv

LEMMA AskTenantStep == ASSUME IInv, NEW c \in Clients, AskTenant(c) PROVE IInv'
<1>1. PICK t \in Tenants :
        \/ \E n \in Names : \/ CheckTenantName(c, t, n)
                            \/ \E v \in 0..2 : ReadTenant(c, t, "updateTenant", n, v)
        \/ \E op \in {"deleteTenant", "activateTenant", "deactivateTenant"} :
             ReadTenant(c, t, op, Null, 0)
        \/ \E u \in Users, z \in Zones : CheckUser(c, u, t, z)
        \/ GetOrCreate(c, t)
  BY DEF AskTenant
<1>2. CASE \E n \in Names : CheckTenantName(c, t, n)
  BY <1>2, CheckTenantNameStep
<1>3. CASE \E n \in Names, v \in 0..2 : ReadTenant(c, t, "updateTenant", n, v)
  BY <1>3, ReadTenantStep DEF TenantOps
<1>4. CASE \E op \in {"deleteTenant", "activateTenant", "deactivateTenant"} :
             ReadTenant(c, t, op, Null, 0)
  BY <1>4, ReadTenantStep DEF TenantOps
<1>5. CASE (\E u \in Users, z \in Zones : CheckUser(c, u, t, z)) \/ GetOrCreate(c, t)
  BY <1>5, OtherBeginStep
<1> QED
  BY <1>1, <1>2, <1>3, <1>4, <1>5

LEMMA AskDeviceStep == ASSUME IInv, NEW c \in Clients, AskDevice(c) PROVE IInv'
<1>1. PICK d \in Devices : \/ \E n \in Names : CheckDeviceName(c, d, n)
                           \/ \E t \in Tenants : CheckAdopter(c, t, d)
                           \/ \E l \in Labels : ReadDevice(c, d, "rename", l)
                           \/ ReadDevice(c, d, "hear", Null)
  BY DEF AskDevice
<1>2. CASE \E n \in Names : CheckDeviceName(c, d, n)
  BY <1>2, CheckDeviceNameStep
<1>3. CASE \E t \in Tenants : CheckAdopter(c, t, d)
  BY <1>3, OtherBeginStep
<1>4. CASE (\E l \in Labels : ReadDevice(c, d, "rename", l)) \/ ReadDevice(c, d, "hear", Null)
  BY <1>4, ReadDeviceStep
<1> QED
  BY <1>1, <1>2, <1>3, <1>4

LEMMA NextStep == IInv /\ [Next]_vars => IInv'
<1> SUFFICES ASSUME IInv, [Next]_vars PROVE IInv'
  OBVIOUS
<1>1. CASE UNCHANGED vars
  <2>1. UNCHANGED <<tenant, device, config, user, job, faults, known, lapped, raced>>
    BY <1>1 DEF vars, tables, history
  <2>2. TypeOK' /\ JobInv'
    BY <2>1 DEF IInv, TypeOK, JobInv, JobsOK, Typed, CopyOK
  <2>3. KnownOK' /\ FreshIds' /\ LostOnlyByOverlap'
    BY <2>1 DEF IInv, KnownOK, FreshIds, Creates, LostOnlyByOverlap
  <2>4. KnowsTwins' /\ TwinsOnlyByRace'
    BY <2>1 DEF IInv, KnowsTwins, Creates, Named, Present, TwinsOnlyByRace
  <2> QED
    BY <2>2, <2>3, <2>4 DEF IInv
<1>2. CASE Next
  <2>1. PICK c \in Clients :
          \/ AskTenant(c) \/ AskDevice(c)
          \/ \E u \in Users, ts \in SUBSET Tenants : CheckTenants(c, u, ts)
          \/ StoreTenant(c) \/ CheckNewName(c) \/ UpdateTenant(c)
          \/ StoreDevice(c) \/ ReadAdopted(c) \/ UpdateDevice(c)
          \/ UpsertUser(c) \/ ReadConfiguration(c) \/ StoreConfiguration(c)
          \/ Fail(c)
    BY <1>2 DEF Next
  <2>2. CASE AskTenant(c) \/ AskDevice(c)
    BY <2>2, AskTenantStep, AskDeviceStep
  <2>3. CASE \E u \in Users, ts \in SUBSET Tenants : CheckTenants(c, u, ts)
    BY <2>3, OtherBeginStep
  <2>4. CASE StoreTenant(c) \/ CheckNewName(c) \/ UpdateTenant(c)
    BY <2>4, StoreTenantStep, CheckNewNameStep, UpdateTenantStep
  <2>5. CASE StoreDevice(c) \/ ReadAdopted(c) \/ UpdateDevice(c)
    BY <2>5, StoreDeviceStep, ReadAdoptedStep, UpdateDeviceStep
  <2>6. CASE UpsertUser(c) \/ StoreConfiguration(c)
    BY <2>6, OtherWriteStep
  <2>7. CASE ReadConfiguration(c) \/ Fail(c)
    BY <2>7, ReadConfigurationStep, FailStep
  <2> QED
    BY <2>1, <2>2, <2>3, <2>4, <2>5, <2>6, <2>7
<1> QED
  BY <1>1, <1>2

LEMMA Invariance == Spec => []IInv
  BY InitStep, NextStep, PTL DEF Spec

-------------------------------------------------------------------------------
(* The theorems                                                            *)

(* Rows, configurations and users of tenants are of their types, and no    *)
(* request is at a stage that there is not.                                *)
THEOREM RegistryTypeCorrect == Spec => []TypeOK
<1>1. IInv => TypeOK
  BY DEF IInv
<1> QED
  BY <1>1, Invariance, PTL

(* Two devices have the same name only if both were created at the same    *)
(* time: CreateDevice looks the name up, and stores the device later.      *)
THEOREM NamesGivenTwiceByRace == Spec => []TwinsOnlyByRace
<1>1. IInv => TwinsOnlyByRace
  BY DEF IInv
<1> QED
  BY <1>1, Invariance, PTL

(* What a client has been told stays so until another is told otherwise,   *)
(* unless a row has been written over a write that was not seen: the       *)
(* Update of the repositories takes whatever row it is given.              *)
THEOREM ToldUnlessLapped == Spec => []LostOnlyByOverlap
<1>1. IInv => LostOnlyByOverlap
  BY DEF IInv
<1> QED
  BY <1>1, Invariance, PTL

(* A request that has read a tenant has read one that was not deleted, so  *)
(* it changes a deleted one only over a write that it has not seen.        *)
THEOREM DeletedStaysUnlessLapped == Spec => DeletedIsFinal
<1> DEFINE Final == \A t \in Tenants : Deleted(t) /\ tenant'[t] # tenant[t] => t \in lapped'
<1>1. IInv /\ [Next]_vars => Final
  <2> SUFFICES ASSUME IInv, [Next]_vars, NEW t \in Tenants, Deleted(t), tenant'[t] # tenant[t]
               PROVE  t \in lapped'
    OBVIOUS
  <2>1. PICK c \in Clients : StoreTenant(c) \/ UpdateTenant(c)
    <3>1. tenant' # tenant
      OBVIOUS
    <3>2. Next
      BY <3>1 DEF vars, tables
    <3>3. \A c \in Clients : AskTenant(c) \/ AskDevice(c) => UNCHANGED tenant
      BY DEF AskTenant, AskDevice, Begin, CheckTenantName, ReadTenant, CheckUser, GetOrCreate,
           CheckDeviceName, CheckAdopter, ReadDevice, tables
    <3>4. \A c \in Clients, u \in Users, ts \in SUBSET Tenants :
            CheckTenants(c, u, ts) => UNCHANGED tenant
      BY DEF CheckTenants, Begin, tables
    <3>5. \A c \in Clients : CheckNewName(c) \/ StoreDevice(c) \/ ReadAdopted(c) => UNCHANGED tenant
      BY DEF CheckNewName, StoreDevice, ReadAdopted, tables
    <3>6. \A c \in Clients : UpdateDevice(c) \/ UpsertUser(c) => UNCHANGED tenant
      BY DEF UpdateDevice, UpsertUser
    <3>7. \A c \in Clients : ReadConfiguration(c) \/ StoreConfiguration(c) \/ Fail(c)
            => UNCHANGED tenant
      BY DEF ReadConfiguration, StoreConfiguration, Fail, tables
    <3> QED
      BY <3>1, <3>2, <3>3, <3>4, <3>5, <3>6, <3>7 DEF Next
  <2>2. CASE StoreTenant(c)
    <3>1. job[c].request.id \in Tenants /\ tenant[job[c].request.id] = Null
      BY <2>2 DEF StoreTenant, At, IInv, JobInv, Typed, FreshIds, Creates
    <3>2. \A u \in Tenants \ {job[c].request.id} : tenant'[u] = tenant[u]
      BY <2>2, <3>1 DEF StoreTenant, IInv, TypeOK
    <3> QED
      BY <3>1, <3>2 DEF Deleted
  <2>3. CASE UpdateTenant(c)
    <3> DEFINE id == job[c].request.id
    <3>1. id \in Tenants /\ job[c].copy \in TenantRow /\ ~job[c].copy.deleted
      BY <2>3 DEF UpdateTenant, IInv, JobInv, Typed, CopyOK, TenantOps
    <3>2. /\ \A u \in Tenants \ {id} : tenant'[u] = tenant[u]
          /\ tenant' # tenant =>
               lapped' = IF tenant[id] = job[c].copy THEN lapped ELSE lapped \cup {id}
      BY <2>3, <3>1 DEF UpdateTenant, Acknowledge, IInv, TypeOK
    <3> QED
      BY <3>1, <3>2 DEF Deleted
  <2> QED
    BY <2>1, <2>2, <2>3
<1> QED
  BY <1>1, Invariance, PTL DEF Spec, DeletedIsFinal

(* Who creates a default configuration has seen that there is none, and    *)
(* that is what is compared when it is stored.                             *)
DefaultsKnowNone ==
  \A c \in Clients : job[c].request.op = "configureDefault" => job[c].copy = Null

LEMMA JobWritten ==
  ASSUME JobsOK, DefaultsKnowNone, NEW c \in Clients, NEW j,
         job' = [job EXCEPT ![c] = j], j.request.op = "configureDefault" => j.copy = Null
  PROVE  DefaultsKnowNone'
  BY DEF JobsOK, DefaultsKnowNone

LEMMA GoesKeepsDefaults ==
  ASSUME JobsOK, DefaultsKnowNone, NEW c \in Clients, NEW s \in Stages, Goes(c, s)
  PROVE  DefaultsKnowNone'
<1>1. CASE s = "done"
  <2>1. job'[c].request.op = "none" /\ \A o \in Clients \ {c} : job'[o] = job[o]
    BY <1>1, IsDone
  <2> QED
    BY <2>1 DEF DefaultsKnowNone
<1>2. CASE s # "done"
  <2>1. /\ job'[c] = [stage |-> s, request |-> job[c].request, copy |-> job[c].copy]
        /\ \A o \in Clients \ {c} : job'[o] = job[o]
    <3>1. s \in Stages \ {"done"}
      BY <1>2
    <3> QED
      BY <3>1, GoesOn, Zenon
  <2>2. job'[c].request = job[c].request /\ job'[c].copy = job[c].copy
    BY <2>1
  <2> QED
    BY <2>1, <2>2 DEF DefaultsKnowNone
<1> QED
  BY <1>1, <1>2

LEMMA BeginKeepsDefaults ==
  ASSUME JobsOK, DefaultsKnowNone, NEW c \in Clients, NEW r, NEW s, NEW k, Begin(c, r, s, k),
         r.op = "configureDefault" => k = Null
  PROVE  DefaultsKnowNone'
<1> DEFINE j == [stage |-> s, request |-> r, copy |-> k]
<1>1. job' = [job EXCEPT ![c] = j] /\ (j.request.op = "configureDefault" => j.copy = Null)
  BY DEF Begin
<1> HIDE DEF j
<1> QED
  BY <1>1, JobWritten

BeginsWell(c) == \E r, s, k : Begin(c, r, s, k) /\ (r.op = "configureDefault" => k = Null)

LEMMA CreatesOrReadsWell ==
  ASSUME NEW c, NEW t, NEW n, NEW v,
         NEW op \in {"updateTenant", "deleteTenant", "activateTenant", "deactivateTenant"},
         CheckTenantName(c, t, n) \/ ReadTenant(c, t, op, n, v)
  PROVE  BeginsWell(c)
<1>1. Request("createTenant", t, n).op # "configureDefault"
  BY DEF Request
<1>2. [Request(op, t, n) EXCEPT !.version = v].op # "configureDefault"
  BY DEF Request
<1> QED
  BY <1>1, <1>2, Zenon DEF CheckTenantName, ReadTenant, BeginsWell

LEMMA OthersBeginWell ==
  ASSUME NEW c, NEW i, NEW j, NEW v
  PROVE  /\ CheckUser(c, j, i, v) => BeginsWell(c)
         /\ GetOrCreate(c, i) => BeginsWell(c)
         /\ CheckDeviceName(c, i, v) => BeginsWell(c)
         /\ CheckAdopter(c, i, j) => BeginsWell(c)
         /\ ReadDevice(c, i, "rename", v) \/ ReadDevice(c, i, "hear", v) => BeginsWell(c)
         /\ CheckTenants(c, i, j) => BeginsWell(c)
<1>1. \A op, x, y : Request(op, x, y).op = op
  BY DEF Request
<1>2. /\ "configure" # "configureDefault" /\ "createDevice" # "configureDefault"
      /\ "adopt" # "configureDefault" /\ "rename" # "configureDefault"
      /\ "hear" # "configureDefault" /\ "associate" # "configureDefault"
  OBVIOUS
<1>3. CheckUser(c, j, i, v) \/ GetOrCreate(c, i) => BeginsWell(c)
  BY <1>1, <1>2, Zenon DEF CheckUser, GetOrCreate, BeginsWell
<1>4. CheckDeviceName(c, i, v) \/ CheckAdopter(c, i, j) => BeginsWell(c)
  BY <1>1, <1>2, Zenon DEF CheckDeviceName, CheckAdopter, BeginsWell
<1>5. ReadDevice(c, i, "rename", v) \/ ReadDevice(c, i, "hear", v) => BeginsWell(c)
  BY <1>1, <1>2, Zenon DEF ReadDevice, BeginsWell
<1>6. CheckTenants(c, i, j) => BeginsWell(c)
  BY <1>1, <1>2, Zenon DEF CheckTenants, BeginsWell
<1> QED
  BY <1>3, <1>4, <1>5, <1>6

LEMMA ReadKeepsDefaults ==
  ASSUME JobsOK, DefaultsKnowNone, NEW c \in Clients, NEW k \in Copies,
         job' = [job EXCEPT ![c].stage = "checked", ![c].copy = k],
         job[c].request.op # "configureDefault"
  PROVE  DefaultsKnowNone'
<1>1. /\ job'[c] = [stage |-> "checked", request |-> job[c].request, copy |-> k]
      /\ \A o \in Clients \ {c} : job'[o] = job[o]
  BY Reads, Zenon
<1>2. job'[c].request = job[c].request
  BY <1>1
<1> QED
  BY <1>1, <1>2 DEF DefaultsKnowNone

LEMMA DefaultsStep == IInv /\ DefaultsKnowNone /\ [Next]_vars => DefaultsKnowNone'
<1> SUFFICES ASSUME JobsOK, TypeOK, JobInv, DefaultsKnowNone, [Next]_vars PROVE DefaultsKnowNone'
  BY DEF IInv, JobInv
<1>1. CASE UNCHANGED vars
  BY <1>1 DEF vars, DefaultsKnowNone
<1>2. CASE \E c \in Clients : \/ StoreTenant(c) \/ CheckNewName(c) \/ UpdateTenant(c)
                              \/ StoreDevice(c) \/ UpdateDevice(c) \/ UpsertUser(c)
                              \/ StoreConfiguration(c) \/ Fail(c)
  <2>1. \E c \in Clients : Goes(c, "done") \/ Goes(c, "checked")
    BY <1>2 DEF StoreTenant, CheckNewName, UpdateTenant, StoreDevice, UpdateDevice, UpsertUser,
                StoreConfiguration, Fail
  <2> QED
    BY <2>1, GoesKeepsDefaults DEF Stages
<1>3. ASSUME NEW c \in Clients, AskTenant(c) \/ AskDevice(c)
             \/ \E u \in Users, ts \in SUBSET Tenants : CheckTenants(c, u, ts)
      PROVE  DefaultsKnowNone'
  <2>1. BeginsWell(c)
    <3>1. CASE AskTenant(c)
      <4>1. PICK t \in Tenants :
              \/ \E n \in Names : CheckTenantName(c, t, n)
              \/ \E n \in Names, v \in 0..2 : ReadTenant(c, t, "updateTenant", n, v)
              \/ \E op \in {"deleteTenant", "activateTenant", "deactivateTenant"} :
                   ReadTenant(c, t, op, Null, 0)
              \/ \E u \in Users, z \in Zones : CheckUser(c, u, t, z)
              \/ GetOrCreate(c, t)
        BY <3>1 DEF AskTenant
      <4> QED
        BY <4>1, CreatesOrReadsWell, OthersBeginWell
    <3>2. CASE AskDevice(c)
      <4>1. PICK d \in Devices :
              \/ \E n \in Names : CheckDeviceName(c, d, n)
              \/ \E t \in Tenants : CheckAdopter(c, t, d)
              \/ \E l \in Labels : ReadDevice(c, d, "rename", l)
              \/ ReadDevice(c, d, "hear", Null)
        BY <3>2 DEF AskDevice
      <4>2. CASE \E n \in Names : CheckDeviceName(c, d, n)
        BY <4>2, OthersBeginWell, Zenon
      <4>3. CASE \E t \in Tenants : CheckAdopter(c, t, d)
        BY <4>3, OthersBeginWell, Zenon
      <4>4. CASE (\E l \in Labels : ReadDevice(c, d, "rename", l)) \/ ReadDevice(c, d, "hear", Null)
        BY <4>4, OthersBeginWell, Zenon
      <4> QED
        BY <4>1, <4>2, <4>3, <4>4
    <3> QED
      BY <1>3, <3>1, <3>2, OthersBeginWell
  <2>2. PICK r, s, k : Begin(c, r, s, k) /\ (r.op = "configureDefault" => k = Null)
    BY <2>1 DEF BeginsWell
  <2> QED
    BY <2>2, BeginKeepsDefaults, Zenon
<1>4. ASSUME NEW c \in Clients, ReadAdopted(c) PROVE DefaultsKnowNone'
  <2>1. job[c].request.id \in Devices /\ job[c].request.op = "adopt"
    BY <1>4 DEF ReadAdopted, At, JobInv, Typed, DeviceOps
  <2>2. device[job[c].request.id] \in Copies
    BY <2>1 DEF TypeOK, Copies
  <2> QED
    BY <1>4, <2>1, <2>2, GoesKeepsDefaults, ReadKeepsDefaults DEF ReadAdopted, Stages
<1>5. ASSUME NEW c \in Clients, ReadConfiguration(c) PROVE DefaultsKnowNone'
  <2>1. job[c].request.id \in Tenants /\ job[c].request.op = "configure"
    BY <1>5 DEF ReadConfiguration, At, JobInv, Typed, ConfigOps
  <2>2. config[job[c].request.id] \in Copies
    BY <2>1 DEF TypeOK, Copies
  <2> QED
    BY <1>5, <2>1, <2>2, ReadKeepsDefaults DEF ReadConfiguration
<1> QED
  BY <1>1, <1>2, <1>3, <1>4, <1>5 DEF Next

(* A worker that creates a default configuration leaves a time zone that a *)
(* user has stored meanwhile, as Create meets the unique index.            *)
THEOREM DefaultsLeaveZones == Spec => DefaultsYield
<1> DEFINE Yield == \A c \in Clients, t \in Tenants :
                      At(c, "configureDefault", "checked") /\ job'[c].stage = "done"
                        /\ config[t] # Null => config'[t] = config[t]
<1>1. Init => DefaultsKnowNone
  BY IdleIsJob DEF Init, DefaultsKnowNone
<1>2. IInv /\ DefaultsKnowNone /\ [Next]_vars => Yield
  <2> SUFFICES ASSUME IInv, DefaultsKnowNone, [Next]_vars, NEW c \in Clients, NEW t \in Tenants,
                      At(c, "configureDefault", "checked"), job'[c].stage = "done",
                      config[t] # Null, config'[t] # config[t]
               PROVE  FALSE
    OBVIOUS
  <2>1. Next
    BY DEF vars, tables
  <2>2. PICK o \in Clients : StoreConfiguration(o)
    <3>1. \A o \in Clients : AskTenant(o) \/ AskDevice(o) => UNCHANGED config
      BY DEF AskTenant, AskDevice, Begin, CheckTenantName, ReadTenant, CheckUser, GetOrCreate,
             CheckDeviceName, CheckAdopter, ReadDevice, tables
    <3>2. \A o \in Clients, u \in Users, ts \in SUBSET Tenants :
            CheckTenants(o, u, ts) => UNCHANGED config
      BY DEF CheckTenants, Begin, tables
    <3>3. \A o \in Clients : StoreTenant(o) \/ CheckNewName(o) \/ UpdateTenant(o) => UNCHANGED config
      BY DEF StoreTenant, CheckNewName, UpdateTenant, tables
    <3>4. \A o \in Clients : StoreDevice(o) \/ ReadAdopted(o) \/ UpdateDevice(o) => UNCHANGED config
      BY DEF StoreDevice, ReadAdopted, UpdateDevice, tables
    <3>5. \A o \in Clients : UpsertUser(o) \/ ReadConfiguration(o) \/ Fail(o) => UNCHANGED config
      BY DEF UpsertUser, ReadConfiguration, Fail, tables
    <3> QED
      BY <2>1, <3>1, <3>2, <3>3, <3>4, <3>5 DEF Next
  <2>3. o = c
    <3>1. JobsOK /\ Goes(o, "done")
      BY <2>2 DEF StoreConfiguration, IInv, JobInv
    <3>2. c # o => job'[c] = job[c]
      BY <3>1, IsDone
    <3> QED
      BY <3>2 DEF At
  <2>4. job[c].copy = Null /\ job[c].request.id \in Tenants
    BY DEF DefaultsKnowNone, At, IInv, JobInv, Typed, ConfigOps
  <2>5. CASE config[job[c].request.id] # Null
    BY <2>2, <2>3, <2>4, <2>5 DEF StoreConfiguration
  <2>6. CASE config[job[c].request.id] = Null
    BY <2>2, <2>3, <2>4, <2>6 DEF StoreConfiguration, IInv, TypeOK
  <2> QED
    BY <2>5, <2>6
<1>3. IInv /\ DefaultsKnowNone /\ [Next]_vars => [Yield]_vars
  BY <1>2
<1> QED
  BY <1>1, <1>3, DefaultsStep, Invariance, PTL DEF Spec, DefaultsYield
===============================================================================
