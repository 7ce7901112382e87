---------------------------- MODULE TenantRegistry -----------------------------
(***************************************************************************)
(* The rows of tenants, their configurations, their users and devices, and *)
(* the requests that change them.  A service reads a row, looks whether    *)
(* the change is allowed, and the repository writes the row back as it was *)
(* read, with the change: no call of the database knows of another.        *)
(***************************************************************************)
EXTENDS Integers

CONSTANTS
  Tenants, Devices, Users,   \* IDs
  Names,                     \* of tenants, and of devices
  Labels,                    \* display names of devices
  Zones, DefaultZone,        \* time zones of configurations
  Clients,                   \* HTTP requests and calls of workers, one each
  Null,
  MaxFaults                  \* bound: database calls that fail

TenantRow == [name : Names, active : BOOLEAN, deleted : BOOLEAN, version : Nat \ {0}]
DeviceRow == [name : Names, label : Labels \cup {Null}, tenant : Tenants \cup {Null},
              heard : BOOLEAN]

(* Null is no row, and the IDs of tenants and of devices differ.           *)
ASSUME RegistryAssumption ==
  /\ MaxFaults \in Nat /\ DefaultZone \in Zones
  /\ Null \notin Tenants \cup Devices \cup Names \cup Labels \cup Zones
  /\ Null \notin TenantRow \cup DeviceRow
  /\ Tenants \cap Devices = {}

VARIABLES
  tenant,   \* rows, or Null where there is none
  device,
  config,   \* the time zone of a tenant's configuration
  user,     \* the tenants of a user
  job,      \* what each client has asked for, how far it is, what it has read
  faults,
  known,    \* history: what has been acknowledged of each row
  lapped,   \* history: rows written by one that did not see the last write
  raced     \* history: pairs of devices stored after both names were checked

tables == <<tenant, device, config, user>>
history == <<known, lapped, raced>>
vars == <<tables, job, faults, history>>

(* Mutant of NewTenant: it starts with the version that stands for none.   *)
NewTenantUnversioned(name) == [name |-> name, active |-> TRUE, deleted |-> FALSE, version |-> 0]

NewTenant(name) == [name |-> name, active |-> TRUE, deleted |-> FALSE, version |-> 1]
NewDevice(name) == [name |-> name, label |-> Null, tenant |-> Null, heard |-> FALSE]

Present(rows) == {i \in DOMAIN rows : rows[i] # Null}
Named(rows, name) == {i \in Present(rows) : rows[i].name = name}

Request(op, id, value) == [op |-> op, id |-> id, value |-> value, version |-> 0]
Idle == [stage |-> "idle", request |-> Request("none", Null, Null), copy |-> Null]

(* Some tenants and devices are there already.                             *)
Init ==
  /\ tenant \in [Tenants -> {NewTenant(n) : n \in Names} \cup {Null}]
  /\ device \in [Devices -> {NewDevice(n) : n \in Names} \cup {Null}]
  /\ \A n \in Names : \A t, u \in Named(tenant, n) : t = u
  /\ \A n \in Names : \A d, e \in Named(device, n) : d = e
  /\ config = [t \in Tenants |-> Null]
  /\ user \in [Users -> {{}, Present(tenant)}]
  /\ job = [c \in Clients |-> Idle]
  /\ faults = 0
  /\ known = [i \in Tenants \cup Devices |-> IF i \in Tenants THEN tenant[i] ELSE device[i]]
  /\ lapped = {} /\ raced = {}

-------------------------------------------------------------------------------
(* How a job goes on                                                       *)

(* A request that is refused here changes nothing, and is left out.        *)
Begin(c, request, stage, copy) ==
  /\ job[c] = Idle
  /\ job' = [job EXCEPT ![c] = [stage |-> stage, request |-> request, copy |-> copy]]
  /\ UNCHANGED <<tables, faults, history>>

(* IDs are generated, no two are the same.                                 *)
Fresh(rows, i) == rows[i] = Null /\ \A c \in Clients : job[c].request.id # i

At(c, op, stage) == job[c].request.op = op /\ job[c].stage = stage
Goes(c, stage) ==
  job' = [job EXCEPT ![c] = IF stage = "done" THEN [Idle EXCEPT !.stage = "done"]
                            ELSE [@ EXCEPT !.stage = stage]]

(* A call to the database fails and with it the request.                   *)
Fail(c) ==
  /\ job[c].stage \notin {"idle", "done"}
  /\ faults < MaxFaults /\ faults' = faults + 1
  /\ Goes(c, "done")
  /\ UNCHANGED <<tables, history>>

Acknowledge(i, row, copy, becomes) ==
  /\ known' = [known EXCEPT ![i] = becomes]
  /\ lapped' = IF row = copy THEN lapped ELSE lapped \cup {i}
  /\ UNCHANGED raced

-------------------------------------------------------------------------------
(* Tenants                                                                 *)

Deleted(t) == tenant[t] # Null /\ tenant[t].deleted

(* CreateTenant: the name is looked up, soft deleted tenants included ...  *)
CheckTenantName(c, t, n) ==
  /\ Fresh(tenant, t) /\ Named(tenant, n) = {}
  /\ Begin(c, Request("createTenant", t, n), "checked", Null)

(* ... and there is a unique index.                                        *)
StoreTenant(c) ==
  LET r == job[c].request
  IN /\ At(c, "createTenant", "checked") /\ Goes(c, "done")
     /\ IF Named(tenant, r.value) = {}
        THEN /\ tenant' = [tenant EXCEPT ![r.id] = NewTenant(r.value)]
             /\ Acknowledge(r.id, Null, Null, NewTenant(r.value))
        ELSE UNCHANGED <<tenant, history>>
     /\ UNCHANGED <<device, config, user, faults>>

(* Mutant of Editable: whoever asks for no version is not looked at.       *)
EditableOrUnversioned(t, version) == version = 0 \/ (tenant[t].version = version /\ ~tenant[t].deleted)

(* The checks of UpdateTenant; the others send no version.                 *)
Editable(t, version) == ~tenant[t].deleted /\ version \in {0, tenant[t].version}

ReadTenant(c, t, op, n, version) ==
  /\ tenant[t] # Null /\ Editable(t, version)
  /\ Begin(c, [Request(op, t, n) EXCEPT !.version = version],
           IF op = "updateTenant" /\ n # tenant[t].name THEN "read" ELSE "checked", tenant[t])

(* UpdateTenant looks up a name that is new.                               *)
CheckNewName(c) ==
  LET r == job[c].request
  IN /\ At(c, "updateTenant", "read")
     /\ Goes(c, IF Named(tenant, r.value) \subseteq {r.id} THEN "checked" ELSE "done")
     /\ UNCHANGED <<tables, faults, history>>

(* Mutant of Changed: an update writes a tenant as the request has it.     *)
ChangedFromRequest(row, op, n) ==
  [row EXCEPT !.name = IF op = "updateTenant" THEN n ELSE @,
              !.active = op \in {"updateTenant", "activateTenant"},
              !.deleted = @ \/ op = "deleteTenant"]

(* UpdateInfo, SoftDelete, Activate, Deactivate; e-mail and description go *)
(* the way of the name.                                                    *)
Changed(row, op, n) ==
  [row EXCEPT !.name = IF op = "updateTenant" THEN n ELSE @,
              !.active = op = "activateTenant" \/ (@ /\ op = "updateTenant"),
              !.deleted = @ \/ op = "deleteTenant"]

(* What the client has been told: the field it asked to change.            *)
Told(row, op, n) ==
  IF op = "updateTenant" THEN [row EXCEPT !.name = n]
  ELSE IF op = "deleteTenant" THEN [row EXCEPT !.deleted = TRUE, !.active = FALSE]
  ELSE [row EXCEPT !.active = (op = "activateTenant")]

(* The repository's Update: the next version, whichever is stored; a name  *)
(* that somebody has taken in the meantime is an error.                    *)
UpdateTenant(c) ==
  LET r == job[c].request
      row == [Changed(job[c].copy, r.op, r.value) EXCEPT !.version = @ + 1]
  IN /\ r.op \in {"updateTenant", "deleteTenant", "activateTenant", "deactivateTenant"}
     /\ job[c].stage = "checked" /\ Goes(c, "done")
     /\ IF Named(tenant, row.name) \subseteq {r.id}
        THEN /\ tenant' = [tenant EXCEPT ![r.id] = row]
             /\ Acknowledge(r.id, tenant[r.id], job[c].copy,
                            [Told(known[r.id], r.op, r.value) EXCEPT !.version = @ + 1])
        ELSE UNCHANGED <<tenant, history>>
     /\ UNCHANGED <<device, config, user, faults>>

-------------------------------------------------------------------------------
(* Devices                                                                 *)

(* Mutant of CheckDeviceName: the name is not looked up.                   *)
CheckNothing(c, d, n) ==
  /\ Fresh(device, d)
  /\ Begin(c, Request("createDevice", d, n), "checked", Null)

(* The repository's CreateDevice looks the name up ...                     *)
CheckDeviceName(c, d, n) ==
  /\ Fresh(device, d) /\ Named(device, n) = {}
  /\ Begin(c, Request("createDevice", d, n), "checked", Null)

(* ... and there is no index.                                              *)
StoreDevice(c) ==
  LET r == job[c].request
      others == {o \in Clients \ {c} : At(o, "createDevice", "checked")
                                       /\ job[o].request.value = r.value}
  IN /\ At(c, "createDevice", "checked") /\ Goes(c, "done")
     /\ device' = [device EXCEPT ![r.id] = NewDevice(r.value)]
     /\ known' = [known EXCEPT ![r.id] = NewDevice(r.value)]
     /\ raced' = raced \cup {{r.id, job[o].request.id} : o \in others}
     /\ UNCHANGED <<tenant, config, user, faults, lapped>>

(* AdoptDevice looks at the tenant, then AdoptDeviceToTenant reads the     *)
(* device.                                                                 *)
CheckAdopter(c, t, d) ==
  /\ tenant[t] # Null /\ ~tenant[t].deleted
  /\ Begin(c, Request("adopt", d, t), "adopter", Null)

ReadAdopted(c) ==
  LET d == job[c].request.id
  IN /\ At(c, "adopt", "adopter")
     /\ IF device[d] = Null THEN Goes(c, "done")
        ELSE job' = [job EXCEPT ![c].stage = "checked", ![c].copy = device[d]]
     /\ UNCHANGED <<tables, faults, history>>

(* UpdateDeviceDisplayName, by ID; UpdateLastMessageReceivedAt, for every  *)
(* uplink, by name, which finds one of those that have it.                 *)
ReadDevice(c, d, op, label) ==
  /\ device[d] # Null
  /\ Begin(c, Request(op, d, label), "checked", device[d])

Becomes(row, r) ==
  IF r.op = "adopt" THEN [row EXCEPT !.tenant = r.value]
  ELSE IF r.op = "rename" THEN [row EXCEPT !.label = r.value]
  ELSE [row EXCEPT !.heard = TRUE]

(* The repository's UpdateDevice.  It looks for the name of the device,    *)
(* which is there, as devices are never deleted.                           *)
UpdateDevice(c) ==
  LET r == job[c].request
  IN /\ r.op \in {"adopt", "rename", "hear"}
     /\ job[c].stage = "checked" /\ Goes(c, "done")
     /\ device' = [device EXCEPT ![r.id] = Becomes(job[c].copy, r)]
     /\ Acknowledge(r.id, device[r.id], job[c].copy, Becomes(known[r.id], r))
     /\ UNCHANGED <<tenant, config, user, faults>>

-------------------------------------------------------------------------------
(* Users and configurations                                                *)

(* AssociateTenants: tenants that are there, deleted ones too.             *)
CheckTenants(c, u, ts) ==
  /\ ts \subseteq Present(tenant)
  /\ Begin(c, Request("associate", u, ts), "checked", Null)

UpsertUser(c) ==
  LET r == job[c].request
  IN /\ At(c, "associate", "checked") /\ Goes(c, "done")
     /\ user' = [user EXCEPT ![r.id] = r.value]
     /\ UNCHANGED <<tenant, device, config, faults, history>>

(* UpsertTenantConfiguration: the user must have the tenant, then the      *)
(* configuration is read.  GetOrCreateTenantConfiguration, of the workers, *)
(* stops if it is there.                                                   *)
CheckUser(c, u, t, z) ==
  /\ t \in user[u]
  /\ Begin(c, Request("configure", t, z), "allowed", Null)

ReadConfiguration(c) ==
  /\ At(c, "configure", "allowed")
  /\ job' = [job EXCEPT ![c].stage = "checked", ![c].copy = config[job[c].request.id]]
  /\ UNCHANGED <<tables, faults, history>>

GetOrCreate(c, t) ==
  /\ tenant[t] # Null /\ config[t] = Null
  /\ Begin(c, Request("configureDefault", t, DefaultZone), "checked", Null)

Configures(c) == At(c, "configure", "checked") \/ At(c, "configureDefault", "checked")

(* Mutant of StoreConfiguration: what is there is replaced.                *)
ReplaceConfiguration(c) ==
  LET r == job[c].request
  IN /\ Configures(c) /\ Goes(c, "done")
     /\ config' = [config EXCEPT ![r.id] = r.value]
     /\ UNCHANGED <<tenant, device, user, faults, history>>

(* Create, which the unique index refuses when another was first, or       *)
(* Update.                                                                 *)
StoreConfiguration(c) ==
  LET r == job[c].request
  IN /\ Configures(c) /\ Goes(c, "done")
     /\ config' = IF job[c].copy = Null /\ config[r.id] # Null THEN config
                  ELSE [config EXCEPT ![r.id] = r.value]
     /\ UNCHANGED <<tenant, device, user, faults, history>>

-------------------------------------------------------------------------------
AskTenant(c) ==
  \E t \in Tenants :
    \/ \E n \in Names : \/ CheckTenantName(c, t, n)
                        \/ \E v \in 0..2 : ReadTenant(c, t, "updateTenant", n, v)
    \/ \E op \in {"deleteTenant", "activateTenant", "deactivateTenant"} :
         ReadTenant(c, t, op, Null, 0)
    \/ \E u \in Users, z \in Zones : CheckUser(c, u, t, z)
    \/ GetOrCreate(c, t)

AskDevice(c) ==
  \E d \in Devices : \/ \E n \in Names : CheckDeviceName(c, d, n)
                     \/ \E t \in Tenants : CheckAdopter(c, t, d)
                     \/ \E l \in Labels : ReadDevice(c, d, "rename", l)
                     \/ ReadDevice(c, d, "hear", Null)

Next ==
  \E c \in Clients :
    \/ AskTenant(c) \/ AskDevice(c)
    \/ \E u \in Users, ts \in SUBSET Tenants : CheckTenants(c, u, ts)
    \/ StoreTenant(c) \/ CheckNewName(c) \/ UpdateTenant(c)
    \/ StoreDevice(c) \/ ReadAdopted(c) \/ UpdateDevice(c)
    \/ UpsertUser(c) \/ ReadConfiguration(c) \/ StoreConfiguration(c)
    \/ Fail(c)

Spec == Init /\ [][Next]_vars
-------------------------------------------------------------------------------
TypeOK ==
  /\ tenant \in [Tenants -> TenantRow \cup {Null}]
  /\ device \in [Devices -> DeviceRow \cup {Null}]
  /\ config \in [Tenants -> Zones \cup {Null}] /\ user \in [Users -> SUBSET Tenants]
  /\ \A c \in Clients : job[c].stage \in {"idle", "adopter", "allowed", "read", "checked", "done"}
  /\ faults \in 0..MaxFaults /\ lapped \subseteq Tenants \cup Devices

(* A deleted tenant is never changed again, by whatever requests about it, *)
(* except by one that read it before another wrote it.                     *)
DeletedIsFinal ==
  [][\A t \in Tenants : Deleted(t) /\ tenant'[t] # tenant[t] => t \in lapped']_vars

(* What a client has been told of a tenant or a device (its name, whether  *)
(* it is active or deleted, its tenant, that it has been heard of) stays   *)
(* true until another client is told otherwise: a row writes back only     *)
(* what nobody has changed since it was read, or it is known to be lapped. *)
LostOnlyByOverlap ==
  \A i \in (Tenants \cup Devices) \ lapped :
    known[i] = IF i \in Tenants THEN tenant[i] ELSE device[i]

(* Two devices have the same name only if both were created at the same    *)
(* time.                                                                   *)
TwinsOnlyByRace ==
  \A d, e \in Present(device) : d # e /\ device[d].name = device[e].name => {d, e} \in raced

(* A worker that creates a default configuration never replaces a time     *)
(* zone, although a user may have stored one since the worker looked.      *)
DefaultsYield ==
  [][\A c \in Clients, t \in Tenants :
       At(c, "configureDefault", "checked") /\ job'[c].stage = "done" /\ config[t] # Null
         => config'[t] = config[t]]_vars
===============================================================================
