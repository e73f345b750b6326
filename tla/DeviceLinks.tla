---------------------------- MODULE DeviceLinks ----------------------------
(***************************************************************************)
(* Which foreign Home Assistant devices and entities the thermostats and   *)
(* sensors of an entry stand on, and how the registry listeners keep that  *)
(* true while the registries change (config_model, source_identity,        *)
(* tracking).                                                              *)
(*                                                                         *)
(* A HomeKit device holds climate and temperature entities, a device of    *)
(* the Ecobee cloud integration holds the built-in probe of a thermostat.  *)
(* The user may have selected entities for a resource; a selection names a *)
(* registry entry and resolves while the entry exists.  Occupancy and      *)
(* motion are selected like temperature and are left out: every room       *)
(* sensor has its occupancy entity.  Climates of the cloud integration,    *)
(* renamed entity ids, removed devices, entries without a device and       *)
(* disabled resources are left out too.                                    *)
(***************************************************************************)
EXTENDS Integers, FiniteSets

CONSTANTS
  Thermostats, Sensors,    \* Beestat resources
  Parent,                  \* the thermostat a sensor is built into, or None
  Label,                   \* a resource's name in the source rows
  HomeKit, Cloud,          \* devices
  Marked,                  \* HomeKit devices called an ecobee
  Climates, Temps, Probes, \* registry entries: two kinds on HomeKit, one on Cloud
  ProbeSerial,             \* the serial in a probe's unique id
  Names, Serials,          \* of devices; None: not made by ecobee
  InitialAt, InitialDev,   \* the registries at setup
  Selections,              \* what users select: functions from resources
  MaxChanges,              \* bound: registry changes
  None

Resources == Thermostats \cup Sensors
Entities  == Climates \cup Temps \cup Probes
Setup     == "setup"
Home(e)   == (IF e \in Probes THEN Cloud ELSE HomeKit) \cup {None}
Mapping   == [climate: Climates \cup {None}, temp: Temps \cup Probes \cup {None}]

ASSUME ResourcesAssumption ==
  /\ Thermostats \cap Sensors = {} /\ HomeKit \cap Cloud = {}
  /\ Parent \in [Sensors -> Thermostats \cup {None}] /\ Label \in [Resources -> Names]
  /\ Selections \subseteq [Resources -> Mapping]
ASSUME EntriesAssumption ==
  /\ Climates \cap Temps = {} /\ Probes \cap (Climates \cup Temps) = {}
  /\ Entities \cap (HomeKit \cup Cloud) = {}
  /\ {None, Setup} \cap (Entities \cup HomeKit \cup Cloud \cup Thermostats) = {} /\ None # Setup
  /\ IsFiniteSet(HomeKit) /\ IsFiniteSet(Cloud)
ASSUME RegistriesAssumption ==
  /\ DOMAIN InitialAt = Entities /\ \A e \in Entities : InitialAt[e] \in Home(e)
  /\ DOMAIN InitialDev = HomeKit \cup Cloud

VARIABLES
  at,         \* at[e]: the device of registry entry e, None while it does not exist
  dev,        \* dev[d]: name, ecobee serial and whether device d is enabled
  over,       \* over[r]: the user's selections
  data,       \* the published links: [of, device, climate, temp] of every resource
  entities,   \* watched_entity_ids
  devices,    \* watched_device_ids
  event,      \* Setup, or the entry or device whose change is being delivered
  changes

vars == <<at, dev, over, data, entities, devices, event, changes>>

----------------------------------------------------------------------------
(* Local devices and the proof of a probe.                                 *)

First(S)   == IF S = {} THEN None ELSE CHOOSE e \in S : TRUE
Climate(d) == First({e \in Climates : at[e] = d /\ d # None})
Temp(d)    == First({e \in Temps : at[e] = d /\ d # None})

\* _has_ecobee_signal
Strong == {d \in HomeKit : d \in Marked \/ dev[d].serial # None}

LocalThermostats ==
  {d \in HomeKit : dev[d].on /\ Climate(d) # None /\ (d \in Strong \/ Temp(d) # None)}
LocalRooms == {d \in HomeKit : dev[d].on /\ Climate(d) = None /\ Temp(d) # None}

Proven(p) == at[p] # None /\ dev[at[p]].serial = ProbeSerial[p]

\* The one HomeKit thermostat with the serial of a probe.
Owner(p) ==
  LET owners == {d \in HomeKit : Climate(d) # None /\ dev[d].serial = ProbeSerial[p]}
      clouds == {at[q] : q \in {q \in Probes : Proven(q) /\ ProbeSerial[q] = ProbeSerial[p]}}
  IN  IF Proven(p) /\ Cardinality(owners) = 1 /\ Cardinality(clouds) = 1
      THEN First(owners) ELSE None

----------------------------------------------------------------------------
(* Conflicting claims.                                                     *)

Nothing     == [climate |-> None, temp |-> None]
Resolved(m) == [f \in DOMAIN m |-> IF m[f] # None /\ at[m[f]] # None THEN m[f] ELSE None]
Native(m)   == {at[e] : e \in {m.climate, m.temp} \ {None}} \ {None}

\* A proven probe counts as its thermostat.
Physical(m) ==
  IF m.temp \in Probes /\ Owner(m.temp) # None
  THEN {IF d = at[m.temp] THEN Owner(m.temp) ELSE d : d \in Native(m)}
  ELSE Native(m)

Unproven(m) ==
  /\ m.temp \in Probes /\ at[m.temp] # None
  /\ m.climate # None /\ at[m.climate] # None
  /\ Owner(m.temp) = None \/ at[m.climate] # Owner(m.temp)

\* A claim [of, map, anchor]: what a resource effectively selects, and the
\* devices it inherits.
Conflicted(claims) ==
  LET Owned(c) == Physical(c.map) \cup c.anchor
      owned == UNION {{c.of} \X Owned(c) : c \in claims}
      all   == owned \cup UNION {{c.of} \X Native(c.map) : c \in claims}
  IN  {c.of : c \in {c \in claims : Unproven(c.map)}}
      \cup {x[1] : x \in {x \in owned : \E y \in owned : y[1] = x[1] /\ y[2] # x[2]}}
      \cup {x[1] : x \in {x \in all : \E y \in all : y[1] # x[1] /\ y[2] = x[2]}}

----------------------------------------------------------------------------
(* Matching.                                                               *)

\* Among devices called alike, those known as an ecobee go first.
Preferred(matches) ==
  LET strong == matches \cap Strong
  IN  IF Cardinality(strong) = 1 THEN strong
      ELSE IF strong = {} /\ Cardinality(matches) = 1 THEN matches ELSE {}

\* The devices whose entities the user selected for r.
Picked(r, locals) ==
  LET chosen == {Resolved(over[r]).climate, Resolved(over[r]).temp} \ {None}
  IN  {d \in locals : {Climate(d), Temp(d)} \cap chosen # {}}

\* The device r would take, and how strong the claim is; none as a set.
Candidate(r, locals) ==
  LET picked == Picked(r, locals)
      named  == Preferred({d \in locals : dev[d].name = Label[r]})
      strong == locals \cap Strong
      claim(d, rank) == {[of |-> r, device |-> First(d), rank |-> rank]}
  IN  IF Cardinality(picked) = 1 THEN claim(picked, 3)
      ELSE IF over[r] # Nothing THEN {}
      ELSE IF named # {} THEN claim(named, 2)
      ELSE IF r \in Thermostats /\ Cardinality(strong) = 1 THEN claim(strong, 1)
      ELSE {}

\* A device goes to its strongest claim; two equally strong ones both lose.
\* Mutant: the first of several explicit claims wins.
MatchShared(rs, locals) ==
  LET cands == UNION {Candidate(r, locals) : r \in rs}
  IN  {c \in cands : \A b \in cands : b.device = c.device => b.rank <= c.rank}

Match(rs, locals) ==
  LET cands == UNION {Candidate(r, locals) : r \in rs}
  IN  {c \in cands : \A b \in cands \ {c} : b.device = c.device => b.rank < c.rank}

\* A selection that does not resolve is not replaced.
Entity(r, f, fallback) == IF over[r][f] # None THEN Resolved(over[r])[f] ELSE fallback

Of(r, records) == CHOOSE c \in records : c.of = r
Won(r, matches) == First({c.device : c \in {c \in matches : c.of = r}})

ThermostatLink(t, bad, matches) ==
  [of      |-> t,
   device  |-> Won(t, matches),
   climate |-> Entity(t, "climate", Climate(Won(t, matches))),
   temp    |-> IF t \in bad THEN None ELSE Entity(t, "temp", Temp(Won(t, matches)))]

ThermostatLinks ==
  LET bad == Conflicted({[of |-> t, map |-> Resolved(over[t]), anchor |-> {}] : t \in Thermostats})
      matches == Match(Thermostats \ bad, LocalThermostats)
  IN  {ThermostatLink(t, bad, matches) : t \in Thermostats}

BuiltIn == {s \in Sensors : Parent[s] # None}

\* A built-in sensor stands on what its thermostat stands on.
Inherited(s, above) ==
  [of     |-> s,
   map    |-> [climate |-> above.climate, temp |-> Entity(s, "temp", above.temp)],
   anchor |-> Physical([climate |-> above.climate, temp |-> above.temp])]

SensorLink(s, device, own, bad) ==
  [of      |-> s,
   device  |-> IF s \in bad THEN None ELSE device,
   climate |-> None,
   temp    |-> IF s \in bad THEN None ELSE Entity(s, "temp", own)]

SensorLinks(thermostats) ==
  LET above(s) == Of(Parent[s], thermostats)
      claim(s) == IF s \in BuiltIn THEN Inherited(s, above(s))
                  ELSE [of |-> s, map |-> Resolved(over[s]), anchor |-> {}]
      bad      == Conflicted({claim(s) : s \in Sensors})
      matches  == Match(Sensors \ (bad \cup BuiltIn), LocalRooms)
      room(s)  == Won(s, matches)
  IN  {SensorLink(s, above(s).device, above(s).temp, bad) : s \in BuiltIn}
      \cup {SensorLink(s, room(s), Temp(room(s)), bad) : s \in Sensors \ BuiltIn}

Links == LET thermostats == ThermostatLinks IN thermostats \cup SensorLinks(thermostats)

----------------------------------------------------------------------------
(* The listeners.                                                          *)

Mapped(links) == UNION {{l.climate, l.temp} : l \in links} \ {None}
Selected == UNION {{over[r].climate, over[r].temp} : r \in Resources} \ {None}

\* is_thermostat_identity_source
\* Mutant: a probe is no evidence about another probe.
IdentityClimates == {e \in Climates : at[e] # None}
Identity == {e \in Climates \cup Probes : at[e] # None}

\* track_registered_devices, after es and ds have been watched.
Tracked(es, ds) ==
  LET all == es \cup Identity
  IN  [es |-> all, ds |-> ds \cup ({at[e] : e \in all} \ {None})]

\* Publish what the registries say, and what listens to that: watch it all.
Publish(heard) ==
  LET now == Links
      watched == Tracked(heard.es \cup Mapped(now) \cup Selected,
                         heard.ds \cup ({l.device : l \in now} \ {None}))
  IN  /\ data' = now
      /\ entities' = watched.es
      /\ devices' = watched.ds
      /\ event' = None
      /\ UNCHANGED <<at, dev, over, changes>>

Ignore(heard) ==
  /\ entities' = heard.es
  /\ devices' = heard.ds
  /\ event' = None
  /\ UNCHANGED <<at, dev, over, data, changes>>

Watching == [es |-> entities, ds |-> devices]

Init ==
  /\ at = InitialAt
  /\ dev = InitialDev
  /\ over \in Selections
  /\ data = {}
  /\ entities = {}
  /\ devices = {}
  /\ event = Setup
  /\ changes = 0

\* Setup publishes the first links, a refresh new ones.
Refresh ==
  /\ event \in {Setup, None}
  /\ data # Links
  /\ Publish(Watching)

\* The registries deliver the event of a change before anything else happens.
Change(what) ==
  /\ event = None
  /\ changes < MaxChanges
  /\ changes' = changes + 1
  /\ event' = what
  /\ UNCHANGED <<over, data, entities, devices>>

\* An entry is created, removed or attached to another device.
ChangeEntity(e) ==
  /\ Change(e)
  /\ \E d \in Home(e) \ {at[e]} : at' = [at EXCEPT ![e] = d]
  /\ UNCHANGED dev

\* A device is renamed, disabled or enabled, or publishes another serial.
ChangeDevice(d) ==
  /\ Change(d)
  /\ \/ \E name \in Names \ {dev[d].name} : dev' = [dev EXCEPT ![d].name = name]
     \/ \E serial \in Serials \ {dev[d].serial} : dev' = [dev EXCEPT ![d].serial = serial]
     \/ dev' = [dev EXCEPT ![d].on = ~@]
  /\ UNCHANGED at

\* A new identity source is watched before the event is judged.
HearEntity(e) ==
  /\ event = e
  /\ LET heard == IF e \in Identity THEN Tracked(entities, devices) ELSE Watching
     IN  IF e \in heard.es THEN Publish(heard) ELSE Ignore(heard)

HearDevice(d) ==
  /\ event = d
  /\ IF d \in devices THEN Publish(Watching) ELSE Ignore(Watching)

Next ==
  \/ Refresh
  \/ \E e \in Entities : ChangeEntity(e) \/ HearEntity(e)
  \/ \E d \in HomeKit \cup Cloud : ChangeDevice(d) \/ HearDevice(d)

Spec == Init /\ [][Next]_vars

----------------------------------------------------------------------------
(***************************************************************************)
(* "Ambiguous candidates or duplicate claims do not share a foreign        *)
(* device": no two thermostats, and no two sensors, are linked to one      *)
(* device or show one temperature entity.                                  *)
(***************************************************************************)
DevicesNotShared ==
  \A l, k \in data :
    l.of # k.of /\ (l.of \in Thermostats <=> k.of \in Thermostats)
      => /\ l.device = None \/ l.device # k.device
         /\ l.temp = None \/ l.temp # k.temp \/ l.of \in Sensors

(***************************************************************************)
(* "Identity drift invalidates the mixed claim": while a thermostat shows  *)
(* a cloud probe beside a HomeKit climate, the registries as they are now  *)
(* prove that the probe sits in that thermostat, not only as they were     *)
(* when the link was made: its device publishes the serial, no other cloud *)
(* device proves the same, and one HomeKit thermostat alone carries it.    *)
(***************************************************************************)
MixedClaimsProven ==
  \A l \in data :
    event = None /\ l.of \in Thermostats /\ l.temp \in Probes /\ l.climate # None
      => /\ Proven(l.temp)
         /\ \A q \in Probes :
              Proven(q) /\ ProbeSerial[q] = ProbeSerial[l.temp] => at[q] = at[l.temp]
         /\ {d \in HomeKit : Climate(d) # None /\ dev[d].serial = ProbeSerial[l.temp]}
              = {at[l.climate]}
=============================================================================
