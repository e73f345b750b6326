---------------------------- MODULE PartsProofs ----------------------------
(***************************************************************************)
(* Four parts, for any values of their constants.                          *)
(*                                                                         *)
(* Links: no two published links share a device, and a mixed claim is      *)
(* proven by the registries as they are, because whatever could end the    *)
(* proof is watched.                                                       *)
(*                                                                         *)
(* Reads: the windows to read and the moments told of tile the window of   *)
(* every resource, and the streak of failures is bounded by the piece of   *)
(* a full window that is read.                                             *)
(*                                                                         *)
(* Pages: a page that is joined is cut from the answer of the view it      *)
(* continues; a proof that is not pending is the amount of its hour, and   *)
(* the buckets of an answer tile the request.                              *)
(*                                                                         *)
(* Filter: the slots an observation counts are disjoint and lie after the  *)
(* change, and what they do not cover it counts as unknown.                *)
(***************************************************************************)
EXTENDS Parts, WellFoundedInduction, FiniteSetTheorems, SequenceTheorems, TLAPS

(***************************************************************************)
(* Registry entries and devices                                            *)
(***************************************************************************)
Carriers == Climates \cup Probes    \* the entries whose devices prove a serial
Devices == HomeKit \cup Cloud

TypeOK ==
  /\ DOMAIN at = Entities /\ \A e \in Entities : at[e] \in Home(e)
  /\ DOMAIN dev = Devices
  /\ over \in [Resources -> Mapping]
  /\ event \in {None, Setup} \cup Entities \cup Devices

\* The choice of an element is one.
LEMMA FirstOf ==
  ASSUME NEW S, None \notin S
  PROVE  /\ First(S) = None <=> S = {}
         /\ First(S) # None => First(S) \in S
  BY DEF First

\* A device has a climate when an entry says so.
LEMMA ClimateOf ==
  ASSUME NEW d \in HomeKit
  PROVE  /\ Climate(d) # None <=> \E e \in Climates : at[e] = d
         /\ Climate(d) # None => Climate(d) \in Climates /\ at[Climate(d)] = d
  <1> DEFINE S == {e \in Climates : at[e] = d /\ d # None}
  <1>1. None \notin S /\ d # None
    BY EntriesAssumption DEF Entities
  <1>2. Climate(d) = First(S)
    BY DEF Climate
  <1> QED BY <1>1, <1>2, FirstOf

LEMMA TempOf ==
  ASSUME NEW d \in HomeKit
  PROVE  Temp(d) # None => Temp(d) \in Temps /\ at[Temp(d)] = d
  <1> DEFINE S == {e \in Temps : at[e] = d /\ d # None}
  <1>1. None \notin S
    BY EntriesAssumption DEF Entities
  <1>2. Temp(d) = First(S)
    BY DEF Temp
  <1> QED BY <1>1, <1>2, FirstOf

\* No device has none.
LEMMA NoDevice == Climate(None) = None /\ Temp(None) = None
  BY DEF Climate, Temp, First

\* A set of one has that one.
LEMMA OnlyOne ==
  ASSUME NEW S, IsFiniteSet(S), Cardinality(S) = 1
  PROVE  First(S) \in S /\ S = {First(S)}
  <1>1. PICK x : S = {x}
    BY FS_Singleton
  <1> QED BY <1>1 DEF First

(***************************************************************************)
(* Mixed claims                                                            *)
(***************************************************************************)
\* The registries prove that probe p sits in the thermostat of climate c.
Mixed(c, p) ==
  /\ Proven(p)
  /\ \A q \in Probes : Proven(q) /\ ProbeSerial[q] = ProbeSerial[p] => at[q] = at[p]
  /\ {d \in HomeKit : Climate(d) # None /\ dev[d].serial = ProbeSerial[p]} = {at[c]}

Sound ==
  \A l \in data :
    l.of \in Thermostats /\ l.temp \in Probes /\ l.climate # None
      => l.climate \in Climates /\ Mixed(l.climate, l.temp)

\* A probe has an owner when its device alone, and one HomeKit thermostat
\* alone, publish its serial.
LEMMA OwnerProven ==
  ASSUME TypeOK, NEW p \in Probes, Owner(p) # None, NEW c \in Climates, at[c] = Owner(p)
  PROVE  Mixed(c, p)
  <1> DEFINE owners == {d \in HomeKit : Climate(d) # None /\ dev[d].serial = ProbeSerial[p]}
             same == {q \in Probes : Proven(q) /\ ProbeSerial[q] = ProbeSerial[p]}
             clouds == {at[q] : q \in same}
  <1>1. /\ Proven(p) /\ Cardinality(owners) = 1 /\ Cardinality(clouds) = 1
        /\ Owner(p) = First(owners)
    BY DEF Owner
  <1>2. IsFiniteSet(owners)
    BY EntriesAssumption, FS_Subset
  <1>3. IsFiniteSet(clouds)
    <2>1. clouds \subseteq Cloud
      BY DEF TypeOK, Home, Proven, Entities
    <2> HIDE DEF clouds
    <2> QED BY <2>1, EntriesAssumption, FS_Subset
  <1>4. p \in same /\ at[p] \in clouds
    BY <1>1
  <1> HIDE DEF owners, clouds, same
  <1>5. owners = {at[c]}
    BY <1>1, <1>2, OnlyOne
  <1>6. clouds = {at[p]}
    BY <1>1, <1>3, <1>4, OnlyOne
  <1>7. \A q \in same : at[q] = at[p]
    BY <1>6 DEF clouds
  <1> QED BY <1>1, <1>5, <1>7 DEF Mixed, owners, same

\* What a thermostat selects is what its link shows, and no more when it
\* selected a probe.
LEMMA ThermostatSays ==
  ASSUME TypeOK, NEW t \in Thermostats, NEW bad, NEW matches,
         NEW l, l = ThermostatLink(t, bad, matches), l.temp # None
  PROVE  /\ l.of = t /\ t \notin bad
         /\ over[t].temp # None => l.temp = over[t].temp /\ at[l.temp] # None
         /\ over[t].temp = None => l.temp = Temp(Won(t, matches))
  BY DEF ThermostatLink, Entity, Resolved, TypeOK, Mapping, Resources

(***************************************************************************)
(* Matching                                                                *)
(***************************************************************************)
\* A candidate is a local device, claimed for a selection or for its name.
IsCandidate(c, r, locals) ==
  /\ c \in Candidate(r, locals) /\ Candidate(r, locals) = {c}
  /\ c.of = r /\ c.device \in locals /\ c.rank \in {1, 2, 3}
  /\ c.rank = 3 => Picked(r, locals) = {c.device}
  /\ c.rank # 3 => over[r] = Nothing

LEMMA CandidateSays ==
  ASSUME NEW r, NEW locals \in SUBSET HomeKit, NEW c \in Candidate(r, locals)
  PROVE  IsCandidate(c, r, locals)
  <1> DEFINE picked == Picked(r, locals)
             alike  == {d \in locals : dev[d].name = Label[r]}
             named  == Preferred(alike)
             strong == locals \cap Strong
             claim(d, rank) == {[of |-> r, device |-> First(d), rank |-> rank]}
  <1>1. Candidate(r, locals) =
          IF Cardinality(picked) = 1 THEN claim(picked, 3)
          ELSE IF over[r] # Nothing THEN {}
          ELSE IF named # {} THEN claim(named, 2)
          ELSE IF r \in Thermostats /\ Cardinality(strong) = 1 THEN claim(strong, 1)
          ELSE {}
    BY DEF Candidate
  <1>2. /\ IsFiniteSet(locals) /\ picked \subseteq locals /\ strong \subseteq locals
        /\ named \subseteq locals /\ None \notin locals
    BY EntriesAssumption, FS_Subset DEF Picked, Preferred
  <1>3. IsFiniteSet(picked) /\ IsFiniteSet(strong)
    BY <1>2, FS_Subset
  <1>4. Cardinality(picked) = 1 => First(picked) \in locals /\ picked = {First(picked)}
    BY <1>2, <1>3, OnlyOne
  <1>5. Cardinality(strong) = 1 => First(strong) \in locals
    BY <1>2, <1>3, OnlyOne
  <1>6. named # {} => First(named) \in locals
    BY <1>2, FirstOf
  <1> HIDE DEF named, strong
  <1> QED BY <1>1, <1>4, <1>5, <1>6 DEF IsCandidate

\* A device goes to one claim.
LEMMA MatchSays ==
  ASSUME NEW rs, NEW locals \in SUBSET HomeKit,
         NEW b \in Match(rs, locals), NEW c \in Match(rs, locals), b.device = c.device
  PROVE  b = c
  <1>1. \A x \in Match(rs, locals) : \E r \in rs : x \in Candidate(r, locals)
    BY DEF Match
  <1>2. b.rank \in Int /\ c.rank \in Int
    BY <1>1, CandidateSays DEF IsCandidate
  <1>3. b # c => b.rank < c.rank /\ c.rank < b.rank
    BY DEF Match
  <1> QED BY <1>2, <1>3

LEMMA WonSays ==
  ASSUME NEW r, NEW rs, NEW locals \in SUBSET HomeKit,
         NEW d, d = Won(r, Match(rs, locals)), d # None
  PROVE  /\ r \in rs /\ d \in locals
         /\ \E c \in Match(rs, locals) : IsCandidate(c, r, locals) /\ c.device = d
  <1> DEFINE matches == Match(rs, locals)
             mine    == {c \in matches : c.of = r}
             S       == {c.device : c \in mine}
  <1>1. ASSUME NEW c \in mine
        PROVE  r \in rs /\ IsCandidate(c, r, locals) /\ c.device \in locals
    <2>1. PICK q \in rs : c \in Candidate(q, locals)
      BY DEF Match
    <2>2. IsCandidate(c, q, locals)
      BY <2>1, CandidateSays
    <2>3. q = r
      BY <1>1, <2>2 DEF IsCandidate
    <2> QED BY <2>1, <2>2, <2>3 DEF IsCandidate
  <1> HIDE DEF matches, mine
  <1>2. None \notin S
    BY <1>1, EntriesAssumption
  <1>3. d = First(S)
    BY DEF Won, mine, matches
  <1>4. d \in S
    BY <1>2, <1>3, FirstOf
  <1>5. PICK c \in mine : c.device = d
    BY <1>4
  <1> QED BY <1>1, <1>5 DEF mine, matches

\* Two thermostats, or two room sensors, never win one device.
LEMMA WonOnce ==
  ASSUME NEW r, NEW q, r # q, NEW rs, NEW locals \in SUBSET HomeKit,
         NEW d, d = Won(r, Match(rs, locals)), d # None
  PROVE  d # Won(q, Match(rs, locals))
  <1>1. ASSUME d = Won(q, Match(rs, locals)) PROVE FALSE
    <2>1. PICK b \in Match(rs, locals) : IsCandidate(b, r, locals) /\ b.device = d
      BY WonSays
    <2>2. PICK c \in Match(rs, locals) : IsCandidate(c, q, locals) /\ c.device = d
      BY <1>1, WonSays
    <2>3. b = c
      BY <2>1, <2>2, MatchSays
    <2> QED BY <2>1, <2>2, <2>3 DEF IsCandidate
  <1> QED BY <1>1

(***************************************************************************)
(* Conflicts                                                               *)
(***************************************************************************)
Owns(c) == Physical(c.map) \cup c.anchor

\* A claim without conflict proves its probe, is one device's, and shares none.
LEMMA Unconflicted ==
  ASSUME NEW claims, NEW c \in claims, c.of \notin Conflicted(claims)
  PROVE  /\ ~Unproven(c.map)
         /\ \A x, y \in Owns(c) : x = y
         /\ \A b \in claims : b.of # c.of =>
              (Owns(b) \cup Native(b.map)) \cap (Owns(c) \cup Native(c.map)) = {}
  <1> DEFINE owned == UNION {{b.of} \X Owns(b) : b \in claims}
             all   == owned \cup UNION {{b.of} \X Native(b.map) : b \in claims}
             split == {x \in owned : \E y \in owned : y[1] = x[1] /\ y[2] # x[2]}
             shared == {x \in all : \E y \in all : y[1] # x[1] /\ y[2] = x[2]}
             unproven == {b \in claims : Unproven(b.map)}
  <1>1. Conflicted(claims) =
          {b.of : b \in unproven} \cup {x[1] : x \in split} \cup {x[1] : x \in shared}
    BY DEF Conflicted, Owns
  <1>2. \A b \in claims : \A x \in Owns(b) : <<b.of, x>> \in owned /\ <<b.of, x>> \in all
    OBVIOUS
  <1>3. \A b \in claims : \A x \in Native(b.map) : <<b.of, x>> \in all
    OBVIOUS
  <1> HIDE DEF owned, all
  <1>4. ~Unproven(c.map)
    BY <1>1
  <1>5. ASSUME NEW x \in Owns(c), NEW y \in Owns(c), x # y PROVE FALSE
    <2>1. <<c.of, x>> \in split
      BY <1>2, <1>5
    <2>2. <<c.of, x>>[1] \in {z[1] : z \in split}
      <3> HIDE DEF split
      <3> QED BY <2>1
    <2> QED BY <1>1, <2>2
  <1>6. ASSUME NEW b \in claims, b.of # c.of,
               NEW x \in (Owns(b) \cup Native(b.map)) \cap (Owns(c) \cup Native(c.map))
        PROVE  FALSE
    <2>1. <<b.of, x>> \in all /\ <<c.of, x>> \in all
      BY <1>2, <1>3, <1>6
    <2>2. <<c.of, x>> \in shared
      BY <1>6, <2>1
    <2>3. <<c.of, x>>[1] \in {z[1] : z \in shared}
      <3> HIDE DEF shared
      <3> QED BY <2>2
    <2> QED BY <1>1, <2>3
  <1> QED BY <1>4, <1>5, <1>6

(***************************************************************************)
(* Thermostats                                                             *)
(***************************************************************************)
Bad     == Conflicted({[of |-> t, map |-> Resolved(over[t]), anchor |-> {}] : t \in Thermostats})
Matches == Match(Thermostats \ Bad, LocalThermostats)
LinkOf(t) == ThermostatLink(t, Bad, Matches)

LEMMA LocalsAreHomeKit == LocalThermostats \in SUBSET HomeKit /\ LocalRooms \in SUBSET HomeKit
  BY DEF LocalThermostats, LocalRooms

\* A device that a resource won, if any, is local.
LEMMA DeviceWon ==
  ASSUME NEW t, NEW d, d = Won(t, Matches), d # None
  PROVE  /\ t \in Thermostats \ Bad /\ d \in LocalThermostats /\ d \in HomeKit
         /\ Climate(d) # None
         /\ \E c \in Matches : IsCandidate(c, t, LocalThermostats) /\ c.device = d
  <1>1. /\ t \in Thermostats \ Bad /\ d \in LocalThermostats
        /\ \E c \in Matches : IsCandidate(c, t, LocalThermostats) /\ c.device = d
    <2> DEFINE rs == Thermostats \ Bad
               locals == LocalThermostats
    <2>1. Matches = Match(rs, locals) /\ locals \in SUBSET HomeKit
      BY LocalsAreHomeKit DEF Matches
    <2> HIDE DEF rs, locals
    <2>2. /\ t \in rs /\ d \in locals
          /\ \E c \in Match(rs, locals) : IsCandidate(c, t, locals) /\ c.device = d
      BY <2>1, WonSays
    <2> QED BY <2>1, <2>2 DEF rs, locals
  <1> QED BY <1>1 DEF LocalThermostats

\* The temperature entity of a device that was won, if any, is the device's.
LEMMA TempWon ==
  ASSUME NEW t, NEW d, d = Won(t, Matches), NEW e, e = Temp(d), e # None
  PROVE  d # None /\ d \in HomeKit /\ e \in Temps /\ at[e] = d
  <1>1. d # None
    BY NoDevice
  <1> QED BY <1>1, DeviceWon, TempOf

\* What a picked device was picked for.
LEMMA PickedFor ==
  ASSUME NEW r, NEW locals \in SUBSET HomeKit, NEW d \in Picked(r, locals)
  PROVE  /\ d \in locals
         /\ \E e \in {Resolved(over[r]).climate, Resolved(over[r]).temp} \ {None} :
              e \in Climates \cup Temps /\ at[e] = d
  <1> DEFINE chosen == {Resolved(over[r]).climate, Resolved(over[r]).temp} \ {None}
  <1>1. d \in locals /\ d \in HomeKit /\ {Climate(d), Temp(d)} \cap chosen # {}
    BY DEF Picked
  <1>2. PICK e \in chosen : e = Climate(d) \/ e = Temp(d)
    BY <1>1
  <1>3. e \in Climates \cup Temps /\ at[e] = d
    BY <1>1, <1>2, ClimateOf, TempOf
  <1> QED BY <1>1, <1>3

\* What a thermostat's claim says when it is not in conflict.
LEMMA ClaimStands ==
  ASSUME NEW t \in Thermostats \ Bad, NEW m, m = Resolved(over[t])
  PROVE  /\ ~Unproven(m) /\ \A x, y \in Physical(m) : x = y
         /\ \A u \in Thermostats \ {t} : Native(m) \cap Native(Resolved(over[u])) = {}
  <1> DEFINE claim(u) == [of |-> u, map |-> Resolved(over[u]), anchor |-> {}]
             claims == {claim(u) : u \in Thermostats}
  <1>1. claim(t) \in claims /\ claim(t).of = t /\ t \notin Conflicted(claims)
    BY DEF Bad
  <1>2. \A u \in Thermostats : claim(u) \in claims /\ claim(u).of = u
    OBVIOUS
  <1>3. \A u \in Thermostats : claim(u).map = Resolved(over[u]) /\ claim(u).anchor = {}
    OBVIOUS
  <1> HIDE DEF claims, claim
  <1>4. /\ ~Unproven(claim(t).map)
        /\ \A x, y \in Owns(claim(t)) : x = y
        /\ \A b \in claims : b.of # claim(t).of =>
             (Owns(b) \cup Native(b.map)) \cap (Owns(claim(t)) \cup Native(claim(t).map)) = {}
    BY <1>1, Unconflicted
  <1>5. ASSUME NEW u \in Thermostats \ {t} PROVE Native(m) \cap Native(Resolved(over[u])) = {}
    <2>1. claim(u) \in claims /\ claim(u).of # claim(t).of
      BY <1>1, <1>2
    <2> QED BY <1>3, <1>4, <2>1
  <1> QED BY <1>3, <1>4, <1>5 DEF Owns

LEMMA ThermostatMixed ==
  ASSUME TypeOK, NEW t \in Thermostats, NEW l, l = LinkOf(t), l.temp \in Probes, l.climate # None
  PROVE  l.climate \in Climates /\ Mixed(l.climate, l.temp)
  <1> DEFINE m == Resolved(over[t])
             d == Won(t, Matches)
             p == l.temp
  <1>1. p # None /\ p \notin Climates \cup Temps
    BY EntriesAssumption DEF Entities
  <1>2. over[t] \in Mapping
    BY DEF TypeOK, Resources
  <1>3. /\ t \notin Bad
        /\ over[t].temp # None => p = over[t].temp /\ at[p] # None
        /\ over[t].temp = None => p = Temp(d)
    BY <1>1, ThermostatSays DEF LinkOf
  <1>4. over[t].temp # None
    BY <1>1, <1>3, TempWon
  <1>5. m.temp = p /\ (m.climate # None => m.climate = over[t].climate /\ at[m.climate] # None)
    BY <1>2, <1>3, <1>4 DEF Resolved, Mapping
  <1>6. l.climate = IF over[t].climate # None THEN m.climate ELSE Climate(d)
    BY DEF LinkOf, ThermostatLink, Entity
  <1> HIDE DEF p
  <1>7. over[t].climate # None
    <2>1. ASSUME over[t].climate = None PROVE FALSE
      <3>1. m.climate = None
        BY <1>2, <2>1 DEF Resolved, Mapping
      <3>2. d # None
        BY <1>6, <2>1, NoDevice
      <3>3. PICK c \in Matches : IsCandidate(c, t, LocalThermostats) /\ c.device = d
        BY <3>2, DeviceWon
      <3>4. over[t] # Nothing
        BY <1>4 DEF Nothing
      <3>5. d \in Picked(t, LocalThermostats)
        BY <3>3, <3>4 DEF IsCandidate
      <3> HIDE DEF d
      <3>6. PICK e \in {m.climate, m.temp} \ {None} : e \in Climates \cup Temps
        BY <3>5, PickedFor, LocalsAreHomeKit
      <3> QED BY <1>1, <1>5, <3>1, <3>6
    <2> QED BY <2>1
  <1>8. l.climate = m.climate /\ m.climate \in Climates /\ at[m.climate] # None
    BY <1>2, <1>5, <1>6, <1>7 DEF Mapping
  <1>9. ~Unproven(m)
    BY <1>3, ClaimStands
  <1> HIDE DEF m
  <1>10. p \in Probes /\ at[p] # None
    BY <1>3, <1>4 DEF p
  <1>11. Owner(p) # None /\ at[m.climate] = Owner(p)
    BY <1>5, <1>8, <1>9, <1>10 DEF Unproven
  <1>12. Mixed(m.climate, p)
    BY <1>8, <1>10, <1>11, OwnerProven
  <1> QED BY <1>8, <1>12 DEF p

\* A temperature entity that one thermostat selected is not another's.
LEMMA SelectedAlone ==
  ASSUME TypeOK, NEW t \in Thermostats \ Bad, NEW u \in Thermostats \ {t},
         NEW e, e # None, e = over[t].temp, at[e] # None,
         NEW d, d = Won(u, Matches), e = Temp(d)
  PROVE  FALSE
  <1> DEFINE m == Resolved(over[t])
             locals == LocalThermostats
  <1>1. over[t] \in Mapping
    BY DEF TypeOK, Resources
  <1>2. d # None /\ d \in HomeKit /\ e \in Temps /\ at[e] = d
    BY TempWon
  <1>3. PICK c \in Matches : IsCandidate(c, u, locals) /\ c.device = d
    BY <1>2, DeviceWon
  <1>4. m.temp = e
    BY <1>1 DEF Resolved, Mapping
  <1>5. e \notin Probes
    BY <1>2, EntriesAssumption
  <1>6. Physical(m) = Native(m) /\ d \in Native(m)
    BY <1>2, <1>4, <1>5 DEF Physical, Native
  <1>7. d \in Picked(t, locals)
    BY <1>2, <1>3, <1>4 DEF Picked, IsCandidate
  <1>8. ASSUME NEW x \in Picked(t, locals) PROVE x = d
    <2>1. PICK i \in {m.climate, m.temp} \ {None} : at[i] = x
      BY <1>8, LocalsAreHomeKit, PickedFor
    <2>2. x \in HomeKit /\ x # None
      BY <1>8, EntriesAssumption DEF Picked, LocalThermostats
    <2> HIDE DEF m
    <2>3. x \in Native(m)
      BY <2>1, <2>2 DEF Native
    <2>4. \A y, z \in Physical(m) : y = z
      BY ClaimStands DEF m
    <2> QED BY <1>6, <2>3, <2>4
  <1>9. Picked(t, locals) = {d}
    BY <1>7, <1>8
  <1>10. Cardinality(Picked(t, locals)) = 1
    BY <1>9, FS_Singleton
  <1> DEFINE b == [of |-> t, device |-> First(Picked(t, locals)), rank |-> 3]
  <1>11. b \in Candidate(t, locals)
    BY <1>10 DEF Candidate
  <1>12. b.device = d
    BY <1>9 DEF First
  <1>13. b \in UNION {Candidate(r, locals) : r \in Thermostats \ Bad} /\ b # c /\ b.device = c.device
    BY <1>3, <1>11, <1>12 DEF IsCandidate
  <1>14. b.rank < c.rank
    BY <1>13 DEF Matches, Match
  <1> QED BY <1>3, <1>14 DEF IsCandidate

Apart(l, k) ==
  l.of # k.of /\ (l.of \in Thermostats <=> k.of \in Thermostats)
    => /\ l.device = None \/ l.device # k.device
       /\ l.temp = None \/ l.temp # k.temp \/ l.of \in Sensors

LEMMA ThermostatsApart ==
  ASSUME TypeOK, NEW t \in Thermostats, NEW u \in Thermostats, t # u
  PROVE  Apart(LinkOf(t), LinkOf(u))
  <1> DEFINE l == LinkOf(t)
             k == LinkOf(u)
             d == Won(t, Matches)
             f == Won(u, Matches)
  <1>1. l.device = d /\ k.device = f
    BY DEF LinkOf, ThermostatLink
  <1>2. d # None => d # f
    <2> DEFINE rs == Thermostats \ Bad
               locals == LocalThermostats
    <2>1. Matches = Match(rs, locals) /\ locals \in SUBSET HomeKit
      BY LocalsAreHomeKit DEF Matches
    <2> HIDE DEF rs, locals
    <2> QED BY <2>1, WonOnce
  <1>3. ASSUME l.temp # None, l.temp = k.temp PROVE FALSE
    <2> DEFINE e == l.temp
    <2>1. /\ t \notin Bad
          /\ over[t].temp # None => e = over[t].temp /\ at[e] # None
          /\ over[t].temp = None => e = Temp(d)
      BY <1>3, ThermostatSays DEF LinkOf
    <2>2. /\ u \notin Bad
          /\ over[u].temp # None => e = over[u].temp /\ at[e] # None
          /\ over[u].temp = None => e = Temp(f)
      BY <1>3, ThermostatSays DEF LinkOf
    <2> HIDE DEF l, k
    <2>3. CASE over[t].temp # None /\ over[u].temp # None
      <3>1. Resolved(over[t]).temp = e /\ Resolved(over[u]).temp = e
        BY <2>1, <2>2, <2>3 DEF Resolved, TypeOK, Mapping, Resources
      <3>2. at[e] \in Native(Resolved(over[t])) /\ at[e] \in Native(Resolved(over[u]))
        BY <1>3, <2>1, <2>3, <3>1 DEF Native
      <3>3. Native(Resolved(over[t])) \cap Native(Resolved(over[u])) = {}
        BY <2>1, ClaimStands
      <3> QED BY <3>2, <3>3
    <2>4. CASE over[t].temp # None /\ over[u].temp = None
      BY <1>3, <2>1, <2>2, <2>4, SelectedAlone
    <2>5. CASE over[t].temp = None /\ over[u].temp # None
      BY <1>3, <2>1, <2>2, <2>5, SelectedAlone
    <2>6. CASE over[t].temp = None /\ over[u].temp = None
      <3>1. d # None /\ at[e] = d
        BY <1>3, <2>1, <2>6, TempWon
      <3>2. f # None /\ at[e] = f
        BY <1>3, <2>2, <2>6, TempWon
      <3> QED BY <1>2, <3>1, <3>2
    <2> QED BY <2>3, <2>4, <2>5, <2>6
  <1> QED BY <1>1, <1>2, <1>3 DEF Apart

(***************************************************************************)
(* Sensors                                                                 *)
(***************************************************************************)
LEMMA ThermostatLinksAre ==
  /\ ThermostatLinks = {LinkOf(t) : t \in Thermostats}
  /\ \A t \in Thermostats : LinkOf(t).of = t /\ Of(t, ThermostatLinks) = LinkOf(t)
  <1>1. ThermostatLinks = {LinkOf(t) : t \in Thermostats}
    BY DEF ThermostatLinks, LinkOf, Bad, Matches
  <1>2. \A t : LinkOf(t).of = t
    BY DEF LinkOf, ThermostatLink
  <1>3. \A t \in Thermostats : Of(t, ThermostatLinks) = LinkOf(t)
    BY <1>1, <1>2 DEF Of
  <1> QED BY <1>1, <1>2, <1>3

\* A thermostat stands on the device that it won.
LEMMA StandsOnDevice ==
  ASSUME TypeOK, NEW t \in Thermostats, NEW d, d = Won(t, Matches), d # None
  PROVE  d \in Physical([climate |-> LinkOf(t).climate, temp |-> LinkOf(t).temp])
  <1> DEFINE m == Resolved(over[t])
             a == [climate |-> LinkOf(t).climate, temp |-> LinkOf(t).temp]
             locals == LocalThermostats
  <1>1. /\ t \notin Bad /\ d \in HomeKit /\ Climate(d) # None /\ d # None
        /\ \E c \in Matches : IsCandidate(c, t, locals) /\ c.device = d
    BY DeviceWon
  <1>2. PICK c \in Matches : IsCandidate(c, t, locals) /\ c.device = d
    BY <1>1
  <1>3. over[t] \in Mapping
    BY DEF TypeOK, Resources
  <1>4. /\ a.climate = IF over[t].climate # None THEN m.climate ELSE Climate(d)
        /\ a.temp = IF over[t].temp # None THEN m.temp ELSE Temp(d)
    BY <1>1 DEF LinkOf, ThermostatLink, Entity
  <1>5. /\ m.climate # None => over[t].climate # None
        /\ m.temp # None => over[t].temp # None
    BY <1>3 DEF Resolved, Mapping
  <1> HIDE DEF m, a
  <1>6. \E e \in {a.climate, a.temp} \ {None} : at[e] = d
    <2>1. CASE c.rank = 3
      <3>1. d \in Picked(t, locals)
        BY <1>2, <2>1 DEF IsCandidate
      <3> HIDE DEF locals
      <3>2. PICK e \in {m.climate, m.temp} \ {None} : at[e] = d
        BY <3>1, LocalsAreHomeKit, PickedFor DEF m, locals
      <3> QED BY <1>4, <1>5, <3>2
    <2>2. CASE c.rank # 3
      <3>1. over[t].climate = None
        BY <1>2, <2>2 DEF IsCandidate, Nothing
      <3> QED BY <1>1, <1>4, <3>1, ClimateOf
    <2> QED BY <2>1, <2>2
  <1>7. d \in Native(a)
    BY <1>1, <1>6 DEF Native
  <1>8. a.temp \in Probes => at[a.temp] # d
    <2>1. a.temp \in Probes => at[a.temp] \in Cloud \cup {None}
      BY DEF TypeOK, Home, Entities
    <2> QED BY <1>1, <2>1, ResourcesAssumption
  <1>9. d \in Physical(a)
    BY <1>7, <1>8 DEF Physical
  <1> QED BY <1>9 DEF a

SensorClaim(s) ==
  IF s \in BuiltIn THEN Inherited(s, LinkOf(Parent[s]))
  ELSE [of |-> s, map |-> Resolved(over[s]), anchor |-> {}]
BadSensors  == Conflicted({SensorClaim(s) : s \in Sensors})
RoomMatches == Match(Sensors \ (BadSensors \cup BuiltIn), LocalRooms)
SensorLinkOf(s) ==
  IF s \in BuiltIn
  THEN SensorLink(s, LinkOf(Parent[s]).device, LinkOf(Parent[s]).temp, BadSensors)
  ELSE SensorLink(s, Won(s, RoomMatches), Temp(Won(s, RoomMatches)), BadSensors)

LEMMA SensorLinksAre ==
  ASSUME NEW l \in SensorLinks(ThermostatLinks)
  PROVE  l.of \in Sensors /\ l = SensorLinkOf(l.of)
  <1> DEFINE above(s) == Of(Parent[s], ThermostatLinks)
             claim(s) == IF s \in BuiltIn THEN Inherited(s, above(s))
                         ELSE [of |-> s, map |-> Resolved(over[s]), anchor |-> {}]
             bad      == Conflicted({claim(s) : s \in Sensors})
             matches  == Match(Sensors \ (bad \cup BuiltIn), LocalRooms)
             room(s)  == Won(s, matches)
  <1>1. \A s \in BuiltIn : above(s) = LinkOf(Parent[s])
    BY ThermostatLinksAre, ResourcesAssumption DEF BuiltIn
  <1>2. l \in {SensorLink(s, above(s).device, above(s).temp, bad) : s \in BuiltIn}
              \cup {SensorLink(s, room(s), Temp(room(s)), bad) : s \in Sensors \ BuiltIn}
    BY DEF SensorLinks
  <1>3. \A s \in Sensors : claim(s) = SensorClaim(s)
    BY <1>1 DEF SensorClaim
  <1> HIDE DEF claim
  <1>4. {claim(s) : s \in Sensors} = {SensorClaim(s) : s \in Sensors}
    BY <1>3
  <1>5. bad = BadSensors
    BY <1>4 DEF BadSensors
  <1> HIDE DEF bad
  <1>6. matches = RoomMatches
    BY <1>5 DEF RoomMatches
  <1> HIDE DEF above, matches
  <1>7. CASE l \in {SensorLink(s, above(s).device, above(s).temp, bad) : s \in BuiltIn}
    <2>1. PICK s \in BuiltIn : l = SensorLink(s, above(s).device, above(s).temp, bad)
      BY <1>7
    <2>2. l.of = s /\ s \in Sensors
      BY <2>1 DEF SensorLink, BuiltIn
    <2> QED BY <1>1, <1>5, <2>1, <2>2 DEF SensorLinkOf
  <1>8. CASE l \in {SensorLink(s, room(s), Temp(room(s)), bad) : s \in Sensors \ BuiltIn}
    <2>1. PICK s \in Sensors \ BuiltIn : l = SensorLink(s, room(s), Temp(room(s)), bad)
      BY <1>8
    <2>2. l.of = s
      BY <2>1 DEF SensorLink
    <2> QED BY <1>5, <1>6, <2>1, <2>2 DEF SensorLinkOf
  <1> QED BY <1>2, <1>7, <1>8

\* What a sensor's link stands on, its claim owns when it is built in.
LEMMA SensorDevice ==
  ASSUME TypeOK, NEW s \in Sensors, NEW d, d = SensorLinkOf(s).device, d # None
  PROVE  /\ s \notin BadSensors
         /\ s \in BuiltIn => d \in Owns(SensorClaim(s)) /\ Climate(d) # None
         /\ s \notin BuiltIn => d = Won(s, RoomMatches) /\ Climate(d) = None
  <1>1. s \notin BadSensors
    BY DEF SensorLinkOf, SensorLink
  <1>2. ASSUME s \in BuiltIn
        PROVE  d \in Owns(SensorClaim(s)) /\ Climate(d) # None
    <2> DEFINE t == Parent[s]
    <2>1. t \in Thermostats
      BY <1>2, ResourcesAssumption DEF BuiltIn
    <2>2. d = Won(t, Matches)
      BY <1>1, <1>2 DEF SensorLinkOf, SensorLink, LinkOf, ThermostatLink
    <2> HIDE DEF t
    <2>3. d \in Physical([climate |-> LinkOf(t).climate, temp |-> LinkOf(t).temp])
      BY <2>1, <2>2, StandsOnDevice
    <2>4. Climate(d) # None
      BY <2>2, DeviceWon
    <2>5. SensorClaim(s).anchor = Physical([climate |-> LinkOf(t).climate, temp |-> LinkOf(t).temp])
      BY <1>2 DEF SensorClaim, Inherited, t
    <2> QED BY <2>3, <2>4, <2>5 DEF Owns
  <1>3. ASSUME s \notin BuiltIn
        PROVE  d = Won(s, RoomMatches) /\ Climate(d) = None
    <2> DEFINE rs == Sensors \ (BadSensors \cup BuiltIn)
               locals == LocalRooms
    <2>1. d = Won(s, RoomMatches)
      BY <1>1, <1>3 DEF SensorLinkOf, SensorLink
    <2>2. RoomMatches = Match(rs, locals) /\ locals \in SUBSET HomeKit
      BY LocalsAreHomeKit DEF RoomMatches
    <2> HIDE DEF rs, locals
    <2>3. d \in locals
      BY <2>1, <2>2, WonSays
    <2> QED BY <2>1, <2>3 DEF locals, LocalRooms
  <1> QED BY <1>1, <1>2, <1>3

LEMMA SensorsApart ==
  ASSUME TypeOK, NEW s \in Sensors, NEW q \in Sensors, s # q
  PROVE  SensorLinkOf(s).device = None \/ SensorLinkOf(s).device # SensorLinkOf(q).device
  <1> DEFINE d == SensorLinkOf(s).device
  <1>1. SUFFICES ASSUME d # None, SensorLinkOf(q).device = d PROVE FALSE
    OBVIOUS
  <1>2. /\ s \notin BadSensors
        /\ s \in BuiltIn => d \in Owns(SensorClaim(s)) /\ Climate(d) # None
        /\ s \notin BuiltIn => d = Won(s, RoomMatches) /\ Climate(d) = None
    BY <1>1, SensorDevice
  <1>3. /\ q \in BuiltIn => d \in Owns(SensorClaim(q)) /\ Climate(d) # None
        /\ q \notin BuiltIn => d = Won(q, RoomMatches) /\ Climate(d) = None
    BY <1>1, SensorDevice
  <1> HIDE DEF d
  <1>4. CASE s \in BuiltIn /\ q \in BuiltIn
    <2> DEFINE claims == {SensorClaim(r) : r \in Sensors}
    <2>1. \A r \in Sensors : SensorClaim(r) \in claims /\ SensorClaim(r).of = r
      BY DEF SensorClaim, Inherited
    <2>2. SensorClaim(s).of \notin Conflicted(claims)
      BY <1>2, <2>1 DEF BadSensors
    <2>3. SensorClaim(q).of # SensorClaim(s).of
      BY <2>1
    <2> HIDE DEF claims
    <2>4. (Owns(SensorClaim(q)) \cup Native(SensorClaim(q).map))
            \cap (Owns(SensorClaim(s)) \cup Native(SensorClaim(s).map)) = {}
      BY <2>1, <2>2, <2>3, Unconflicted
    <2> QED BY <1>2, <1>3, <1>4, <2>4
  <1>5. CASE s \notin BuiltIn /\ q \notin BuiltIn
    <2> DEFINE rs == Sensors \ (BadSensors \cup BuiltIn)
               locals == LocalRooms
    <2>1. RoomMatches = Match(rs, locals) /\ locals \in SUBSET HomeKit
      BY LocalsAreHomeKit DEF RoomMatches
    <2> HIDE DEF rs, locals
    <2> QED BY <1>1, <1>2, <1>3, <1>5, <2>1, WonOnce DEF d
  <1> QED BY <1>2, <1>3, <1>4, <1>5

(***************************************************************************)
(* All links                                                               *)
(***************************************************************************)
LEMMA LinksAre ==
  ASSUME NEW l \in Links
  PROVE  \/ l.of \in Thermostats /\ l.of \notin Sensors /\ l = LinkOf(l.of)
         \/ l.of \in Sensors /\ l.of \notin Thermostats /\ l = SensorLinkOf(l.of)
  <1>1. l \in ThermostatLinks \/ l \in SensorLinks(ThermostatLinks)
    BY DEF Links
  <1> QED BY <1>1, ThermostatLinksAre, SensorLinksAre, ResourcesAssumption

LEMMA LinksApart ==
  ASSUME TypeOK
  PROVE  \A l, k \in Links : Apart(l, k)
  <1> SUFFICES ASSUME NEW l \in Links, NEW k \in Links PROVE Apart(l, k)
    OBVIOUS
  <1>1. CASE l.of \in Thermostats /\ k.of \in Thermostats /\ l.of # k.of
    <2>1. Apart(LinkOf(l.of), LinkOf(k.of))
      BY <1>1, ThermostatsApart
    <2>2. l = LinkOf(l.of) /\ k = LinkOf(k.of)
      BY <1>1, LinksAre
    <2> QED BY <2>1, <2>2
  <1>2. CASE l.of \in Sensors /\ k.of \in Sensors /\ l.of # k.of
    <2>1. l = SensorLinkOf(l.of) /\ k = SensorLinkOf(k.of)
      BY <1>2, LinksAre, ResourcesAssumption
    <2>2. l.device = None \/ l.device # k.device
      BY <1>2, <2>1, SensorsApart
    <2> QED BY <1>2, <2>2 DEF Apart
  <1> QED BY <1>1, <1>2, LinksAre DEF Apart

LEMMA LinksMixed ==
  ASSUME TypeOK
  PROVE  \A l \in Links :
           l.of \in Thermostats /\ l.temp \in Probes /\ l.climate # None
             => l.climate \in Climates /\ Mixed(l.climate, l.temp)
  <1> SUFFICES ASSUME NEW l \in Links, l.of \in Thermostats, l.temp \in Probes, l.climate # None
               PROVE  l.climate \in Climates /\ Mixed(l.climate, l.temp)
    OBVIOUS
  <1>1. l = LinkOf(l.of)
    BY LinksAre
  <1> QED BY <1>1, ThermostatMixed

(***************************************************************************)
(* The inductive invariant: every climate and probe, and the device of     *)
(* each, is watched, except by the change that is being delivered; and the *)
(* claims hold until a change is pending that will be heard.               *)
(***************************************************************************)
Watched ==
  /\ event # Setup =>
       \A e \in Carriers \ {event} : at[e] # None => e \in entities /\ at[e] \in devices
  /\ event \in Carriers => at[event] # None \/ event \in entities

SoundUntilHeard == event \in Carriers \/ event \in Devices \cap devices \/ Sound

LinksInv ==
  /\ TypeOK
  /\ \A l, k \in data : Apart(l, k)
  /\ Watched /\ SoundUntilHeard

LEMMA InitLinksInv == Init => LinksInv
  <1> SUFFICES ASSUME Init PROVE LinksInv
    OBVIOUS
  <1>1. TypeOK
    BY ResourcesAssumption, RegistriesAssumption DEF Init, TypeOK, Devices
  <1>2. Watched
    BY EntriesAssumption DEF Init, Watched, Carriers, Entities
  <1>3. Sound /\ data = {}
    BY DEF Init, Sound
  <1> QED BY <1>1, <1>2, <1>3 DEF LinksInv, SoundUntilHeard

\* The claims that a publication makes hold, and it watches what they rest on.
LEMMA PublishLinksInv ==
  ASSUME TypeOK, NEW heard, Publish(heard)
  PROVE  LinksInv'
  <1>1. data' = Links /\ event' = None /\ UNCHANGED <<at, dev, over>>
    BY DEF Publish
  <1>2. TypeOK'
    BY <1>1 DEF TypeOK, Home, Mapping, Resources, Entities, Devices
  <1>3. \A l, k \in data' : Apart(l, k)
    BY <1>1, LinksApart
  <1>4. ASSUME NEW e \in Carriers, at[e] # None
        PROVE  e \in entities' /\ at[e] \in devices'
    <2>1. e \in Identity
      BY <1>4 DEF Identity, Carriers
    <2> QED BY <1>4, <2>1 DEF Publish, Tracked
  <1>5. Watched'
    <2>1. None \notin Carriers
      BY EntriesAssumption DEF Carriers, Entities
    <2> QED BY <1>1, <1>4, <2>1 DEF Watched, Carriers
  <1>6. Sound'
    <2>1. \A c, p : Mixed(c, p)' <=> Mixed(c, p)
      BY <1>1 DEF Mixed, Proven, Climate, First
    <2> QED BY <1>1, <2>1, LinksMixed DEF Sound
  <1>7. (\A l, k \in data : Apart(l, k))'
    BY <1>3 DEF Apart
  <1> QED BY <1>2, <1>5, <1>6, <1>7 DEF LinksInv, SoundUntilHeard

(***************************************************************************)
(* The steps                                                               *)
(***************************************************************************)
\* A mixed claim rests on carriers, their devices and these devices' serials.
LEMMA MixedRestsOn ==
  ASSUME NEW c \in Carriers, NEW p \in Probes, Mixed(c, p),
         \A e \in Carriers : at'[e] = at[e],
         \A e \in Carriers : at[e] # None => dev'[at[e]] = dev[at[e]],
         \A d \in HomeKit : (Climate(d) # None) => (dev'[d] = dev[d]),
         \A d \in HomeKit : (Climate(d) # None)' <=> Climate(d) # None
  PROVE  Mixed(c, p)'
  <1>1. \A q \in Probes : q \in Carriers /\ (Proven(q)' <=> Proven(q))
    BY DEF Proven, Carriers
  <1>2. {d \in HomeKit : Climate(d) # None /\ dev[d].serial = ProbeSerial[p]}' = {at[c]}
    <2>1. {d \in HomeKit : Climate(d) # None /\ dev[d].serial = ProbeSerial[p]}'
            = {d \in HomeKit : Climate(d) # None /\ dev[d].serial = ProbeSerial[p]}
      OBVIOUS
    <2> QED BY <2>1 DEF Mixed
  <1>3. Proven(p)' /\ at'[c] = at[c]
    BY <1>1 DEF Mixed
  <1>4. \A q \in Probes : (Proven(q) /\ ProbeSerial[q] = ProbeSerial[p] => at[q] = at[p])'
    BY <1>1 DEF Mixed
  <1> QED BY <1>2, <1>3, <1>4 DEF Mixed

LEMMA SoundRestsOn ==
  ASSUME Sound, data' = data, \A e \in Carriers : at'[e] = at[e],
         \A e \in Carriers : at[e] # None => dev'[at[e]] = dev[at[e]]
  PROVE  Sound'
  <1>1. \A d \in HomeKit : (Climate(d) # None)' <=> Climate(d) # None
    <2> SUFFICES ASSUME NEW d \in HomeKit
                 PROVE  (Climate(d) # None)' <=> Climate(d) # None
      OBVIOUS
    <2>1. {e \in Climates : at[e] = d /\ d # None}' = {e \in Climates : at[e] = d /\ d # None}
      BY DEF Carriers
    <2> QED BY <2>1 DEF Climate
  <1>2. \A d \in HomeKit : (Climate(d) # None) => (dev'[d] = dev[d])
    <2> SUFFICES ASSUME NEW d \in HomeKit, Climate(d) # None PROVE dev'[d] = dev[d]
      OBVIOUS
    <2>1. d # None /\ Climate(d) \in Carriers /\ at[Climate(d)] = d
      BY ClimateOf, EntriesAssumption DEF Carriers
    <2> QED BY <2>1
  <1> SUFFICES ASSUME NEW l \in data, l.of \in Thermostats, l.temp \in Probes, l.climate # None
               PROVE  l.climate \in Climates /\ Mixed(l.climate, l.temp)'
    BY DEF Sound
  <1>3. l.climate \in Climates /\ Mixed(l.climate, l.temp)
    BY DEF Sound
  <1> QED BY <1>1, <1>2, <1>3, MixedRestsOn DEF Carriers

LEMMA ApartKept ==
  ASSUME \A l, k \in data : Apart(l, k), data' = data
  PROVE  (\A l, k \in data : Apart(l, k))'
  BY DEF Apart

\* What was watched before a change is still.
LEMMA ChangeEntityLinksInv ==
  ASSUME LinksInv, NEW e \in Entities, ChangeEntity(e)
  PROVE  LinksInv'
  <1> USE DEF LinksInv
  <1>1. /\ event = None /\ event' = e /\ UNCHANGED <<dev, over, data, entities, devices>>
        /\ None \notin Entities /\ None \notin Devices
    BY EntriesAssumption DEF ChangeEntity, Change, Devices
  <1>2. PICK d \in Home(e) \ {at[e]} : at' = [at EXCEPT ![e] = d]
    BY DEF ChangeEntity
  <1>3. DOMAIN at = Entities
    BY DEF TypeOK
  <1>4. TypeOK'
    BY <1>1, <1>2, <1>3 DEF TypeOK, Home, Entities, Devices, Mapping, Resources
  <1>5. \A c \in Carriers \ {e} : at'[c] = at[c]
    BY <1>2, <1>3 DEF Carriers, Entities
  <1>6. \A c \in Carriers : at[c] # None => c \in entities /\ at[c] \in devices
    BY <1>1, EntriesAssumption DEF Watched, Carriers, Entities
  <1>7. at'[e] # at[e]
    BY <1>2, <1>3
  <1>8. Watched'
    BY <1>1, <1>5, <1>6, <1>7 DEF Watched
  <1>9. SoundUntilHeard'
    <2>1. CASE e \in Carriers
      BY <2>1, <1>1 DEF SoundUntilHeard, Carriers
    <2>2. CASE e \notin Carriers
      <3>1. Sound
        BY <1>1 DEF SoundUntilHeard, Carriers, Entities
      <3> QED BY <3>1, <2>2, <1>1, <1>5, SoundRestsOn DEF SoundUntilHeard
    <2> QED BY <2>1, <2>2
  <1> QED BY <1>1, <1>4, <1>8, <1>9, ApartKept

\* A device that nothing watches proves nothing.
LEMMA ChangeDeviceLinksInv ==
  ASSUME LinksInv, NEW d \in Devices, ChangeDevice(d)
  PROVE  LinksInv'
  <1> USE DEF LinksInv
  <1>1. /\ event = None /\ event' = d /\ UNCHANGED <<at, over, data, entities, devices>>
        /\ None \notin Entities /\ None \notin Devices /\ d \notin Entities
    BY EntriesAssumption DEF ChangeDevice, Change, Devices
  <1>2. DOMAIN dev' = DOMAIN dev /\ \A x \in Devices \ {d} : dev'[x] = dev[x]
    BY DEF ChangeDevice, TypeOK
  <1>3. TypeOK'
    BY <1>1, <1>2 DEF TypeOK, Home, Entities, Devices, Mapping, Resources
  <1>4. \A c \in Carriers : at[c] # None => c \in entities /\ at[c] \in devices
    BY <1>1, EntriesAssumption DEF Watched, Carriers, Entities
  <1>5. Watched'
    BY <1>1, <1>4 DEF Watched, Carriers, Entities
  <1>6. SoundUntilHeard'
    <2>1. CASE d \in devices
      BY <2>1, <1>1 DEF SoundUntilHeard
    <2>2. CASE d \notin devices
      <3>1. Sound
        BY <1>1 DEF SoundUntilHeard, Carriers, Entities
      <3>2. ASSUME NEW c \in Carriers, at[c] # None PROVE dev'[at[c]] = dev[at[c]]
        <4>1. at[c] \in Devices
          BY <3>2 DEF TypeOK, Home, Carriers, Entities, Devices
        <4> QED BY <4>1, <3>2, <1>2, <1>4, <2>2
      <3>3. Sound'
        BY <3>1, <3>2, <1>1, SoundRestsOn
      <3> QED BY <3>3 DEF SoundUntilHeard
    <2> QED BY <2>1, <2>2
  <1> QED BY <1>1, <1>3, <1>5, <1>6, ApartKept

\* An event that is ignored concerns nothing that a claim rests on.
LEMMA IgnoreLinksInv ==
  ASSUME LinksInv, NEW heard, heard = Watching, Ignore(heard),
         event \notin Carriers, event \notin Devices \cap devices, event # Setup
  PROVE  LinksInv'
  <1> USE DEF LinksInv
  <1>1. event' = None /\ UNCHANGED <<at, dev, over, data, entities, devices>>
    BY DEF Ignore, Watching
  <1>2. TypeOK'
    BY <1>1 DEF TypeOK, Home, Entities, Devices, Mapping, Resources
  <1>3. Watched'
    BY <1>1, EntriesAssumption DEF Watched, Carriers, Entities
  <1>4. Sound
    BY DEF SoundUntilHeard
  <1>5. Sound'
    BY <1>1, <1>4, SoundRestsOn
  <1> QED BY <1>1, <1>2, <1>3, <1>5, ApartKept DEF SoundUntilHeard

LEMMA HearEntityLinksInv ==
  ASSUME LinksInv, NEW e \in Entities, HearEntity(e)
  PROVE  LinksInv'
  <1> DEFINE heard == IF e \in Identity THEN Tracked(entities, devices) ELSE Watching
  <1>1. TypeOK /\ event = e /\ IF e \in heard.es THEN Publish(heard) ELSE Ignore(heard)
    BY DEF HearEntity, LinksInv
  <1>2. e \in Identity => e \in heard.es
    BY DEF Tracked
  <1>3. e \notin Identity => heard = Watching
    OBVIOUS
  <1> HIDE DEF heard
  <1>4. CASE e \in heard.es
    BY <1>1, <1>4, PublishLinksInv
  <1>5. CASE e \notin heard.es
    <2>1. heard = Watching /\ e \notin Identity /\ e \notin entities
      BY <1>2, <1>3, <1>5 DEF Watching
    <2>2. e \notin Carriers
      BY <1>1, <2>1 DEF LinksInv, Watched, Identity, Carriers
    <2>3. e # Setup /\ e \notin Devices
      BY EntriesAssumption DEF Devices
    <2> QED BY <1>1, <1>5, <2>1, <2>2, <2>3, IgnoreLinksInv
  <1> QED BY <1>4, <1>5

LEMMA HearDeviceLinksInv ==
  ASSUME LinksInv, NEW d \in Devices, HearDevice(d)
  PROVE  LinksInv'
  <1>1. TypeOK /\ event = d
    BY DEF HearDevice, LinksInv
  <1>2. CASE d \in devices
    BY <1>1, <1>2, PublishLinksInv DEF HearDevice
  <1>3. CASE d \notin devices
    <2>1. d # Setup /\ d \notin Carriers
      BY EntriesAssumption DEF Devices, Carriers, Entities
    <2>2. Ignore(Watching)
      BY <1>3 DEF HearDevice
    <2> QED BY <1>1, <1>3, <2>1, <2>2, IgnoreLinksInv
  <1> QED BY <1>2, <1>3

LEMMA NextLinksInv == LinksInv /\ [Next]_vars => LinksInv'
  <1> SUFFICES ASSUME LinksInv, [Next]_vars PROVE LinksInv'
    OBVIOUS
  <1>1. CASE Refresh
    BY <1>1, PublishLinksInv DEF Refresh, LinksInv
  <1>2. ASSUME NEW e \in Entities, ChangeEntity(e) \/ HearEntity(e) PROVE LinksInv'
    BY <1>2, ChangeEntityLinksInv, HearEntityLinksInv
  <1>3. ASSUME NEW d \in Devices, ChangeDevice(d) \/ HearDevice(d) PROVE LinksInv'
    BY <1>3, ChangeDeviceLinksInv, HearDeviceLinksInv
  <1>4. CASE UNCHANGED vars
    <2>1. UNCHANGED <<at, dev, over, data, entities, devices, event>>
      BY <1>4 DEF vars
    <2>2. TypeOK' /\ Watched'
      BY <2>1 DEF LinksInv, TypeOK, Watched, Home, Entities, Devices, Mapping, Resources
    <2>3. Sound => Sound'
      BY <2>1, SoundRestsOn
    <2>4. SoundUntilHeard'
      BY <2>1, <2>3 DEF LinksInv, SoundUntilHeard
    <2> QED BY <2>1, <2>2, <2>4, ApartKept DEF LinksInv
  <1> QED BY <1>1, <1>2, <1>3, <1>4 DEF Next, Devices

\* tracking.py, config_model.py: every climate and probe that exists, and its
\* device, is watched except by the change being delivered, and the mixed
\* claims hold until a change is pending that will be heard.
THEOREM LinksInvHolds == Spec => []LinksInv
  BY InitLinksInv, NextLinksInv, PTL DEF Spec

\* No two thermostats, and no two sensors, are linked to one device, and no
\* two thermostats show one temperature entity: of the claims to a device the
\* strongest alone wins, and what two resources select neither gets.
THEOREM DevicesNotSharedHolds == Spec => []DevicesNotShared
  <1>1. LinksInv => DevicesNotShared
    BY DEF LinksInv, Apart, DevicesNotShared
  <1> QED BY <1>1, LinksInvHolds, PTL

\* While no change is being delivered, a thermostat that shows a cloud probe
\* beside a HomeKit climate is proven by the registries as they are.
THEOREM MixedClaimsProvenHolds == Spec => []MixedClaimsProven
  <1>1. LinksInv => MixedClaimsProven
    <2> SUFFICES ASSUME LinksInv, event = None PROVE MixedClaimsProven
      BY DEF MixedClaimsProven
    <2>1. Sound
      BY EntriesAssumption DEF LinksInv, SoundUntilHeard, Carriers, Entities, Devices
    <2> QED BY <2>1 DEF Sound, Mixed, MixedClaimsProven
  <1> QED BY <1>1, LinksInvHolds, PTL

(***************************************************************************)
(* Induction over the naturals in a first-order form.                      *)
(***************************************************************************)
LEMMA NatSetInduction ==
  ASSUME NEW S \in SUBSET Nat, 0 \in S, \A n \in S : n + 1 \in S
  PROVE  S = Nat
  <1> DEFINE Less == OpToRel(<, Nat)
             rest == Nat \ S
  <1>1. \A x, y \in Nat : y < x => <<y, x>> \in Less
    BY DEF OpToRel
  <1>2. IsWellFoundedOn(Less, Nat)
    BY NatLessThanWellFounded
  <1> HIDE DEF Less
  <1> SUFFICES ASSUME rest # {} PROVE FALSE
    OBVIOUS
  <1>3. PICK x \in rest : \A y \in rest : <<y, x>> \notin Less
    BY <1>2, WFMin
  <1>4. x # 0 /\ x - 1 \in Nat /\ x - 1 < x /\ (x - 1) + 1 = x
    BY <1>3
  <1>5. x - 1 \in S
    BY <1>1, <1>3, <1>4
  <1> QED BY <1>3, <1>4, <1>5

(***************************************************************************)
(* Sequences of sequences                                                  *)
(***************************************************************************)
Elements(q) == {q[i] : i \in DOMAIN q}
\* No element twice.
Distinct(q) == \A i, k \in DOMAIN q : q[i] = q[k] => i = k

\* The prefixes of a flattened sequence.
Joins(s, f) == f = [i \in 1..Len(s) |-> IF i = 1 THEN s[i] ELSE f[i - 1] \o s[i]]

\* Flattening is the last prefix.
LEMMA FlattenJoins ==
  ASSUME NEW s, NEW n \in Nat, n # 0, Len(s) = n
  PROVE  \E f : Joins(s, f) /\ Reads!FlattenSeq(s) = f[n]
  <1> DEFINE IsJoin(f, m) == f = [i \in 1..m |-> IF i = 1 THEN s[i] ELSE f[i - 1] \o s[i]]
             Defined == {m \in Nat : \E f : IsJoin(f, m)}
  <1>1. 0 \in Defined
    <2>1. 1..0 = {}
      OBVIOUS
    <2>2. IsJoin([i \in {} |-> 0], 0)
      BY <2>1
    <2> QED BY <2>2
  <1>2. ASSUME NEW m \in Defined PROVE m + 1 \in Defined
    <2>1. PICK f : IsJoin(f, m)
      BY <1>2
    <2> DEFINE g == [i \in 1..(m + 1) |->
                       IF i = m + 1 THEN IF i = 1 THEN s[i] ELSE f[m] \o s[i] ELSE f[i]]
    <2>2. m \in Nat /\ m + 1 \in Nat
      BY <1>2
    <2>3. f = [i \in 1..m |-> IF i = 1 THEN s[i] ELSE f[i - 1] \o s[i]]
      BY <2>1
    <2>4. /\ g = [i \in 1..(m + 1) |-> g[i]]
          /\ \A i \in 1..(m + 1) :
               g[i] = IF i = m + 1 THEN IF i = 1 THEN s[i] ELSE f[m] \o s[i] ELSE f[i]
      OBVIOUS
    <2> HIDE DEF g
    <2>5. ASSUME NEW i \in 1..(m + 1)
          PROVE  g[i] = IF i = 1 THEN s[i] ELSE g[i - 1] \o s[i]
      <3>1. CASE i = m + 1
        <4>1. CASE i = 1
          BY <2>4, <3>1, <4>1
        <4>2. CASE i # 1
          <5>1. m \in 1..(m + 1) /\ m # m + 1 /\ i - 1 = m
            BY <2>2, <3>1, <4>2
          <5>2. g[m] = f[m]
            BY <2>4, <5>1
          <5>3. g[i] = f[m] \o s[i]
            BY <2>4, <3>1, <4>2
          <5> QED BY <4>2, <5>1, <5>2, <5>3
        <4> QED BY <4>1, <4>2
      <3>2. CASE i # m + 1
        <4>1. i \in 1..m /\ (i # 1 => i - 1 \in 1..m /\ i - 1 \in 1..(m + 1) /\ i - 1 # m + 1)
          BY <2>2, <3>2
        <4>2. g[i] = f[i] /\ (i # 1 => g[i - 1] = f[i - 1])
          BY <2>4, <3>2, <4>1
        <4>3. f[i] = IF i = 1 THEN s[i] ELSE f[i - 1] \o s[i]
          BY <2>3, <4>1
        <4> QED BY <4>2, <4>3
      <3> QED BY <3>1, <3>2
    <2>6. g = [i \in 1..(m + 1) |-> IF i = 1 THEN s[i] ELSE g[i - 1] \o s[i]]
      BY <2>4, <2>5
    <2> QED BY <2>2, <2>6
  <1> HIDE DEF Defined
  <1>3. Defined = Nat
    <2>1. Defined \in SUBSET Nat
      BY DEF Defined
    <2> QED BY <1>1, <1>2, <2>1, NatSetInduction
  <1>4. \E f : IsJoin(f, n)
    BY <1>3 DEF Defined
  <1> DEFINE flatten == CHOOSE f : IsJoin(f, n)
  <1>5. IsJoin(flatten, n)
    BY <1>4
  <1>6. Reads!FlattenSeq(s) = flatten[n]
    BY DEF Reads!FlattenSeq
  <1> QED BY <1>5, <1>6 DEF Joins

(***************************************************************************)
(* Sums over finite sets                                                   *)
(***************************************************************************)
Pick(s) == CHOOSE x \in s : TRUE

\* F adds up g over the subsets of S.
Summed(g, S, F) ==
  F = [s \in SUBSET S |-> IF s = {} THEN 0 ELSE F[s \ {Pick(s)}] + g[Pick(s)]]

\* The sum of g over the set S.
Sum(g, S) == (CHOOSE F : Summed(g, S, F))[S]

LEMMA PickIn == ASSUME NEW s, s # {} PROVE Pick(s) \in s
  BY DEF Pick

LEMMA SmallerBy ==
  ASSUME NEW s, IsFiniteSet(s), NEW x \in s
  PROVE  /\ IsFiniteSet(s \ {x}) /\ Cardinality(s) \in Nat /\ Cardinality(s \ {x}) \in Nat
         /\ Cardinality(s \ {x}) = Cardinality(s) - 1 /\ x \notin s \ {x}
  BY FS_RemoveElement, FS_CardinalityType

\* Such an F exists, by induction over the size of the subsets.
LEMMA SumDefined ==
  ASSUME NEW g, NEW S, IsFiniteSet(S)
  PROVE  \E F : Summed(g, S, F)
  <1> DEFINE Upto(m) == {s \in SUBSET S : Cardinality(s) <= m}
             Good(F, m) == F = [s \in Upto(m) |-> IF s = {} THEN 0
                                                  ELSE F[s \ {Pick(s)}] + g[Pick(s)]]
             Defined == {m \in Nat : \E F : Good(F, m)}
  <1>0. \A s \in SUBSET S : IsFiniteSet(s) /\ Cardinality(s) \in Nat
    BY FS_Subset, FS_CardinalityType
  <1>1. 0 \in Defined
    <2>1. \A s \in Upto(0) : s = {}
      BY <1>0, FS_EmptySet
    <2> DEFINE F == [s \in Upto(0) |-> 0]
    <2>2. Good(F, 0)
      BY <2>1
    <2> QED BY <2>2
  <1>2. ASSUME NEW m \in Defined PROVE m + 1 \in Defined
    <2>1. PICK F : Good(F, m)
      BY <1>2
    <2> DEFINE G == [s \in Upto(m + 1) |->
                       IF s \in Upto(m) THEN F[s]
                       ELSE IF s = {} THEN 0 ELSE F[s \ {Pick(s)}] + g[Pick(s)]]
    <2>2. m \in Nat /\ m + 1 \in Nat
      BY <1>2
    <2>3. ASSUME NEW s \in Upto(m + 1), s # {} PROVE s \ {Pick(s)} \in Upto(m) /\ s \ {Pick(s)} \in Upto(m + 1)
      BY <1>0, <2>2, <2>3, PickIn, SmallerBy
    <2>4. \A s \in Upto(m) : s \in Upto(m + 1)
      BY <1>0, <2>2
    <2> HIDE DEF Upto
    <2>10. \A s \in Upto(m) : F[s] = IF s = {} THEN 0 ELSE F[s \ {Pick(s)}] + g[Pick(s)]
      BY <2>1
    <2>5. \A s \in Upto(m + 1) : G[s] = IF s = {} THEN 0 ELSE F[s \ {Pick(s)}] + g[Pick(s)]
      BY <2>4, <2>10
    <2>6. \A s \in Upto(m) : G[s] = F[s]
      BY <2>4
    <2>7. \A s \in Upto(m + 1) : G[s] = IF s = {} THEN 0 ELSE G[s \ {Pick(s)}] + g[Pick(s)]
      BY <2>3, <2>5, <2>6
    <2>8. G = [s \in Upto(m + 1) |-> G[s]]
      OBVIOUS
    <2> HIDE DEF G
    <2>9. Good(G, m + 1)
      BY <2>7, <2>8
    <2> QED BY <2>2, <2>9
  <1> HIDE DEF Defined
  <1>3. Defined = Nat
    <2>1. Defined \in SUBSET Nat
      BY DEF Defined
    <2> QED BY <1>1, <1>2, <2>1, NatSetInduction
  <1> DEFINE n == Cardinality(S)
  <1>4. n \in Nat
    BY FS_CardinalityType
  <1>5. PICK F : Good(F, n)
    BY <1>3, <1>4 DEF Defined
  <1>6. Upto(n) = SUBSET S
    <2>1. \A s \in SUBSET S : Cardinality(s) <= n
      BY FS_Subset
    <2> QED BY <2>1
  <1> QED BY <1>5, <1>6 DEF Summed

\* Sums of functions that agree, over whatever they are computed.
LEMMA SumUnique ==
  ASSUME NEW g, NEW S, NEW F, Summed(g, S, F),
         NEW h, NEW T, NEW G, Summed(h, T, G),
         NEW U \in SUBSET (S \cap T), IsFiniteSet(U), \A x \in U : g[x] = h[x]
  PROVE  F[U] = G[U]
  <1> DEFINE Equal == {m \in Nat : \A s \in SUBSET U : Cardinality(s) = m => F[s] = G[s]}
  <1>0. \A s \in SUBSET U : IsFiniteSet(s) /\ Cardinality(s) \in Nat
    BY FS_Subset, FS_CardinalityType
  <1>1. \A s \in SUBSET U :
          /\ F[s] = IF s = {} THEN 0 ELSE F[s \ {Pick(s)}] + g[Pick(s)]
          /\ G[s] = IF s = {} THEN 0 ELSE G[s \ {Pick(s)}] + h[Pick(s)]
    <2> SUFFICES ASSUME NEW s \in SUBSET U
                 PROVE  /\ F[s] = IF s = {} THEN 0 ELSE F[s \ {Pick(s)}] + g[Pick(s)]
                        /\ G[s] = IF s = {} THEN 0 ELSE G[s \ {Pick(s)}] + h[Pick(s)]
      OBVIOUS
    <2>1. s \in SUBSET S /\ s \in SUBSET T
      OBVIOUS
    <2>2. F[s] = IF s = {} THEN 0 ELSE F[s \ {Pick(s)}] + g[Pick(s)]
      BY <2>1 DEF Summed
    <2>3. G[s] = IF s = {} THEN 0 ELSE G[s \ {Pick(s)}] + h[Pick(s)]
      BY <2>1 DEF Summed
    <2> QED BY <2>2, <2>3
  <1>2. 0 \in Equal
    BY <1>0, <1>1, FS_EmptySet
  <1>3. ASSUME NEW m \in Equal PROVE m + 1 \in Equal
    <2> SUFFICES ASSUME NEW s \in SUBSET U, Cardinality(s) = m + 1 PROVE F[s] = G[s]
      BY <1>3
    <2>1. s # {}
      BY <1>3, FS_EmptySet
    <2>2. Pick(s) \in s /\ Pick(s) \in U /\ g[Pick(s)] = h[Pick(s)]
      BY <2>1, PickIn
    <2>3. s \ {Pick(s)} \in SUBSET U /\ Cardinality(s \ {Pick(s)}) = m
      BY <1>0, <1>3, <2>2, SmallerBy
    <2>4. F[s \ {Pick(s)}] = G[s \ {Pick(s)}]
      BY <1>3, <2>3
    <2> QED BY <1>1, <2>1, <2>2, <2>4
  <1> HIDE DEF Equal
  <1>4. Equal = Nat
    <2>1. Equal \in SUBSET Nat
      BY DEF Equal
    <2> QED BY <1>2, <1>3, <2>1, NatSetInduction
  <1> QED BY <1>0, <1>4 DEF Equal

LEMMA SumIs ==
  ASSUME NEW g, NEW S, IsFiniteSet(S)
  PROVE  Summed(g, S, CHOOSE F : Summed(g, S, F))
  BY SumDefined

\* A sum depends on its terms only.
LEMMA SumSame ==
  ASSUME NEW S, IsFiniteSet(S), NEW g, NEW h, \A x \in S : g[x] = h[x]
  PROVE  Sum(g, S) = Sum(h, S)
  <1> DEFINE F == CHOOSE F : Summed(g, S, F)
             G == CHOOSE G : Summed(h, S, G)
  <1>1. Summed(g, S, F) /\ Summed(h, S, G)
    BY SumIs
  <1>2. Sum(g, S) = F[S] /\ Sum(h, S) = G[S]
    BY DEF Sum
  <1> HIDE DEF F, G
  <1>3. F[S] = G[S]
    BY <1>1, SumUnique
  <1> QED BY <1>2, <1>3

LEMMA SumEmpty == ASSUME NEW g PROVE Sum(g, {}) = 0
  <1> DEFINE F == CHOOSE F : Summed(g, {}, F)
  <1>1. Summed(g, {}, F)
    BY SumIs, FS_EmptySet
  <1>2. Sum(g, {}) = F[{}]
    BY DEF Sum
  <1> HIDE DEF F
  <1> QED BY <1>1, <1>2 DEF Summed

\* A sum leaves its first term to the rest.
LEMMA SumPicks ==
  ASSUME NEW g, NEW S, IsFiniteSet(S), S # {}
  PROVE  Sum(g, S) = Sum(g, S \ {Pick(S)}) + g[Pick(S)]
  <1> DEFINE R == S \ {Pick(S)}
             F == CHOOSE F : Summed(g, S, F)
             G == CHOOSE G : Summed(g, R, G)
  <1>0. IsFiniteSet(R)
    BY FS_Subset
  <1>1. Summed(g, S, F) /\ Summed(g, R, G)
    BY <1>0, SumIs
  <1>2. Sum(g, S) = F[S] /\ Sum(g, R) = G[R]
    BY DEF Sum
  <1> HIDE DEF F, G
  <1>3. F[R] = G[R]
    BY <1>0, <1>1, SumUnique
  <1>4. F[S] = F[R] + g[Pick(S)]
    BY <1>1 DEF Summed
  <1> QED BY <1>2, <1>3, <1>4

\* The order of the terms does not matter.
LEMMA SumRemoves ==
  ASSUME NEW g, NEW S, IsFiniteSet(S), \A x \in S : g[x] \in Int
  PROVE  Sum(g, S) \in Int /\ \A y \in S : Sum(g, S) = Sum(g, S \ {y}) + g[y]
  <1> DEFINE Good(s) == Sum(g, s) \in Int /\ \A y \in s : Sum(g, s) = Sum(g, s \ {y}) + g[y]
             Small == {m \in Nat : \A s \in SUBSET S : Cardinality(s) <= m => Good(s)}
  <1>0. \A s \in SUBSET S : IsFiniteSet(s) /\ Cardinality(s) \in Nat
    BY FS_Subset, FS_CardinalityType
  <1>1. 0 \in Small
    <2> SUFFICES ASSUME NEW s \in SUBSET S, Cardinality(s) <= 0 PROVE Good(s)
      OBVIOUS
    <2>1. s = {}
      BY <1>0, FS_EmptySet
    <2> QED BY <2>1, SumEmpty
  <1>2. ASSUME NEW m \in Small PROVE m + 1 \in Small
    <2> SUFFICES ASSUME NEW s \in SUBSET S, Cardinality(s) <= m + 1 PROVE Good(s)
      BY <1>2
    <2>0. m \in Nat /\ \A r \in SUBSET S : Cardinality(r) <= m => Good(r)
      BY <1>2
    <2>1. CASE s = {}
      BY <2>1, SumEmpty
    <2>2. CASE s # {}
      <3>1. PICK x \in s : x = Pick(s)
        BY <2>2, PickIn
      <3> DEFINE r == s \ {x}
      <3>2. Cardinality(s) \in Nat /\ Cardinality(r) = Cardinality(s) - 1
        BY <1>0, SmallerBy
      <3>3. r \in SUBSET S /\ Cardinality(r) <= m /\ g[x] \in Int
        BY <2>0, <3>2
      <3>4. Good(r)
        BY <2>0, <3>3
      <3>5. Sum(g, s) = Sum(g, r) + g[x]
        BY <1>0, <2>2, <3>1, SumPicks
      <3>6. Sum(g, s) \in Int
        BY <3>3, <3>4, <3>5
      <3>7. ASSUME NEW y \in s, y # x PROVE Sum(g, s) = Sum(g, s \ {y}) + g[y]
        <4> DEFINE t == s \ {y}
                   u == r \ {y}
        <4>1. Cardinality(t) = Cardinality(s) - 1
          BY <1>0, SmallerBy
        <4>2. t \in SUBSET S /\ Cardinality(t) <= m /\ x \in t /\ t \ {x} = u /\ y \in r /\ g[y] \in Int
          BY <2>0, <3>2, <3>7, <4>1
        <4>3. IsFiniteSet(r) /\ Cardinality(r) \in Nat /\ Cardinality(u) = Cardinality(r) - 1
          BY <1>0, <3>3, <4>2, SmallerBy
        <4>4. u \in SUBSET S /\ Cardinality(u) <= m
          BY <2>0, <3>3, <4>3
        <4>5. Good(t) /\ Good(u)
          BY <2>0, <4>2, <4>4
        <4>6. Sum(g, t) = Sum(g, u) + g[x]
          BY <4>2, <4>5
        <4>7. Sum(g, r) = Sum(g, u) + g[y]
          BY <3>4, <4>2
        <4> HIDE DEF r, t, u
        <4>8. Sum(g, s) = Sum(g, t) + g[y]
          BY <3>3, <3>5, <4>2, <4>5, <4>6, <4>7
        <4> QED BY <4>8 DEF t
      <3> QED BY <3>5, <3>6, <3>7
    <2> QED BY <2>1, <2>2
  <1> HIDE DEF Small
  <1>3. Small = Nat
    <2>1. Small \in SUBSET Nat
      BY DEF Small
    <2> QED BY <1>1, <1>2, <2>1, NatSetInduction
  <1>4. Good(S)
    <2>1. Cardinality(S) \in Small /\ Cardinality(S) <= Cardinality(S)
      BY <1>0, <1>3
    <2> QED BY <2>1 DEF Small
  <1> QED BY <1>4

\* One more element adds its term.
LEMMA SumAdds ==
  ASSUME NEW g, NEW S, IsFiniteSet(S), NEW y, y \notin S, \A x \in S \cup {y} : g[x] \in Int
  PROVE  Sum(g, S) \in Int /\ Sum(g, S \cup {y}) = Sum(g, S) + g[y]
  <1> DEFINE T == S \cup {y}
  <1>1. IsFiniteSet(T) /\ T \ {y} = S
    BY FS_AddElement
  <1>2. Sum(g, T) = Sum(g, T \ {y}) + g[y]
    BY <1>1, SumRemoves
  <1> QED BY <1>1, <1>2, SumRemoves

\* Sums over disjoint sets add up.
LEMMA SumJoins ==
  ASSUME NEW g, NEW S, NEW T, IsFiniteSet(S), IsFiniteSet(T), S \cap T = {},
         \A x \in S \cup T : g[x] \in Int
  PROVE  Sum(g, S \cup T) = Sum(g, S) + Sum(g, T)
  <1> DEFINE Good(t) == Sum(g, S \cup t) = Sum(g, S) + Sum(g, t)
             Small == {m \in Nat : \A t \in SUBSET T : Cardinality(t) <= m => Good(t)}
  <1>0. \A t \in SUBSET T : IsFiniteSet(t) /\ Cardinality(t) \in Nat /\ IsFiniteSet(S \cup t)
    BY FS_Subset, FS_CardinalityType, FS_Union
  <1>1. Sum(g, S) \in Int
    BY SumRemoves
  <1>2. 0 \in Small
    <2> SUFFICES ASSUME NEW t \in SUBSET T, Cardinality(t) <= 0 PROVE Good(t)
      OBVIOUS
    <2>0. IsFiniteSet(t) /\ Cardinality(t) = 0
      <3>1. IsFiniteSet(t)
        BY FS_Subset
      <3> QED BY <3>1, FS_CardinalityType
    <2>1. t = {} /\ S \cup t = S
      BY <2>0, FS_EmptySet
    <2>2. Sum(g, t) = 0
      BY <2>1, SumEmpty
    <2> QED BY <1>1, <2>1, <2>2
  <1>3. ASSUME NEW m \in Small PROVE m + 1 \in Small
    <2> SUFFICES ASSUME NEW t \in SUBSET T, Cardinality(t) <= m + 1 PROVE Good(t)
      BY <1>3
    <2>0. m \in Nat /\ \A r \in SUBSET T : Cardinality(r) <= m => Good(r)
      BY <1>3
    <2>1. CASE t = {}
      <3>1. S \cup t = S /\ Sum(g, t) = 0
        BY <2>1, SumEmpty
      <3> QED BY <1>1, <3>1
    <2>2. CASE t # {}
      <3>1. PICK y \in t : TRUE
        BY <2>2
      <3> DEFINE r == t \ {y}
      <3>2. Cardinality(t) \in Nat /\ Cardinality(r) = Cardinality(t) - 1 /\ IsFiniteSet(r)
        BY <1>0, SmallerBy
      <3>3. r \in SUBSET T /\ Cardinality(r) <= m /\ g[y] \in Int /\ y \notin S /\ y \notin r
        BY <2>0, <3>2
      <3>4. Good(r)
        BY <2>0, <3>3
      <3>5. r \cup {y} = t /\ (S \cup r) \cup {y} = S \cup t /\ y \notin S \cup r
        BY <3>3
      <3>6. Sum(g, r) \in Int /\ Sum(g, t) = Sum(g, r) + g[y]
        <4>1. \A x \in r \cup {y} : g[x] \in Int
          BY <3>3
        <4>2. Sum(g, r \cup {y}) = Sum(g, r) + g[y] /\ Sum(g, r) \in Int
          BY <3>2, <3>3, <4>1, SumAdds
        <4> QED BY <3>5, <4>2
      <3>7. Sum(g, S \cup t) = Sum(g, S \cup r) + g[y]
        <4>1. \A x \in (S \cup r) \cup {y} : g[x] \in Int
          BY <3>3
        <4>2. IsFiniteSet(S \cup r)
          BY <1>0, <3>3
        <4>3. Sum(g, (S \cup r) \cup {y}) = Sum(g, S \cup r) + g[y]
          BY <3>5, <4>1, <4>2, SumAdds
        <4> QED BY <3>5, <4>3
      <3> HIDE DEF r
      <3> QED BY <1>1, <3>3, <3>4, <3>6, <3>7
    <2> QED BY <2>1, <2>2
  <1> HIDE DEF Small
  <1>4. Small = Nat
    <2>1. Small \in SUBSET Nat
      BY DEF Small
    <2> QED BY <1>2, <1>3, <2>1, NatSetInduction
  <1>5. Good(T)
    <2>1. Cardinality(T) \in Small /\ Cardinality(T) <= Cardinality(T)
      BY <1>4, FS_CardinalityType
    <2> QED BY <2>1 DEF Small
  <1> QED BY <1>5

(***************************************************************************)
(* Point reads: no moment is lost or read twice                            *)
(***************************************************************************)
ReadWindows == [of : Elements(ReadResources), from : Nat, to : Nat]

OutTiles  == {[of |-> o.of, from |-> o.from, to |-> o.to] : o \in outcome}
ReadTiles == Elements(todo) \cup OutTiles

\* A tile lies within its resource and has a moment unless the resource has one.
TileOK(w) ==
  /\ w \in ReadWindows /\ w.from <= w.to /\ w.to <= Reads!Cap(w.of)
  /\ Reads!Cap(w.of) # 0 => w.from < w.to

TilesApart(v, w) == v.of # w.of \/ v.to <= w.from \/ w.to <= v.from

\* The tiles of every resource lead from 0 to its cap.
Tiling(T) ==
  /\ \A w \in T : TileOK(w)
  /\ \A v, w \in T : v # w => TilesApart(v, w)
  /\ \A r \in Elements(ReadResources) : Reads!Cap(r) >= 0 => \E w \in T : w.of = r /\ w.from = 0
  /\ \A w \in T : w.to = Reads!Cap(w.of) \/ \E v \in T : v.of = w.of /\ v.from = w.to
  /\ \A w \in T : w.from = 0 \/ \E v \in T : v.of = w.of /\ v.to = w.from

\* What is still to be read and what was told of tile every window.
ReadsInv ==
  /\ source \in ReadSources
  /\ todo \in Seq(ReadWindows)
  /\ Distinct(todo) /\ Elements(todo) \cap OutTiles = {}
  /\ Tiling(ReadTiles)

LEMMA CapInt ==
  ASSUME source \in ReadSources, NEW r
  PROVE  Reads!Cap(r) \in Int
  BY ReadsAssumption DEF Reads!Cap, Reads!Least

\* Halving a tile keeps the tiling.
LEMMA HalvesTile ==
  ASSUME source \in ReadSources, NEW T, Tiling(T), NEW w \in T, w.to - w.from > ReadDay,
         NEW U, U = (T \ {w}) \cup {[w EXCEPT !.to = Reads!Middle(w)], [w EXCEPT !.from = Reads!Middle(w)]}
  PROVE  Tiling(U)
  <1> DEFINE m == Reads!Middle(w)
             a == [w EXCEPT !.to = m]
             b == [w EXCEPT !.from = m]
  <1>1. TileOK(w) /\ ReadDay \in Nat \ {0}
    BY ReadsAssumption DEF Tiling
  <1>2. /\ w.of \in Elements(ReadResources) /\ w.from \in Nat /\ w.to \in Nat
        /\ w = [of |-> w.of, from |-> w.from, to |-> w.to]
    BY <1>1 DEF TileOK, ReadWindows
  <1>3. m \in Nat /\ w.from < m /\ m < w.to
    BY <1>1, <1>2 DEF Reads!Middle
  <1> HIDE DEF m
  <1>4. /\ a.of = w.of /\ a.from = w.from /\ a.to = m
        /\ b.of = w.of /\ b.from = m /\ b.to = w.to
        /\ a \in ReadWindows /\ b \in ReadWindows
    BY <1>2, <1>3 DEF ReadWindows
  <1>5. U = (T \ {w}) \cup {a, b}
    BY DEF m
  <1> HIDE DEF a, b
  <1>6. Reads!Cap(w.of) \in Int
    BY CapInt
  <1>7. TileOK(a) /\ TileOK(b)
    BY <1>1, <1>2, <1>3, <1>4, <1>6 DEF TileOK
  <1>8. ASSUME NEW v \in T \ {w} PROVE TilesApart(v, a) /\ TilesApart(v, b) /\ TilesApart(a, v) /\ TilesApart(b, v)
    <2>1. TilesApart(v, w) /\ v.from \in Nat /\ v.to \in Nat
      BY DEF Tiling, TileOK, ReadWindows
    <2> QED BY <1>2, <1>3, <1>4, <2>1 DEF TilesApart
  <1>9. TilesApart(a, b) /\ TilesApart(b, a)
    BY <1>2, <1>3, <1>4 DEF TilesApart
  <1>10. \A v, x \in U : v # x => TilesApart(v, x)
    BY <1>5, <1>8, <1>9 DEF Tiling
  <1>11. \A r \in Elements(ReadResources) : Reads!Cap(r) >= 0 => \E x \in U : x.of = r /\ x.from = 0
    BY <1>4, <1>5 DEF Tiling
  <1>12. \A x \in U : x.to = Reads!Cap(x.of) \/ \E v \in U : v.of = x.of /\ v.from = x.to
    BY <1>4, <1>5 DEF Tiling
  <1>13. \A x \in U : x.from = 0 \/ \E v \in U : v.of = x.of /\ v.to = x.from
    BY <1>4, <1>5 DEF Tiling
  <1>14. \A x \in U : TileOK(x)
    BY <1>5, <1>7 DEF Tiling
  <1> QED BY <1>10, <1>11, <1>12, <1>13, <1>14 DEF Tiling

\* Where a tile ends the next one begins, or the resource ends.
LEMMA TilingCovers ==
  ASSUME source \in ReadSources, NEW T, Tiling(T), NEW r \in Elements(ReadResources), Reads!Cap(r) >= 0,
         NEW p, p = 0 \/ \E w \in T : w.of = r /\ w.to = p
  PROVE  p = Reads!Cap(r) \/ \E w \in T : w.of = r /\ w.from = p /\ \A v \in T : v.of = r /\ v.from = p => v = w
  <1> SUFFICES ASSUME p # Reads!Cap(r)
               PROVE  \E w \in T : w.of = r /\ w.from = p /\ \A v \in T : v.of = r /\ v.from = p => v = w
    OBVIOUS
  <1>1. PICK w \in T : w.of = r /\ w.from = p
    BY DEF Tiling
  <1>2. Reads!Cap(r) # 0
    <2> SUFFICES ASSUME Reads!Cap(r) = 0 PROVE FALSE
      OBVIOUS
    <2>1. TileOK(w)
      BY DEF Tiling
    <2> QED BY <1>1, <2>1 DEF TileOK, ReadWindows
  <1>3. \A v \in T : TileOK(v) /\ (v # w => TilesApart(v, w))
    BY DEF Tiling
  <1>4. ASSUME NEW v \in T, v.of = r, v.from = p, v # w PROVE FALSE
    <2>1. TileOK(v) /\ TileOK(w) /\ TilesApart(v, w)
      BY <1>3, <1>4
    <2> QED BY <1>1, <1>2, <1>4, <2>1 DEF TileOK, TilesApart, ReadWindows
  <1> QED BY <1>1, <1>4

\* A tiling accounts for every moment.
LEMMA ReadsInvAccounted == ReadsInv => Reads!Accounted
  <1> SUFFICES ASSUME ReadsInv, NEW i \in DOMAIN ReadResources, Reads!Cap(ReadResources[i]) >= 0
               PROVE  LET r == ReadResources[i]
                          tiles == {[from |-> w.from, to |-> w.to] :
                                     w \in {w \in outcome \cup Reads!Range(todo) : w.of = r}}
                      IN  /\ \A p \in {0} \cup {w.to : w \in tiles} :
                               p = Reads!Cap(r) \/ Reads!Cardinality({w \in tiles : w.from = p}) = 1
                          /\ \A w \in tiles : w.from = 0 \/ \E v \in tiles : v.to = w.from
    <2>1. Reads!Order = DOMAIN ReadResources
      BY ReadsAssumption DEF Reads!Order
    <2> QED BY <2>1 DEF Reads!Accounted
  <1> DEFINE r == ReadResources[i]
             tiles == {[from |-> w.from, to |-> w.to] : w \in {w \in outcome \cup Reads!Range(todo) : w.of = r}}
             T == ReadTiles
  <1>1. r \in Elements(ReadResources)
    BY DEF Elements
  <1>2. \A t : t \in tiles <=> \E w \in T : w.of = r /\ t = [from |-> w.from, to |-> w.to]
    <2>1. Reads!Range(todo) = Elements(todo)
      BY DEF Reads!Range, Elements
    <2>2. ASSUME NEW t \in tiles PROVE \E w \in T : w.of = r /\ t = [from |-> w.from, to |-> w.to]
      <3>1. PICK w \in outcome \cup Elements(todo) : w.of = r /\ t = [from |-> w.from, to |-> w.to]
        BY <2>1
      <3>2. CASE w \in Elements(todo)
        BY <3>1, <3>2 DEF ReadTiles
      <3>3. CASE w \in outcome
        <4> DEFINE o == [of |-> w.of, from |-> w.from, to |-> w.to]
        <4>1. o \in T
          BY <3>3 DEF ReadTiles, OutTiles
        <4>2. o.of = r /\ t = [from |-> o.from, to |-> o.to]
          BY <3>1
        <4> QED BY <4>1, <4>2
      <3> QED BY <3>2, <3>3
    <2>3. ASSUME NEW w \in T, w.of = r PROVE [from |-> w.from, to |-> w.to] \in tiles
      <3>1. CASE w \in Elements(todo)
        BY <2>1, <2>3, <3>1
      <3>2. CASE w \in OutTiles
        <4>1. PICK o \in outcome : w = [of |-> o.of, from |-> o.from, to |-> o.to]
          BY <3>2 DEF OutTiles
        <4>2. o.of = r /\ w.from = o.from /\ w.to = o.to
          BY <2>3, <4>1
        <4> QED BY <4>2
      <3> QED BY <3>1, <3>2 DEF ReadTiles
    <2> HIDE DEF tiles, T
    <2> QED BY <2>2, <2>3
  <1>3. source \in ReadSources /\ Tiling(T)
    BY DEF ReadsInv
  <1> HIDE DEF tiles, T
  <1>4. ASSUME NEW p \in {0} \cup {w.to : w \in tiles}, p # Reads!Cap(r)
        PROVE  Reads!Cardinality({w \in tiles : w.from = p}) = 1
    <2>1. p = 0 \/ \E w \in T : w.of = r /\ w.to = p
      BY <1>2
    <2>2. PICK w \in T : w.of = r /\ w.from = p /\ \A v \in T : v.of = r /\ v.from = p => v = w
      BY <1>1, <1>3, <1>4, <2>1, TilingCovers
    <2>3. {x \in tiles : x.from = p} = {[from |-> w.from, to |-> w.to]}
      BY <1>2, <2>2
    <2>4. Cardinality({x \in tiles : x.from = p}) = 1
      BY <2>3, FS_Singleton
    <2> QED BY <2>4 DEF Reads!Cardinality, Cardinality
  <1>5. ASSUME NEW t \in tiles, t.from # 0 PROVE \E v \in tiles : v.to = t.from
    <2>1. PICK w \in T : w.of = r /\ t = [from |-> w.from, to |-> w.to]
      BY <1>2
    <2>2. PICK v \in T : v.of = w.of /\ v.to = w.from
      BY <1>3, <1>5, <2>1 DEF Tiling
    <2>3. [from |-> v.from, to |-> v.to] \in tiles
      BY <1>2, <2>1, <2>2
    <2> QED BY <2>1, <2>2, <2>3
  <1> QED BY <1>4, <1>5 DEF tiles

LEMMA ConcatElements ==
  ASSUME NEW S, NEW p \in Seq(S), NEW q \in Seq(S)
  PROVE  /\ p \o q \in Seq(S)
         /\ Elements(p \o q) = Elements(p) \cup Elements(q)
         /\ Distinct(p) /\ Distinct(q) /\ Elements(p) \cap Elements(q) = {} => Distinct(p \o q)
  <1> DEFINE c == p \o q
  <1>1. /\ c \in Seq(S) /\ Len(c) = Len(p) + Len(q) /\ Len(p) \in Nat /\ Len(q) \in Nat
        /\ \A i \in 1..(Len(p) + Len(q)) : c[i] = IF i <= Len(p) THEN p[i] ELSE q[i - Len(p)]
    OBVIOUS
  <1>2. DOMAIN p = 1..Len(p) /\ DOMAIN q = 1..Len(q) /\ DOMAIN c = 1..(Len(p) + Len(q))
    BY <1>1
  <1> HIDE DEF c
  <1>3. \A i \in 1..Len(p) : i \in DOMAIN c /\ c[i] = p[i]
    BY <1>1, <1>2
  <1>4. \A i \in 1..Len(q) : Len(p) + i \in DOMAIN c /\ c[Len(p) + i] = q[i]
    BY <1>1, <1>2
  <1>5. \A i \in DOMAIN c : i \in 1..Len(p) \/ (i - Len(p) \in 1..Len(q) /\ i = Len(p) + (i - Len(p)))
    BY <1>1, <1>2
  <1>6. Elements(c) = Elements(p) \cup Elements(q)
    <2>1. ASSUME NEW x \in Elements(c) PROVE x \in Elements(p) \cup Elements(q)
      <3>1. PICK i \in DOMAIN c : x = c[i]
        BY DEF Elements
      <3>2. CASE i \in 1..Len(p)
        BY <1>2, <1>3, <3>1, <3>2 DEF Elements
      <3>3. CASE i - Len(p) \in 1..Len(q) /\ i = Len(p) + (i - Len(p))
        BY <1>2, <1>4, <3>1, <3>3 DEF Elements
      <3> QED BY <1>5, <3>2, <3>3
    <2>2. ASSUME NEW x \in Elements(p) PROVE x \in Elements(c)
      BY <1>2, <1>3 DEF Elements
    <2>3. ASSUME NEW x \in Elements(q) PROVE x \in Elements(c)
      BY <1>2, <1>4 DEF Elements
    <2> QED BY <2>1, <2>2, <2>3
  <1>7. ASSUME Distinct(p), Distinct(q), Elements(p) \cap Elements(q) = {} PROVE Distinct(c)
    <2> SUFFICES ASSUME NEW i \in DOMAIN c, NEW k \in DOMAIN c, c[i] = c[k], i # k PROVE FALSE
      BY DEF Distinct
    <2>1. CASE i \in 1..Len(p) /\ k \in 1..Len(p)
      BY <1>2, <1>3, <1>7, <2>1 DEF Distinct
    <2>2. CASE i \in 1..Len(p) /\ k - Len(p) \in 1..Len(q) /\ k = Len(p) + (k - Len(p))
      <3>1. c[i] = p[i] /\ c[k] = q[k - Len(p)]
        BY <1>3, <1>4, <2>2
      <3>2. c[i] \in Elements(p) /\ c[k] \in Elements(q)
        BY <1>2, <2>2, <3>1 DEF Elements
      <3> QED BY <1>7, <3>2
    <2>3. CASE k \in 1..Len(p) /\ i - Len(p) \in 1..Len(q) /\ i = Len(p) + (i - Len(p))
      <3>1. c[k] = p[k] /\ c[i] = q[i - Len(p)]
        BY <1>3, <1>4, <2>3
      <3>2. c[k] \in Elements(p) /\ c[i] \in Elements(q)
        BY <1>2, <2>3, <3>1 DEF Elements
      <3> QED BY <1>7, <3>2
    <2>4. CASE /\ i - Len(p) \in 1..Len(q) /\ i = Len(p) + (i - Len(p))
               /\ k - Len(p) \in 1..Len(q) /\ k = Len(p) + (k - Len(p))
      <3>1. c[k] = q[k - Len(p)] /\ c[i] = q[i - Len(p)]
        BY <1>4, <2>4
      <3>2. k - Len(p) = i - Len(p)
        BY <1>2, <1>7, <2>4, <3>1 DEF Distinct
      <3> QED BY <2>4, <3>2
    <2> QED BY <1>5, <2>1, <2>2, <2>3, <2>4
  <1> QED BY <1>1, <1>6, <1>7 DEF c

LEMMA TailElements ==
  ASSUME NEW S, NEW q \in Seq(S), q # <<>>
  PROVE  /\ Head(q) \in Elements(q) /\ Head(q) \in S /\ Tail(q) \in Seq(S)
         /\ Distinct(q) => Distinct(Tail(q)) /\ Elements(Tail(q)) = Elements(q) \ {Head(q)}
  <1> DEFINE t == Tail(q)
  <1>1. /\ DOMAIN q = 1..Len(q) /\ Len(q) \in Nat /\ Len(q) >= 1 /\ Head(q) = q[1]
        /\ t \in Seq(S) /\ DOMAIN t = 1..(Len(q) - 1)
        /\ \A i \in 1..(Len(q) - 1) : t[i] = q[i + 1]
    OBVIOUS
  <1> HIDE DEF t
  <1>2. Head(q) \in Elements(q) /\ Head(q) \in S
    BY <1>1 DEF Elements
  <1>3. ASSUME Distinct(q) PROVE Distinct(t) /\ Elements(t) = Elements(q) \ {Head(q)}
    <2>1. Distinct(t)
      <3> SUFFICES ASSUME NEW i \in DOMAIN t, NEW k \in DOMAIN t, t[i] = t[k] PROVE i = k
        BY DEF Distinct
      <3>1. i + 1 \in DOMAIN q /\ k + 1 \in DOMAIN q /\ q[i + 1] = q[k + 1] /\ i \in Int /\ k \in Int
        BY <1>1
      <3>2. i + 1 = k + 1
        BY <1>3, <3>1 DEF Distinct
      <3> QED BY <3>1, <3>2
    <2>2. ASSUME NEW x \in Elements(t) PROVE x \in Elements(q) /\ x # Head(q)
      <3>1. PICK i \in DOMAIN t : x = t[i]
        BY DEF Elements
      <3>2. i + 1 \in DOMAIN q /\ x = q[i + 1] /\ i + 1 # 1 /\ 1 \in DOMAIN q
        BY <1>1, <3>1
      <3> QED BY <1>1, <1>3, <3>2 DEF Elements, Distinct
    <2>3. ASSUME NEW x \in Elements(q), x # Head(q) PROVE x \in Elements(t)
      <3>1. PICK i \in DOMAIN q : x = q[i]
        BY DEF Elements
      <3>2. i # 1
        BY <1>1, <2>3, <3>1
      <3>3. i - 1 \in DOMAIN t /\ t[i - 1] = q[(i - 1) + 1] /\ (i - 1) + 1 = i
        BY <1>1, <3>2
      <3> QED BY <3>1, <3>3 DEF Elements
    <2> QED BY <2>1, <2>2, <2>3
  <1> QED BY <1>1, <1>2, <1>3 DEF t

----------------------------------------------------------------------------
\* The windows of one resource, in terms of its width and cap.
ReadRow(q, r) ==
  /\ q \in Seq(ReadWindows) /\ Distinct(q)
  /\ \A w \in Elements(q) : TileOK(w) /\ w.of = r
  /\ \A v, w \in Elements(q) : v # w => TilesApart(v, w)
  /\ Reads!Cap(r) >= 0 => \E w \in Elements(q) : w.from = 0
  /\ \A w \in Elements(q) : w.to = Reads!Cap(r) \/ \E v \in Elements(q) : v.from = w.to
  /\ \A w \in Elements(q) : w.from = 0 \/ \E v \in Elements(q) : v.to = w.from

LEMMA DivBounds ==
  ASSUME NEW a \in Nat, NEW b \in Nat \ {0}
  PROVE  a \div b \in Nat /\ (a \div b) * b <= a /\ a < (a \div b) * b + b
  OBVIOUS

LEMMA MultMonotone ==
  ASSUME NEW a \in Nat, NEW b \in Nat, NEW c \in Nat, a <= b
  PROVE  a * c <= b * c /\ a * c \in Nat
  OBVIOUS

\* _iter_windows lays the windows of a resource end to end.
LEMMA WindowsRow ==
  ASSUME source \in ReadSources, NEW r \in Elements(ReadResources)
  PROVE  ReadRow(Reads!Windows(r), r)
  <1> DEFINE W == Reads!Width
             c == Reads!Cap(r)
             n == IF c < 0 THEN 0 ELSE IF c = 0 THEN 1 ELSE (c + W - 1) \div W
             Lo(i) == (i - 1) * W
             Up(i) == Reads!Least(i * W, c)
             Win(i) == [of |-> r, from |-> Lo(i), to |-> Up(i)]
             q == Reads!Windows(r)
  <1>1. q = [i \in 1..n |-> Win(i)]
    BY DEF Reads!Windows
  <1>2. c \in Int
    BY CapInt
  <1>3. W \in Nat \ {0}
    <2>1. ReadDay \in Nat \ {0} /\ WindowDays \in Nat \ {0}
      BY ReadsAssumption
    <2> HIDE DEF W
    <2>2. W = WindowDays * ReadDay
      BY DEF W, Reads!Width
    <2> QED BY <2>1, <2>2
  <1> HIDE DEF W, c, q
  <1>4. n \in Nat
    <2>1. CASE c > 0
      BY <1>2, <1>3, <2>1, DivBounds
    <2> QED BY <1>2, <2>1
  \* The last window is the one that reaches the cap.
  <1>5. ASSUME c > 0 PROVE (n - 1) * W < c /\ c <= n * W /\ n >= 1
    <2>1. c + W - 1 \in Nat
      BY <1>2, <1>3, <1>5
    <2> DEFINE a == c + W - 1
               m == a \div W
    <2>2. m * W <= a /\ a < m * W + W /\ m \in Nat
      BY <1>3, <2>1, DivBounds
    <2>3. n = m
      BY <1>2, <1>5
    <2>4. (m - 1) * W = m * W - W /\ m * W \in Nat
      BY <1>3, <2>2
    <2> HIDE DEF m, n
    <2>5. (m - 1) * W < c /\ c <= m * W
      BY <1>2, <1>3, <2>2, <2>4
    <2>6. m # 0
      BY <1>2, <1>3, <1>5, <2>5
    <2> QED BY <2>2, <2>3, <2>5, <2>6
  <1> HIDE DEF n
  <1>6. c < 0 => n = 0
    BY DEF n
  <1>7. c = 0 => n = 1
    BY DEF n
  <1>8. ASSUME NEW i \in 1..n
        PROVE  /\ Lo(i) \in Nat /\ Lo(i) = i * W - W /\ i * W \in Nat
               /\ i < n => (i * W < c /\ Up(i) = i * W)
               /\ i = n => Up(i) = c
               /\ Up(i) \in Nat /\ Up(i) <= c /\ Lo(i) <= Up(i) /\ (c # 0 => Lo(i) < Up(i))
    <2>1. i \in Nat /\ i - 1 \in Nat /\ i <= n /\ c >= 0
      BY <1>2, <1>4, <1>6
    <2>2. Lo(i) \in Nat /\ i * W \in Nat /\ Lo(i) = i * W - W
      BY <1>3, <2>1
    <2>3. CASE c = 0
      <3>1. n = 1 /\ i = 1
        BY <1>7, <2>3
      <3> QED BY <1>3, <2>1, <2>2, <2>3, <3>1 DEF Reads!Least
    <2>4. CASE c # 0
      <3>1. c > 0 /\ (n - 1) * W < c /\ c <= n * W /\ n >= 1
        BY <1>2, <1>5, <2>1, <2>4
      <3>2. i < n => i * W <= (n - 1) * W
        <4> SUFFICES ASSUME i < n PROVE i * W <= (n - 1) * W
          OBVIOUS
        <4>1. n - 1 \in Nat /\ i <= n - 1
          BY <1>4, <2>1
        <4> QED BY <1>3, <2>1, <4>1, MultMonotone
      <3>3. (n - 1) * W \in Int /\ n * W \in Int
        BY <1>3, <1>4
      <3>4. i < n => i * W < c /\ Up(i) = i * W
        BY <1>2, <2>2, <3>1, <3>2, <3>3 DEF Reads!Least
      <3>5. i = n => Up(i) = c /\ Lo(i) < c
        BY <1>2, <2>2, <3>1, <3>3 DEF Reads!Least
      <3> QED BY <1>2, <1>3, <1>4, <2>1, <2>2, <3>1, <3>4, <3>5
    <2> QED BY <2>3, <2>4
  <1>9. ASSUME NEW i \in 1..n, NEW k \in 1..n, i < k PROVE Up(i) <= Lo(k)
    <2>1. i < n /\ Up(i) = i * W
      BY <1>4, <1>8, <1>9
    <2>2. i \in Nat /\ k - 1 \in Nat /\ i <= k - 1
      BY <1>9
    <2> QED BY <1>3, <2>1, <2>2, MultMonotone
  <1>10. ASSUME NEW i \in 1..n
         PROVE  i # 1 => i - 1 \in 1..n /\ Up(i - 1) = Lo(i)
    <2> SUFFICES ASSUME i # 1 PROVE i - 1 \in 1..n /\ Up(i - 1) = Lo(i)
      OBVIOUS
    <2>1. i - 1 \in 1..n /\ i - 1 < n
      BY <1>4
    <2> QED BY <1>8, <2>1
  <1> DEFINE Lows == [i \in 1..n |-> Lo(i)]
             Ups  == [i \in 1..n |-> Up(i)]
  <1>11. /\ \A i \in 1..n : /\ Lows[i] \in Nat /\ Ups[i] \in Nat /\ Ups[i] <= c /\ Lows[i] <= Ups[i]
                            /\ c # 0 => Lows[i] < Ups[i]
                            /\ i # 1 => i - 1 \in 1..n /\ Ups[i - 1] = Lows[i]
                            /\ i = n => Ups[i] = c
         /\ \A i, k \in 1..n : i < k => Ups[i] <= Lows[k]
         /\ n >= 1 => Lows[1] = 0
         /\ \A i \in 1..n : i < n => i + 1 \in 1..n /\ Lows[i + 1] = Ups[i]
    <2>1. \A i \in 1..n : /\ Lows[i] \in Nat /\ Ups[i] \in Nat /\ Ups[i] <= c /\ Lows[i] <= Ups[i]
                          /\ c # 0 => Lows[i] < Ups[i]
                          /\ i # 1 => i - 1 \in 1..n /\ Ups[i - 1] = Lows[i]
                          /\ i = n => Ups[i] = c
      BY <1>8, <1>10
    <2>2. \A i, k \in 1..n : i < k => Ups[i] <= Lows[k]
      BY <1>9
    <2>3. n >= 1 => Lows[1] = 0
      BY <1>3, <1>4
    <2>4. \A i \in 1..n : i < n => i + 1 \in 1..n /\ Lows[i + 1] = Ups[i]
      <3> SUFFICES ASSUME NEW i \in 1..n, i < n PROVE i + 1 \in 1..n /\ Lows[i + 1] = Ups[i]
        OBVIOUS
      <3>1. i + 1 \in 1..n /\ i + 1 # 1 /\ (i + 1) - 1 = i
        BY <1>4
      <3> HIDE DEF Lows, Ups
      <3>2. Ups[(i + 1) - 1] = Lows[i + 1]
        BY <2>1, <3>1
      <3> QED BY <3>1, <3>2
    <2> QED BY <2>1, <2>2, <2>3, <2>4
  <1>12. /\ q = [i \in 1..n |-> [of |-> r, from |-> Lows[i], to |-> Ups[i]]]
         /\ DOMAIN q = 1..n
         /\ \A i \in 1..n : q[i].of = r /\ q[i].from = Lows[i] /\ q[i].to = Ups[i] /\ q[i] \in ReadWindows
    <2>1. q = [i \in 1..n |-> [of |-> r, from |-> Lows[i], to |-> Ups[i]]]
      BY <1>1
    <2> HIDE DEF Lows, Ups
    <2> QED BY <1>11, <2>1 DEF ReadWindows
  <1> HIDE DEF Lows, Ups
  <1>13. q \in Seq(ReadWindows)
    BY <1>4, <1>12
  <1>14. \A w \in Elements(q) : \E i \in 1..n : w = q[i] /\ w.of = r /\ w.from = Lows[i] /\ w.to = Ups[i]
    BY <1>12 DEF Elements
  <1>15. \A i \in 1..n : q[i] \in Elements(q)
    BY <1>12 DEF Elements
  <1>16. Distinct(q)
    <2> SUFFICES ASSUME NEW i \in 1..n, NEW k \in 1..n, q[i] = q[k], i < k PROVE FALSE
      <3>1. \A i, k \in 1..n : i = k \/ i < k \/ k < i
        BY <1>4
      <3> QED BY <1>12, <3>1 DEF Distinct
    <2>1. Lows[i] = Lows[k] /\ Ups[i] <= Lows[k] /\ Ups[i] = Ups[k] /\ i \in Nat /\ k \in Nat
      BY <1>11, <1>12
    <2>2. c = 0
      BY <1>11, <2>1
    <2> QED BY <1>7, <2>1, <2>2
  <1>17. ASSUME NEW w \in Elements(q) PROVE TileOK(w) /\ w.of = r
    <2>1. PICK i \in 1..n : w = q[i] /\ w.of = r /\ w.from = Lows[i] /\ w.to = Ups[i]
      BY <1>14
    <2> QED BY <1>11, <1>12, <2>1 DEF TileOK, c
  <1>18. ASSUME NEW v \in Elements(q), NEW w \in Elements(q), v # w PROVE TilesApart(v, w)
    <2>1. PICK i \in 1..n : v = q[i] /\ v.of = r /\ v.from = Lows[i] /\ v.to = Ups[i]
      BY <1>14
    <2>2. PICK k \in 1..n : w = q[k] /\ w.of = r /\ w.from = Lows[k] /\ w.to = Ups[k]
      BY <1>14
    <2>3. i < k \/ k < i
      BY <1>4, <1>18, <2>1, <2>2
    <2> QED BY <1>11, <2>1, <2>2, <2>3 DEF TilesApart
  <1>19. c >= 0 => \E w \in Elements(q) : w.from = 0
    <2> SUFFICES ASSUME c >= 0 PROVE \E w \in Elements(q) : w.from = 0
      OBVIOUS
    <2>1. n >= 1
      BY <1>2, <1>5, <1>7
    <2>2. 1 \in 1..n
      BY <1>4, <2>1
    <2> QED BY <1>11, <1>12, <1>15, <2>1, <2>2
  <1>20. ASSUME NEW w \in Elements(q) PROVE w.to = c \/ \E v \in Elements(q) : v.from = w.to
    <2>1. PICK i \in 1..n : w = q[i] /\ w.from = Lows[i] /\ w.to = Ups[i]
      BY <1>14
    <2>2. i = n \/ i < n
      BY <1>4
    <2> QED BY <1>11, <1>12, <1>15, <2>1, <2>2
  <1>21. ASSUME NEW w \in Elements(q) PROVE w.from = 0 \/ \E v \in Elements(q) : v.to = w.from
    <2>1. PICK i \in 1..n : w = q[i] /\ w.from = Lows[i] /\ w.to = Ups[i]
      BY <1>14
    <2>2. i = 1 => n >= 1
      BY <1>4
    <2> QED BY <1>11, <1>12, <1>15, <2>1, <2>2
  <1> QED BY <1>13, <1>16, <1>17, <1>18, <1>19, <1>20, <1>21 DEF ReadRow, c, q

\* The first windows tile every resource.
LEMMA ReadsInvInit == Reads!Init => ReadsInv
  <1> SUFFICES ASSUME Reads!Init PROVE ReadsInv
    OBVIOUS
  <1> DEFINE n == Len(ReadResources)
             s == [i \in Reads!Order |-> Reads!Windows(ReadResources[i])]
  <1>1. /\ source \in ReadSources /\ todo = Reads!FlattenSeq(s) /\ outcome = {}
        /\ n \in Nat /\ DOMAIN ReadResources = 1..n /\ Reads!Order = 1..n
    BY ReadsAssumption DEF Reads!Init, Reads!Order
  <1>2. s \in Seq({Reads!Windows(ReadResources[i]) : i \in 1..n}) /\ Len(s) = n /\ DOMAIN s = 1..n
    BY <1>1
  <1>3. ASSUME NEW i \in 1..n PROVE s[i] = Reads!Windows(ReadResources[i]) /\ ReadRow(s[i], ReadResources[i])
    <2>1. ReadResources[i] \in Elements(ReadResources)
      BY <1>1 DEF Elements
    <2> QED BY <1>1, <2>1, WindowsRow
  <1>4. \A i, k \in 1..n : ReadResources[i] = ReadResources[k] => i = k
    BY <1>1, ReadsAssumption
  <1> HIDE DEF s, n
  \* The windows of the first k resources.
  <1> DEFINE Upto(k) == UNION {Elements(s[i]) : i \in 1..k}
             Good(p, k) == p \in Seq(ReadWindows) /\ Distinct(p) /\ Elements(p) = Upto(k)
  <1>5. Good(todo, n)
    <2>1. CASE n = 0
      <3>1. todo = s /\ s = <<>>
        BY <1>1, <1>2, <2>1 DEF Reads!FlattenSeq
      <3>2. 1..n = {}
        BY <2>1
      <3> QED BY <3>1, <3>2 DEF Elements, Distinct
    <2>2. CASE n # 0
      <3>1. PICK f : Joins(s, f) /\ Reads!FlattenSeq(s) = f[n]
        BY <1>1, <1>2, <2>2, FlattenJoins
      <3>2. \A i \in 1..n : f[i] = IF i = 1 THEN s[i] ELSE f[i - 1] \o s[i]
        BY <1>2, <3>1 DEF Joins
      <3> DEFINE Fine == {k \in Nat : k = 0 \/ k > n \/ Good(f[k], k)}
      <3>3. 0 \in Fine
        OBVIOUS
      <3>4. ASSUME NEW k \in Fine PROVE k + 1 \in Fine
        <4> SUFFICES ASSUME k + 1 <= n PROVE Good(f[k + 1], k + 1)
          BY <1>1, <3>4
        <4>1. k + 1 \in 1..n /\ k \in Nat /\ (k + 1) - 1 = k
          BY <3>4
        <4>2. ReadRow(s[k + 1], ReadResources[k + 1])
          BY <1>3, <4>1
        <4>3. CASE k = 0
          <5>1. f[k + 1] = s[1] /\ k + 1 = 1
            BY <3>2, <4>1, <4>3
          <5>2. Upto(1) = Elements(s[1])
            <6>1. 1..1 = {1}
              OBVIOUS
            <6> QED BY <6>1
          <5> QED BY <4>2, <5>1, <5>2 DEF ReadRow
        <4>4. CASE k # 0
          <5>1. Good(f[k], k) /\ f[k + 1] = f[k] \o s[k + 1]
            <6>1. k <= n /\ k + 1 # 1
              BY <1>1, <4>1, <4>4
            <6>2. Good(f[k], k)
              BY <1>1, <3>4, <4>1, <4>4, <6>1
            <6> QED BY <3>2, <4>1, <6>1, <6>2
          <5>2. Upto(k + 1) = Upto(k) \cup Elements(s[k + 1])
            <6>1. 1..(k + 1) = 1..k \cup {k + 1}
              BY <4>1
            <6> QED BY <6>1
          <5>3. Upto(k) \cap Elements(s[k + 1]) = {}
            <6> SUFFICES ASSUME NEW w \in Upto(k), w \in Elements(s[k + 1]) PROVE FALSE
              OBVIOUS
            <6>1. PICK i \in 1..k : w \in Elements(s[i])
              OBVIOUS
            <6>2. i \in 1..n /\ i # k + 1
              BY <1>1, <4>1
            <6>3. w.of = ReadResources[i] /\ w.of = ReadResources[k + 1]
              BY <1>3, <4>2, <6>1, <6>2 DEF ReadRow
            <6> QED BY <1>4, <4>1, <6>2, <6>3
          <5>4. s[k + 1] \in Seq(ReadWindows) /\ Distinct(s[k + 1])
            BY <4>2 DEF ReadRow
          <5>5. /\ f[k] \o s[k + 1] \in Seq(ReadWindows)
                /\ Elements(f[k] \o s[k + 1]) = Elements(f[k]) \cup Elements(s[k + 1])
                /\ Distinct(f[k] \o s[k + 1])
            <6>1. f[k] \in Seq(ReadWindows) /\ Distinct(f[k]) /\ Elements(f[k]) = Upto(k)
              BY <5>1
            <6> HIDE DEF Upto
            <6>2. Elements(f[k]) \cap Elements(s[k + 1]) = {}
              BY <5>3, <6>1
            <6> QED BY <5>4, <6>1, <6>2, ConcatElements
          <5>6. Elements(f[k]) = Upto(k)
            BY <5>1
          <5> HIDE DEF Upto
          <5> QED BY <5>1, <5>2, <5>5, <5>6
        <4> QED BY <4>3, <4>4
      <3> HIDE DEF Fine
      <3>5. Fine = Nat
        <4>1. Fine \in SUBSET Nat
          BY DEF Fine
        <4> QED BY <3>3, <3>4, <4>1, NatSetInduction
      <3>6. Good(f[n], n)
        BY <1>1, <2>2, <3>5 DEF Fine
      <3> QED BY <1>1, <3>1, <3>6
    <2> QED BY <2>1, <2>2
  <1>6. OutTiles = {} /\ ReadTiles = Upto(n)
    BY <1>1, <1>5 DEF OutTiles, ReadTiles
  <1>7. ASSUME NEW w \in Upto(n)
        PROVE  \E i \in 1..n : w \in Elements(s[i]) /\ w.of = ReadResources[i] /\ ReadRow(s[i], ReadResources[i])
    <2>1. PICK i \in 1..n : w \in Elements(s[i])
      OBVIOUS
    <2> QED BY <1>3, <2>1 DEF ReadRow
  <1>8. \A i \in 1..n : Elements(s[i]) \subseteq Upto(n)
    OBVIOUS
  <1> HIDE DEF Upto
  <1> DEFINE T == Upto(n)
  <1>9. \A w \in T : TileOK(w)
    BY <1>7 DEF ReadRow
  <1>10. ASSUME NEW v \in T, NEW w \in T, v # w PROVE TilesApart(v, w)
    <2>1. PICK i \in 1..n : w \in Elements(s[i]) /\ w.of = ReadResources[i] /\ ReadRow(s[i], ReadResources[i])
      BY <1>7
    <2>2. PICK k \in 1..n : v \in Elements(s[k]) /\ v.of = ReadResources[k] /\ ReadRow(s[k], ReadResources[k])
      BY <1>7
    <2> QED BY <1>4, <1>10, <2>1, <2>2 DEF ReadRow, TilesApart
  <1>11. ASSUME NEW r \in Elements(ReadResources), Reads!Cap(r) >= 0 PROVE \E w \in T : w.of = r /\ w.from = 0
    <2>1. PICK i \in 1..n : r = ReadResources[i]
      BY <1>1 DEF Elements
    <2>2. PICK w \in Elements(s[i]) : w.from = 0
      BY <1>3, <1>11, <2>1 DEF ReadRow
    <2> QED BY <1>3, <1>8, <2>1, <2>2 DEF ReadRow
  <1>12. ASSUME NEW w \in T
         PROVE  /\ w.to = Reads!Cap(w.of) \/ \E v \in T : v.of = w.of /\ v.from = w.to
                /\ w.from = 0 \/ \E v \in T : v.of = w.of /\ v.to = w.from
    <2>1. PICK i \in 1..n : w \in Elements(s[i]) /\ w.of = ReadResources[i] /\ ReadRow(s[i], ReadResources[i])
      BY <1>7
    <2>2. \A v \in Elements(s[i]) : v \in T /\ v.of = w.of
      BY <1>8, <2>1 DEF ReadRow
    <2>3. w.to = Reads!Cap(w.of) \/ \E v \in Elements(s[i]) : v.from = w.to
      BY <2>1 DEF ReadRow
    <2>4. w.from = 0 \/ \E v \in Elements(s[i]) : v.to = w.from
      BY <2>1 DEF ReadRow
    <2> QED BY <2>2, <2>3, <2>4
  <1>13. Tiling(T)
    BY <1>9, <1>10, <1>11, <1>12 DEF Tiling
  <1> QED BY <1>1, <1>5, <1>6, <1>13 DEF ReadsInv

----------------------------------------------------------------------------
\* The queue and the outcome of the next state, if they tile.
LEMMA TiledNext ==
  ASSUME source \in ReadSources, source' = source, NEW T, Tiling(T), ReadTiles' = T,
         todo' \in Seq(ReadWindows), Distinct(todo'), Elements(todo') \cap OutTiles' = {}
  PROVE  ReadsInv'
  <1>1. \A r : Reads!Cap(r)' = Reads!Cap(r)
    BY DEF Reads!Cap, Reads!Least
  <1>2. \A w : TileOK(w)' <=> TileOK(w)
    BY <1>1 DEF TileOK
  <1>3. Tiling(T)'
    BY <1>1, <1>2 DEF Tiling
  <1> QED BY <1>3 DEF ReadsInv, Tiling

\* The head of the queue leaves it for the outcome.
LEMMA HeadLogged ==
  ASSUME ReadsInv, todo # <<>>, NEW got,
         todo' = Tail(todo), source' = source,
         outcome' = outcome \cup {[of |-> Head(todo).of, from |-> Head(todo).from,
                                   to |-> Head(todo).to, got |-> got]}
  PROVE  ReadsInv'
  <1> DEFINE w == Head(todo)
             o == [of |-> w.of, from |-> w.from, to |-> w.to, got |-> got]
  <1>1. /\ w \in Elements(todo) /\ w \in ReadWindows
        /\ todo' \in Seq(ReadWindows) /\ Distinct(todo')
        /\ Elements(todo') = Elements(todo) \ {w}
    BY TailElements DEF ReadsInv
  <1>2. w = [of |-> w.of, from |-> w.from, to |-> w.to]
    BY <1>1 DEF ReadWindows
  <1>3. [of |-> o.of, from |-> o.from, to |-> o.to] = w
    BY <1>2
  <1> HIDE DEF o
  <1>4. outcome' = outcome \cup {o}
    BY DEF o
  <1>5. OutTiles' = OutTiles \cup {w}
    BY <1>3, <1>4 DEF OutTiles
  <1> HIDE DEF w
  <1>6. ReadTiles' = ReadTiles
    BY <1>1, <1>5 DEF ReadTiles
  <1>7. Elements(todo') \cap OutTiles' = {}
    BY <1>1, <1>5 DEF ReadsInv
  <1>8. Tiling(ReadTiles) /\ source \in ReadSources
    BY DEF ReadsInv
  <1> QED BY <1>1, <1>6, <1>7, <1>8, TiledNext

\* Halves tile what the window did; a skipped window stays one.
LEMMA NarrowTiles ==
  ASSUME ReadsInv, todo # <<>>, Reads!Narrow, source' = source
  PROVE  ReadsInv'
  <1> DEFINE w == Head(todo)
             m == Reads!Middle(w)
             a == [w EXCEPT !.to = m]
             b == [w EXCEPT !.from = m]
  <1>1. CASE w.to - w.from > ReadDay
    <2>1. todo' = <<a, b>> \o Tail(todo) /\ outcome' = outcome
      BY <1>1 DEF Reads!Narrow, Reads!Window, Reads!Halves
    <2>2. /\ w \in Elements(todo) /\ w \in ReadWindows /\ Tail(todo) \in Seq(ReadWindows)
          /\ Distinct(Tail(todo)) /\ Elements(Tail(todo)) = Elements(todo) \ {w}
      BY TailElements DEF ReadsInv
    <2>3. w.from \in Nat /\ w.to \in Nat /\ w = [of |-> w.of, from |-> w.from, to |-> w.to]
          /\ w.of \in Elements(ReadResources)
      BY <2>2 DEF ReadWindows
    <2>4. m \in Nat /\ w.from < m /\ m < w.to
      <3>1. ReadDay \in Nat \ {0}
        BY ReadsAssumption
      <3>2. \A i, k \in Nat : k - i > 1 => i + (k - i) \div 2 \in Nat /\ i < i + (k - i) \div 2 /\ i + (k - i) \div 2 < k
        OBVIOUS
      <3>3. w.to - w.from > 1
        BY <1>1, <2>3, <3>1
      <3>4. m = w.from + (w.to - w.from) \div 2
        BY DEF Reads!Middle
      <3> HIDE DEF m, w
      <3> QED BY <2>3, <3>2, <3>3, <3>4
    <2> HIDE DEF m
    <2>5. /\ a.of = w.of /\ a.from = w.from /\ a.to = m
          /\ b.of = w.of /\ b.from = m /\ b.to = w.to
          /\ a \in ReadWindows /\ b \in ReadWindows
      BY <2>3, <2>4 DEF ReadWindows
    <2>6. a # b
      BY <2>3, <2>4, <2>5
    <2>7. source \in ReadSources /\ Tiling(ReadTiles) /\ w \in ReadTiles /\ Elements(todo) \cap OutTiles = {}
      BY <2>2 DEF ReadsInv, ReadTiles
    <2> DEFINE U == (ReadTiles \ {w}) \cup {a, b}
    <2>8. Tiling(U)
      BY <1>1, <2>7, HalvesTile DEF m
    <2>9. \A v \in ReadTiles : v # w => TilesApart(v, w) /\ TileOK(v)
      BY <2>7 DEF Tiling
    <2>10. TileOK(w)
      BY <2>7 DEF Tiling
    <2> HIDE DEF a, b, w
    <2>11. a \notin ReadTiles /\ b \notin ReadTiles
      <3>1. ASSUME NEW v \in ReadTiles, v # w PROVE v # a /\ v # b
        BY <2>3, <2>4, <2>5, <2>9, <3>1 DEF TilesApart, TileOK, ReadWindows
      <3>2. a # w /\ b # w
        BY <2>3, <2>4, <2>5
      <3> QED BY <3>1, <3>2
    <2>12. <<a, b>> \in Seq(ReadWindows) /\ Elements(<<a, b>>) = {a, b} /\ Distinct(<<a, b>>)
      <3>1. DOMAIN <<a, b>> = {1, 2} /\ <<a, b>>[1] = a /\ <<a, b>>[2] = b
        OBVIOUS
      <3>2. <<a, b>> \in Seq(ReadWindows)
        BY <2>5
      <3> QED BY <2>6, <3>1, <3>2 DEF Elements, Distinct
    <2>13. Elements(<<a, b>>) \cap Elements(Tail(todo)) = {}
      BY <2>2, <2>11, <2>12 DEF ReadTiles
    <2>14. /\ todo' \in Seq(ReadWindows) /\ Distinct(todo')
           /\ Elements(todo') = {a, b} \cup (Elements(todo) \ {w})
      <3>1. PICK p : p = <<a, b>>
        OBVIOUS
      <3>2. p \in Seq(ReadWindows) /\ Distinct(p) /\ Elements(p) = {a, b} /\ todo' = p \o Tail(todo)
        BY <2>1, <2>12, <3>1
      <3>3. PICK q : q = Tail(todo)
        OBVIOUS
      <3>4. q \in Seq(ReadWindows) /\ Distinct(q) /\ Elements(q) = Elements(todo) \ {w}
        BY <2>2, <3>3
      <3>5. Elements(p) \cap Elements(q) = {}
        BY <2>13, <3>1, <3>3
      <3>6. todo' = p \o q
        BY <3>2, <3>3
      <3>7. /\ p \o q \in Seq(ReadWindows) /\ Distinct(p \o q)
            /\ Elements(p \o q) = Elements(p) \cup Elements(q)
        BY <3>2, <3>4, <3>5, ConcatElements
      <3> QED BY <3>2, <3>4, <3>6, <3>7
    <2>15. OutTiles' = OutTiles
      BY <2>1 DEF OutTiles
    <2>16. ReadTiles' = U /\ Elements(todo') \cap OutTiles' = {}
      BY <2>2, <2>7, <2>11, <2>14, <2>15 DEF ReadTiles
    <2> QED BY <2>7, <2>8, <2>14, <2>16, TiledNext
  <1>2. CASE ~(w.to - w.from > ReadDay)
    <2>1. todo' = Tail(todo) /\ Reads!Log(FALSE)
      BY <1>2 DEF Reads!Narrow, Reads!Window
    <2> QED BY <2>1, HeadLogged DEF Reads!Log, Reads!Window
  <1> QED BY <1>1, <1>2

\* A step that reads nothing keeps the tiling.
LEMMA ReadsInvKept ==
  ASSUME ReadsInv, source' = source, todo' = todo, outcome' = outcome PROVE ReadsInv'
  <1>1. OutTiles' = OutTiles
    BY DEF OutTiles
  <1>2. ReadTiles' = ReadTiles
    BY <1>1 DEF ReadTiles
  <1> QED BY <1>1, <1>2, TiledNext DEF ReadsInv

\* Every step keeps the tiling.
LEMMA ReadsInvStep == ReadsInv /\ [Reads!Next]_(Reads!vars) => ReadsInv'
  <1> SUFFICES ASSUME ReadsInv, [Reads!Next]_(Reads!vars) PROVE ReadsInv'
    OBVIOUS
  <1>1. CASE Reads!Answer
    BY <1>1, HeadLogged DEF Reads!Answer, Reads!Reading, Reads!Log, Reads!Window
  <1>2. CASE Reads!TooLarge
    BY <1>2, NarrowTiles DEF Reads!TooLarge, Reads!Reading
  <1>3. CASE Reads!Retry
    BY <1>3, ReadsInvKept DEF Reads!Retry
  <1>4. CASE Reads!GiveUp
    <2>1. source' = source /\ todo # <<>>
      BY <1>4 DEF Reads!GiveUp, Reads!Fails, Reads!Reading
    <2>2. Reads!Narrow \/ (todo' = todo /\ outcome' = outcome)
      BY <1>4 DEF Reads!GiveUp
    <2> QED BY <2>1, <2>2, NarrowTiles, ReadsInvKept
  <1>5. CASE Reads!Refused
    BY <1>5, ReadsInvKept DEF Reads!Refused
  <1>6. CASE Reads!Finish
    BY <1>6, ReadsInvKept DEF Reads!Finish
  <1>7. CASE Reads!Outage
    BY <1>7, ReadsInvKept DEF Reads!Outage
  <1>8. CASE Reads!Recover
    BY <1>8, ReadsInvKept DEF Reads!Recover
  <1>9. CASE UNCHANGED Reads!vars
    BY <1>9, ReadsInvKept DEF Reads!vars
  <1> QED BY <1>1, <1>2, <1>3, <1>4, <1>5, <1>6, <1>7, <1>8, <1>9 DEF Reads!Next

(***************************************************************************)
(* No failure, retry or split of a point read loses or repeats a moment of *)
(* a resource's window (importer._async_read_runtime_window).              *)
(***************************************************************************)
THEOREM ReadsAccounted == Reads!Spec => []Reads!Accounted
  <1>1. Reads!Spec => []ReadsInv
    BY ReadsInvInit, ReadsInvStep, PTL DEF Reads!Spec
  <1> QED BY <1>1, ReadsInvAccounted, PTL

(***************************************************************************)
(* The failure budget.  A full window is halved into 32 leaves of 15/16 of *)
(* a day; a piece is the l-th power of two of them, from leaf p on.        *)
(***************************************************************************)
Two(l) == IF l = 0 THEN 1 ELSE IF l = 1 THEN 2 ELSE IF l = 2 THEN 4
          ELSE IF l = 3 THEN 8 ELSE IF l = 4 THEN 16 ELSE 32

\* The largest piece that starts at leaf p.
Depth(p) == IF p % 32 = 0 THEN 5 ELSE IF p % 16 = 0 THEN 4 ELSE IF p % 8 = 0 THEN 3
            ELSE IF p % 4 = 0 THEN 2 ELSE IF p % 2 = 0 THEN 1 ELSE 0

\* Day j touches the piece.
Touched(p, l, j) == 15 * p < 16 * (j + 1) /\ 15 * (p + Two(l)) >= 16 * j

\* How long the failures in a row may be when the piece comes up.
StreakFits(s, p, l, j) ==
  IF ~Touched(p, l, j) THEN s <= 8
  ELSE IF 15 * p < 16 * j THEN s <= Depth(p) - l + IF p = 0 /\ j >= 29 THEN 3 ELSE 0
  ELSE IF 15 * (p - 1) < 16 * j THEN s <= IF p % 2 = 1 THEN Depth(p - 1) + 1 ELSE 1 + Depth(p) - l
  ELSE s <= 2 + Depth(p - 1)

LEMMA DepthRange ==
  ASSUME NEW p \in Int
  PROVE  Depth(p) \in 0..5
  BY DEF Depth

\* An answer clears the streak, so any piece fits.
LEMMA FitsAnew ==
  ASSUME NEW p \in Nat, NEW l \in 0..5, l <= Depth(p), NEW j \in Int
  PROVE  StreakFits(0, p, l, j)
  <1>1. Depth(p) \in 0..5 /\ Depth(p - 1) \in 0..5
    BY DepthRange
  <1> QED BY <1>1 DEF StreakFits

\* A failed piece: its first half fits one failure more.
LEMMA FitsDown ==
  ASSUME NEW p \in Nat, NEW l \in 0..5, l <= Depth(p), NEW j \in Int, NEW s \in Nat,
         Touched(p, l, j), StreakFits(s, p, l, j), l > 0
  PROVE  s + 1 <= 8 /\ StreakFits(s + 1, p, l - 1, j)
  <1>1. Depth(p) \in 0..5 /\ Depth(p - 1) \in 0..5
    BY DepthRange
  <1>2. p % 2 = 0
    BY DEF Depth
  <1>3. CASE 15 * p < 16 * j
    BY <1>1, <1>3 DEF StreakFits
  <1>4. CASE ~(15 * p < 16 * j) /\ 15 * (p - 1) < 16 * j
    BY <1>1, <1>2, <1>4 DEF StreakFits
  <1>5. CASE ~(15 * p < 16 * j) /\ ~(15 * (p - 1) < 16 * j)
    <2>1. 15 * p < 16 * j + 16 /\ 15 * (p - 1) >= 16 * j
      BY <1>5 DEF Touched
    <2>2. 15 * (p - 1) = 16 * j
      BY <2>1
    <2>3. p % 2 = 1
      BY <2>2
    <2> QED BY <1>2, <2>3
  <1> QED BY <1>3, <1>4, <1>5

\* A skipped leaf: the next piece that touches the day fits.
LEMMA FitsNext ==
  ASSUME NEW p \in Nat, NEW l \in 0..5, l <= Depth(p + 1), NEW j \in Int, NEW s \in Nat,
         Touched(p, 0, j), StreakFits(s, p, 0, j)
  PROVE  s + 1 <= 8 /\ StreakFits(s + 1, p + 1, l, j)
  <1>1. Depth(p) \in 0..5 /\ Depth(p - 1) \in 0..5 /\ Depth(p + 1) \in 0..5 /\ (p + 1) - 1 = p
    BY DepthRange
  <1>2. 15 * p < 16 * (j + 1) /\ 15 * (p + 1) >= 16 * j
    BY DEF Touched, Two
  <1>3. CASE 15 * p < 16 * j
    <2>1. ~(p = 0 /\ j >= 29)
      BY <1>2
    <2>2. s <= Depth(p)
      BY <1>1, <1>3, <2>1 DEF StreakFits
    <2>3. (p + 1) % 2 # 1 => Depth(p) = 0
      BY DEF Depth
    <2> QED BY <1>1, <1>2, <1>3, <2>2, <2>3 DEF StreakFits
  <1>4. CASE ~(15 * p < 16 * j) /\ 15 * (p - 1) < 16 * j
    <2>1. Touched(p + 1, l, j) => 15 * p = 16 * j
      BY <1>4 DEF Touched
    <2>2. 15 * p = 16 * j => p % 2 = 0
      OBVIOUS
    <2>3. p % 2 = 0 => s <= 1 + Depth(p)
      BY <1>1, <1>4 DEF StreakFits
    <2>4. p % 2 # 0 => s <= 6
      BY <1>1, <1>4 DEF StreakFits
    <2> QED BY <1>1, <1>4, <2>1, <2>2, <2>3, <2>4 DEF StreakFits
  <1>5. CASE ~(15 * p < 16 * j) /\ ~(15 * (p - 1) < 16 * j)
    <2>1. s <= 7
      BY <1>1, <1>5 DEF StreakFits
    <2>2. ~Touched(p + 1, l, j)
      BY <1>5 DEF Touched
    <2> QED BY <2>1, <2>2 DEF StreakFits
  <1> QED BY <1>3, <1>4, <1>5

\* The last leaf of a window: the next window fits.
LEMMA FitsOver ==
  ASSUME NEW p \in Nat, (p + 1) % 32 = 0, NEW j \in Int, NEW s \in Nat,
         Touched(p, 0, j), StreakFits(s, p, 0, j)
  PROVE  s + 1 <= 8 /\ StreakFits(s + 1, 0, 5, j)
  <1>1. 15 * p < 16 * (j + 1) /\ 15 * (p + 1) >= 16 * j
    BY DEF Touched, Two
  <1>2. PICK k \in Nat : p + 1 = 32 * k /\ k > 0
    <2>1. p + 1 = 32 * ((p + 1) \div 32) /\ (p + 1) \div 32 \in Nat /\ (p + 1) \div 32 > 0
      OBVIOUS
    <2> QED BY <2>1
  <1>3. j >= 29
    BY <1>1, <1>2
  <1>4. Depth(p) = 0 /\ p % 2 = 1 /\ Depth(p - 1) = 1 /\ Depth(0) = 5
    BY <1>2 DEF Depth
  <1>5. s <= 2
    <2>1. CASE 15 * p < 16 * j
      BY <1>2, <1>4, <2>1 DEF StreakFits
    <2>2. CASE ~(15 * p < 16 * j) /\ 15 * (p - 1) < 16 * j
      BY <1>4, <2>2 DEF StreakFits
    <2>3. CASE ~(15 * p < 16 * j) /\ ~(15 * (p - 1) < 16 * j)
      <3>1. 15 * (p - 1) = 16 * j
        BY <1>1, <2>3
      <3> QED BY <1>2, <3>1
    <2> QED BY <2>1, <2>2, <2>3
  <1> QED BY <1>3, <1>4, <1>5 DEF StreakFits

(***************************************************************************)
(* How many failures in a row a piece of a full window can have behind it  *)
(***************************************************************************)

\* The length of a leaf.
Unit == 15 * (ReadDay \div 16)

\* Window w is the l-th power of two leaves from leaf p on.
Piece(w, p, l) ==
  /\ p \in Nat /\ l \in 0..5 /\ l <= Depth(p)
  /\ w.from = p * Unit /\ w.to = (p + Two(l)) * Unit

\* Window w ends where a full window does.
FullEnd(w) == \E k \in Nat : w.to = (32 * k) * Unit

\* Window w comes after v: it goes on there, or begins a full window.
Follows(v, w) == (w.of = v.of /\ w.from = v.to) \/ (FullEnd(v) /\ Piece(w, 0, 5))

\* A queue of pieces, each where the one before it ends.
Chained(t) ==
  /\ \A i \in DOMAIN t : \E p, l : Piece(t[i], p, l)
  /\ \A i \in DOMAIN t : i + 1 \in DOMAIN t => Follows(t[i], t[i + 1])

\* Such a queue from the first window of a resource to the last one of a resource.
Train(t) ==
  /\ Chained(t)
  /\ t # <<>> => Piece(t[1], 0, 5) /\ FullEnd(t[Len(t)])

\* A full window is 32 leaves.
LEMMA UnitIs ==
  /\ Unit \in Nat \ {0} /\ Reads!Width = 32 * Unit /\ ReadDay \in Nat \ {0}
  /\ \E q \in Nat \ {0} : ReadDay = 16 * q /\ Unit = 15 * q
  <1> DEFINE q == ReadDay \div 16
  <1>1. ReadDay \in Nat \ {0} /\ ReadDay % 16 = 0 /\ WindowDays = 30
    BY ReadsAssumption, ReadsBudget
  <1>2. q \in Nat \ {0} /\ ReadDay = 16 * q
    BY <1>1
  <1>3. Unit = 15 * q
    BY DEF Unit
  <1> HIDE DEF q
  <1> QED BY <1>1, <1>2, <1>3 DEF Reads!Width

\* Scaling keeps order.
LEMMA ScaleLess ==
  ASSUME NEW a \in Int, NEW b \in Int, NEW q \in Nat \ {0}
  PROVE  (a * q < b * q <=> a < b) /\ (a * q = b * q <=> a = b) /\ a * q \in Int
  OBVIOUS

LEMMA DivExact ==
  ASSUME NEW a \in Int, NEW b \in Nat \ {0}, a % b = 0
  PROVE  a \div b \in Int /\ a = (a \div b) * b
  OBVIOUS

LEMMA TwoRange ==
  ASSUME NEW l \in 0..5
  PROVE  /\ Two(l) \in 1..32 /\ (l > 0 => Two(l) = 2 * Two(l - 1) /\ Two(l) >= 2)
         /\ (l = 0 => Two(l) = 1)
  BY DEF Two

\* A row of full windows is a train.
LEMMA WindowsTrain ==
  ASSUME source \in ReadSources, NEW r \in Elements(ReadResources),
         Reads!Cap(r) # 0, Reads!Cap(r) % Reads!Width = 0
  PROVE  Train(Reads!Windows(r))
  <1> DEFINE W == Reads!Width
             c == Reads!Cap(r)
             n == IF c < 0 THEN 0 ELSE IF c = 0 THEN 1 ELSE (c + W - 1) \div W
             q == Reads!Windows(r)
  <1>1. q = [i \in 1..n |-> [of |-> r, from |-> (i - 1) * W, to |-> Reads!Least(i * W, c)]]
    BY DEF Reads!Windows
  <1>2. c \in Int /\ W \in Nat \ {0} /\ c # 0 /\ c % W = 0 /\ W = 32 * Unit /\ Unit \in Nat \ {0}
    BY CapInt, UnitIs
  <1> HIDE DEF W, c, q
  <1>3. n \in Nat /\ (n # 0 => c = n * W)
    <2>1. CASE c < 0
      BY <2>1
    <2>2. CASE c > 0
      <3> DEFINE k == c \div W
      <3>1. k \in Int /\ c = k * W
        BY <1>2, DivExact
      <3>2. (c + W - 1) \in Nat
        BY <1>2, <2>2
      <3> DEFINE m == (c + W - 1) \div W
      <3>3. m \in Nat /\ m * W <= c + W - 1 /\ c + W - 1 < m * W + W
        BY <1>2, <3>2, DivBounds
      <3>4. n = m
        BY <1>2, <2>2
      <3> HIDE DEF k, m, n
      <3>5. m * W < (k + 1) * W /\ k * W < (m + 1) * W
        <4>1. (k + 1) * W = k * W + W /\ (m + 1) * W = m * W + W /\ m * W \in Int /\ k * W \in Int
          BY <1>2, <3>1, <3>3
        <4> QED BY <1>2, <3>1, <3>3, <4>1
      <3>6. m < k + 1 /\ k < m + 1
        BY <1>2, <3>1, <3>3, <3>5, ScaleLess
      <3> QED BY <3>1, <3>3, <3>4, <3>6
    <2> QED BY <1>2, <2>1, <2>2
  <1> HIDE DEF n
  <1>4. DOMAIN q = 1..n /\ Len(q) = n
    BY <1>1, <1>3
  <1>5. ASSUME NEW i \in 1..n
        PROVE  q[i].of = r /\ q[i].from = (i - 1) * W /\ q[i].to = i * W
    <2>1. i \in Nat /\ i <= n /\ c = n * W
      BY <1>3
    <2>2. i * W <= n * W /\ i * W \in Int /\ n * W \in Int
      BY <1>2, <1>3, <2>1, MultMonotone
    <2>3. Reads!Least(i * W, c) = i * W
      BY <2>1, <2>2 DEF Reads!Least
    <2> QED BY <1>1, <2>3
  <1>6. ASSUME NEW i \in 1..n PROVE Piece(q[i], 32 * (i - 1), 5)
    <2>1. i - 1 \in Nat /\ 32 * (i - 1) \in Nat
      BY <1>3
    <2>2. (32 * (i - 1)) % 32 = 0
      BY <2>1
    <2>3. Depth(32 * (i - 1)) = 5 /\ Two(5) = 32
      BY <2>2 DEF Depth, Two
    <2>4. (i - 1) * W = (32 * (i - 1)) * Unit /\ i * W = (32 * (i - 1) + 32) * Unit
      BY <1>2, <2>1
    <2> QED BY <1>5, <2>1, <2>3, <2>4 DEF Piece
  <1>7. ASSUME NEW i \in 1..n, i + 1 \in 1..n PROVE Follows(q[i], q[i + 1])
    <2>1. (i + 1) - 1 = i
      BY <1>3
    <2> QED BY <1>5, <1>7, <2>1 DEF Follows
  <1>8. n # 0 => Piece(q[1], 0, 5) /\ FullEnd(q[n])
    <2> SUFFICES ASSUME n # 0 PROVE Piece(q[1], 0, 5) /\ FullEnd(q[n])
      OBVIOUS
    <2>1. 1 \in 1..n /\ n \in 1..n /\ 32 * (1 - 1) = 0
      BY <1>3
    <2>2. q[n].to = n * W /\ n * W = (32 * n) * Unit
      BY <1>2, <1>3, <1>5, <2>1
    <2>3. Piece(q[1], 32 * (1 - 1), 5)
      BY <1>6, <2>1
    <2> QED BY <1>3, <2>1, <2>2, <2>3 DEF FullEnd
  <1>9. q # <<>> => n # 0
    BY <1>1
  <1> QED BY <1>4, <1>6, <1>7, <1>8, <1>9 DEF Train, Chained, q

\* Two queues of pieces make one.
LEMMA ConcatTrain ==
  ASSUME NEW S, NEW p \in Seq(S), NEW q \in Seq(S), Train(p), Train(q)
  PROVE  Train(p \o q)
  <1> DEFINE c == p \o q
  <1>1. /\ c \in Seq(S) /\ Len(c) = Len(p) + Len(q) /\ Len(p) \in Nat /\ Len(q) \in Nat
        /\ \A i \in 1..(Len(p) + Len(q)) : c[i] = IF i <= Len(p) THEN p[i] ELSE q[i - Len(p)]
    OBVIOUS
  <1>2. DOMAIN p = 1..Len(p) /\ DOMAIN q = 1..Len(q) /\ DOMAIN c = 1..(Len(p) + Len(q))
    BY <1>1
  <1>3. (Len(p) = 0 <=> p = <<>>) /\ (Len(q) = 0 <=> q = <<>>) /\ (c = <<>> => Len(p) + Len(q) = 0)
    BY <1>1
  <1> HIDE DEF c
  <1>4. ASSUME NEW i \in DOMAIN c
        PROVE  \/ i \in DOMAIN p /\ c[i] = p[i]
               \/ i - Len(p) \in DOMAIN q /\ c[i] = q[i - Len(p)] /\ i > Len(p)
    BY <1>1, <1>2
  <1>5. ASSUME NEW i \in DOMAIN c PROVE \E h, l : Piece(c[i], h, l)
    BY <1>4 DEF Train, Chained
  <1>6. ASSUME NEW i \in DOMAIN c, i + 1 \in DOMAIN c PROVE Follows(c[i], c[i + 1])
    <2>1. CASE i + 1 <= Len(p)
      <3>1. i \in DOMAIN p /\ i + 1 \in DOMAIN p /\ c[i] = p[i] /\ c[i + 1] = p[i + 1]
        BY <1>1, <1>2, <1>6, <2>1
      <3> QED BY <3>1 DEF Train, Chained
    <2>2. CASE i = Len(p)
      <3>1. c[i] = p[Len(p)] /\ c[i + 1] = q[1] /\ p # <<>> /\ q # <<>>
        BY <1>1, <1>2, <1>3, <1>6, <2>2
      <3> QED BY <3>1 DEF Train, Follows
    <2>3. CASE i > Len(p)
      <3>1. /\ i - Len(p) \in DOMAIN q /\ (i - Len(p)) + 1 \in DOMAIN q
            /\ c[i] = q[i - Len(p)] /\ c[i + 1] = q[(i - Len(p)) + 1]
        <4>1. (i + 1) - Len(p) = (i - Len(p)) + 1 /\ ~(i <= Len(p)) /\ ~(i + 1 <= Len(p))
          BY <1>1, <1>2, <2>3
        <4> QED BY <1>1, <1>2, <1>6, <4>1
      <3> QED BY <3>1 DEF Train, Chained
    <2> QED BY <1>1, <1>2, <2>1, <2>2, <2>3
  <1>7. c # <<>> => Piece(c[1], 0, 5) /\ FullEnd(c[Len(c)])
    <2> SUFFICES ASSUME c # <<>> PROVE Piece(c[1], 0, 5) /\ FullEnd(c[Len(c)])
      OBVIOUS
    <2>0. Len(c) # 0
      <3>1. ASSUME Len(c) = 0 PROVE FALSE
        BY <1>1, <3>1 DEF c
      <3> QED BY <3>1
    <2>1. Piece(c[1], 0, 5)
      <3>1. CASE Len(p) = 0
        <4>1. c[1] = q[1 - 0] /\ q # <<>>
          BY <1>1, <1>3, <2>0, <3>1
        <4> QED BY <4>1 DEF Train
      <3>2. CASE Len(p) # 0
        <4>1. c[1] = p[1] /\ p # <<>>
          BY <1>1, <1>3, <3>2
        <4> QED BY <4>1 DEF Train
      <3> QED BY <3>1, <3>2
    <2>2. FullEnd(c[Len(c)])
      <3>1. CASE Len(q) = 0
        <4>1. c[Len(c)] = p[Len(p)] /\ p # <<>>
          BY <1>1, <1>3, <2>0, <3>1
        <4> QED BY <4>1 DEF Train
      <3>2. CASE Len(q) # 0
        <4>1. c[Len(c)] = q[Len(q)] /\ q # <<>>
          BY <1>1, <1>3, <3>2
        <4> QED BY <4>1 DEF Train
      <3> QED BY <3>1, <3>2
    <2> QED BY <2>1, <2>2
  <1> QED BY <1>5, <1>6, <1>7 DEF Train, Chained, c

\* One day is bad, every window is full and no response too large.
OneBadDay ==
  /\ source.limit >= Reads!Width
  /\ \A i \in Reads!Order : Reads!Cap(ReadResources[i]) # 0 /\ Reads!Cap(ReadResources[i]) % Reads!Width = 0
  /\ source.bad[1] % ReadDay = 0 /\ source.bad[2] = source.bad[1] + ReadDay

BadDay == source.bad[1] \div ReadDay

\* While nothing else fails, the queue is of pieces whose streak fits.
SkipInv ==
  OneBadDay /\ faults = 0 =>
    /\ result # "failed"
    /\ Chained(todo)
    /\ todo # <<>> => \E p, l : Piece(todo[1], p, l) /\ StreakFits(streak, p, l, BadDay)
    /\ \A w \in outcome : w.got \/ Reads!Bad(w)

\* A silent source: the requests of failed windows and of the present one.
BudgetInv ==
  /\ down \in BOOLEAN /\ faults \in Nat /\ (faults = 0 => ~down)
  /\ attempt \in 1..Retries /\ streak \in 0..(Budget + 1) /\ silent \in Nat
  /\ result # "failed" => streak <= Budget
  /\ streak = Budget + 1 => attempt = 1
  /\ silent <= streak * Retries + (attempt - 1)
  /\ SkipInv

\* The full windows of all resources are such a queue.
LEMMA BudgetInvInit == Reads!Init => BudgetInv
  <1> SUFFICES ASSUME Reads!Init PROVE BudgetInv
    OBVIOUS
  <1> DEFINE n == Len(ReadResources)
             s == [i \in Reads!Order |-> Reads!Windows(ReadResources[i])]
  <1>1. /\ source \in ReadSources /\ todo = Reads!FlattenSeq(s) /\ outcome = {}
        /\ n \in Nat /\ DOMAIN ReadResources = 1..n /\ Reads!Order = 1..n
        /\ result = "reading" /\ streak = 0
    BY ReadsAssumption DEF Reads!Init, Reads!Order
  <1>2. s \in Seq({Reads!Windows(ReadResources[i]) : i \in 1..n}) /\ Len(s) = n /\ DOMAIN s = 1..n
    BY <1>1
  <1>3. ASSUME NEW i \in 1..n PROVE s[i] = Reads!Windows(ReadResources[i]) /\ s[i] \in Seq(ReadWindows)
    <2>1. ReadResources[i] \in Elements(ReadResources)
      BY <1>1 DEF Elements
    <2> QED BY <1>1, <2>1, WindowsRow DEF ReadRow
  <1>4. ASSUME OneBadDay, NEW i \in 1..n PROVE Train(s[i])
    <2>1. ReadResources[i] \in Elements(ReadResources)
      BY <1>1 DEF Elements
    <2> QED BY <1>1, <1>3, <1>4, <2>1, WindowsTrain DEF OneBadDay
  <1> HIDE DEF s, n
  <1>5. ASSUME OneBadDay PROVE Train(todo)
    <2>1. CASE n = 0
      <3>1. todo = s /\ s = <<>>
        BY <1>1, <1>2, <2>1 DEF Reads!FlattenSeq
      <3> QED BY <3>1 DEF Train, Chained
    <2>2. CASE n # 0
      <3>1. PICK f : Joins(s, f) /\ Reads!FlattenSeq(s) = f[n]
        BY <1>1, <1>2, <2>2, FlattenJoins
      <3>2. \A i \in 1..n : f[i] = IF i = 1 THEN s[i] ELSE f[i - 1] \o s[i]
        BY <1>2, <3>1 DEF Joins
      <3> DEFINE Good(p) == p \in Seq(ReadWindows) /\ Train(p)
                 Fine == {k \in Nat : k = 0 \/ k > n \/ Good(f[k])}
      <3>3. 0 \in Fine
        OBVIOUS
      <3>4. ASSUME NEW k \in Fine PROVE k + 1 \in Fine
        <4> SUFFICES ASSUME k + 1 <= n PROVE Good(f[k + 1])
          BY <1>1, <3>4
        <4>1. k + 1 \in 1..n /\ k \in Nat /\ (k + 1) - 1 = k
          BY <3>4
        <4>2. s[k + 1] \in Seq(ReadWindows) /\ Train(s[k + 1])
          BY <1>3, <1>4, <1>5, <4>1
        <4>3. CASE k = 0
          <5>1. f[k + 1] = s[k + 1]
            BY <3>2, <4>1, <4>3
          <5> QED BY <4>2, <5>1
        <4>4. CASE k # 0
          <5>1. Good(f[k]) /\ f[k + 1] = f[k] \o s[k + 1]
            <6>1. k <= n /\ k + 1 # 1
              BY <1>1, <4>1, <4>4
            <6>2. Good(f[k])
              BY <1>1, <3>4, <4>1, <4>4, <6>1
            <6> QED BY <3>2, <4>1, <6>1, <6>2
          <5>2. f[k] \o s[k + 1] \in Seq(ReadWindows)
            BY <4>2, <5>1, ConcatElements
          <5>3. Train(f[k] \o s[k + 1])
            BY <4>2, <5>1, ConcatTrain
          <5> QED BY <5>1, <5>2, <5>3
        <4> QED BY <4>3, <4>4
      <3> HIDE DEF Fine
      <3>5. Fine = Nat
        <4>1. Fine \in SUBSET Nat
          BY DEF Fine
        <4> QED BY <3>3, <3>4, <4>1, NatSetInduction
      <3>6. Good(f[n])
        BY <1>1, <2>2, <3>5 DEF Fine
      <3> QED BY <1>1, <3>1, <3>6
    <2> QED BY <2>1, <2>2
  <1>6. ASSUME OneBadDay PROVE BadDay \in Int
    <2>1. source.bad[1] \in Int /\ ReadDay \in Nat \ {0}
      BY <1>1, ReadsAssumption
    <2> QED BY <2>1 DEF BadDay
  <1>7. SkipInv
    <2> SUFFICES ASSUME OneBadDay PROVE Chained(todo) /\ (todo # <<>> => \E p, l : Piece(todo[1], p, l) /\ StreakFits(streak, p, l, BadDay))
      BY <1>1 DEF SkipInv
    <2>1. Train(todo)
      BY <1>5
    <2>2. ASSUME todo # <<>> PROVE Piece(todo[1], 0, 5) /\ StreakFits(streak, 0, 5, BadDay)
      <3>1. Depth(0) = 5
        BY DEF Depth
      <3> QED BY <1>1, <1>6, <2>1, <2>2, <3>1, FitsAnew DEF Train
    <2> QED BY <2>1, <2>2 DEF Train
  <1>8. attempt = 1 /\ streak = 0 /\ silent = 0 /\ faults = 0 /\ down = FALSE
    BY DEF Reads!Init
  <1>9. Retries \in Nat \ {0} /\ Budget \in Nat
    BY ReadsAssumption
  <1>10. 0 <= 0 * Retries + (1 - 1) /\ 1 \in 1..Retries /\ 0 \in 0..(Budget + 1) /\ 0 # Budget + 1
    BY <1>9
  <1>11. down \in BOOLEAN /\ (faults = 0 => ~down)
    BY <1>8, Zenon
  <1>12. silent <= streak * Retries + (attempt - 1) /\ attempt \in 1..Retries /\ streak <= Budget
    BY <1>8, <1>9, <1>10
  <1> QED BY <1>7, <1>8, <1>9, <1>10, <1>11, <1>12 DEF BudgetInv

----------------------------------------------------------------------------
\* In exact units the code's comparison is that of the pieces.
LEMMA BadTouched ==
  ASSUME source \in ReadSources, OneBadDay, NEW w, NEW p, NEW l, Piece(w, p, l)
  PROVE  /\ BadDay \in Int
         /\ Reads!Bad(w) <=> Touched(p, l, BadDay)
         /\ w.to - w.from <= source.limit
         /\ w.to - w.from > ReadDay <=> l > 0
  <1> DEFINE j == BadDay
  <1>1. PICK q \in Nat \ {0} : ReadDay = 16 * q /\ Unit = 15 * q
    BY UnitIs
  <1>2. source.bad[1] \in Int /\ source.bad[2] \in Int /\ source.limit \in Nat
    BY ReadsAssumption
  <1>3. j \in Int /\ source.bad[1] = j * ReadDay /\ source.bad[2] = j * ReadDay + ReadDay
    <2>1. ReadDay \in Nat \ {0} /\ source.bad[1] % ReadDay = 0
      BY <1>1 DEF OneBadDay
    <2>2. j \in Int /\ source.bad[1] = j * ReadDay
      BY <1>2, <2>1, DivExact DEF BadDay
    <2> QED BY <2>2 DEF OneBadDay
  <1>4. p \in Nat /\ l \in 0..5 /\ w.from = p * Unit /\ w.to = (p + Two(l)) * Unit
    BY DEF Piece
  <1>5. Two(l) \in 1..32 /\ (l > 0 => Two(l) >= 2) /\ (l = 0 => Two(l) = 1)
    BY <1>4, TwoRange
  <1> DEFINE t == Two(l)
  <1> HIDE DEF j, t
  <1>6. /\ w.from = (15 * p) * q /\ w.to = (15 * (p + t)) * q
        /\ source.bad[1] = (16 * j) * q /\ source.bad[2] = (16 * (j + 1)) * q
    BY <1>1, <1>3, <1>4, <1>5 DEF t
  <1>7. 15 * p \in Int /\ 15 * (p + t) \in Int /\ 16 * j \in Int /\ 16 * (j + 1) \in Int
    BY <1>3, <1>4, <1>5 DEF t
  <1>8. (w.from < source.bad[2] <=> 15 * p < 16 * (j + 1))
    BY <1>6, <1>7, ScaleLess
  <1>9. (w.to < source.bad[1] <=> 15 * (p + t) < 16 * j)
    BY <1>6, <1>7, ScaleLess
  <1>10. w.to \in Int /\ w.from \in Int
    BY <1>6, <1>7, ScaleLess
  <1>11. Reads!Bad(w) <=> Touched(p, l, j)
    BY <1>2, <1>7, <1>8, <1>9, <1>10 DEF Reads!Bad, Touched, t
  <1>12. w.to - w.from = (15 * t) * q /\ t \in 1..32 /\ (l > 0 => t >= 2) /\ (l = 0 => t = 1)
    BY <1>4, <1>5, <1>6 DEF t
  <1>13. w.to - w.from > ReadDay <=> l > 0
    <2>1. 15 * t \in Int
      BY <1>12
    <2>2. 16 * q < (15 * t) * q <=> 16 < 15 * t
      BY <2>1, ScaleLess
    <2>3. (15 * t) * q \in Int
      BY <2>1, ScaleLess
    <2> QED BY <1>1, <1>4, <1>12, <2>2, <2>3
  <1>14. w.to - w.from <= source.limit
    <2>1. (15 * t) * q <= (15 * 32) * q
      BY <1>12, MultMonotone
    <2>2. Reads!Width = (15 * 32) * q
      BY <1>1, UnitIs
    <2>3. (15 * t) * q \in Int /\ (15 * 32) * q \in Int
      BY <1>12, ScaleLess
    <2> QED BY <1>2, <1>12, <2>1, <2>2, <2>3 DEF OneBadDay
  <1> QED BY <1>3, <1>11, <1>13, <1>14 DEF j

\* A window is one piece.
LEMMA PieceUnique ==
  ASSUME NEW w, NEW p, NEW l, Piece(w, p, l), NEW h, NEW k, Piece(w, h, k)
  PROVE  p = h /\ l = k
  <1>1. Unit \in Nat \ {0}
    BY UnitIs
  <1>2. p * Unit = h * Unit /\ (p + Two(l)) * Unit = (h + Two(k)) * Unit /\ p \in Nat /\ h \in Nat
    BY DEF Piece
  <1>3. l \in 0..5 /\ k \in 0..5 /\ Two(l) \in 1..32 /\ Two(k) \in 1..32
    BY TwoRange DEF Piece
  <1>4. p = h
    BY <1>1, <1>2, ScaleLess
  <1>5. p + Two(l) = h + Two(k)
    <2>1. p + Two(l) \in Int /\ h + Two(k) \in Int
      BY <1>2, <1>3
    <2> QED BY <1>1, <1>2, <2>1, ScaleLess
  <1>6. Two(l) = Two(k)
    BY <1>2, <1>3, <1>4, <1>5
  <1> QED BY <1>3, <1>4, <1>6 DEF Two

LEMMA TailChained ==
  ASSUME NEW S, NEW t \in Seq(S), t # <<>>, Chained(t)
  PROVE  /\ Chained(Tail(t))
         /\ Tail(t) # <<>> => Follows(t[1], Tail(t)[1]) /\ \E p, l : Piece(Tail(t)[1], p, l)
  <1> DEFINE r == Tail(t)
  <1>1. /\ DOMAIN t = 1..Len(t) /\ Len(t) \in Nat /\ Len(t) >= 1
        /\ DOMAIN r = 1..(Len(t) - 1)
        /\ \A i \in 1..(Len(t) - 1) : r[i] = t[i + 1]
        /\ r # <<>> => Len(t) - 1 >= 1
    OBVIOUS
  <1> HIDE DEF r
  <1>2. \A i \in DOMAIN r : i + 1 \in DOMAIN t
    BY <1>1
  <1>3. Chained(r)
    BY <1>1, <1>2 DEF Chained
  <1>4. ASSUME r # <<>> PROVE Follows(t[1], r[1]) /\ \E p, l : Piece(r[1], p, l)
    <2>1. 1 \in DOMAIN t /\ 1 + 1 \in DOMAIN t /\ r[1] = t[1 + 1] /\ 1 \in DOMAIN r
      BY <1>1, <1>4
    <2> QED BY <1>3, <2>1 DEF Chained
  <1> QED BY <1>3, <1>4 DEF r

\* The window after a short one that fails meets the streak it leaves.
LEMMA SkipFits ==
  ASSUME NEW v, NEW w, NEW p, NEW h, NEW k, Piece(v, p, 0), Piece(w, h, k), Follows(v, w),
         NEW j \in Int, NEW s \in Nat, Touched(p, 0, j), StreakFits(s, p, 0, j)
  PROVE  StreakFits(s + 1, h, k, j)
  <1>1. Unit \in Nat \ {0} /\ p \in Nat /\ h \in Nat /\ k \in 0..5 /\ k <= Depth(h)
    BY UnitIs DEF Piece
  <1>2. v.to = (p + 1) * Unit /\ w.from = h * Unit
    BY DEF Piece, Two
  <1>3. CASE w.of = v.of /\ w.from = v.to
    <2>1. h = p + 1
      BY <1>1, <1>2, <1>3, ScaleLess
    <2> QED BY <1>1, <2>1, FitsNext
  <1>4. CASE FullEnd(v) /\ Piece(w, 0, 5)
    <2>1. PICK m \in Nat : v.to = (32 * m) * Unit
      BY <1>4 DEF FullEnd
    <2>2. p + 1 = 32 * m
      <3>1. p + 1 \in Int /\ 32 * m \in Int
        BY <1>1
      <3> QED BY <1>1, <1>2, <2>1, <3>1, ScaleLess
    <2>3. (p + 1) % 32 = 0
      BY <2>2
    <2>4. h = 0 /\ k = 5
      BY <1>4, PieceUnique
    <2> QED BY <1>1, <2>3, <2>4, FitsOver
  <1> QED BY <1>3, <1>4 DEF Follows

\* The second half of a piece may start where it does.
LEMMA HalfDepth ==
  ASSUME NEW p \in Nat, NEW k \in 0..4, k + 1 <= Depth(p)
  PROVE  k <= Depth(p + Two(k))
  <1>1. k = 0 \/ k = 1 \/ k = 2 \/ k = 3 \/ k = 4
    OBVIOUS
  <1>2. CASE k = 0
    <2>1. p + Two(k) \in Int
      BY <1>2 DEF Two
    <2> QED BY <1>2, <2>1, DepthRange
  <1>3. CASE k = 1
    <2>1. Two(k) = 2 /\ k + 1 = 2
      BY <1>3 DEF Two
    <2>2. p % 4 = 0
      BY <2>1 DEF Depth
    <2>3. (p + 2) % 2 = 0
      BY <2>2
    <2> QED BY <1>3, <2>1, <2>3 DEF Depth
  <1>4. CASE k = 2
    <2>1. Two(k) = 4 /\ k + 1 = 3
      BY <1>4 DEF Two
    <2>2. p % 8 = 0
      BY <2>1 DEF Depth
    <2>3. (p + 4) % 4 = 0
      BY <2>2
    <2> QED BY <1>4, <2>1, <2>3 DEF Depth
  <1>5. CASE k = 3
    <2>1. Two(k) = 8 /\ k + 1 = 4
      BY <1>5 DEF Two
    <2>2. p % 16 = 0
      BY <2>1 DEF Depth
    <2>3. (p + 8) % 8 = 0
      BY <2>2
    <2> QED BY <1>5, <2>1, <2>3 DEF Depth
  <1>6. CASE k = 4
    <2>1. Two(k) = 16 /\ k + 1 = 5
      BY <1>6 DEF Two
    <2>2. p % 32 = 0
      BY <2>1 DEF Depth
    <2>3. (p + 16) % 16 = 0
      BY <2>2
    <2> QED BY <1>6, <2>1, <2>3 DEF Depth
  <1> QED BY <1>1, <1>2, <1>3, <1>4, <1>5, <1>6

\* The halves of a piece are pieces.
LEMMA HalfPieces ==
  ASSUME NEW w \in ReadWindows, NEW p, NEW k \in 0..4, Piece(w, p, k + 1),
         NEW a, a = [w EXCEPT !.to = Reads!Middle(w)],
         NEW b, b = [w EXCEPT !.from = Reads!Middle(w)]
  PROVE  /\ Piece(a, p, k) /\ Piece(b, p + Two(k), k) /\ a \in ReadWindows /\ b \in ReadWindows
         /\ a.of = w.of /\ b.of = w.of /\ b.from = a.to /\ b.to = w.to
  <1> DEFINE m == Reads!Middle(w)
  <1>3. PICK d \in 1..32 : d = Two(k) /\ Two(k + 1) = 2 * d /\ k \in 0..5
    BY DEF Two
  <1>2. /\ p \in Nat /\ k + 1 <= Depth(p)
        /\ w.from = p * Unit /\ w.to = (p + 2 * d) * Unit /\ Unit \in Nat \ {0}
    BY <1>3, UnitIs DEF Piece
  <1>4. /\ w = [of |-> w.of, from |-> w.from, to |-> w.to] /\ w.from \in Nat /\ w.to \in Nat
        /\ w.of \in Elements(ReadResources)
    BY DEF ReadWindows
  <1>5. m = (p + d) * Unit /\ m \in Nat
    <2>1. w.to - w.from = 2 * (d * Unit) /\ d * Unit \in Nat
      BY <1>2, <1>3
    <2>2. m = w.from + (w.to - w.from) \div 2
      BY DEF Reads!Middle
    <2>3. \A x \in Nat : (2 * x) \div 2 = x
      OBVIOUS
    <2> HIDE DEF m
    <2>4. m = p * Unit + d * Unit
      BY <1>2, <2>1, <2>2, <2>3
    <2>5. d \in Nat
      BY <1>3
    <2> QED BY <1>2, <2>4, <2>5
  <1> HIDE DEF m
  <1>6. /\ a.of = w.of /\ a.from = w.from /\ a.to = m /\ b.of = w.of /\ b.from = m /\ b.to = w.to
        /\ a \in ReadWindows /\ b \in ReadWindows
    <2>1. a = [of |-> w.of, from |-> w.from, to |-> m] /\ b = [of |-> w.of, from |-> m, to |-> w.to]
      BY <1>4 DEF m
    <2> HIDE DEF m
    <2> QED BY <1>4, <1>5, <2>1 DEF ReadWindows
  <1>7. Depth(p + d) \in 0..5 /\ k <= Depth(p + d) /\ Depth(p) \in 0..5
    <2>1. p \in Nat /\ d \in Nat /\ p + d \in Nat
      BY <1>2, <1>3
    <2> QED BY <1>2, <1>3, <2>1, HalfDepth, DepthRange
  <1>8. Piece(a, p, k)
    <2>1. k <= Depth(p)
      BY <1>2, <1>7
    <2> QED BY <1>2, <1>3, <1>5, <1>6, <2>1 DEF Piece
  <1>9. Piece(b, p + d, k)
    <2>1. p + d \in Nat /\ (p + d) + d = p + 2 * d
      BY <1>2, <1>3
    <2>2. b.from = (p + d) * Unit /\ b.to = ((p + d) + d) * Unit
      BY <1>2, <1>5, <1>6, <2>1
    <2> QED BY <1>3, <1>7, <2>1, <2>2 DEF Piece
  <1> QED BY <1>3, <1>6, <1>8, <1>9

\* The halves of a piece, in its place in the queue.
LEMMA HalvesChained ==
  ASSUME NEW t \in Seq(ReadWindows), t # <<>>, Chained(t), NEW p, NEW k \in 0..4, Piece(t[1], p, k + 1)
  PROVE  /\ Chained(Reads!Halves(t[1]) \o Tail(t))
         /\ Piece((Reads!Halves(t[1]) \o Tail(t))[1], p, k)
         /\ Reads!Halves(t[1]) \o Tail(t) # <<>>
  <1> DEFINE w == t[1]
             r == Tail(t)
  <1>1. PICK a : a = [w EXCEPT !.to = Reads!Middle(w)]
    OBVIOUS
  <1>2. PICK b : b = [w EXCEPT !.from = Reads!Middle(w)]
    OBVIOUS
  <1>3. Reads!Halves(w) = <<a, b>>
    BY <1>1, <1>2 DEF Reads!Halves
  <1>4. w \in ReadWindows
    OBVIOUS
  <1>6. /\ Piece(a, p, k) /\ Piece(b, p + Two(k), k) /\ a \in ReadWindows /\ b \in ReadWindows
        /\ a.of = w.of /\ b.of = w.of /\ b.from = a.to /\ b.to = w.to
    BY <1>1, <1>2, <1>4, HalfPieces
  <1> DEFINE u == <<a, b>> \o r
  <1> HIDE DEF w
  <1>10. Follows(a, b)
    BY <1>6 DEF Follows
  <1>11. Chained(r) /\ (r # <<>> => Follows(w, r[1]))
    BY TailChained DEF w
  <1>12. r # <<>> => Follows(b, r[1])
    BY <1>6, <1>11 DEF Follows, FullEnd
  <1>13. r \in Seq(ReadWindows)
    OBVIOUS
  <1>14. /\ Len(r) \in Nat /\ DOMAIN u = 1..(Len(r) + 2) /\ u[1] = a /\ u[2] = b
         /\ \A i \in 3..(Len(r) + 2) : u[i] = r[i - 2]
         /\ DOMAIN r = 1..Len(r) /\ (Len(r) > 0 => r # <<>>)
    <2>0. PICK z : z = r
      OBVIOUS
    <2>1. z \in Seq(ReadWindows)
      BY <1>13, <2>0
    <2> HIDE DEF r
    <2>2. a \in ReadWindows /\ b \in ReadWindows
      BY <1>6
    <2>3. PICK y : y = <<a, b>>
      OBVIOUS
    <2>4. y \in Seq(ReadWindows) /\ Len(y) = 2 /\ y[1] = a /\ y[2] = b
      BY <2>2, <2>3
    <2>5. /\ Len(z) \in Nat /\ DOMAIN (y \o z) = 1..(Len(z) + 2)
          /\ \A i \in 1..(Len(z) + 2) : (y \o z)[i] = IF i <= 2 THEN y[i] ELSE z[i - 2]
          /\ DOMAIN z = 1..Len(z) /\ (Len(z) > 0 => z # <<>>)
      <3>1. \A x, v \in Seq(ReadWindows) : /\ Len(x \o v) = Len(x) + Len(v) /\ DOMAIN (x \o v) = 1..(Len(x) + Len(v))
                                 /\ \A i \in 1..(Len(x) + Len(v)) :
                                      (x \o v)[i] = IF i <= Len(x) THEN x[i] ELSE v[i - Len(x)]
        OBVIOUS
      <3>2. Len(z) \in Nat /\ DOMAIN z = 1..Len(z) /\ (Len(z) > 0 => z # <<>>)
        BY <2>1
      <3>3. /\ DOMAIN (y \o z) = 1..(2 + Len(z))
            /\ \A i \in 1..(2 + Len(z)) : (y \o z)[i] = IF i <= 2 THEN y[i] ELSE z[i - 2]
        <4>1. Len(y \o z) = Len(y) + Len(z)
          BY <2>1, <2>4, <3>1
        <4>2. DOMAIN (y \o z) = 1..(Len(y) + Len(z))
          BY <2>1, <2>4, <3>1
        <4>3. \A i \in 1..(Len(y) + Len(z)) : (y \o z)[i] = IF i <= Len(y) THEN y[i] ELSE z[i - Len(y)]
          BY <2>1, <2>4, <3>1
        <4> HIDE DEF u
        <4> QED BY <2>4, <4>2, <4>3
      <3> QED BY <3>2, <3>3
    <2>6. u = y \o z
      BY <2>0, <2>3
    <2> HIDE DEF u
    <2> QED BY <2>0, <2>4, <2>5, <2>6
  <1> HIDE DEF u, r
  <1>15. ASSUME NEW i \in DOMAIN u PROVE \E h, l : Piece(u[i], h, l)
    <2>1. CASE i = 1
      BY <1>6, <1>14, <2>1
    <2>2. CASE i = 2
      BY <1>6, <1>14, <2>2
    <2>3. CASE i # 1 /\ i # 2
      <3>1. i \in 3..(Len(r) + 2) /\ i - 2 \in DOMAIN r
        BY <1>14, <2>3
      <3> QED BY <1>11, <1>14, <3>1 DEF Chained
    <2> QED BY <2>1, <2>2, <2>3
  <1>16. ASSUME NEW i \in DOMAIN u, i + 1 \in DOMAIN u PROVE Follows(u[i], u[i + 1])
    <2>1. CASE i = 1
      BY <1>10, <1>14, <2>1
    <2>2. CASE i = 2
      <3>1. 3 \in 3..(Len(r) + 2) /\ Len(r) > 0 /\ u[3] = r[3 - 2]
        BY <1>14, <1>16, <2>2
      <3> QED BY <1>12, <1>14, <2>2, <3>1
    <2>3. CASE i # 1 /\ i # 2
      <3>1. /\ i \in 3..(Len(r) + 2) /\ i - 2 \in DOMAIN r /\ (i + 1) \in 3..(Len(r) + 2)
            /\ (i + 1) - 2 = (i - 2) + 1 /\ (i - 2) + 1 \in DOMAIN r
        BY <1>14, <1>16, <2>3
      <3>2. u[i] = r[i - 2] /\ u[i + 1] = r[(i - 2) + 1]
        BY <1>14, <3>1
      <3> QED BY <1>11, <3>1, <3>2 DEF Chained
    <2> QED BY <2>1, <2>2, <2>3
  <1>17. Chained(u)
    BY <1>15, <1>16 DEF Chained
  <1>18. u # <<>>
    <2>1. 1 \in DOMAIN u
      BY <1>14
    <2> QED BY <2>1
  <1>19. Piece(u[1], p, k)
    BY <1>6, <1>14
  <1> QED BY <1>3, <1>17, <1>18, <1>19 DEF u, r, w

\* The window being read is a piece whose streak fits.
LEMMA HeadPiece ==
  ASSUME ReadsInv, todo # <<>>, SkipInv, OneBadDay, faults = 0, streak \in Nat
  PROVE  \E p \in Nat, l \in 0..5 :
           /\ Piece(todo[1], p, l) /\ StreakFits(streak, p, l, BadDay) /\ l <= Depth(p)
           /\ BadDay \in Int /\ (Reads!Bad(todo[1]) <=> Touched(p, l, BadDay))
           /\ todo[1].to - todo[1].from <= source.limit
           /\ todo[1].to - todo[1].from > ReadDay <=> l > 0
  <1>1. PICK p, l : Piece(todo[1], p, l) /\ StreakFits(streak, p, l, BadDay)
    BY DEF SkipInv
  <1>2. p \in Nat /\ l \in 0..5 /\ l <= Depth(p)
    BY <1>1 DEF Piece
  <1> QED BY <1>1, <1>2, BadTouched DEF ReadsInv

\* The next window, when an answer has ended the streak.
LEMMA NextAnew ==
  ASSUME ReadsInv, todo # <<>>, SkipInv, OneBadDay, faults = 0, source' = source,
         todo' = Tail(todo), streak' = 0
  PROVE  /\ Chained(todo')
         /\ todo' # <<>> => \E p, l : Piece(todo'[1], p, l) /\ StreakFits(streak', p, l, BadDay')
  <1>1. Chained(todo') /\ (todo' # <<>> => \E p, l : Piece(todo'[1], p, l))
    BY TailChained DEF SkipInv, ReadsInv
  <1>2. BadDay' = BadDay /\ BadDay \in Int
    <2>1. source.bad[1] \in Int /\ ReadDay \in Nat \ {0}
      BY ReadsAssumption DEF ReadsInv
    <2> QED BY <2>1 DEF BadDay
  <1>3. ASSUME todo' # <<>> PROVE \E p, l : Piece(todo'[1], p, l) /\ StreakFits(streak', p, l, BadDay')
    <2>1. PICK p, l : Piece(todo'[1], p, l)
      BY <1>1, <1>3
    <2>2. p \in Nat /\ l \in 0..5 /\ l <= Depth(p)
      BY <2>1 DEF Piece
    <2>3. StreakFits(0, p, l, BadDay)
      BY <1>2, <2>2, FitsAnew
    <2> QED BY <1>2, <2>1, <2>3
  <1> QED BY <1>1, <1>3

LEMMA HeadIsFirst ==
  ASSUME ReadsInv, todo # <<>>
  PROVE  Reads!Window = todo[1] /\ todo[1] \in ReadWindows /\ todo \in Seq(ReadWindows)
  <1>1. todo \in Seq(ReadWindows) /\ Head(todo) = todo[1]
    BY DEF ReadsInv
  <1> QED BY <1>1 DEF Reads!Window

\* Giving up a window that the bad day touches.
LEMMA NarrowFits ==
  ASSUME ReadsInv, todo # <<>>, SkipInv, OneBadDay, faults = 0, source' = source, streak \in Nat,
         Reads!Bad(todo[1]), Reads!Narrow, streak' = streak + 1
  PROVE  /\ streak' <= 8 /\ Chained(todo')
         /\ todo' # <<>> => \E p, l : Piece(todo'[1], p, l) /\ StreakFits(streak', p, l, BadDay')
         /\ \A w \in outcome' : w.got \/ Reads!Bad(w)
  <1>0. Reads!Window = todo[1] /\ todo[1] \in ReadWindows /\ todo \in Seq(ReadWindows) /\ Chained(todo)
    BY HeadIsFirst DEF SkipInv
  <1>1. PICK p \in Nat, l \in 0..5 :
           /\ Piece(todo[1], p, l) /\ StreakFits(streak, p, l, BadDay) /\ l <= Depth(p)
           /\ BadDay \in Int /\ Touched(p, l, BadDay)
           /\ todo[1].to - todo[1].from > ReadDay <=> l > 0
    BY HeadPiece
  <1>2. BadDay' = BadDay
    BY DEF BadDay
  <1>3. \A w \in outcome : w.got \/ Reads!Bad(w)
    BY DEF SkipInv
  <1>4. CASE l > 0
    <2>1. todo' = Reads!Halves(todo[1]) \o Tail(todo) /\ outcome' = outcome
      BY <1>0, <1>1, <1>4 DEF Reads!Narrow
    <2>2. PICK k \in 0..4 : l = k + 1 /\ k = l - 1
      <3>1. l - 1 \in 0..4 /\ l = (l - 1) + 1
        BY <1>4
      <3> QED BY <3>1
    <2>3. Chained(todo') /\ Piece(todo'[1], p, k) /\ todo' # <<>>
      BY <1>0, <1>1, <2>1, <2>2, HalvesChained
    <2>4. streak + 1 <= 8 /\ StreakFits(streak + 1, p, k, BadDay)
      BY <1>1, <1>4, <2>2, FitsDown
    <2> QED BY <1>2, <1>3, <2>1, <2>3, <2>4
  <1>5. CASE ~(l > 0)
    <2>1. l = 0
      BY <1>5
    <2>2. /\ todo' = Tail(todo)
          /\ outcome' = outcome \cup {[of |-> todo[1].of, from |-> todo[1].from, to |-> todo[1].to, got |-> FALSE]}
      BY <1>0, <1>1, <1>5 DEF Reads!Narrow, Reads!Log
    <2>3. /\ Chained(todo')
          /\ todo' # <<>> => Follows(todo[1], todo'[1]) /\ \E h, k : Piece(todo'[1], h, k)
      BY <1>0, <2>2, TailChained
    <2>4. streak + 1 <= 8
      <3>1. 0 <= Depth(p + 1)
        BY DepthRange
      <3> QED BY <1>1, <2>1, <3>1, FitsNext
    <2>5. ASSUME todo' # <<>> PROVE \E h, k : Piece(todo'[1], h, k) /\ StreakFits(streak', h, k, BadDay')
      <3>1. PICK h, k : Piece(todo'[1], h, k)
        BY <2>3, <2>5
      <3>2. StreakFits(streak + 1, h, k, BadDay)
        BY <1>1, <2>1, <2>3, <2>5, <3>1, SkipFits
      <3> QED BY <1>2, <3>1, <3>2
    <2>6. \A w \in outcome' : w.got \/ Reads!Bad(w)
      <3> DEFINE o == [of |-> todo[1].of, from |-> todo[1].from, to |-> todo[1].to, got |-> FALSE]
      <3>1. o.from = todo[1].from /\ o.to = todo[1].to
        OBVIOUS
      <3> HIDE DEF o
      <3>2. Reads!Bad(o)
        BY <3>1 DEF Reads!Bad
      <3>3. outcome' = outcome \cup {o}
        BY <2>2 DEF o
      <3> QED BY <1>3, <3>2, <3>3
    <2> QED BY <2>3, <2>4, <2>5, <2>6
  <1> QED BY <1>4, <1>5

LEMMA SourceKept ==
  ASSUME source' = source
  PROVE  (OneBadDay' <=> OneBadDay) /\ \A w : (Reads!Bad(w))' <=> Reads!Bad(w)
  <1>1. \A r : Reads!Cap(r)' = Reads!Cap(r)
    BY DEF Reads!Cap, Reads!Least
  <1>2. OneBadDay' <=> OneBadDay
    BY <1>1 DEF OneBadDay, Reads!Order
  <1>3. \A w : (Reads!Bad(w))' <=> Reads!Bad(w)
    BY DEF Reads!Bad
  <1> QED BY <1>2, <1>3

\* What a step has to keep.
LEMMA SkipInvFrom ==
  ASSUME source' = source,
         OneBadDay /\ faults' = 0 =>
            /\ result' # "failed" /\ Chained(todo')
            /\ todo' # <<>> => \E p, l : Piece(todo'[1], p, l) /\ StreakFits(streak', p, l, BadDay')
            /\ \A w \in outcome' : w.got \/ Reads!Bad(w)
  PROVE  SkipInv'
  BY SourceKept DEF SkipInv

\* A step that leaves queue and streak alone keeps it.
LEMMA SkipInvSame ==
  ASSUME SkipInv, source' = source, todo' = todo, streak' = streak, outcome' = outcome,
         result' = result \/ result' = "read", faults \in Nat, faults' \in Nat, faults' = 0 => faults = 0
  PROVE  SkipInv'
  <1>1. BadDay' = BadDay
    BY DEF BadDay
  <1> QED BY <1>1, SkipInvFrom DEF SkipInv

\* Every step keeps the streak within what its piece allows.
LEMMA BudgetInvStep == ReadsInv /\ BudgetInv /\ [Reads!Next]_(Reads!vars) => BudgetInv'
  <1> SUFFICES ASSUME ReadsInv, BudgetInv, [Reads!Next]_(Reads!vars) PROVE BudgetInv'
    OBVIOUS
  <1>a. /\ Retries \in Nat \ {0} /\ Budget \in Nat /\ Budget >= 8
        /\ down \in BOOLEAN /\ faults \in Nat /\ attempt \in 1..Retries /\ streak \in 0..(Budget + 1)
        /\ silent \in Nat /\ streak \in Nat /\ SkipInv /\ source \in ReadSources
    BY ReadsAssumption, ReadsBudget DEF BudgetInv, ReadsInv
  <1>b. /\ result # "failed" => streak <= Budget
        /\ streak = Budget + 1 => attempt = 1
        /\ silent <= streak * Retries + (attempt - 1)
        /\ streak * Retries \in Nat
    BY <1>a DEF BudgetInv
  <1>c. 1 \in 1..Retries /\ 0 \in 0..(Budget + 1) /\ 0 * Retries = 0
    BY <1>a
  <1>d. faults = 0 => ~down
    BY DEF BudgetInv
  \* What is left to show when neither the source nor the fault count decides.
  <1> DEFINE Counts == /\ down \in BOOLEAN /\ faults \in Nat /\ (faults = 0 => ~down)
             Rest == /\ attempt \in 1..Retries /\ streak \in 0..(Budget + 1) /\ silent \in Nat
                     /\ result # "failed" => streak <= Budget
                     /\ streak = Budget + 1 => attempt = 1
                     /\ silent <= streak * Retries + (attempt - 1)
  <1>e. Counts' /\ Rest' /\ SkipInv' => BudgetInv'
    BY DEF BudgetInv
  <1>f. ASSUME down' = down, faults' = faults PROVE Counts'
    BY <1>a, <1>d, <1>f
  <1>g. ASSUME attempt' = attempt, streak' = streak, silent' = silent,
               result' = result \/ result' = "read" \/ result' = "failed", result = "reading"
        PROVE  Rest'
    BY <1>a, <1>b, <1>g
  <1>1. CASE Reads!Answer
    <2>1. /\ todo # <<>> /\ result = "reading" /\ todo' = Tail(todo) /\ attempt' = 1 /\ streak' = 0 /\ silent' = 0
          /\ source' = source /\ down' = down /\ result' = result /\ faults' = faults
          /\ outcome' = outcome \cup {[of |-> Reads!Window.of, from |-> Reads!Window.from, to |-> Reads!Window.to, got |-> TRUE]}
      BY <1>1 DEF Reads!Answer, Reads!Reading, Reads!StreakOver, Reads!Log
    <2>2. ASSUME OneBadDay, faults = 0 PROVE \A w \in outcome' : w.got \/ Reads!Bad(w)
      <3> DEFINE o == [of |-> Reads!Window.of, from |-> Reads!Window.from, to |-> Reads!Window.to, got |-> TRUE]
      <3>1. o.got = TRUE
        OBVIOUS
      <3> HIDE DEF o
      <3>2. outcome' = outcome \cup {o}
        BY <2>1 DEF o
      <3>3. \A w \in outcome : w.got \/ Reads!Bad(w)
        BY <1>a, <2>2 DEF SkipInv
      <3>4. o.got
        BY <3>1
      <3> QED BY <3>2, <3>3, <3>4
    <2>3. SkipInv'
      <3>1. ASSUME OneBadDay, faults = 0
            PROVE  /\ result' # "failed" /\ Chained(todo')
                   /\ todo' # <<>> => \E p, l : Piece(todo'[1], p, l) /\ StreakFits(streak', p, l, BadDay')
        BY <1>a, <2>1, <3>1, NextAnew
      <3> QED BY <2>1, <2>2, <3>1, SkipInvFrom
    <2>4. Rest'
      BY <1>a, <1>c, <2>1
    <2> QED BY <1>e, <1>f, <2>1, <2>3, <2>4
  <1>2. CASE Reads!TooLarge
    <2>1. /\ todo # <<>> /\ result = "reading" /\ Reads!Narrow /\ attempt' = 1 /\ streak' = streak /\ silent' = 0
          /\ source' = source /\ down' = down /\ result' = result /\ faults' = faults
          /\ Reads!Window.to - Reads!Window.from > source.limit
      BY <1>2 DEF Reads!TooLarge, Reads!Reading
    <2>2. ~(OneBadDay /\ faults = 0)
      <3> SUFFICES ASSUME OneBadDay, faults = 0 PROVE FALSE
        OBVIOUS
      <3>1. PICK p \in Nat, l \in 0..5 : todo[1].to - todo[1].from <= source.limit
        BY <1>a, <2>1, HeadPiece
      <3>2. Reads!Window = todo[1] /\ todo[1] \in ReadWindows
        BY <2>1, HeadIsFirst
      <3>3. source.limit \in Nat /\ todo[1].to \in Nat /\ todo[1].from \in Nat
        BY <1>a, <3>2, ReadsAssumption DEF ReadWindows
      <3> QED BY <2>1, <3>1, <3>2, <3>3
    <2>3. SkipInv'
      BY <2>1, <2>2, SkipInvFrom
    <2>4. Rest'
      BY <1>a, <1>b, <1>c, <2>1
    <2> QED BY <1>e, <1>f, <2>1, <2>3, <2>4
  <1>3. CASE Reads!Retry
    <2>1. /\ result = "reading" /\ attempt < Retries /\ attempt' = attempt + 1 /\ silent' = silent + 1
          /\ source' = source /\ down' = down /\ todo' = todo /\ streak' = streak /\ outcome' = outcome
          /\ result' = result /\ (faults' = faults \/ faults' = faults + 1)
      BY <1>3 DEF Reads!Retry, Reads!Fails, Reads!Reading, Reads!Fault
    <2>2. faults' \in Nat /\ (faults' = 0 => faults = 0)
      BY <1>a, <2>1
    <2>3. SkipInv'
      BY <1>a, <2>1, <2>2, SkipInvSame
    <2>4. Rest'
      BY <1>a, <1>b, <2>1
    <2>5. Counts'
      BY <1>a, <1>d, <2>1, <2>2
    <2> QED BY <1>e, <2>3, <2>4, <2>5
  <1>4. CASE Reads!GiveUp
    <2>1. /\ todo # <<>> /\ result = "reading" /\ attempt' = 1 /\ silent' = silent + 1
          /\ streak' = streak + 1 /\ source' = source /\ down' = down
          /\ (faults' = faults \/ faults' = faults + 1)
          /\ (faults' = faults \/ Reads!Fault)
      BY <1>4 DEF Reads!GiveUp, Reads!Fails, Reads!Reading, Reads!Fault
    <2>2. faults' \in Nat /\ (faults' = 0 => faults = 0) /\ streak <= Budget
      BY <1>a, <1>b, <2>1
    <2>3. streak' > Budget => result' = "failed"
      BY <1>4 DEF Reads!GiveUp
    <2>4. ~(streak' > Budget) => Reads!Narrow /\ result' = result
      BY <1>4 DEF Reads!GiveUp
    <2>5. Rest'
      <3>1. (streak + 1) * Retries = streak * Retries + Retries
        BY <1>a
      <3>2. silent' <= streak' * Retries + (attempt' - 1)
        BY <1>a, <1>b, <2>1, <3>1
      <3>3. streak' \in 0..(Budget + 1) /\ (result' # "failed" => streak' <= Budget)
        BY <1>a, <2>1, <2>2, <2>3
      <3> QED BY <1>a, <1>c, <2>1, <3>2, <3>3
    <2>6. SkipInv'
      <3>1. ASSUME OneBadDay, faults' = 0
            PROVE /\ result' # "failed" /\ Chained(todo')
                  /\ todo' # <<>> => \E p, l : Piece(todo'[1], p, l) /\ StreakFits(streak', p, l, BadDay')
                  /\ \A w \in outcome' : w.got \/ Reads!Bad(w)
        <4>1. faults = 0 /\ ~down
          BY <1>d, <2>2, <3>1
        <4>2. ~Reads!Fault
          BY <1>a, <3>1, <4>1 DEF Reads!Fault
        <4>3. Reads!Bad(Reads!Window)
          BY <1>4, <4>1, <4>2 DEF Reads!GiveUp, Reads!Fails
        <4>4. Reads!Window = todo[1] /\ todo[1] \in ReadWindows /\ todo \in Seq(ReadWindows)
          BY <2>1, HeadIsFirst
        <4>5. PICK p \in Nat, l \in 0..5 :
                /\ StreakFits(streak, p, l, BadDay) /\ l <= Depth(p)
                /\ BadDay \in Int /\ Touched(p, l, BadDay)
          BY <1>a, <2>1, <3>1, <4>1, <4>3, <4>4, HeadPiece
        <4>6. streak + 1 <= 8
          <5>1. CASE l > 0
            BY <1>a, <4>5, <5>1, FitsDown
          <5>2. CASE l = 0
            <6>1. 0 <= Depth(p + 1)
              BY DepthRange
            <6> QED BY <1>a, <4>5, <5>2, <6>1, FitsNext
          <5> QED BY <5>1, <5>2
        <4>7. ~(streak' > Budget)
          BY <1>a, <2>1, <4>6
        <4>8. Reads!Narrow /\ result' = "reading"
          BY <2>1, <2>4, <4>7
        <4> QED BY <1>a, <2>1, <3>1, <4>1, <4>3, <4>4, <4>8, NarrowFits
      <3> QED BY <2>1, <3>1, SkipInvFrom
    <2>7. Counts'
      BY <1>a, <1>d, <2>1, <2>2
    <2> QED BY <1>e, <2>5, <2>6, <2>7
  <1>5. CASE Reads!Refused
    <2>1. /\ result = "reading" /\ result' = "failed" /\ source' = source /\ down' = down /\ attempt' = attempt
          /\ streak' = streak /\ silent' = silent /\ faults' = faults + 1
      BY <1>5 DEF Reads!Refused, Reads!Fault, Reads!Reading
    <2>2. faults' \in Nat /\ faults' # 0
      BY <1>a, <2>1
    <2>3. SkipInv'
      BY <2>1, <2>2, SkipInvFrom
    <2>4. Counts'
      BY <1>a, <2>1, <2>2
    <2> QED BY <1>e, <1>g, <2>1, <2>3, <2>4
  <1>6. CASE Reads!Finish
    <2>1. /\ result = "reading" /\ result' = "read" /\ source' = source /\ down' = down /\ attempt' = attempt
          /\ streak' = streak /\ silent' = silent /\ faults' = faults /\ todo' = todo /\ outcome' = outcome
      BY <1>6 DEF Reads!Finish
    <2>2. SkipInv'
      BY <1>a, <2>1, SkipInvSame
    <2> QED BY <1>e, <1>f, <1>g, <2>1, <2>2
  <1>7. CASE Reads!Outage
    <2>1. /\ result = "reading" /\ result' = result /\ source' = source /\ down' = TRUE /\ attempt' = attempt
          /\ streak' = streak /\ silent' = silent /\ faults' = faults + 1 /\ todo' = todo /\ outcome' = outcome
      BY <1>7 DEF Reads!Outage, Reads!Fault, Reads!Reading
    <2>2. faults' \in Nat /\ faults' # 0
      BY <1>a, <2>1
    <2>3. SkipInv'
      BY <2>1, <2>2, SkipInvFrom
    <2>4. Counts'
      BY <2>1, <2>2
    <2> QED BY <1>e, <1>g, <2>1, <2>3, <2>4
  <1>8. CASE Reads!Recover
    <2>1. /\ result' = result /\ source' = source /\ down' = FALSE /\ attempt' = attempt
          /\ streak' = streak /\ silent' = silent /\ faults' = faults /\ todo' = todo /\ outcome' = outcome
      BY <1>8 DEF Reads!Recover
    <2>2. SkipInv'
      BY <1>a, <2>1, SkipInvSame
    <2>3. Counts'
      BY <1>a, <2>1
    <2>4. Rest'
      BY <1>a, <1>b, <2>1
    <2> QED BY <1>e, <2>2, <2>3, <2>4
  <1>9. CASE UNCHANGED Reads!vars
    <2>1. /\ result' = result /\ source' = source /\ down' = down /\ attempt' = attempt
          /\ streak' = streak /\ silent' = silent /\ faults' = faults /\ todo' = todo /\ outcome' = outcome
      BY <1>9 DEF Reads!vars
    <2>2. SkipInv'
      BY <1>a, <2>1, SkipInvSame
    <2>3. Rest'
      BY <1>a, <1>b, <2>1
    <2> QED BY <1>e, <1>f, <2>1, <2>2, <2>3
  <1> QED BY <1>1, <1>2, <1>3, <1>4, <1>5, <1>6, <1>7, <1>8, <1>9 DEF Reads!Next

\* No piece that touches one bad day has a streak above 8.
LEMMA BudgetInvFits == ReadsInv /\ BudgetInv => Reads!BudgetFits
  <1> SUFFICES ASSUME ReadsInv, BudgetInv PROVE Reads!BudgetFits
    OBVIOUS
  <1>1. Reads!OutageBounded
    <2>1. /\ Retries \in Nat \ {0} /\ Budget \in Nat /\ attempt \in 1..Retries /\ streak \in 0..(Budget + 1) /\ silent \in Nat
          /\ streak = Budget + 1 => attempt = 1
          /\ silent <= streak * Retries + (attempt - 1)
      BY ReadsAssumption DEF BudgetInv
    <2>2. CASE streak = Budget + 1
      BY <2>1, <2>2 DEF Reads!OutageBounded
    <2>3. CASE streak # Budget + 1
      <3>1. streak * Retries <= Budget * Retries /\ streak * Retries \in Nat /\ Budget * Retries \in Nat
        BY <2>1, <2>3, MultMonotone
      <3>2. (Budget + 1) * Retries = Budget * Retries + Retries
        BY <2>1
      <3> QED BY <2>1, <3>1, <3>2 DEF Reads!OutageBounded
    <2> QED BY <2>2, <2>3
  <1>2. Reads!OneBadDaySkipped
    BY DEF Reads!OneBadDaySkipped, BudgetInv, SkipInv, OneBadDay
  <1> QED BY <1>1, <1>2 DEF Reads!BudgetFits

(***************************************************************************)
(* The failure budget bounds what a silent source is asked, and one bad    *)
(* day of full windows never exhausts it (import_evidence.py:13-17).       *)
(***************************************************************************)
THEOREM ReadsBudgetFits == Reads!Spec => []Reads!BudgetFits
  <1>1. Reads!Init => ReadsInv /\ BudgetInv
    BY ReadsInvInit, BudgetInvInit
  <1>2. ReadsInv /\ BudgetInv /\ [Reads!Next]_(Reads!vars) => ReadsInv' /\ BudgetInv'
    BY ReadsInvStep, BudgetInvStep
  <1> QED BY <1>1, <1>2, BudgetInvFits, PTL DEF Reads!Spec

(***************************************************************************)
(* Pages cut from a sequence of series                                     *)
(***************************************************************************)
Lower(a, b) == IF a < b THEN a ELSE b
Upper(a, b) == IF a > b THEN a ELSE b

\* What a page from offset to stop takes of a series that follows c buckets.
Cut(s, c, offset, stop) ==
  IF offset < c + Len(s) /\ stop > c
  THEN SubSeq(s, Upper(0, offset - c) + 1, Lower(Len(s), stop - c))
  ELSE <<>>

\* What a subsequence is.
LEMMA SubSeqIs ==
  ASSUME NEW S, NEW s \in Seq(S), NEW m \in Nat, m >= 1, NEW n \in Int, n <= Len(s)
  PROVE  /\ SubSeq(s, m, n) \in Seq(S)
         /\ Len(SubSeq(s, m, n)) = IF m <= n THEN n - m + 1 ELSE 0
         /\ \A i \in 1..(n - m + 1) : SubSeq(s, m, n)[i] = s[i + m - 1]
         /\ DOMAIN SubSeq(s, m, n) = 1..(n - m + 1)
  <1> DEFINE u == SubSeq(s, m, n)
  <1>1. u = [i \in 1..(1 + n - m) |-> s[i + m - 1]] /\ 1 + n - m = n - m + 1
    OBVIOUS
  <1>2. CASE m <= n
    <2>1. n - m + 1 \in Nat /\ \A i \in 1..(n - m + 1) : i + m - 1 \in 1..Len(s)
      BY <1>2
    <2>2. \A i \in 1..(n - m + 1) : s[i + m - 1] \in S
      BY <2>1
    <2> HIDE DEF u
    <2> QED BY <1>1, <1>2, <2>1, <2>2
  <1>3. CASE ~(m <= n)
    <2>1. 1..(n - m + 1) = {} /\ 1..(1 + n - m) = {}
      BY <1>3
    <2>2. u = <<>>
      BY <1>1, <2>1
    <2> HIDE DEF u
    <2> QED BY <1>3, <2>1, <2>2
  <1> QED BY <1>2, <1>3

\* Sequences with the same elements are the same.
LEMMA SeqSame ==
  ASSUME NEW S, NEW T, NEW p \in Seq(S), NEW q \in Seq(T), Len(p) = Len(q),
         \A i \in 1..Len(p) : p[i] = q[i]
  PROVE  p = q
  OBVIOUS

\* What a concatenation is.
LEMMA ConcatIs ==
  ASSUME NEW S, NEW p \in Seq(S), NEW q \in Seq(S)
  PROVE  /\ p \o q \in Seq(S) /\ Len(p \o q) = Len(p) + Len(q) /\ Len(p) \in Nat /\ Len(q) \in Nat
         /\ \A i \in 1..(Len(p) + Len(q)) : (p \o q)[i] = IF i <= Len(p) THEN p[i] ELSE q[i - Len(p)]
  OBVIOUS

\* The next series adds to the page what the page takes of it.
LEMMA PageGrows ==
  ASSUME NEW S, NEW f \in Seq(S), NEW s \in Seq(S), NEW o \in Nat, NEW stop \in Nat
  PROVE  SubSeq(f, o + 1, Lower(stop, Len(f))) \o Cut(s, Len(f), o, stop)
           = SubSeq(f \o s, o + 1, Lower(stop, Len(f) + Len(s)))
  <1> DEFINE c == Len(f)
             e == Len(s)
             lo == Lower(stop, c)
             hi == Lower(stop, c + e)
  <1>1. c \in Nat /\ e \in Nat /\ o + 1 \in Nat /\ o + 1 >= 1
    OBVIOUS
  <1>2. lo \in Nat /\ lo <= c /\ hi \in Nat /\ hi <= c + e
    BY <1>1 DEF Lower
  <1>3. PICK w : w = f \o s
    OBVIOUS
  <1>4. /\ w \in Seq(S) /\ Len(w) = c + e
        /\ \A i \in 1..(c + e) : w[i] = IF i <= c THEN f[i] ELSE s[i - c]
    BY <1>3, ConcatIs
  <1>5. PICK a : a = SubSeq(f, o + 1, lo)
    OBVIOUS
  <1>6. /\ a \in Seq(S) /\ Len(a) = (IF o + 1 <= lo THEN lo - o ELSE 0)
        /\ \A i \in 1..(lo - (o + 1) + 1) : a[i] = f[i + (o + 1) - 1]
    <2>1. lo - (o + 1) + 1 = lo - o
      BY <1>1, <1>2
    <2> HIDE DEF lo
    <2> QED BY <1>1, <1>2, <1>5, <2>1, SubSeqIs
  <1>7. PICK b : b = SubSeq(w, o + 1, hi)
    OBVIOUS
  <1>8. /\ b \in Seq(S) /\ Len(b) = (IF o + 1 <= hi THEN hi - o ELSE 0)
        /\ \A i \in 1..(hi - (o + 1) + 1) : b[i] = w[i + (o + 1) - 1]
    <2>1. hi - (o + 1) + 1 = hi - o
      BY <1>1, <1>2
    <2> HIDE DEF hi
    <2> QED BY <1>1, <1>2, <1>4, <1>7, <2>1, SubSeqIs
  <1>9. PICK d : d = Cut(s, c, o, stop)
    OBVIOUS
  <1> HIDE DEF c, e
  <1>10. CASE ~(o < c + e /\ stop > c)
    <2>1. d = <<>>
      BY <1>9, <1>10 DEF Cut, e
    <2>2. a \o d = a
      BY <1>6, <2>1
    <2>3. Len(a) = Len(b)
      BY <1>1, <1>2, <1>6, <1>8, <1>10 DEF Lower
    <2>4. ASSUME NEW i \in 1..Len(a) PROVE a[i] = b[i]
      <3>1. /\ i \in 1..(lo - (o + 1) + 1) /\ i \in 1..(hi - (o + 1) + 1) /\ lo <= c
            /\ i + (o + 1) - 1 \in 1..(c + e) /\ i + (o + 1) - 1 <= c
        BY <1>1, <1>2, <1>6, <1>8, <1>10, <2>3 DEF Lower
      <3> HIDE DEF lo, hi
      <3> QED BY <1>4, <1>6, <1>8, <3>1
    <2> HIDE DEF lo, hi
    <2>5. a = b
      BY <1>6, <1>8, <2>3, <2>4, SeqSame
    <2> QED BY <1>3, <1>5, <1>7, <1>9, <2>2, <2>5 DEF c, e, lo, hi
  <1>11. CASE o < c + e /\ stop > c
    <2> DEFINE m == Upper(0, o - c) + 1
               n == Lower(e, stop - c)
    <2>1. d = SubSeq(s, m, n)
      BY <1>9, <1>11 DEF Cut, e
    <2>2. m \in Nat /\ m >= 1 /\ n \in Int /\ n <= e
      BY <1>1, <1>11 DEF Upper, Lower
    <2>3. /\ d \in Seq(S) /\ Len(d) = (IF m <= n THEN n - m + 1 ELSE 0)
          /\ \A i \in 1..(n - m + 1) : d[i] = s[i + m - 1]
      <3> HIDE DEF m, n
      <3>1. n <= Len(s)
        BY <2>2 DEF e
      <3> QED BY <2>1, <2>2, <3>1, SubSeqIs
    <2>4. PICK g : g = a \o d
      OBVIOUS
    <2>5. /\ g \in Seq(S) /\ Len(g) = Len(a) + Len(d)
          /\ \A i \in 1..(Len(a) + Len(d)) : g[i] = IF i <= Len(a) THEN a[i] ELSE d[i - Len(a)]
      BY <1>6, <2>3, <2>4, ConcatIs
    <2>6. lo = c /\ hi = c + n /\ Len(a) \in Nat /\ Len(d) \in Nat /\ Len(b) \in Nat
      BY <1>1, <1>2, <1>6, <1>8, <1>11, <2>3 DEF Lower
    <2>7. CASE o <= c
      <3>1. m = 1 /\ n >= 0
        BY <1>1, <1>11, <2>7 DEF Upper, Lower
      <3>2. Len(a) = c - o
        BY <1>1, <1>6, <2>6, <2>7
      <3>3. Len(d) = n /\ Len(b) = c + n - o /\ Len(g) = Len(b)
        <4> HIDE DEF m, n, lo, hi
        <4> QED BY <1>1, <1>8, <2>2, <2>3, <2>5, <2>6, <2>7, <3>1, <3>2
      <3>4. ASSUME NEW i \in 1..Len(g) PROVE g[i] = b[i]
        <4> HIDE DEF m, n, lo, hi
        <4>1. b[i] = w[i + o]
          <5>1. i \in 1..(hi - (o + 1) + 1) /\ i + (o + 1) - 1 = i + o
            BY <1>1, <2>2, <2>6, <3>3
          <5> QED BY <1>8, <5>1
        <4>2. CASE i <= Len(a)
          <5>1. i \in 1..(lo - (o + 1) + 1) /\ i + (o + 1) - 1 = i + o /\ i + o \in 1..(c + e) /\ i + o <= c
            BY <1>1, <2>6, <3>2, <4>2
          <5>2. g[i] = a[i] /\ a[i] = f[i + o] /\ w[i + o] = f[i + o]
            BY <1>4, <1>6, <2>5, <4>2, <5>1
          <5> QED BY <4>1, <5>2
        <4>3. CASE ~(i <= Len(a))
          <5>1. /\ i - Len(a) \in 1..(n - m + 1) /\ (i - Len(a)) + m - 1 = i + o - c
                /\ i + o \in 1..(c + e) /\ ~(i + o <= c)
            BY <1>1, <2>2, <3>1, <3>2, <3>3, <4>3
          <5>2. g[i] = d[i - Len(a)] /\ d[i - Len(a)] = s[i + o - c] /\ w[i + o] = s[i + o - c]
            <6>1. g[i] = d[i - Len(a)]
              BY <2>5, <4>3
            <6>2. d[i - Len(a)] = s[(i - Len(a)) + m - 1]
              BY <2>3, <5>1
            <6>3. w[i + o] = s[(i + o) - c] /\ (i + o) - c = i + o - c
              <7>1. PICK k \in 1..(c + e) : k = i + o /\ ~(k <= c)
                BY <5>1
              <7>2. w[k] = s[k - c]
                BY <1>4, <7>1
              <7> QED BY <1>1, <7>1, <7>2
            <6> QED BY <5>1, <6>1, <6>2, <6>3
          <5> QED BY <4>1, <5>2
        <4> QED BY <4>2, <4>3
      <3> HIDE DEF m, n, lo, hi
      <3>5. g = b
        BY <1>8, <2>5, <3>3, <3>4, SeqSame
      <3> QED BY <1>3, <1>5, <1>7, <1>9, <2>4, <3>5 DEF c, e, lo, hi
    <2>8. CASE o > c
      <3>1. m = o - c + 1
        BY <1>1, <2>8 DEF Upper
      <3>2. Len(a) = 0
        BY <1>1, <1>6, <2>6, <2>8
      <3>3. Len(d) = Len(b) /\ Len(g) = Len(b)
        <4> HIDE DEF m, n, lo, hi
        <4> QED BY <1>1, <1>8, <2>2, <2>3, <2>5, <2>6, <2>8, <3>1, <3>2
      <3>4. ASSUME NEW i \in 1..Len(g) PROVE g[i] = b[i]
        <4> HIDE DEF m, n, lo, hi
        <4>1. /\ i \in 1..(hi - (o + 1) + 1) /\ i + (o + 1) - 1 = i + o
              /\ i \in 1..(n - m + 1) /\ i + m - 1 = i + o - c
              /\ i + o \in 1..(c + e) /\ ~(i + o <= c)
          BY <1>1, <1>8, <2>2, <2>3, <2>6, <2>8, <3>1, <3>3
        <4>2. b[i] = w[i + o]
          BY <1>8, <4>1
        <4>3. g[i] = d[i]
          <5>1. ~(i <= Len(a)) /\ i - Len(a) = i
            BY <3>2
          <5> QED BY <2>5, <5>1
        <4>4. d[i] = s[i + o - c] /\ w[i + o] = s[i + o - c]
          <5>1. d[i] = s[i + m - 1]
            BY <2>3, <4>1
          <5>2. w[i + o] = s[(i + o) - c] /\ (i + o) - c = i + o - c
            <6>1. PICK k \in 1..(c + e) : k = i + o /\ ~(k <= c)
              BY <4>1
            <6>2. w[k] = s[k - c]
              BY <1>4, <6>1
            <6> QED BY <1>1, <6>1, <6>2
          <5> QED BY <4>1, <5>1, <5>2
        <4> QED BY <4>2, <4>3, <4>4
      <3> HIDE DEF m, n, lo, hi
      <3>5. g = b
        BY <1>8, <2>5, <3>3, <3>4, SeqSame
      <3> QED BY <1>3, <1>5, <1>7, <1>9, <2>4, <3>5 DEF c, e, lo, hi
    <2>9. o <= c \/ o > c
      BY <1>1
    <2> HIDE DEF m, n, lo, hi
    <2> QED BY <2>7, <2>8, <2>9
  <1> QED BY <1>10, <1>11

LEMMA LenFun ==
  ASSUME NEW s, NEW n \in Nat, DOMAIN s = 1..n, s = [i \in 1..n |-> s[i]]
  PROVE  Len(s) = n
  <1>1. s \in Seq({s[i] : i \in 1..n})
    OBVIOUS
  <1> QED BY <1>1

\* What two series, one after the other, contribute to a page.
Grows(S, h, e, o, stop) ==
  /\ h \o e \in Seq(S) /\ Len(h \o e) = Len(h) + Len(e)
  /\ SubSeq(h, o + 1, Lower(stop, Len(h))) \o Cut(e, Len(h), o, stop)
       = SubSeq(h \o e, o + 1, Lower(stop, Len(h) + Len(e)))

\* Cut for cut, a page is cut from the concatenation.
LEMMA CutGrows ==
  ASSUME NEW S, NEW h \in Seq(S), NEW e \in Seq(S), NEW o \in Nat, NEW stop \in Nat
  PROVE  Grows(S, h, e, o, stop)
  <1>1. SubSeq(h, o + 1, Lower(stop, Len(h))) \o Cut(e, Len(h), o, stop)
          = SubSeq(h \o e, o + 1, Lower(stop, Len(h) + Len(e)))
    BY PageGrows, Zenon
  <1>2. h \o e \in Seq(S) /\ Len(h \o e) = Len(h) + Len(e)
    BY ConcatIs, Zenon
  <1> QED BY <1>1, <1>2 DEF Grows

\* Of the first series a page takes a subsequence.
LEMMA CutFirst ==
  ASSUME NEW S, NEW e \in Seq(S), NEW o \in Nat, NEW stop \in Nat
  PROVE  Cut(e, 0, o, stop) = SubSeq(e, o + 1, Lower(stop, Len(e)))
  <1>1. PICK z : z = <<>>
    OBVIOUS
  <1>2. z \in Seq(S) /\ Len(z) = 0
    BY <1>1
  <1>3. Len(e) \in Nat /\ 0 + Len(e) = Len(e)
    OBVIOUS
  <1>4. SubSeq(z, o + 1, Lower(stop, 0)) \o Cut(e, 0, o, stop) = SubSeq(z \o e, o + 1, Lower(stop, Len(e)))
    <2>1. Grows(S, z, e, o, stop)
      BY <1>2, CutGrows
    <2> QED BY <1>2, <1>3, <2>1 DEF Grows
  <1>5. z \o e = e
    BY <1>1, ConcatEmptySeq
  <1>6. SubSeq(z, o + 1, Lower(stop, 0)) = <<>>
    <2>1. Lower(stop, 0) = 0
      BY DEF Lower
    <2>2. Len(SubSeq(z, o + 1, 0)) = 0 /\ SubSeq(z, o + 1, 0) \in Seq(S)
      BY <1>2, SubSeqIs
    <2> QED BY <2>1, <2>2, EmptySeq
  <1>7. Cut(e, 0, o, stop) \in Seq(S)
    <2>1. CASE o < 0 + Len(e) /\ stop > 0
      <3>1. Upper(0, o - 0) + 1 \in Nat /\ Upper(0, o - 0) + 1 >= 1 /\ Lower(Len(e), stop - 0) \in Int /\ Lower(Len(e), stop - 0) <= Len(e)
        BY DEF Upper, Lower
      <3>2. SubSeq(e, Upper(0, o - 0) + 1, Lower(Len(e), stop - 0)) \in Seq(S)
        BY <3>1, SubSeqIs
      <3> QED BY <2>1, <3>2 DEF Cut
    <2>2. CASE ~(o < 0 + Len(e) /\ stop > 0)
      BY <2>2 DEF Cut
    <2> QED BY <2>1, <2>2
  <1>8. <<>> \o Cut(e, 0, o, stop) = Cut(e, 0, o, stop)
    BY <1>7, ConcatEmptySeq
  <1> QED BY <1>4, <1>5, <1>6, <1>8

\* p is what a page from o to stop takes of n series of E buckets.
IsCut(S, s, p, o, stop, n, E) ==
  /\ Reads!FlattenSeq(s) \in Seq(S) /\ Len(Reads!FlattenSeq(s)) = n * E
  /\ Reads!FlattenSeq(p) = SubSeq(Reads!FlattenSeq(s), o + 1, Lower(stop, n * E))

\* A page of equally long series is cut from all of them joined.
LEMMA FlattenCut ==
  ASSUME NEW S, NEW n \in Nat \ {0}, NEW E \in Nat, NEW s \in [1..n -> Seq(S)],
         \A i \in 1..n : Len(s[i]) = E, NEW o \in Nat, NEW stop \in Nat,
         NEW p, p = [i \in 1..n |-> Cut(s[i], (i - 1) * E, o, stop)]
  PROVE  IsCut(S, s, p, o, stop, n, E)
  <1>1. Len(s) = n /\ Len(p) = n
    BY LenFun
  <1>2. PICK f : Joins(s, f) /\ Reads!FlattenSeq(s) = f[n]
    BY <1>1, FlattenJoins
  <1>3. PICK g : Joins(p, g) /\ Reads!FlattenSeq(p) = g[n]
    BY <1>1, FlattenJoins
  <1>4. \A i \in 1..n : /\ f[i] = IF i = 1 THEN s[i] ELSE f[i - 1] \o s[i]
                        /\ g[i] = IF i = 1 THEN p[i] ELSE g[i - 1] \o p[i]
    BY <1>1, <1>2, <1>3 DEF Joins
  <1>5. \A i \in 1..n : s[i] \in Seq(S) /\ Len(s[i]) = E /\ p[i] = Cut(s[i], (i - 1) * E, o, stop)
    OBVIOUS
  <1> DEFINE Good(k) == /\ f[k] \in Seq(S) /\ Len(f[k]) = k * E
                        /\ g[k] = SubSeq(f[k], o + 1, Lower(stop, k * E))
             Fine == {k \in Nat : k = 0 \/ k > n \/ Good(k)}
  <1>6. 0 \in Fine
    OBVIOUS
  <1>7. ASSUME NEW k \in Fine PROVE k + 1 \in Fine
    <2> SUFFICES ASSUME k + 1 <= n PROVE Good(k + 1)
      BY <1>7
    <2>1. k + 1 \in 1..n /\ k \in Nat /\ (k + 1) - 1 = k
      BY <1>7
    <2>2. PICK e \in Seq(S) : e = s[k + 1] /\ Len(e) = E /\ p[k + 1] = Cut(e, k * E, o, stop)
      BY <1>5, <2>1
    <2>3. CASE k = 0
      <3>1. f[k + 1] = e /\ g[k + 1] = Cut(e, 0, o, stop)
        <4>1. k + 1 = 1 /\ k * E = 0
          BY <2>3
        <4> QED BY <1>4, <2>1, <2>2, <4>1
      <3>2. Cut(e, 0, o, stop) = SubSeq(e, o + 1, Lower(stop, E))
        <4>1. Cut(e, 0, o, stop) = SubSeq(e, o + 1, Lower(stop, Len(e)))
          BY <2>2, CutFirst
        <4> QED BY <2>2, <4>1
      <3>3. (k + 1) * E = E
        BY <2>3
      <3> QED BY <2>2, <3>1, <3>2, <3>3
    <2>4. CASE k # 0
      <3>1. Good(k)
        <4>1. k <= n
          BY <2>1
        <4> QED BY <1>7, <2>4, <4>1
      <3>2. f[k + 1] = f[k] \o e /\ g[k + 1] = g[k] \o Cut(e, k * E, o, stop)
        <4>1. k + 1 # 1
          BY <2>1, <2>4
        <4>2. /\ f[k + 1] = f[(k + 1) - 1] \o s[k + 1]
              /\ g[k + 1] = g[(k + 1) - 1] \o p[k + 1]
          BY <1>4, <2>1, <4>1
        <4> QED BY <2>1, <2>2, <4>2
      <3>3. PICK h \in Seq(S) : h = f[k] /\ Len(h) = k * E /\ g[k] = SubSeq(h, o + 1, Lower(stop, k * E))
        BY <3>1
      <3>4. k * E + E = (k + 1) * E
        BY <2>1
      <3>5. /\ h \o e \in Seq(S) /\ Len(h \o e) = (k + 1) * E
            /\ SubSeq(h, o + 1, Lower(stop, k * E)) \o Cut(e, k * E, o, stop)
                 = SubSeq(h \o e, o + 1, Lower(stop, (k + 1) * E))
        <4>1. Grows(S, h, e, o, stop)
          BY <2>2, CutGrows
        <4> QED BY <2>2, <3>3, <3>4, <4>1, Zenon DEF Grows
      <3> QED BY <3>2, <3>3, <3>5
    <2> QED BY <2>3, <2>4
  <1> HIDE DEF Fine
  <1>8. Fine = Nat
    <2>1. Fine \in SUBSET Nat
      BY DEF Fine
    <2> QED BY <1>6, <1>7, <2>1, NatSetInduction
  <1>9. Good(n)
    <2>1. n \in Fine
      BY <1>8
    <2> QED BY <2>1 DEF Fine
  <1> QED BY <1>2, <1>3, <1>9 DEF IsCut

----------------------------------------------------------------------------
(***************************************************************************)
(* The pages of a query are parts of one answer                            *)
(***************************************************************************)
LEMMA DivMonotone ==
  ASSUME NEW a \in Int, NEW b \in Int, a <= b, NEW d \in Nat \ {0}
  PROVE  a \div d \in Int /\ b \div d \in Int /\ a \div d <= b \div d
  <1>1. a \div d \in Int /\ b \div d \in Int
    OBVIOUS
  <1>2. (a \div d) * d <= a /\ b < (b \div d) * d + d
    OBVIOUS
  <1> DEFINE x == a \div d
             y == b \div d
  <1> HIDE DEF x, y
  <1>3. x \in Int /\ y \in Int /\ x * d < y * d + d
    <2>1. x \in Int /\ y \in Int /\ x * d <= a /\ b < y * d + d
      BY <1>1, <1>2 DEF x, y
    <2> QED BY <2>1
  <1>4. y * d + d = (y + 1) * d
    BY <1>3
  <1>5. x < y + 1
    <2>1. ASSUME x >= y + 1 PROVE FALSE
      <3>1. x * d >= (y + 1) * d
        BY <1>3, <2>1
      <3> QED BY <1>3, <1>4, <3>1
    <2> QED BY <1>3, <2>1
  <1> QED BY <1>3, <1>5 DEF x, y

\* A view of a request that is not empty.
Asked(v) == v.req.start \in Int /\ v.req.end \in Int /\ v.req.start < v.req.end /\ v.zone \in Int

\* Every series of a view has a bucket for each hour or day asked for.
LEMMA SeriesFits ==
  ASSUME NEW v, Asked(v)
  PROVE  /\ Pages!Each(v) \in Nat
         /\ \A q : /\ Pages!Series(v, q) \in Seq({Pages!Series(v, q)[i] : i \in 1..Pages!Each(v)})
                   /\ Len(Pages!Series(v, q)) = Pages!Each(v)
                   /\ DOMAIN Pages!Series(v, q) = 1..Pages!Each(v)
  <1> DEFINE first == Pages!DayOf(v.req.start, v.zone)
             n == IF v.req.period = "hour" THEN v.req.end - v.req.start
                  ELSE Pages!DayOf(v.req.end - 1, v.zone) - first + 1
  <1>1. n \in Nat
    <2>1. /\ v.req.start - v.zone \in Int /\ (v.req.end - 1) - v.zone \in Int
          /\ v.req.start - v.zone <= (v.req.end - 1) - v.zone /\ PageDay \in Nat \ {0}
      <3>1. PICK a \in Int : a = v.req.start
        BY DEF Asked
      <3>2. PICK b \in Int : b = v.req.end
        BY DEF Asked
      <3>3. PICK z \in Int : z = v.zone
        BY DEF Asked
      <3>4. a < b
        BY <3>1, <3>2 DEF Asked
      <3>5. a - z \in Int /\ (b - 1) - z \in Int /\ a - z <= (b - 1) - z
        BY <3>4
      <3> QED BY <3>1, <3>2, <3>3, <3>5, PagesAssumption
    <2>2. /\ first \in Int /\ Pages!DayOf(v.req.end - 1, v.zone) \in Int
          /\ first <= Pages!DayOf(v.req.end - 1, v.zone)
      BY <2>1, DivMonotone DEF Pages!DayOf
    <2> QED BY <2>2 DEF Asked
  <1>2. ASSUME NEW q
        PROVE  LET s == Pages!Series(v, q) IN DOMAIN s = 1..n /\ s = [i \in 1..n |-> s[i]]
    BY DEF Pages!Series
  <1> HIDE DEF n
  <1>3. ASSUME NEW q
        PROVE  /\ Len(Pages!Series(v, q)) = n /\ DOMAIN Pages!Series(v, q) = 1..n
               /\ Pages!Series(v, q) \in Seq({Pages!Series(v, q)[i] : i \in 1..n})
    <2>1. PICK s : s = Pages!Series(v, q)
      OBVIOUS
    <2>2. DOMAIN s = 1..n /\ s = [i \in 1..n |-> s[i]]
      BY <1>2, <2>1
    <2>3. s \in Seq({s[i] : i \in 1..n}) /\ Len(s) = n
      BY <1>1, <2>2
    <2> QED BY <2>1, <2>2, <2>3
  <1>4. Pages!Each(v) = n
    BY <1>3 DEF Pages!Each
  <1> QED BY <1>1, <1>3, <1>4

\* The whole answer of a view.
Joined(v) == Pages!FlattenSeq([i \in 1..Len(Quantities) |-> Pages!Series(v, Quantities[i])])

LEMMA PagesFlatten == ASSUME NEW s PROVE Pages!FlattenSeq(s) = Reads!FlattenSeq(s)
  BY DEF Pages!FlattenSeq, Reads!FlattenSeq

\* The buckets of an answer.
Buckets(v) == UNION {{Pages!Series(v, q)[i] : i \in 1..Pages!Each(v)} : q \in {Quantities[k] : k \in 1..Len(Quantities)}}

\* _page: a page is cut from the answer of its view.
LEMMA PageIsPart ==
  ASSUME NEW v, Asked(v), NEW o \in Nat, NEW stop \in Nat, stop <= Pages!All(v)
  PROVE  /\ Joined(v) \in Seq(Buckets(v)) /\ Len(Joined(v)) = Pages!All(v) /\ Pages!All(v) \in Nat
         /\ Pages!Page(v, o, stop) = SubSeq(Joined(v), o + 1, stop)
  <1> DEFINE n == Len(Quantities)
             E == Pages!Each(v)
             S == Buckets(v)
             s == [i \in 1..n |-> Pages!Series(v, Quantities[i])]
             p == [i \in 1..n |-> Cut(s[i], (i - 1) * E, o, stop)]
  <1>1. n \in Nat \ {0}
    BY PagesAssumption
  <1>2. E \in Nat /\ \A q : Pages!Series(v, q) \in Seq({Pages!Series(v, q)[i] : i \in 1..E}) /\ Len(Pages!Series(v, q)) = E
    BY SeriesFits
  <1>3. Pages!All(v) = n * E /\ n * E \in Nat
    <2> HIDE DEF n, E
    <2>1. n * E = E * n /\ n * E \in Nat
      BY <1>1, <1>2
    <2> QED BY <2>1 DEF Pages!All, n, E
  <1>4. ASSUME NEW i \in 1..n PROVE Pages!Series(v, Quantities[i]) \in Seq(S) /\ Len(Pages!Series(v, Quantities[i])) = E
    <2>1. {Pages!Series(v, Quantities[i])[j] : j \in 1..E} \subseteq S
      BY DEF Buckets
    <2>2. PICK x : x = Pages!Series(v, Quantities[i])
      OBVIOUS
    <2>3. x \in Seq({x[j] : j \in 1..E}) /\ Len(x) = E
      BY <1>2, <2>2
    <2>4. x \in Seq(S)
      BY <2>1, <2>2, <2>3, SeqMonotonic
    <2> QED BY <2>2, <2>3, <2>4
  <1>5. Joined(v) = Reads!FlattenSeq(s)
    BY PagesFlatten DEF Joined
  <1>6. Pages!Page(v, o, stop) = Reads!FlattenSeq(p)
    <2> DEFINE g == [i \in 1..n |->
                      LET cursor == (i - 1) * Pages!Each(v)
                      IN  IF o < cursor + Pages!Each(v) /\ stop > cursor
                          THEN SubSeq(Pages!Series(v, Quantities[i]), Pages!Most(0, o - cursor) + 1,
                                      Pages!Least(Pages!Each(v), stop - cursor))
                          ELSE <<>>]
    <2>1. Pages!Page(v, o, stop) = Reads!FlattenSeq(g)
      BY PagesFlatten DEF Pages!Page
    <2>2. ASSUME NEW i \in 1..n PROVE g[i] = p[i]
      <3>1. Len(s[i]) = E /\ s[i] = Pages!Series(v, Quantities[i])
        BY <1>4
      <3> HIDE DEF s
      <3> QED BY <3>1 DEF Cut, Lower, Upper, Pages!Most, Pages!Least
    <2>3. g = p
      BY <2>2
    <2> QED BY <2>1, <2>3
  <1>7. s \in [1..n -> Seq(S)] /\ \A i \in 1..n : Len(s[i]) = E
    BY <1>4
  <1>8. Lower(stop, n * E) = stop
    BY <1>3 DEF Lower
  <1> HIDE DEF n, E, S, s
  <1>9. /\ Reads!FlattenSeq(s) \in Seq(S) /\ Len(Reads!FlattenSeq(s)) = n * E
        /\ Reads!FlattenSeq(p) = SubSeq(Reads!FlattenSeq(s), o + 1, Lower(stop, n * E))
    <2>1. PICK t \in [1..n -> Seq(S)] : t = s
      BY <1>7
    <2>2. PICK u : u = p
      OBVIOUS
    <2>3. u = [i \in 1..n |-> Cut(t[i], (i - 1) * E, o, stop)] /\ \A i \in 1..n : Len(t[i]) = E
      BY <1>7, <2>1, <2>2
    <2> HIDE DEF p
    <2>4. IsCut(S, t, u, o, stop, n, E)
      BY <1>1, <1>2, <2>3, FlattenCut
    <2> QED BY <2>1, <2>2, <2>4 DEF IsCut
  <1> QED BY <1>3, <1>5, <1>6, <1>8, <1>9 DEF S

\* What a caller has joined is the beginning of the answer.
PagesInv ==
  /\ zone \in Int
  /\ query.pc \in {"reading", "done"} =>
       /\ Asked(query.seen) /\ query.token = query.seen
       /\ \E k \in Nat : /\ k <= Pages!All(query.seen)
                         /\ query.got = SubSeq(Joined(query.seen), 1, k) /\ Len(query.got) = k
                         /\ query.pc = "reading" => k < Pages!All(query.seen)
                         /\ query.pc = "done" => k = Pages!All(query.seen)

\* The next page goes on where the pages before end.
LEMMA AnsweredKeeps ==
  ASSUME NEW v, Asked(v), NEW got, NEW k \in Nat, k <= Pages!All(v),
         got = SubSeq(Joined(v), 1, k), Len(got) = k, NEW size \in Nat \ {0},
         Pages!Answered(v, v, v, got, size), zone' \in Int
  PROVE  PagesInv'
  <1> DEFINE stop == Pages!Least(Pages!All(v), k + size)
             q == [pc |-> IF stop < Pages!All(v) THEN "reading" ELSE "done",
                   token |-> v, seen |-> v, got |-> got \o Pages!Page(v, k, stop)]
  <1>1. Joined(v) \in Seq(Buckets(v)) /\ Len(Joined(v)) = Pages!All(v) /\ Pages!All(v) \in Nat
    <2>1. 0 \in Nat /\ 0 <= Pages!All(v)
      <3>1. Pages!Each(v) \in Nat /\ Len(Quantities) \in Nat
        BY SeriesFits, PagesAssumption
      <3>2. Pages!Each(v) * Len(Quantities) \in Nat
        BY <3>1
      <3> QED BY <3>2 DEF Pages!All
    <2> QED BY <2>1, PageIsPart
  <1>2. query' = q
    BY DEF Pages!Answered
  <1>3. stop \in Nat /\ stop <= Pages!All(v) /\ k <= stop /\ stop = Pages!Least(Pages!All(v), k + size)
    BY <1>1 DEF Pages!Least
  <1> HIDE DEF stop
  <1>4. Pages!Page(v, k, stop) = SubSeq(Joined(v), k + 1, stop)
    BY <1>3, PageIsPart
  <1>5. got \o SubSeq(Joined(v), k + 1, stop) = SubSeq(Joined(v), 1, stop)
    <2>1. PICK w : w = Joined(v)
      OBVIOUS
    <2>2. w \in Seq(Buckets(v)) /\ Len(w) = Pages!All(v) /\ got = SubSeq(w, 1, k)
      BY <1>1, <2>1
    <2>3. PICK x : x = SubSeq(w, k + 1, stop)
      OBVIOUS
    <2>4. PICK y : y = SubSeq(w, 1, stop)
      OBVIOUS
    <2>5. /\ got \in Seq(Buckets(v)) /\ (\A i \in 1..k : got[i] = w[i])
      <3>1. /\ SubSeq(w, 1, k) \in Seq(Buckets(v))
            /\ \A i \in 1..(k - 1 + 1) : SubSeq(w, 1, k)[i] = w[i + 1 - 1]
        BY <2>2, SubSeqIs
      <3>2. k - 1 + 1 = k /\ \A i \in 1..k : i + 1 - 1 = i
        OBVIOUS
      <3> QED BY <2>2, <3>1, <3>2
    <2>6. /\ y \in Seq(Buckets(v)) /\ Len(y) = stop /\ \A i \in 1..stop : y[i] = w[i]
      <3>0. stop <= Len(w)
        BY <1>3, <2>2
      <3>1. /\ y \in Seq(Buckets(v)) /\ Len(y) = (IF 1 <= stop THEN stop - 1 + 1 ELSE 0)
            /\ \A i \in 1..(stop - 1 + 1) : y[i] = w[i + 1 - 1]
        BY <1>3, <2>2, <2>4, <3>0, SubSeqIs
      <3>2. stop - 1 + 1 = stop /\ (\A i \in 1..stop : i + 1 - 1 = i) /\ (~(1 <= stop) => stop = 0)
        BY <1>3
      <3> QED BY <3>1, <3>2
    <2>7. /\ x \in Seq(Buckets(v)) /\ Len(x) = stop - k /\ \A i \in 1..(stop - k) : x[i] = w[i + k]
      <3>0. stop <= Len(w) /\ k + 1 \in Nat /\ k + 1 >= 1
        BY <1>3, <2>2
      <3>1. /\ x \in Seq(Buckets(v)) /\ Len(x) = (IF k + 1 <= stop THEN stop - (k + 1) + 1 ELSE 0)
            /\ \A i \in 1..(stop - (k + 1) + 1) : x[i] = w[i + (k + 1) - 1]
        BY <1>3, <2>2, <2>3, <3>0, SubSeqIs
      <3>2. stop - (k + 1) + 1 = stop - k /\ (\A i \in 1..(stop - k) : i + (k + 1) - 1 = i + k) /\ (~(k + 1 <= stop) => stop - k = 0)
        BY <1>3
      <3> QED BY <3>1, <3>2
    <2>8. PICK g : g = got \o x
      OBVIOUS
    <2>9. /\ g \in Seq(Buckets(v)) /\ Len(g) = stop
          /\ \A i \in 1..stop : g[i] = IF i <= k THEN got[i] ELSE x[i - k]
      <3>1. /\ g \in Seq(Buckets(v)) /\ Len(g) = Len(got) + Len(x)
            /\ \A i \in 1..(Len(got) + Len(x)) : g[i] = IF i <= Len(got) THEN got[i] ELSE x[i - Len(got)]
        <4>1. PICK S : S = Buckets(v)
          OBVIOUS
        <4>2. got \in Seq(S) /\ x \in Seq(S)
          BY <2>5, <2>7, <4>1
        <4>3. /\ got \o x \in Seq(S) /\ Len(got \o x) = Len(got) + Len(x)
              /\ \A i \in 1..(Len(got) + Len(x)) : (got \o x)[i] = IF i <= Len(got) THEN got[i] ELSE x[i - Len(got)]
          BY <4>2, ConcatIs, Zenon
        <4> QED BY <2>8, <4>1, <4>3
      <3>2. Len(got) + Len(x) = stop
        BY <1>3, <2>7
      <3> QED BY <3>1, <3>2
    <2>10. ASSUME NEW i \in 1..stop PROVE g[i] = y[i]
      <3>1. CASE i <= k
        <4>1. i \in 1..k
          BY <1>3, <3>1
        <4> QED BY <2>5, <2>6, <2>9, <3>1, <4>1
      <3>2. CASE ~(i <= k)
        <4>1. i - k \in 1..(stop - k) /\ (i - k) + k = i
          BY <1>3, <3>2
        <4>2. x[i - k] = w[(i - k) + k]
          BY <2>7, <4>1
        <4> QED BY <2>6, <2>9, <3>2, <4>1, <4>2
      <3> QED BY <3>1, <3>2
    <2>11. g = y
      BY <2>6, <2>9, <2>10, SeqSame
    <2> QED BY <2>1, <2>3, <2>4, <2>8, <2>11
  <1>6. Len(SubSeq(Joined(v), 1, stop)) = stop
    <2>1. PICK w : w = Joined(v)
      OBVIOUS
    <2>2. w \in Seq(Buckets(v)) /\ stop <= Len(w)
      BY <1>1, <1>3, <2>1
    <2>3. Len(SubSeq(w, 1, stop)) = (IF 1 <= stop THEN stop - 1 + 1 ELSE 0)
      BY <1>3, <2>2, SubSeqIs
    <2> QED BY <1>3, <2>1, <2>3
  <1>7. /\ query'.seen = v /\ query'.token = v /\ query'.got = SubSeq(Joined(v), 1, stop)
        /\ query'.pc = IF stop < Pages!All(v) THEN "reading" ELSE "done"
    BY <1>2, <1>4, <1>5
  <1>8. /\ query'.pc = "reading" => stop < Pages!All(v)
        /\ query'.pc = "done" => stop = Pages!All(v)
    BY <1>1, <1>3, <1>7
  <1>9. \A u : (Asked(u) <=> Asked(u)') /\ Pages!All(u)' = Pages!All(u) /\ Joined(u)' = Joined(u)
    OBVIOUS
  <1>10. /\ Asked(query'.seen) /\ query'.token = query'.seen
         /\ stop <= Pages!All(query'.seen)
         /\ query'.got = SubSeq(Joined(query'.seen), 1, stop) /\ Len(query'.got) = stop
         /\ query'.pc = "reading" => stop < Pages!All(query'.seen)
         /\ query'.pc = "done" => stop = Pages!All(query'.seen)
    BY <1>3, <1>6, <1>7, <1>8
  <1> QED BY <1>3, <1>9, <1>10 DEF PagesInv

LEMMA NothingAsked ==
  ASSUME NEW v, Asked(v)
  PROVE  0 \in Nat /\ 0 <= Pages!All(v) /\ <<>> = SubSeq(Joined(v), 1, 0) /\ Len(<<>>) = 0
  <1>1. Pages!All(v) \in Nat
    <2>1. Pages!Each(v) \in Nat /\ Len(Quantities) \in Nat
      BY SeriesFits, PagesAssumption
    <2>2. Pages!Each(v) * Len(Quantities) \in Nat
      BY <2>1
    <2> QED BY <2>2 DEF Pages!All
  <1>2. Joined(v) \in Seq(Buckets(v))
    BY <1>1, PageIsPart
  <1>3. PICK w : w = Joined(v)
    OBVIOUS
  <1>4. PICK S : S = Buckets(v)
    OBVIOUS
  <1>5. w \in Seq(S)
    BY <1>2, <1>3, <1>4
  <1>6. SubSeq(w, 1, 0) \in Seq(S) /\ Len(SubSeq(w, 1, 0)) = 0
    BY <1>5, SubSeqIs
  <1>7. SubSeq(w, 1, 0) = <<>>
    BY <1>6, EmptySeq
  <1> QED BY <1>1, <1>3, <1>7

\* Nothing is asked yet.
LEMMA PagesInvInit == Pages!Init => PagesInv
  <1> SUFFICES ASSUME Pages!Init PROVE PagesInv
    OBVIOUS
  <1>1. zone \in Int
    BY PagesAssumption DEF Pages!Init
  <1>2. query.pc = "idle"
    BY DEF Pages!Init, Pages!NoQuery
  <1> QED BY <1>1, <1>2 DEF PagesInv

\* A step beside the query keeps it.
LEMMA PagesInvKept ==
  ASSUME PagesInv, query' = query, zone' \in Int
  PROVE  PagesInv'
  <1>1. \A u : (Asked(u) <=> Asked(u)') /\ Pages!All(u)' = Pages!All(u) /\ Joined(u)' = Joined(u)
    OBVIOUS
  <1>2. CASE query.pc \in {"reading", "done"}
    <2>1. PICK q : q = query
      OBVIOUS
    <2>2. /\ Asked(q.seen) /\ q.token = q.seen
          /\ \E k \in Nat : /\ k <= Pages!All(q.seen)
                            /\ q.got = SubSeq(Joined(q.seen), 1, k) /\ Len(q.got) = k
                            /\ q.pc = "reading" => k < Pages!All(q.seen)
                            /\ q.pc = "done" => k = Pages!All(q.seen)
      BY <1>2, <2>1 DEF PagesInv
    <2>3. query' = q
      BY <2>1
    <2> QED BY <2>2, <2>3, <1>1 DEF PagesInv
  <1>3. CASE query.pc \notin {"reading", "done"}
    <2>1. query'.pc \notin {"reading", "done"}
      BY <1>3
    <2> QED BY <2>1 DEF PagesInv
  <1> QED BY <1>2, <1>3

\* Every step keeps it: a page of another view ends the query.
LEMMA PagesInvStep == PagesInv /\ [Pages!Next]_(Pages!vars) => PagesInv'
  <1> SUFFICES ASSUME PagesInv, [Pages!Next]_(Pages!vars) PROVE PagesInv'
    OBVIOUS
  <1>0. zone \in Int
    BY DEF PagesInv
  <1>1. ASSUME NEW r \in Requests, NEW moment, NEW size \in Sizes, Pages!Ask(r, moment, size)
        PROVE  PagesInv'
    <2>1. PICK v : v = Pages!View([period |-> r.period, start |-> r.start, end |-> r.end, at |-> moment])
      OBVIOUS
    <2>2. Pages!Answered(v, v, v, <<>>, size) /\ zone' = zone
      BY <1>1, <2>1 DEF Pages!Ask, Pages!Token
    <2>3. v.req = [period |-> r.period, start |-> r.start, end |-> r.end, at |-> moment] /\ v.zone = zone
      BY <2>1 DEF Pages!View
    <2>4. Asked(v)
      BY <1>0, <2>3, PagesAssumption DEF Asked
    <2>5. size \in Nat \ {0} /\ zone' \in Int
      BY <1>0, <2>2, PagesAssumption
    <2>6. PICK got : got = <<>>
      OBVIOUS
    <2>7. 0 \in Nat /\ 0 <= Pages!All(v) /\ got = SubSeq(Joined(v), 1, 0) /\ Len(got) = 0
      BY <2>4, <2>6, NothingAsked
    <2>8. Pages!Answered(v, v, v, got, size)
      BY <2>2, <2>6
    <2> QED BY <2>4, <2>5, <2>7, <2>8, AnsweredKeeps
  <1>2. ASSUME NEW size \in Sizes, Pages!More(size)
        PROVE  PagesInv'
    <2>1. PICK v : v = Pages!View(query.seen.req)
      OBVIOUS
    <2>2. query.pc = "reading" /\ zone' = zone
      BY <1>2 DEF Pages!More
    <2>3. CASE v = query.token
      <3>1. Asked(query.seen) /\ query.token = query.seen
        BY <2>2 DEF PagesInv
      <3>2. PICK k \in Nat : /\ k <= Pages!All(query.seen)
                             /\ query.got = SubSeq(Joined(query.seen), 1, k) /\ Len(query.got) = k
        BY <2>2 DEF PagesInv
      <3>3. PICK got : got = query.got
        OBVIOUS
      <3>4. Pages!Answered(v, v, v, got, size)
        BY <1>2, <2>1, <2>3, <3>1, <3>3 DEF Pages!More, Pages!Token
      <3>5. Asked(v) /\ k <= Pages!All(v) /\ got = SubSeq(Joined(v), 1, k) /\ Len(got) = k
        BY <2>3, <3>1, <3>2, <3>3
      <3>6. size \in Nat \ {0} /\ zone' \in Int
        BY <1>0, <2>2, PagesAssumption
      <3> QED BY <3>4, <3>5, <3>6, AnsweredKeeps
    <2>4. CASE v # query.token
      <3>1. query' = [Pages!NoQuery EXCEPT !.pc = "refused"]
        BY <1>2, <2>1, <2>4 DEF Pages!More, Pages!Token
      <3>2. query'.pc = "refused"
        BY <3>1 DEF Pages!NoQuery
      <3> QED BY <1>0, <2>2, <3>2 DEF PagesInv
    <2> QED BY <2>3, <2>4
  <1>3. ASSUME query' = query, zone' = zone \/ zone' \in Zones
        PROVE  PagesInv'
    <2>1. zone' \in Int
      BY <1>0, <1>3, PagesAssumption
    <2> QED BY <1>3, <2>1, PagesInvKept
  <1>4. ASSUME NEW h \in Pages!Hour, Pages!Accept(h) \/ Pages!Hold(h) \/ Pages!ForeignEdit(h)
        PROVE  PagesInv'
    BY <1>3, <1>4 DEF Pages!Accept, Pages!Hold, Pages!ForeignEdit
  <1>5. CASE Pages!Commit \/ Pages!MoveTimeZone \/ Pages!Tick
    BY <1>3, <1>5 DEF Pages!Commit, Pages!MoveTimeZone, Pages!Tick
  <1>6. CASE UNCHANGED Pages!vars
    BY <1>3, <1>6 DEF Pages!vars
  <1> QED BY <1>1, <1>2, <1>4, <1>5, <1>6 DEF Pages!Next

\* The beginning of the answer, and all of it at the end.
LEMMA PagesInvJoined == PagesInv => Pages!PagesAreOneView
  <1> SUFFICES ASSUME PagesInv, query.pc \in {"reading", "done"}
               PROVE  /\ query.got = SubSeq(Joined(query.seen), 1, Len(query.got))
                      /\ query.pc = "done" => Len(query.got) = Len(Joined(query.seen))
    BY DEF Pages!PagesAreOneView, Joined
  <1>1. Asked(query.seen)
    BY DEF PagesInv
  <1>2. PICK k \in Nat : /\ k <= Pages!All(query.seen)
                         /\ query.got = SubSeq(Joined(query.seen), 1, k) /\ Len(query.got) = k
                         /\ query.pc = "done" => k = Pages!All(query.seen)
    BY DEF PagesInv
  <1>3. Len(Joined(query.seen)) = Pages!All(query.seen)
    BY <1>1, <1>2, PageIsPart
  <1> QED BY <1>2, <1>3

(***************************************************************************)
(* The pages a caller joined are the beginning of the one answer that its  *)
(* view gives, and all of it at the end (hourly_history query pages).      *)
(***************************************************************************)
THEOREM PagesOneView == Pages!Spec => []Pages!PagesAreOneView
  <1>1. Pages!Spec => []PagesInv
    BY PagesInvInit, PagesInvStep, PTL DEF Pages!Spec
  <1> QED BY <1>1, PagesInvJoined, PTL

(***************************************************************************)
(* What a query adds up                                                    *)
(***************************************************************************)
LEMMA TotalIsSum ==
  ASSUME NEW g, NEW S, IsFiniteSet(S)
  PROVE  Pages!Total(g, S) = Sum(g, S)
  <1> DEFINE F == CHOOSE F : Summed(g, S, F)
             G == CHOOSE G : G = [s \in SUBSET S |-> IF s = {} THEN 0
                                                     ELSE LET x == CHOOSE x \in s : TRUE IN G[s \ {x}] + g[x]]
  <1>1. Pages!Total(g, S) = G[S]
    BY DEF Pages!Total, Pages!FoldSet, Pages!MapThenFoldSet
  <1>2. \A H : Summed(g, S, H) <=> H = [s \in SUBSET S |-> IF s = {} THEN 0
                                                     ELSE LET x == CHOOSE x \in s : TRUE IN H[s \ {x}] + g[x]]
    BY DEF Summed, Pick
  <1>3. \E H : Summed(g, S, H)
    BY SumDefined
  <1>4. Summed(g, S, G)
    BY <1>2, <1>3
  <1>5. Summed(g, S, F) /\ Sum(g, S) = F[S]
    BY <1>3 DEF Sum
  <1> HIDE DEF F, G
  <1>6. F[S] = G[S]
    BY <1>4, <1>5, SumUnique
  <1> QED BY <1>1, <1>5, <1>6

\* A complete total is the sum of totals that are all there.
LEMMA CompleteIsSum ==
  ASSUME NEW v, NEW q, Pages!Complete(v, q) # None, IsFiniteSet(DOMAIN Pages!Series(v, q))
  PROVE  /\ \A i \in DOMAIN Pages!Series(v, q) : Pages!Series(v, q)[i].total # None
         /\ Pages!Complete(v, q) = Sum([i \in DOMAIN Pages!Series(v, q) |-> Pages!Series(v, q)[i].total],
                                       DOMAIN Pages!Series(v, q))
  <1> DEFINE s == Pages!Series(v, q)
             S == DOMAIN s
             g == [i \in S |-> s[i].total]
             F == CHOOSE F : Summed(g, S, F)
             G == CHOOSE G : G = [u \in SUBSET S |-> IF u = {} THEN 0
                                                     ELSE LET x == CHOOSE x \in u : TRUE IN G[u \ {x}] + s[x].total]
  <1>0. \A i \in S : s[i].total # None
    BY DEF Pages!Complete
  <1>1. Pages!Complete(v, q) = G[S]
    BY <1>0 DEF Pages!Complete, Pages!FoldSet, Pages!MapThenFoldSet
  <1> HIDE DEF s
  <1>2. \A H : Summed(g, S, H) <=> H = [u \in SUBSET S |-> IF u = {} THEN 0
                                                     ELSE LET x == CHOOSE x \in u : TRUE IN H[u \ {x}] + s[x].total]
    <2> SUFFICES ASSUME NEW H
                 PROVE Summed(g, S, H) <=> H = [u \in SUBSET S |-> IF u = {} THEN 0
                                                     ELSE LET x == CHOOSE x \in u : TRUE IN H[u \ {x}] + s[x].total]
      OBVIOUS
    <2>1. \A u \in SUBSET S : u # {} => g[Pick(u)] = s[Pick(u)].total
      BY PickIn
    <2> HIDE DEF g
    <2>2. [u \in SUBSET S |-> IF u = {} THEN 0 ELSE H[u \ {Pick(u)}] + g[Pick(u)]]
            = [u \in SUBSET S |-> IF u = {} THEN 0 ELSE H[u \ {Pick(u)}] + s[Pick(u)].total]
      BY <2>1
    <2> QED BY <2>2 DEF Summed, Pick
  <1>3. \E H : Summed(g, S, H)
    <2>1. IsFiniteSet(S)
      BY DEF s
    <2> HIDE DEF g, S
    <2> QED BY <2>1, SumDefined
  <1>4. Summed(g, S, G)
    <2>1. \E H : H = [u \in SUBSET S |-> IF u = {} THEN 0
                                                     ELSE LET x == CHOOSE x \in u : TRUE IN H[u \ {x}] + s[x].total]
      <3>1. PICK H : Summed(g, S, H)
        BY <1>3
      <3> HIDE DEF S, g
      <3>2. H = [u \in SUBSET S |-> IF u = {} THEN 0
                                                     ELSE LET x == CHOOSE x \in u : TRUE IN H[u \ {x}] + s[x].total]
        BY <1>2, <3>1
      <3> QED BY <3>2
    <2>2. G = [u \in SUBSET S |-> IF u = {} THEN 0
                                                     ELSE LET x == CHOOSE x \in u : TRUE IN G[u \ {x}] + s[x].total]
      BY <2>1
    <2> HIDE DEF G, S, g
    <2> QED BY <1>2, <2>2
  <1>5. Summed(g, S, F) /\ Sum(g, S) = F[S] /\ IsFiniteSet(S)
    BY <1>3 DEF Sum, s
  <1> HIDE DEF F, G, g, S
  <1>6. F[S] = G[S]
    BY <1>4, <1>5, SumUnique
  <1>7. Pages!Complete(v, q) = Sum(g, S)
    BY <1>1, <1>5, <1>6
  <1> QED BY <1>0, <1>7 DEF g, S, s

\* A sum over a range, by its last term.
LEMMA SumUpto ==
  ASSUME NEW m \in Nat, NEW g, \A i \in 1..(m + 1) : g[i] \in Int
  PROVE  Sum(g, 1..(m + 1)) = Sum(g, 1..m) + g[m + 1]
  <1>1. PICK y : y = m + 1
    OBVIOUS
  <1>2. PICK S : S = 1..m
    OBVIOUS
  <1>3. IsFiniteSet(S)
    BY <1>2, FS_Interval
  <1>4. y \notin S /\ S \cup {y} = 1..(m + 1)
    BY <1>1, <1>2
  <1>5. \A x \in S \cup {y} : g[x] \in Int
    BY <1>4
  <1>6. Sum(g, S \cup {y}) = Sum(g, S) + g[y]
    BY <1>3, <1>4, <1>5, SumAdds
  <1> QED BY <1>1, <1>2, <1>4, <1>6

\* Neighbouring spans add up to the span from the first to the last.
LEMMA SumSpans ==
  ASSUME NEW n \in Nat, NEW p, \A i \in 0..n : p[i] \in Int, \A i \in 1..n : p[i - 1] <= p[i],
         NEW f, \A h \in p[0]..(p[n] - 1) : f[h] \in Int,
         NEW g, \A i \in 1..n : g[i] = Sum(f, p[i - 1]..(p[i] - 1))
  PROVE  Sum(g, 1..n) = Sum(f, p[0]..(p[n] - 1))
  <1> DEFINE Good(m) == /\ p[0] <= p[m] /\ Sum(g, 1..m) = Sum(f, p[0]..(p[m] - 1))
             Fine == {m \in Nat : m > n \/ Good(m)}
             Low(m) == \A i \in 0..m : p[i] <= p[m]
             Lows == {m \in Nat : m > n \/ Low(m)}
  <1>1. Lows = Nat
    <2>1. 0 \in Lows
      <3>1. \A i \in 0..0 : i = 0
        OBVIOUS
      <3>2. p[0] \in Int
        OBVIOUS
      <3> QED BY <3>1, <3>2
    <2>2. ASSUME NEW m \in Lows PROVE m + 1 \in Lows
      <3> SUFFICES ASSUME m + 1 <= n, NEW i \in 0..(m + 1) PROVE p[i] <= p[m + 1]
        BY <2>2
      <3>1. m \in Nat /\ m \in 0..n /\ m + 1 \in 1..n /\ (m + 1) - 1 = m /\ m + 1 \in 0..n
        BY <2>2
      <3>2. Low(m)
        BY <2>2, <3>1
      <3>3. PICK a \in Int : a = p[m]
        BY <3>1
      <3>4. PICK b \in Int : b = p[m + 1]
        BY <3>1
      <3>5. a <= b
        BY <3>1, <3>3, <3>4
      <3>6. CASE i = m + 1
        BY <3>4, <3>6
      <3>7. CASE i # m + 1
        <4>1. i \in 0..m /\ i \in 0..n
          BY <3>1, <3>7
        <4>2. PICK c \in Int : c = p[i]
          BY <4>1
        <4>3. c <= a
          BY <3>2, <3>3, <4>1, <4>2
        <4> QED BY <3>4, <3>5, <4>2, <4>3
      <3> QED BY <3>6, <3>7
    <2> HIDE DEF Lows
    <2>3. Lows \in SUBSET Nat
      BY DEF Lows
    <2> QED BY <2>1, <2>2, <2>3, NatSetInduction
  <1>2. \A m \in 0..n : p[0] <= p[m] /\ p[m] <= p[n]
    <2> SUFFICES ASSUME NEW m \in 0..n PROVE p[0] <= p[m] /\ p[m] <= p[n]
      OBVIOUS
    <2>0. ~(m > n) /\ ~(n > n) /\ m \in Nat
      OBVIOUS
    <2>1. m \in Lows /\ n \in Lows
      <3> HIDE DEF Lows
      <3> QED BY <1>1, <2>0
    <2>2. Low(m) /\ Low(n)
      BY <2>0, <2>1
    <2>3. 0 \in 0..m /\ m \in 0..n
      OBVIOUS
    <2> HIDE DEF Lows
    <2> QED BY <2>2, <2>3
  <1> HIDE DEF Lows
  <1>3. 0 \in Fine
    <2>1. 1..0 = {}
      OBVIOUS
    <2>2. PICK a \in Int : a = p[0]
      OBVIOUS
    <2>3. a..(a - 1) = {}
      OBVIOUS
    <2>4. Sum(g, 1..0) = 0 /\ Sum(f, p[0]..(p[0] - 1)) = 0
      BY <2>1, <2>2, <2>3, SumEmpty
    <2> QED BY <2>2, <2>4
  <1>4. ASSUME NEW m \in Fine PROVE m + 1 \in Fine
    <2> SUFFICES ASSUME m + 1 <= n PROVE Good(m + 1)
      BY <1>4
    <2>1. m \in Nat /\ m \in 0..n /\ m + 1 \in 1..n /\ (m + 1) - 1 = m /\ m + 1 \in 0..n /\ 0 \in 0..n /\ n \in 0..n
      BY <1>4
    <2>2. Good(m)
      BY <1>4, <2>1
    <2>3. PICK a \in Int : a = p[0]
      BY <2>1
    <2>4. PICK b \in Int : b = p[m]
      BY <2>1
    <2>5. PICK c \in Int : c = p[m + 1]
      BY <2>1
    <2>6. PICK d \in Int : d = p[n]
      BY <2>1
    <2>7. a <= b /\ b <= c /\ c <= d
      BY <1>2, <2>1, <2>3, <2>4, <2>5, <2>6
    <2>8. Sum(g, 1..m) = Sum(f, a..(b - 1)) /\ g[m + 1] = Sum(f, b..(c - 1))
      BY <2>1, <2>2, <2>3, <2>4, <2>5
    <2>9. \A h \in a..(d - 1) : f[h] \in Int
      BY <2>3, <2>6
    <2>10. Sum(f, a..(c - 1)) = Sum(f, a..(b - 1)) + Sum(f, b..(c - 1))
      <3> DEFINE S == a..(b - 1)
                 T == b..(c - 1)
      <3>1. IsFiniteSet(S) /\ IsFiniteSet(T) /\ S \cap T = {} /\ S \cup T = a..(c - 1)
        <4>1. b - 1 \in Int /\ c - 1 \in Int
          OBVIOUS
        <4>2. IsFiniteSet(S) /\ IsFiniteSet(T)
          BY <4>1, FS_Interval
        <4>3. S \cap T = {} /\ S \cup T = a..(c - 1)
          BY <2>7
        <4> QED BY <4>2, <4>3
      <3>2. \A x \in S \cup T : f[x] \in Int
        BY <2>7, <2>9
      <3> HIDE DEF S, T
      <3>3. Sum(f, S \cup T) = Sum(f, S) + Sum(f, T)
        BY <3>1, <3>2, SumJoins
      <3> QED BY <3>1, <3>3 DEF S, T
    <2>11. Sum(g, 1..(m + 1)) = Sum(g, 1..m) + g[m + 1]
      <3>2. \A x \in 1..(m + 1) : g[x] \in Int
        <4> SUFFICES ASSUME NEW i \in 1..(m + 1) PROVE g[i] \in Int
          OBVIOUS
        <4>1. i \in 1..n /\ i \in 0..n /\ i - 1 \in 0..n
          BY <2>1
        <4>2. PICK l \in Int : l = p[i - 1]
          BY <4>1
        <4>3. PICK u \in Int : u = p[i]
          BY <4>1
        <4>4. a <= l /\ u <= d
          BY <1>2, <2>3, <2>6, <4>1, <4>2, <4>3
        <4>5. \A x \in l..(u - 1) : f[x] \in Int
          BY <2>9, <4>4
        <4>6. IsFiniteSet(l..(u - 1))
          BY FS_Interval
        <4>7. Sum(f, l..(u - 1)) \in Int
          BY <4>5, <4>6, SumRemoves
        <4> QED BY <4>1, <4>2, <4>3, <4>7
      <3> QED BY <2>1, <3>2, SumUpto
    <2>12. Sum(g, 1..(m + 1)) = Sum(f, a..(c - 1)) /\ a <= c
      BY <2>7, <2>8, <2>10, <2>11
    <2> QED BY <2>3, <2>5, <2>12
  <1> HIDE DEF Fine
  <1>5. Fine = Nat
    <2>1. Fine \in SUBSET Nat
      BY DEF Fine
    <2> QED BY <1>3, <1>4, <2>1, NatSetInduction
  <1> QED BY <1>5 DEF Fine

(***************************************************************************)
(* Days                                                                    *)
(***************************************************************************)
LEMMA DivBetween ==
  ASSUME NEW x \in Int, NEW d \in Nat \ {0}
  PROVE  x \div d \in Int /\ (x \div d) * d <= x /\ x < (x \div d + 1) * d
  <1>1. x \div d \in Int /\ (x \div d) * d <= x /\ x < (x \div d) * d + d
    OBVIOUS
  <1>2. PICK q \in Int : q = x \div d
    BY <1>1
  <1>3. (q + 1) * d = q * d + d
    OBVIOUS
  <1> QED BY <1>1, <1>2, <1>3

\* Multiples of different numbers are a multiple apart.
LEMMA LessTimes ==
  ASSUME NEW j \in Int, NEW k \in Int, NEW d \in Nat \ {0}
  PROVE  /\ j * d \in Int /\ k * d \in Int /\ (j + 1) * d = j * d + d
         /\ j < k => j * d + d <= k * d
         /\ j * d = k * d => j = k
  <1>1. j * d \in Int /\ k * d \in Int /\ (j + 1) * d = j * d + d /\ (k + 1) * d = k * d + d
    OBVIOUS
  <1>2. ASSUME j < k PROVE j * d + d <= k * d
    <2>1. j + 1 <= k
      BY <1>2
    <2>2. (j + 1) * d <= k * d
      BY <2>1
    <2> QED BY <1>1, <2>2
  <1>3. ASSUME k < j PROVE k * d + d <= j * d
    <2>1. k + 1 <= j
      BY <1>3
    <2>2. (k + 1) * d <= j * d
      BY <2>1
    <2> QED BY <1>1, <2>2
  <1> QED BY <1>1, <1>2, <1>3

\* When days begin.
LEMMA Firsts ==
  ASSUME NEW j \in Int, NEW k \in Int, NEW z \in Int
  PROVE  /\ Pages!First(k, z) \in Int
         /\ Pages!First(k + 1, z) = Pages!First(k, z) + PageDay
         /\ j < k => Pages!First(j + 1, z) <= Pages!First(k, z)
         /\ Pages!First(j, z) = Pages!First(k, z) => j = k
  <1>0. PageDay \in Nat \ {0}
    BY PagesAssumption
  <1>1. PICK a \in Int : a = j * PageDay
    BY <1>0, LessTimes
  <1>2. PICK b \in Int : b = k * PageDay
    BY <1>0, LessTimes
  <1>3. /\ (k + 1) * PageDay = b + PageDay /\ (j + 1) * PageDay = a + PageDay
        /\ j < k => a + PageDay <= b
        /\ a = b => j = k
    BY <1>0, <1>1, <1>2, LessTimes
  <1>4. /\ Pages!First(k, z) = b + z /\ Pages!First(j, z) = a + z
        /\ Pages!First(k + 1, z) = b + PageDay + z /\ Pages!First(j + 1, z) = a + PageDay + z
    BY <1>1, <1>2, <1>3 DEF Pages!First
  <1> HIDE DEF Pages!First
  <1> QED BY <1>0, <1>3, <1>4

\* A moment lies within its day.
LEMMA DayIs ==
  ASSUME NEW h \in Int, NEW z \in Int
  PROVE  /\ Pages!DayOf(h, z) \in Int
         /\ Pages!First(Pages!DayOf(h, z), z) <= h /\ h < Pages!First(Pages!DayOf(h, z) + 1, z)
         /\ \A k \in Int : Pages!First(k, z) <= h /\ h < Pages!First(k + 1, z) => Pages!DayOf(h, z) = k
  <1>0. PageDay \in Nat \ {0}
    BY PagesAssumption
  <1>1. PICK q : q = Pages!DayOf(h, z)
    OBVIOUS
  <1>2. q \in Int /\ q * PageDay <= h - z /\ h - z < (q + 1) * PageDay
    <2>1. h - z \in Int
      OBVIOUS
    <2> QED BY <1>0, <1>1, <2>1, DivBetween DEF Pages!DayOf
  <1>3. Pages!First(q, z) <= h /\ h < Pages!First(q + 1, z)
    <2>1. q * PageDay \in Int /\ (q + 1) * PageDay \in Int
      BY <1>0, <1>2
    <2> QED BY <1>2, <2>1 DEF Pages!First
  <1>4. ASSUME NEW k \in Int, Pages!First(k, z) <= h, h < Pages!First(k + 1, z)
        PROVE  q = k
    <2>1. /\ Pages!First(q, z) \in Int /\ Pages!First(k, z) \in Int
          /\ Pages!First(q + 1, z) \in Int /\ Pages!First(k + 1, z) \in Int
      <3>1. q + 1 \in Int /\ k + 1 \in Int
        BY <1>2
      <3> QED BY <1>2, <3>1, Firsts
    <2>2. q < k => Pages!First(q + 1, z) <= Pages!First(k, z)
      BY <1>2, Firsts
    <2>3. k < q => Pages!First(k + 1, z) <= Pages!First(q, z)
      BY <1>2, Firsts
    <2> QED BY <1>2, <1>3, <1>4, <2>1, <2>2, <2>3
  <1> QED BY <1>1, <1>2, <1>3, <1>4

(***************************************************************************)
(* What a committed proof and a retired row are worth                      *)
(***************************************************************************)
TruthInv ==
  /\ zone \in Zones /\ clock \in 0..PageTime
  /\ amount \in [Pages!Hour -> Int]
  /\ \A h \in Pages!Hour : proof[h] # None /\ h \notin pending => proof[h] = amount[h]
  /\ adoption.at \in Int /\ imported \in Int
  /\ \E m : sums = Pages!Rows(adoption.zone, imported, m)

\* A proof says at first what the source did.
LEMMA TruthInvInit == Pages!Init => TruthInv
  <1> SUFFICES ASSUME Pages!Init PROVE TruthInv
    OBVIOUS
  <1>1. PICK s \in Starts :
          /\ clock = s.at /\ imported = s.imported
          /\ adoption = [at |-> s.at, zone |-> zone]
          /\ sums = Pages!Rows(zone, s.imported, s.missing)
          /\ proof = [h \in Pages!Hour |-> IF h \in s.proven THEN Worth[h] ELSE None]
    BY DEF Pages!Init
  <1>2. zone \in Zones /\ amount = Worth /\ pending = {}
    BY DEF Pages!Init
  <1>3. amount \in [Pages!Hour -> Int]
    BY <1>2, PagesTime DEF Pages!Hour
  <1>4. clock \in 0..PageTime /\ adoption.at \in Int /\ imported \in Int
    BY <1>1, PagesTime
  <1>5. adoption.zone = zone
    BY <1>1
  <1>6. sums = Pages!Rows(adoption.zone, imported, s.missing)
    BY <1>1, <1>5
  <1>7. \A h \in Pages!Hour : proof[h] # None /\ h \notin pending => proof[h] = amount[h]
    BY <1>1, <1>2
  <1> QED BY <1>2, <1>3, <1>4, <1>6, <1>7 DEF TruthInv

\* A step that leaves the retired series alone.
LEMMA RowsNext ==
  ASSUME UNCHANGED Pages!legacy, TruthInv
  PROVE  /\ adoption'.at \in Int /\ imported' \in Int
         /\ \E m : sums' = Pages!Rows(adoption'.zone, imported', m)
  BY DEF Pages!legacy, TruthInv

\* Every step keeps it: what changes an amount makes it pending.
LEMMA TruthInvStep == TruthInv /\ [Pages!Next]_(Pages!vars) => TruthInv'
  <1> SUFFICES ASSUME TruthInv, [Pages!Next]_(Pages!vars) PROVE TruthInv'
    OBVIOUS
  <1>0. /\ zone \in Zones /\ clock \in 0..PageTime /\ amount \in [Pages!Hour -> Int]
        /\ \A h \in Pages!Hour : proof[h] # None /\ h \notin pending => proof[h] = amount[h]
    BY DEF TruthInv
  <1>l. UNCHANGED Pages!legacy
    BY DEF Pages!Next, Pages!Ask, Pages!More, Pages!Accept, Pages!Hold, Pages!ForeignEdit, Pages!Commit,
           Pages!MoveTimeZone, Pages!Tick, Pages!vars, Pages!legacy
  <1>q. ASSUME zone' \in Zones, clock' \in 0..PageTime, amount' \in [Pages!Hour -> Int],
               \A h \in Pages!Hour : proof'[h] # None /\ h \notin pending' => proof'[h] = amount'[h]
        PROVE  TruthInv'
    <2>1. /\ adoption'.at \in Int /\ imported' \in Int
          /\ \E m : sums' = Pages!Rows(adoption'.zone, imported', m)
      BY <1>l, RowsNext
    <2>2. \A z, u, m : Pages!Rows(z, u, m)' = Pages!Rows(z, u, m)
      OBVIOUS
    <2>3. Pages!Hour' = Pages!Hour
      OBVIOUS
    <2> QED BY <1>q, <2>1, <2>2, <2>3 DEF TruthInv
  <1>1. ASSUME NEW h \in Pages!Hour, Pages!Accept(h) PROVE TruthInv'
    <2>1. /\ zone' = zone /\ clock' = clock /\ proof' = proof /\ pending = {} /\ pending' = {h}
          /\ amount' = amount \/ amount' = [amount EXCEPT ![h] = 0]
      BY <1>1 DEF Pages!Accept
    <2>2. amount' \in [Pages!Hour -> Int] /\ \A x \in Pages!Hour : x # h => amount'[x] = amount[x]
      BY <1>0, <2>1
    <2>3. \A x \in Pages!Hour : proof'[x] # None /\ x \notin pending' => proof'[x] = amount'[x]
      BY <1>0, <2>1, <2>2
    <2> QED BY <1>0, <1>q, <2>1, <2>2, <2>3
  <1>2. CASE Pages!Commit
    <2>1. /\ zone' = zone /\ clock' = clock /\ amount' = amount
          /\ proof' = [h \in Pages!Hour |-> IF h \in pending THEN amount[h] ELSE proof[h]]
      BY <1>2 DEF Pages!Commit
    <2>2. \A x \in Pages!Hour : proof'[x] # None /\ x \notin pending' => proof'[x] = amount'[x]
      BY <1>0, <2>1
    <2> QED BY <1>0, <1>q, <2>1, <2>2
  <1>3. ASSUME amount' = amount, proof' = proof, pending' = pending, zone' \in Zones, clock' \in 0..PageTime
        PROVE  TruthInv'
    BY <1>0, <1>3, <1>q
  <1>4. CASE Pages!Tick
    <2>1. clock' = clock + 1 /\ clock < PageTime
      BY <1>4 DEF Pages!Tick
    <2>2. clock' \in 0..PageTime
      BY <1>0, <2>1, PagesTime
    <2> QED BY <1>0, <1>3, <1>4, <2>2 DEF Pages!Tick, Pages!evidence
  <1>5. CASE Pages!MoveTimeZone
    BY <1>0, <1>3, <1>5 DEF Pages!MoveTimeZone, Pages!evidence
  <1>6. ASSUME NEW h \in Pages!Hour, Pages!Hold(h) \/ Pages!ForeignEdit(h) PROVE TruthInv'
    BY <1>0, <1>3, <1>6 DEF Pages!Hold, Pages!ForeignEdit
  <1>7. ASSUME NEW r \in Requests, NEW moment, NEW size \in Sizes, Pages!Ask(r, moment, size) PROVE TruthInv'
    BY <1>0, <1>3, <1>7 DEF Pages!Ask, Pages!evidence
  <1>8. ASSUME NEW size \in Sizes, Pages!More(size) PROVE TruthInv'
    BY <1>0, <1>3, <1>8 DEF Pages!More, Pages!evidence
  <1>9. CASE UNCHANGED Pages!vars
    BY <1>0, <1>3, <1>9 DEF Pages!vars, Pages!evidence
  <1> QED BY <1>1, <1>2, <1>4, <1>5, <1>6, <1>7, <1>8, <1>9 DEF Pages!Next

\* What a legacy day of a view is worth.
LegacyTrue(d) ==
  /\ d.day \in Int
  /\ Pages!First(d.day + 1, zone) <= adoption.at
  /\ Pages!First(d.day + 1, zone) <= imported =>
       d.amount = Sum(Worth, Pages!Whole(d.day, zone))

\* A retired row is the sum of the hours before it.
LEMMA RowIs ==
  ASSUME NEW z \in Int, NEW until \in Int, NEW m, NEW row \in Pages!Rows(z, until, m),
         NEW k \in Int, row.at = Pages!First(k, z), Pages!First(k + 1, z) <= until
  PROVE  k >= 0 /\ row.sum = Sum(Worth, 0..(Pages!First(k + 1, z) - 1))
  <1>1. PICK j \in {j \in 0 .. Pages!DayOf(until - 1, z) : j # m} :
          row = [at |-> Pages!First(j, z), sum |-> Pages!Total(Worth, 0 .. Pages!Least(Pages!First(j + 1, z), until) - 1)]
    BY DEF Pages!Rows
  <1>2. j \in Int /\ j >= 0
    <2>1. until - 1 \in Int
      OBVIOUS
    <2>2. Pages!DayOf(until - 1, z) \in Int
      BY <2>1, DayIs
    <2> QED BY <2>2
  <1>3. j = k
    BY <1>1, <1>2, Firsts
  <1>4. PICK b : b = Pages!First(k + 1, z)
    OBVIOUS
  <1>5. b \in Int
    <2>1. k + 1 \in Int
      OBVIOUS
    <2> QED BY <1>4, <2>1, Firsts
  <1>6. Pages!Least(b, until) = b
    BY <1>4, <1>5 DEF Pages!Least
  <1>7. row.sum = Pages!Total(Worth, 0..(b - 1))
    BY <1>1, <1>3, <1>4, <1>6
  <1>8. IsFiniteSet(0..(b - 1))
    <2>1. b - 1 \in Int
      BY <1>5
    <2> QED BY <2>1, FS_Interval
  <1> QED BY <1>2, <1>3, <1>4, <1>7, <1>8, TotalIsSum

\* The difference of the rows of two days is the amount of the day.
LEMMA LegacyDaysTrue ==
  ASSUME TruthInv, NEW first \in Int, NEW end \in Int, NEW d \in Pages!LegacyDays(first, end)
  PROVE  LegacyTrue(d)
  <1>1. adoption.zone = zone
    BY DEF Pages!LegacyDays
  <1>2. PICK t \in [day : Pages!EligibleDays(first, end), row : sums, before : sums] :
          /\ t.row.at = Pages!First(t.day, zone) /\ t.before.at = Pages!First(t.day - 1, zone)
          /\ d = [day |-> t.day, amount |-> t.row.sum - t.before.sum]
    BY <1>1 DEF Pages!LegacyDays
  <1>3. zone \in Int /\ zone >= 0 /\ clock \in 0..PageTime /\ adoption.at \in Int /\ imported \in Int
    BY PagesTime DEF TruthInv
  <1>4. PICK k : k = t.day
    OBVIOUS
  <1>5. /\ k \in Pages!DayOf(first, zone) .. Pages!DayOf(adoption.at, zone) - 1
        /\ Pages!First(k + 1, zone) <= Pages!Least(end, clock)
    BY <1>2, <1>4 DEF Pages!EligibleDays
  <1>6. Pages!DayOf(first, zone) \in Int /\ Pages!DayOf(adoption.at, zone) \in Int
    BY <1>3, DayIs
  <1>7. k \in Int /\ k < Pages!DayOf(adoption.at, zone) /\ k - 1 \in Int /\ (k - 1) + 1 = k /\ k + 1 \in Int
    BY <1>5, <1>6
  <1>8. PICK a : a = Pages!First(k, zone)
    OBVIOUS
  <1>9. PICK b : b = Pages!First(k + 1, zone)
    OBVIOUS
  <1>10. a \in Int /\ b \in Int /\ b = a + PageDay /\ PageDay \in Nat \ {0}
    BY <1>3, <1>7, <1>8, <1>9, Firsts, PagesAssumption
  <1>11. b <= adoption.at
    <2>1. PICK q \in Int : q = Pages!DayOf(adoption.at, zone)
      BY <1>6
    <2>2. Pages!First(q, zone) \in Int /\ Pages!First(q, zone) <= adoption.at
      BY <1>3, <2>1, DayIs, Firsts
    <2>3. b <= Pages!First(q, zone)
      BY <1>3, <1>7, <1>9, <2>1, Firsts
    <2> QED BY <1>3, <1>10, <2>2, <2>3
  <1>12. b <= PageTime
    <2>1. b <= Pages!Least(end, clock)
      BY <1>5, <1>9
    <2> QED BY <1>3, <1>10, <2>1, PagesTime DEF Pages!Least
  <1>13. ASSUME b <= imported
         PROVE  t.row.sum - t.before.sum = Sum(Worth, Pages!Whole(k, zone))
    <2>1. PICK m : sums = Pages!Rows(zone, imported, m)
      BY <1>1 DEF TruthInv
    <2>2. PICK row : row = t.row
      OBVIOUS
    <2>3. PICK before : before = t.before
      OBVIOUS
    <2>4. /\ row \in Pages!Rows(zone, imported, m) /\ row.at = Pages!First(k, zone)
          /\ before \in Pages!Rows(zone, imported, m) /\ before.at = Pages!First(k - 1, zone)
      BY <1>2, <1>4, <2>1, <2>2, <2>3
    <2>5. row.sum = Sum(Worth, 0..(b - 1))
      BY <1>3, <1>7, <1>9, <1>13, <2>4, RowIs
    <2>6. k - 1 >= 0 /\ before.sum = Sum(Worth, 0..(a - 1))
      <3>1. Pages!First((k - 1) + 1, zone) = a
        BY <1>7, <1>8
      <3>2. a <= imported
        BY <1>3, <1>10, <1>13
      <3>3. k - 1 >= 0 /\ before.sum = Sum(Worth, 0..(Pages!First((k - 1) + 1, zone) - 1))
        BY <1>3, <1>7, <2>4, <3>1, <3>2, RowIs
      <3> QED BY <3>1, <3>3
    <2>7. a >= 0
      <3>1. a = k * PageDay + zone
        BY <1>8 DEF Pages!First
      <3>2. k \in Nat /\ PageDay \in Nat
        BY <1>7, <1>10, <2>6
      <3>3. k * PageDay \in Nat
        BY <3>2
      <3> QED BY <1>3, <3>1, <3>3
    <2>8. PICK S : S = 0..(a - 1)
      OBVIOUS
    <2>9. PICK T : T = a..(b - 1)
      OBVIOUS
    <2>10. IsFiniteSet(S) /\ IsFiniteSet(T)
      <3>1. a - 1 \in Int /\ b - 1 \in Int
        BY <1>10
      <3> QED BY <1>10, <2>8, <2>9, <3>1, FS_Interval
    <2>11. S \cap T = {} /\ S \cup T = 0..(b - 1)
      BY <1>10, <2>7, <2>8, <2>9
    <2>12. \A x \in S \cup T : Worth[x] \in Int
      <3>1. \A x \in S \cup T : x \in 0..(PageTime - 1)
        BY <1>10, <1>12, <2>11, PagesTime
      <3> QED BY <3>1, PagesTime
    <2>13. Sum(Worth, S \cup T) = Sum(Worth, S) + Sum(Worth, T)
      BY <2>10, <2>11, <2>12, SumJoins
    <2>14. Sum(Worth, S) \in Int /\ Sum(Worth, T) \in Int
      BY <2>10, <2>12, SumRemoves
    <2>15. Pages!Whole(k, zone) = T
      BY <1>8, <1>9, <2>9 DEF Pages!Whole
    <2>16. row.sum = Sum(Worth, S) + Sum(Worth, T) /\ before.sum = Sum(Worth, S)
      BY <2>5, <2>6, <2>8, <2>11, <2>13
    <2>17. row.sum - before.sum = Sum(Worth, T)
      BY <2>14, <2>16
    <2> QED BY <2>2, <2>3, <2>15, <2>17
  <1>14. d.day = k /\ d.amount = t.row.sum - t.before.sum
    BY <1>2, <1>4
  <1> QED BY <1>7, <1>9, <1>11, <1>13, <1>14 DEF LegacyTrue

(***************************************************************************)
(* A view of now                                                           *)
(***************************************************************************)
Viewed(v) ==
  /\ v.req.start \in Nat /\ v.req.end \in Int /\ v.req.start < v.req.end
  /\ v.req.at \in Int /\ v.req.at <= clock
  /\ v.zone = zone /\ v.pending = pending /\ v.held = held \cap Pages!Span(v.req)
  /\ \A h \in Pages!Span(v.req) : v.proof[h] = proof[h]
  /\ \A d \in v.days : LegacyTrue(d)
  /\ v.days # {} => v.req.period = "day"

\* What a caller may ask is a view of now.
LEMMA ViewIs ==
  ASSUME TruthInv, NEW r \in Requests, NEW moment \in clock - 1 .. clock,
         NEW v, v = Pages!View([period |-> r.period, start |-> r.start, end |-> r.end, at |-> moment])
  PROVE  Viewed(v)
  <1>1. PICK req : req = [period |-> r.period, start |-> r.start, end |-> r.end, at |-> moment]
    OBVIOUS
  <1>2. v = [req |-> req, zone |-> zone, revision |-> revision,
             pending |-> pending, held |-> held \cap Pages!Span(req),
             proof  |-> [h \in Pages!Span(req) |-> proof[h]],
             native |-> [h \in Pages!Span(req) |-> native[h]],
             days   |-> IF req.period = "day" THEN Pages!LegacyDays(req.start, req.end) ELSE {}]
    BY <1>1 DEF Pages!View
  <1>3. clock \in Int /\ moment \in Int /\ moment <= clock
    BY PagesTime DEF TruthInv
  <1>4. /\ req.start \in Nat /\ req.end \in Int /\ req.start < req.end /\ req.at = moment
    BY <1>1, PagesAssumption, PagesTime
  <1>5. ASSUME NEW d \in v.days PROVE LegacyTrue(d) /\ req.period = "day"
    <2>1. d \in Pages!LegacyDays(req.start, req.end) /\ req.period = "day"
      BY <1>2
    <2>2. req.start \in Int /\ req.end \in Int
      BY <1>4
    <2> QED BY <2>1, <2>2, LegacyDaysTrue
  <1>6. /\ v.req = req /\ v.zone = zone /\ v.pending = pending /\ v.held = held \cap Pages!Span(req)
        /\ v.proof = [h \in Pages!Span(req) |-> proof[h]]
    BY <1>2
  <1> QED BY <1>3, <1>4, <1>5, <1>6 DEF Viewed

\* An hour that is ready has its committed amount.
LEMMA ReadyHour ==
  ASSUME TruthInv, NEW v, Viewed(v), NEW h \in Pages!Span(v.req)
  PROVE  /\ Pages!Reason(v, Adopted, h) \notin {"pending", "conflict"} => h \notin pending \cup held
         /\ Pages!Reason(v, Adopted, h) = "ready" =>
              /\ h \notin pending \cup held /\ h + 1 <= v.req.at /\ h \in Pages!Hour
              /\ v.native[h] = amount[h] /\ amount[h] \in Int
  <1>1. /\ v.pending = pending /\ v.held = held \cap Pages!Span(v.req) /\ v.proof[h] = proof[h]
    BY DEF Viewed
  <1>2. h \in Nat /\ v.req.at \in Int /\ v.req.at <= PageTime
    BY PagesTime DEF Viewed, Pages!Span, TruthInv
  <1>3. ASSUME Pages!Reason(v, Adopted, h) \notin {"pending", "conflict"} PROVE h \notin pending \cup held
    BY <1>1, <1>3 DEF Pages!Reason
  <1>4. ASSUME Pages!Reason(v, Adopted, h) = "ready"
        PROVE  /\ h \notin pending \cup held /\ h + 1 <= v.req.at /\ h \in Pages!Hour
               /\ v.native[h] = amount[h] /\ amount[h] \in Int
    <2>1. /\ h \notin pending \cup held /\ ~(h + 1 > v.req.at) /\ v.proof[h] # None /\ v.native[h] = v.proof[h]
      BY <1>1, <1>4 DEF Pages!Reason
    <2>2. h + 1 <= v.req.at /\ h \in Pages!Hour
      BY <1>2, <2>1, PagesTime DEF Pages!Hour
    <2>3. amount[h] \in Int /\ proof[h] = amount[h]
      BY <1>1, <2>1, <2>2 DEF TruthInv
    <2> QED BY <1>1, <2>1, <2>2, <2>3
  <1> QED BY <1>3, <1>4

\* The amount of hours that are all ready.
LEMMA ReadySum ==
  ASSUME TruthInv, NEW v, Viewed(v), NEW S, S \subseteq Pages!Span(v.req), IsFiniteSet(S),
         \A h \in S : Pages!Reason(v, Adopted, h) = "ready"
  PROVE  /\ S \cap (pending \cup held) = {} /\ \A h \in S : amount[h] \in Int /\ h + 1 <= v.req.at
         /\ Pages!Total(v.native, S) = Pages!Total(amount, S)
  <1>1. \A h \in S : /\ h \notin pending \cup held /\ h + 1 <= v.req.at
                     /\ v.native[h] = amount[h] /\ amount[h] \in Int
    BY ReadyHour
  <1>2. Sum(v.native, S) = Sum(amount, S)
    BY <1>1, SumSame
  <1> QED BY <1>1, <1>2, TotalIsSum

\* The bucket of an hour.
LEMMA HourTrue ==
  ASSUME TruthInv, NEW v, Viewed(v), v.req.period = "hour", NEW h \in Pages!Span(v.req),
         NEW b, b = Pages!HourBucket(v, Adopted, h)
  PROVE  /\ b.from = h /\ b.to = h + 1 /\ b.reason # "legacy_day"
         /\ b.total # None => Pages!True(v, b)
  <1>1. PICK reason : reason = Pages!Reason(v, Adopted, h)
    OBVIOUS
  <1>2. PICK value : value = IF reason = "ready" THEN v.native[h] ELSE None
    OBVIOUS
  <1>3. b = [from |-> h, to |-> h + 1, reason |-> reason, value |-> value, total |-> value]
    BY <1>1, <1>2 DEF Pages!HourBucket, Pages!Bucket
  <1>4. b.from = h /\ b.to = h + 1 /\ b.reason = reason /\ b.total = value
    BY <1>3
  <1>5. reason # "legacy_day"
    BY <1>1 DEF Pages!Reason
  <1>6. ASSUME b.total # None PROVE Pages!True(v, b)
    <2>1. reason = "ready" /\ b.total = v.native[h]
      BY <1>2, <1>4, <1>6
    <2>2. /\ h \notin pending \cup held /\ h + 1 <= v.req.at /\ v.native[h] = amount[h] /\ amount[h] \in Int
      BY <1>1, <2>1, ReadyHour
    <2>3. h \in Int
      BY DEF Pages!Span, Viewed
    <2>4. PICK hours : hours = b.from .. b.to - 1
      OBVIOUS
    <2>5. hours = {h}
      BY <1>4, <2>3, <2>4
    <2>6. Sum(amount, {h}) = amount[h]
      <3>1. IsFiniteSet({}) /\ h \notin {} /\ Sum(amount, {}) = 0 /\ {} \cup {h} = {h}
        BY FS_EmptySet, SumEmpty
      <3>2. \A x \in {} \cup {h} : amount[x] \in Int
        BY <2>2
      <3>3. Sum(amount, {} \cup {h}) = Sum(amount, {}) + amount[h]
        BY <3>1, <3>2, SumAdds
      <3> QED BY <2>2, <3>1, <3>3
    <2>7. b.total = Pages!Total(amount, hours)
      <3>1. IsFiniteSet(hours)
        BY <2>5, FS_Singleton
      <3> QED BY <2>1, <2>2, <2>5, <2>6, <3>1, TotalIsSum
    <2>8. hours \cap (pending \cup held) = {} /\ b.to <= v.req.at /\ b.reason # "legacy_day"
      BY <1>4, <1>5, <2>2, <2>5
    <2> QED BY <2>4, <2>7, <2>8 DEF Pages!True
  <1> QED BY <1>4, <1>5, <1>6

\* The bucket of a day.
LEMMA DayTrue ==
  ASSUME TruthInv, NEW v, Viewed(v), v.req.period # "hour",
         NEW k \in Pages!DayOf(v.req.start, v.zone) .. Pages!DayOf(v.req.end - 1, v.zone),
         NEW b, b = Pages!DayBucket(v, Adopted, k)
  PROVE  /\ b.from = Pages!Most(v.req.start, Pages!First(k, v.zone))
         /\ b.to = Pages!Least(v.req.end, Pages!First(k + 1, v.zone))
         /\ b.total # None => Pages!True(v, b)
  <1> DEFINE start    == Pages!Most(v.req.start, Pages!First(k, v.zone))
             stop     == Pages!Least(v.req.end, Pages!First(k + 1, v.zone))
             included == start .. stop - 1
             reasons  == {Pages!Reason(v, Adopted, h) : h \in included}
             verified == {h \in included : Pages!Reason(v, Adopted, h) = "ready"}
             whole    == included = Pages!Whole(k, v.zone)
             points   == Pages!PointDay(v, start, stop, verified, reasons)
             legacy   == CHOOSE d \in Pages!Fallback(v, Adopted, k) : TRUE
  <1>1. b = IF whole /\ verified = included
            THEN Pages!Bucket(start, stop, "ready", points.value, points.value)
            ELSE IF whole /\ Pages!Fallback(v, Adopted, k) # {} /\ reasons \cap {"pending", "conflict"} = {}
            THEN Pages!Bucket(start, stop, "legacy_day", legacy.amount, legacy.amount)
            ELSE points
    BY DEF Pages!DayBucket
  <1>2. /\ points = [from |-> start, to |-> stop, reason |-> points.reason, value |-> points.value, total |-> None]
        /\ verified # {} => points.value = Pages!Total(v.native, verified)
        /\ verified = {} => points.value = None
    BY DEF Pages!PointDay, Pages!Bucket
  <1>z. zone \in Int /\ v.zone = zone
    BY PagesTime DEF TruthInv, Viewed
  <1>s. v.req.start \in Int /\ v.req.end \in Int /\ v.req.start < v.req.end /\ v.req.end - 1 \in Int
    BY DEF Viewed
  <1>k. k \in Int /\ k + 1 \in Int
    BY <1>z, <1>s, DayIs
  <1>f. /\ Pages!First(k, v.zone) \in Int /\ Pages!First(k + 1, v.zone) \in Int
        /\ Pages!First(k, v.zone) < Pages!First(k + 1, v.zone)
    <2>1. /\ Pages!First(k, v.zone) \in Int /\ Pages!First(k + 1, v.zone) = Pages!First(k, v.zone) + PageDay
          /\ PageDay \in Nat \ {0}
      BY <1>z, <1>k, Firsts, PagesAssumption
    <2> QED BY <2>1
  <1>b. start \in Int /\ stop \in Int /\ v.req.start <= start /\ stop <= v.req.end
    BY <1>s, <1>f DEF Pages!Most, Pages!Least
  <1>i. included \subseteq Pages!Span(v.req)
    <2> HIDE DEF start, stop
    <2> QED BY <1>b, <1>s DEF Pages!Span
  <1>n. IsFiniteSet(included)
    <2> HIDE DEF start, stop
    <2>1. stop - 1 \in Int
      BY <1>b
    <2> QED BY <1>b, <2>1, FS_Interval
  <1>w. ASSUME whole
        PROVE  /\ start = Pages!First(k, v.zone) /\ stop = Pages!First(k + 1, v.zone)
               /\ included # {} /\ stop - 1 \in included /\ included = Pages!Whole(Pages!DayOf(start, zone), zone)
    <2>1. PICK p \in Int : p = Pages!First(k, v.zone)
      BY <1>f
    <2>2. PICK q \in Int : q = Pages!First(k + 1, v.zone)
      BY <1>f
    <2>3. included = p..(q - 1) /\ p < q
      BY <1>w, <1>f, <2>1, <2>2 DEF Pages!Whole
    <2> HIDE DEF start, stop, included
    <2>4. p \in included /\ q - 1 \in included
      BY <2>3
    <2>5. start <= p /\ q <= stop
      BY <1>b, <2>4 DEF included
    <2>6. start \in included /\ stop - 1 \in included
      BY <1>b, <2>3, <2>5 DEF included
    <2>7. start = p /\ stop = q
      <3>1. p <= start /\ stop - 1 <= q - 1
        <4>1. start \in p..(q - 1) /\ stop - 1 \in p..(q - 1)
          BY <2>3, <2>6
        <4> QED BY <4>1
      <3> QED BY <1>b, <2>5, <3>1
    <2>8. Pages!DayOf(start, zone) = k
      <3>1. Pages!First(k, zone) <= start /\ start < Pages!First(k + 1, zone) /\ start \in Int
        BY <1>z, <1>b, <2>1, <2>2, <2>3, <2>7
      <3> QED BY <1>z, <1>k, <3>1, DayIs
    <2> QED BY <1>w, <1>z, <2>1, <2>2, <2>6, <2>7, <2>8
  <1>3. CASE whole /\ verified = included
    <2>1. verified # {} /\ points.value = Pages!Total(v.native, included)
      BY <1>2, <1>3, <1>w
    <2>2. /\ b.from = start /\ b.to = stop /\ b.reason = "ready" /\ b.total = Pages!Total(v.native, included)
      <3> HIDE DEF start, stop, included, verified, points
      <3>1. b = Pages!Bucket(start, stop, "ready", points.value, points.value)
        BY <1>1, <1>3
      <3> QED BY <2>1, <3>1 DEF Pages!Bucket
    <2>3. \A h \in included : Pages!Reason(v, Adopted, h) = "ready"
      BY <1>3
    <2> HIDE DEF verified, points
    <2>4. /\ included \cap (pending \cup held) = {} /\ \A h \in included : h + 1 <= v.req.at
          /\ Pages!Total(v.native, included) = Pages!Total(amount, included)
      <3> HIDE DEF included
      <3> QED BY <1>i, <1>n, <2>3, ReadySum
    <2>5. stop <= v.req.at
      <3> HIDE DEF start, stop
      <3>1. (stop - 1) + 1 <= v.req.at
        <4> HIDE DEF included
        <4> QED BY <1>3, <1>w, <2>4
      <3>2. (stop - 1) + 1 = stop
        BY <1>b
      <3> QED BY <3>1, <3>2
    <2>6. included = Pages!Whole(Pages!DayOf(start, zone), zone)
      BY <1>3, <1>w
    <2>7. Pages!True(v, b)
      <3>1. PICK S : S = included
        OBVIOUS
      <3>2. S = b.from .. b.to - 1
        BY <2>2, <3>1
      <3> HIDE DEF included, start, stop
      <3> QED BY <2>2, <2>4, <2>5, <2>6, <3>1, <3>2 DEF Pages!True
    <2> QED BY <2>2, <2>7
  <1>4. CASE /\ ~(whole /\ verified = included)
             /\ whole /\ Pages!Fallback(v, Adopted, k) # {} /\ reasons \cap {"pending", "conflict"} = {}
    <2>0. b = Pages!Bucket(start, stop, "legacy_day", legacy.amount, legacy.amount)
      <3> HIDE DEF whole, verified, included, reasons, start, stop, legacy
      <3> QED BY <1>1, <1>4
    <2>1. PICK d \in Pages!Fallback(v, Adopted, k) : d = legacy
      BY <1>4
    <2>2. /\ b.from = start /\ b.to = stop /\ b.reason = "legacy_day" /\ b.total = d.amount
      <3> HIDE DEF start, stop, legacy
      <3> QED BY <2>0, <2>1 DEF Pages!Bucket
    <2>3. d \in v.days /\ d.day = k /\ Pages!First(k + 1, v.zone) <= v.req.at
      BY DEF Pages!Fallback
    <2>4. LegacyTrue(d)
      BY <2>3 DEF Viewed
    <2>5. ASSUME NEW h \in included PROVE h \notin pending \cup held
      <3>1. Pages!Reason(v, Adopted, h) \in reasons
        BY <2>5
      <3>2. Pages!Reason(v, Adopted, h) \notin {"pending", "conflict"}
        BY <1>4, <3>1
      <3> HIDE DEF included, reasons
      <3> QED BY <1>i, <2>5, <3>2, ReadyHour
    <2>6. /\ start = Pages!First(k, v.zone) /\ stop = Pages!First(k + 1, v.zone)
          /\ included = Pages!Whole(Pages!DayOf(start, zone), zone)
      BY <1>4, <1>w
    <2>7. included = Pages!Whole(k, zone)
      BY <1>4, <1>z
    <2>8. stop <= v.req.at /\ stop <= adoption.at
      <3> HIDE DEF start, stop
      <3> QED BY <1>z, <2>3, <2>4, <2>6 DEF LegacyTrue
    <2>9. stop <= imported => b.total = Pages!Total(Worth, included)
      <3> HIDE DEF start, stop, included
      <3>1. stop <= imported => d.amount = Sum(Worth, included)
        BY <1>z, <2>3, <2>4, <2>6, <2>7 DEF LegacyTrue
      <3> QED BY <1>n, <2>2, <3>1, TotalIsSum
    <2>10. Pages!True(v, b)
      <3>1. PICK S : S = included
        OBVIOUS
      <3>2. S = b.from .. b.to - 1
        BY <2>2, <3>1
      <3>3. S \cap (pending \cup held) = {}
        <4> HIDE DEF included
        <4> QED BY <2>5, <3>1
      <3> HIDE DEF included, start, stop
      <3> QED BY <2>2, <2>6, <2>8, <2>9, <3>1, <3>2, <3>3 DEF Pages!True
    <2> QED BY <2>2, <2>10
  <1>5. CASE /\ ~(whole /\ verified = included)
             /\ ~(whole /\ Pages!Fallback(v, Adopted, k) # {} /\ reasons \cap {"pending", "conflict"} = {})
    <2>1. b = points
      <3> HIDE DEF whole, verified, included, reasons, start, stop, legacy, points
      <3> QED BY <1>1, <1>5
    <2>2. b.from = start /\ b.to = stop /\ b.total = None
      <3> HIDE DEF start, stop, points
      <3> QED BY <1>2, <2>1
    <2> QED BY <2>2
  <1> HIDE DEF whole, included, verified, reasons
  <1> QED BY <1>3, <1>4, <1>5

\* The buckets of a series cover the request, each from where the last one ended.
Tiles(s, n, p, start, end) ==
  /\ n \in Nat /\ DOMAIN s = 1..n
  /\ \A i \in 0..n : p[i] \in Int
  /\ \A i \in 1..n : s[i].from = p[i - 1] /\ s[i].to = p[i] /\ p[i - 1] <= p[i]
  /\ p[0] = start /\ p[n] = end

\* The buckets of hours tile the request.
LEMMA HoursTile ==
  ASSUME TruthInv, NEW v, Viewed(v), v.req.period = "hour", NEW s, s = Pages!Series(v, Adopted)
  PROVE  /\ \E n, p : Tiles(s, n, p, v.req.start, v.req.end)
         /\ \A i \in DOMAIN s : s[i].total # None => Pages!True(v, s[i])
  <1>1. PICK a \in Int : a = v.req.start
    BY DEF Viewed
  <1>2. PICK z \in Int : z = v.req.end
    BY DEF Viewed
  <1>3. a < z
    BY <1>1, <1>2 DEF Viewed
  <1>4. PICK n \in Nat : n = z - a
    BY <1>3
  <1>5. s = [i \in 1..n |-> Pages!HourBucket(v, Adopted, a + i - 1)]
    BY <1>1, <1>2, <1>4 DEF Pages!Series
  <1>6. DOMAIN s = 1..n
    BY <1>5
  <1>7. ASSUME NEW i \in 1..n
        PROVE  /\ s[i].from = a + i - 1 /\ s[i].to = a + i
               /\ s[i].total # None => Pages!True(v, s[i])
    <2>1. PICK h : h = a + i - 1
      OBVIOUS
    <2>2. h \in a .. z - 1 /\ h + 1 = a + i
      BY <1>3, <1>4, <2>1
    <2>3. h \in Pages!Span(v.req)
      BY <1>1, <1>2, <2>2 DEF Pages!Span
    <2>4. PICK b : b = s[i]
      OBVIOUS
    <2>5. b = Pages!HourBucket(v, Adopted, h)
      BY <1>5, <2>1, <2>4
    <2>6. b.from = h /\ b.to = h + 1 /\ (b.total # None => Pages!True(v, b))
      BY <2>3, <2>5, HourTrue
    <2> QED BY <2>1, <2>2, <2>4, <2>6
  <1>8. PICK p : p = [i \in 0..n |-> a + i]
    OBVIOUS
  <1>9. \A i \in 0..n : p[i] = a + i /\ p[i] \in Int
    BY <1>8
  <1>10. ASSUME NEW i \in 1..n PROVE s[i].from = p[i - 1] /\ s[i].to = p[i] /\ p[i - 1] <= p[i]
    <2>1. i - 1 \in 0..n /\ i \in 0..n /\ a + (i - 1) = a + i - 1 /\ a + (i - 1) <= a + i
      OBVIOUS
    <2>2. p[i - 1] = a + (i - 1) /\ p[i] = a + i
      BY <1>9, <2>1
    <2> QED BY <1>7, <2>1, <2>2
  <1>11. p[0] = a /\ p[n] = z
    <2>1. 0 \in 0..n /\ n \in 0..n /\ a + 0 = a /\ a + n = z
      BY <1>4
    <2> QED BY <1>9, <2>1
  <1>12. Tiles(s, n, p, a, z)
    BY <1>6, <1>9, <1>10, <1>11 DEF Tiles
  <1> QED BY <1>1, <1>2, <1>6, <1>7, <1>12

\* So do those of days.
LEMMA DaysTile ==
  ASSUME TruthInv, NEW v, Viewed(v), v.req.period # "hour", NEW s, s = Pages!Series(v, Adopted)
  PROVE  /\ \E n, p : Tiles(s, n, p, v.req.start, v.req.end)
         /\ \A i \in DOMAIN s : s[i].total # None => Pages!True(v, s[i])
  <1>1. PICK a \in Int : a = v.req.start
    BY DEF Viewed
  <1>2. PICK z \in Int : z = v.req.end
    BY DEF Viewed
  <1>3. a < z /\ z - 1 \in Int /\ a <= z - 1
    BY <1>1, <1>2 DEF Viewed
  <1>0. PICK o \in Int : o = v.zone
    BY PagesTime DEF TruthInv, Viewed
  <1>4. PICK d \in Int : d = Pages!DayOf(a, o)
    BY DayIs
  <1>5. PICK e \in Int : e = Pages!DayOf(z - 1, o)
    BY <1>3, DayIs
  <1>6. d <= e
    <2>1. a - o \in Int /\ (z - 1) - o \in Int /\ a - o <= (z - 1) - o
      BY <1>3
    <2> QED BY <1>4, <1>5, <2>1, DivMonotone, PagesAssumption DEF Pages!DayOf
  <1>7. PICK n \in Nat : n = e - d + 1
    BY <1>6
  <1>8. s = [i \in 1..n |-> Pages!DayBucket(v, Adopted, d + i - 1)]
    BY <1>0, <1>1, <1>2, <1>4, <1>5, <1>7 DEF Pages!Series
  <1>9. DOMAIN s = 1..n
    BY <1>8
  <1> DEFINE F(k) == Pages!First(k, o)
             P(i) == Pages!Least(z, Pages!Most(a, F(d + i)))
  <1>10. ASSUME NEW k \in Int
         PROVE  /\ F(k) \in Int /\ F(k) <= F(k + 1)
                /\ k <= d => F(k) <= a
                /\ k > d => F(k) > a
                /\ k <= e => F(k) <= z - 1
                /\ k > e => F(k) > z - 1
    <2>0. /\ d + 1 \in Int /\ e + 1 \in Int /\ k + 1 \in Int
          /\ F(d) \in Int /\ F(e) \in Int /\ F(k) \in Int /\ F(k + 1) \in Int
          /\ F(k + 1) = F(k) + PageDay /\ PageDay \in Nat \ {0}
      BY Firsts, PagesAssumption
    <2>1. F(d) <= a /\ a < F(d + 1) /\ F(e) <= z - 1 /\ z - 1 < F(e + 1)
      BY <1>3, <1>4, <1>5, DayIs
    <2>2. (k < d => F(k + 1) <= F(d)) /\ (d < k => F(d + 1) <= F(k))
      BY Firsts
    <2>3. (k < e => F(k + 1) <= F(e)) /\ (e < k => F(e + 1) <= F(k))
      BY Firsts
    <2>4. F(d + 1) \in Int /\ F(e + 1) \in Int
      BY <2>0, Firsts
    <2> HIDE DEF F
    <2>5. k = d \/ k < d \/ k > d
      OBVIOUS
    <2>6. k = e \/ k < e \/ k > e
      OBVIOUS
    <2>7. F(k) <= F(k + 1)
      BY <2>0
    <2>8. (k <= d => F(k) <= a) /\ (k > d => F(k) > a)
      BY <2>0, <2>1, <2>2, <2>4, <2>5
    <2>9. (k <= e => F(k) <= z - 1) /\ (k > e => F(k) > z - 1)
      BY <1>3, <2>0, <2>1, <2>3, <2>4, <2>6
    <2> QED BY <2>0, <2>7, <2>8, <2>9
  <1> HIDE DEF F
  <1>11. \A i \in 0..n : P(i) \in Int
    <2> SUFFICES ASSUME NEW i \in 0..n PROVE P(i) \in Int
      OBVIOUS
    <2>1. d + i \in Int
      OBVIOUS
    <2>2. F(d + i) \in Int
      BY <1>10, <2>1
    <2> QED BY <2>2 DEF Pages!Least, Pages!Most
  <1>12. ASSUME NEW i \in 1..n
         PROVE  /\ s[i].from = P(i - 1) /\ s[i].to = P(i) /\ P(i - 1) <= P(i)
                /\ s[i].total # None => Pages!True(v, s[i])
    <2>1. PICK k : k = d + i - 1
      OBVIOUS
    <2>2. k \in d..e /\ k \in Int /\ k + 1 = d + i /\ k = d + (i - 1) /\ k + 1 \in Int
      BY <1>7, <2>1
    <2>3. PICK b : b = s[i]
      OBVIOUS
    <2>4. b = Pages!DayBucket(v, Adopted, k)
      BY <1>8, <2>1, <2>3
    <2>5. k \in Pages!DayOf(v.req.start, v.zone) .. Pages!DayOf(v.req.end - 1, v.zone)
      BY <1>0, <1>1, <1>2, <1>4, <1>5, <2>2
    <2>6. /\ b.from = Pages!Most(v.req.start, Pages!First(k, v.zone))
          /\ b.to = Pages!Least(v.req.end, Pages!First(k + 1, v.zone))
          /\ b.total # None => Pages!True(v, b)
      BY <2>4, <2>5, DayTrue
    <2>7. b.from = Pages!Most(a, F(k)) /\ b.to = Pages!Least(z, F(k + 1))
      BY <1>0, <1>1, <1>2, <2>6 DEF F
    <2>8. PICK f \in Int : f = F(k) /\ f <= z - 1
      BY <1>10, <2>2
    <2>9. PICK g \in Int : g = F(k + 1) /\ f <= g /\ g > a
      <3>1. k + 1 > d
        BY <2>2
      <3> QED BY <1>10, <2>2, <2>8, <3>1
    <2>10. P(i - 1) = Pages!Least(z, Pages!Most(a, f)) /\ P(i) = Pages!Least(z, Pages!Most(a, g))
      BY <2>2, <2>8, <2>9
    <2>11. /\ Pages!Least(z, Pages!Most(a, f)) = Pages!Most(a, f)
           /\ Pages!Least(z, Pages!Most(a, g)) = Pages!Least(z, g)
           /\ Pages!Most(a, f) <= Pages!Least(z, g)
      BY <1>3, <2>8, <2>9 DEF Pages!Least, Pages!Most
    <2> QED BY <2>3, <2>6, <2>7, <2>8, <2>9, <2>10, <2>11
  <1>13. P(0) = a /\ P(n) = z
    <2>1. PICK f \in Int : f = F(d + 0) /\ f <= a
      <3>1. d + 0 = d
        OBVIOUS
      <3> QED BY <1>10, <3>1
    <2>2. PICK g \in Int : g = F(d + n) /\ g > z - 1
      <3>1. d + n = e + 1 /\ e + 1 \in Int /\ e + 1 > e
        BY <1>7
      <3> QED BY <1>10, <3>1
    <2>3. P(0) = Pages!Least(z, Pages!Most(a, f)) /\ P(n) = Pages!Least(z, Pages!Most(a, g))
      BY <2>1, <2>2
    <2> QED BY <1>3, <2>1, <2>2, <2>3 DEF Pages!Least, Pages!Most
  <1> HIDE DEF P
  <1>14. PICK p : p = [i \in 0..n |-> P(i)]
    OBVIOUS
  <1>15. \A i \in 0..n : p[i] = P(i) /\ p[i] \in Int
    BY <1>11, <1>14
  <1>16. ASSUME NEW i \in 1..n PROVE s[i].from = p[i - 1] /\ s[i].to = p[i] /\ p[i - 1] <= p[i]
    <2>1. i - 1 \in 0..n /\ i \in 0..n
      OBVIOUS
    <2>2. p[i - 1] = P(i - 1) /\ p[i] = P(i)
      BY <1>15, <2>1
    <2> QED BY <1>12, <2>2
  <1>17. p[0] = a /\ p[n] = z
    <2>1. 0 \in 0..n /\ n \in 0..n
      OBVIOUS
    <2> QED BY <1>13, <1>15, <2>1
  <1>18. Tiles(s, n, p, a, z)
    BY <1>9, <1>15, <1>16, <1>17 DEF Tiles
  <1> QED BY <1>1, <1>2, <1>9, <1>12, <1>18

\* Every total of an answer is true, and so is its complete total.
LEMMA ViewTotals ==
  ASSUME TruthInv, NEW v, Viewed(v), NEW s, s = Pages!Series(v, Adopted)
  PROVE  /\ \A i \in DOMAIN s : s[i].total # None => Pages!True(v, s[i])
         /\ Pages!Complete(v, Adopted) # None /\ ~(\E i \in DOMAIN s : s[i].reason = "legacy_day") =>
              Pages!Complete(v, Adopted) = Pages!Total(amount, Pages!Span(v.req))
  <1>1. /\ \E n, p : Tiles(s, n, p, v.req.start, v.req.end)
        /\ \A i \in DOMAIN s : s[i].total # None => Pages!True(v, s[i])
    BY HoursTile, DaysTile
  <1> SUFFICES ASSUME Pages!Complete(v, Adopted) # None, \A i \in DOMAIN s : s[i].reason # "legacy_day"
               PROVE  Pages!Complete(v, Adopted) = Pages!Total(amount, Pages!Span(v.req))
    BY <1>1
  <1>2. PICK n, p : Tiles(s, n, p, v.req.start, v.req.end)
    BY <1>1
  <1>3. n \in Nat /\ DOMAIN s = 1..n /\ IsFiniteSet(1..n)
    <2>1. n \in Nat /\ DOMAIN s = 1..n
      BY <1>2 DEF Tiles
    <2> QED BY <2>1, FS_Interval
  <1>4. PICK g : g = [i \in DOMAIN s |-> s[i].total]
    OBVIOUS
  <1>5. (\A i \in DOMAIN s : s[i].total # None) /\ Pages!Complete(v, Adopted) = Sum(g, 1..n)
    <2>1. IsFiniteSet(DOMAIN Pages!Series(v, Adopted))
      BY <1>3
    <2> QED BY <1>3, <1>4, <2>1, CompleteIsSum
  <1>6. \A i \in 0..n : p[i] \in Int
    BY <1>2 DEF Tiles
  <1>7. ASSUME NEW i \in 1..n
        PROVE  /\ p[i - 1] <= p[i] /\ g[i] = Sum(amount, p[i - 1]..(p[i] - 1))
               /\ p[i] <= PageTime
    <2>1. s[i].from = p[i - 1] /\ s[i].to = p[i] /\ p[i - 1] <= p[i]
      BY <1>2 DEF Tiles
    <2>2. PICK b : b = s[i]
      OBVIOUS
    <2>3. Pages!True(v, b) /\ b.reason # "legacy_day" /\ g[i] = b.total
      BY <1>1, <1>3, <1>4, <1>5, <2>2
    <2>4. b.total = Pages!Total(amount, b.from .. b.to - 1) /\ b.to <= v.req.at
      BY <2>3 DEF Pages!True
    <2>5. i - 1 \in 0..n /\ i \in 0..n
      BY <1>3
    <2>6. p[i - 1] \in Int /\ p[i] \in Int /\ p[i] - 1 \in Int
      BY <1>6, <2>5
    <2>7. IsFiniteSet(p[i - 1]..(p[i] - 1))
      BY <2>6, FS_Interval
    <2>8. p[i] <= PageTime
      <3>1. p[i] <= v.req.at
        BY <2>1, <2>2, <2>4
      <3>2. v.req.at \in Int /\ v.req.at <= clock /\ clock \in Int /\ clock <= PageTime
        BY PagesTime DEF Viewed, TruthInv
      <3> QED BY <2>6, <3>1, <3>2, PagesTime
    <2> QED BY <2>1, <2>2, <2>3, <2>4, <2>7, <2>8, TotalIsSum
  <1>8. p[0] = v.req.start /\ p[n] = v.req.end
    BY <1>2 DEF Tiles
  <1>9. \A h \in p[0]..(p[n] - 1) : amount[h] \in Int
    <2>1. n # 0
      <3>1. v.req.start < v.req.end /\ v.req.start \in Nat /\ v.req.end \in Int
        BY DEF Viewed
      <3> QED BY <1>8, <3>1
    <2>2. n \in 1..n
      BY <1>3, <2>1
    <2>3. p[n] <= PageTime /\ p[0] \in Nat /\ p[n] \in Int
      BY <1>7, <1>8, <2>2 DEF Viewed
    <2>4. \A h \in p[0]..(p[n] - 1) : h \in Pages!Hour
      BY <2>3, PagesTime DEF Pages!Hour
    <2> QED BY <2>4 DEF TruthInv
  <1>10. Sum(g, 1..n) = Sum(amount, p[0]..(p[n] - 1))
    BY <1>3, <1>6, <1>7, <1>9, SumSpans
  <1>11. Pages!Span(v.req) = p[0]..(p[n] - 1) /\ IsFiniteSet(p[0]..(p[n] - 1))
    <2>1. p[0] \in Int /\ p[n] \in Int /\ p[n] - 1 \in Int
      BY <1>8 DEF Viewed
    <2> QED BY <1>8, <2>1, FS_Interval DEF Pages!Span
  <1> QED BY <1>5, <1>10, <1>11, TotalIsSum

\* Whatever is asked, what is called complete is.
LEMMA TruthInvTotals == TruthInv => Pages!TotalsTrue
  <1> SUFFICES ASSUME TruthInv, NEW r \in Requests, NEW moment \in clock - 1 .. clock
               PROVE  LET v == Pages!View([period |-> r.period, start |-> r.start, end |-> r.end, at |-> moment])
                          s == Pages!Series(v, Adopted)
                          old == \E i \in DOMAIN s : s[i].reason = "legacy_day"
                      IN  /\ \A i \in DOMAIN s : s[i].total # None => Pages!True(v, s[i])
                          /\ Pages!Complete(v, Adopted) # None /\ ~old =>
                               Pages!Complete(v, Adopted) = Pages!Total(amount, Pages!Span(v.req))
    BY DEF Pages!TotalsTrue
  <1>1. PICK v : v = Pages!View([period |-> r.period, start |-> r.start, end |-> r.end, at |-> moment])
    OBVIOUS
  <1>2. Viewed(v)
    BY <1>1, ViewIs
  <1>3. PICK s : s = Pages!Series(v, Adopted)
    OBVIOUS
  <1>4. /\ \A i \in DOMAIN s : s[i].total # None => Pages!True(v, s[i])
        /\ Pages!Complete(v, Adopted) # None /\ ~(\E i \in DOMAIN s : s[i].reason = "legacy_day") =>
             Pages!Complete(v, Adopted) = Pages!Total(amount, Pages!Span(v.req))
    BY <1>2, <1>3, ViewTotals
  <1> QED BY <1>1, <1>3, <1>4

(***************************************************************************)
(* A total that an answer calls complete is the amount of all its hours,   *)
(* once; a legacy day is as good as the last import that saw it.           *)
(***************************************************************************)
THEOREM PagesTotalsTrue == Pages!Spec => []Pages!TotalsTrue
  <1>1. Pages!Spec => []TruthInv
    BY TruthInvInit, TruthInvStep, PTL DEF Pages!Spec
  <1> QED BY <1>1, TruthInvTotals, PTL

(***************************************************************************)
(* Counting                                                                *)
(***************************************************************************)
LEMMA FiniteInduction ==
  ASSUME NEW S, IsFiniteSet(S), NEW X \in SUBSET (SUBSET S), {} \in X,
         \A T \in X : \A y \in S \ T : T \cup {y} \in X
  PROVE  S \in X
  <1> DEFINE Small == {m \in Nat : \A T \in SUBSET S : Cardinality(T) = m => T \in X}
  <1>0. \A T \in SUBSET S : IsFiniteSet(T) /\ Cardinality(T) \in Nat
    BY FS_Subset, FS_CardinalityType
  <1>1. 0 \in Small
    BY <1>0, FS_EmptySet
  <1>2. ASSUME NEW m \in Small PROVE m + 1 \in Small
    <2> SUFFICES ASSUME NEW T \in SUBSET S, Cardinality(T) = m + 1 PROVE T \in X
      BY <1>2
    <2>1. T # {}
      <3>1. Cardinality(T) # 0
        <4>1. m \in Nat
          BY <1>2
        <4> QED BY <4>1
      <3> QED BY <3>1, FS_EmptySet
    <2>2. PICK y \in T : TRUE
      BY <2>1
    <2>3. PICK U : U = T \ {y}
      OBVIOUS
    <2>4. Cardinality(U) = m
      BY <1>0, <1>2, <2>3, SmallerBy
    <2>5. U \in SUBSET S /\ y \in S \ U /\ U \cup {y} = T
      BY <2>3
    <2>6. U \in X
      BY <1>2, <2>4, <2>5
    <2> QED BY <2>5, <2>6
  <1> HIDE DEF Small
  <1>3. Small = Nat
    <2>1. Small \in SUBSET Nat
      BY DEF Small
    <2> QED BY <1>1, <1>2, <2>1, NatSetInduction
  <1> QED BY <1>0, <1>3 DEF Small

\* Two sets have no more elements than both.
LEMMA CardUnion ==
  ASSUME NEW S, NEW T, IsFiniteSet(S), IsFiniteSet(T)
  PROVE  /\ IsFiniteSet(S \cup T) /\ Cardinality(S \cup T) \in Nat /\ Cardinality(S) \in Nat /\ Cardinality(T) \in Nat
         /\ Cardinality(S \cup T) <= Cardinality(S) + Cardinality(T)
         /\ S \cap T = {} => Cardinality(S \cup T) = Cardinality(S) + Cardinality(T)
  <1>1. IsFiniteSet(S \cup T) /\ Cardinality(S \cup T) = Cardinality(S) + Cardinality(T) - Cardinality(S \cap T)
    BY FS_Union
  <1>2. IsFiniteSet(S \cap T)
    BY FS_Subset
  <1>3. Cardinality(S \cap T) \in Nat /\ Cardinality(S) \in Nat /\ Cardinality(T) \in Nat /\ Cardinality(S \cup T) \in Nat
    BY <1>1, <1>2, FS_CardinalityType
  <1>4. S \cap T = {} => Cardinality(S \cap T) = 0
    BY FS_EmptySet
  <1> QED BY <1>1, <1>3, <1>4

\* Sets no larger than the terms of a sum cover no more than it.
LEMMA SumCovers ==
  ASSUME NEW P, IsFiniteSet(P), NEW f, NEW A,
         \A p \in P : f[p] \in Int /\ IsFiniteSet(A[p]) /\ Cardinality(A[p]) <= f[p]
  PROVE  IsFiniteSet(UNION {A[p] : p \in P}) /\ Cardinality(UNION {A[p] : p \in P}) <= Sum(f, P)
  <1> DEFINE All(Q) == UNION {A[p] : p \in Q}
             Good(Q) == IsFiniteSet(All(Q)) /\ Cardinality(All(Q)) <= Sum(f, Q)
             X == {Q \in SUBSET P : Good(Q)}
  <1>1. {} \in X
    <2>1. All({}) = {}
      OBVIOUS
    <2> QED BY <2>1, SumEmpty, FS_EmptySet
  <1>2. ASSUME NEW Q \in X, NEW y \in P \ Q PROVE Q \cup {y} \in X
    <2>1. PICK S : S = All(Q)
      OBVIOUS
    <2>2. PICK T : T = A[y]
      OBVIOUS
    <2>3. IsFiniteSet(S) /\ Cardinality(S) <= Sum(f, Q) /\ IsFiniteSet(T) /\ Cardinality(T) <= f[y] /\ f[y] \in Int
      BY <2>1, <2>2
    <2>4. All(Q \cup {y}) = S \cup T
      BY <2>1, <2>2
    <2>5. IsFiniteSet(Q) /\ y \notin Q /\ \A x \in Q \cup {y} : f[x] \in Int
      BY FS_Subset
    <2>6. Sum(f, Q) \in Int /\ Sum(f, Q \cup {y}) = Sum(f, Q) + f[y]
      BY <2>5, SumAdds
    <2>7. IsFiniteSet(S \cup T) /\ Cardinality(S \cup T) <= Cardinality(S) + Cardinality(T)
          /\ Cardinality(S \cup T) \in Nat /\ Cardinality(S) \in Nat /\ Cardinality(T) \in Nat
      BY <2>3, CardUnion
    <2>8. Cardinality(S \cup T) <= Sum(f, Q \cup {y})
      BY <2>3, <2>6, <2>7
    <2> HIDE DEF All
    <2> QED BY <2>4, <2>7, <2>8
  <1> HIDE DEF X
  <1>3. X \in SUBSET (SUBSET P)
    BY DEF X
  <1>4. P \in X
    BY <1>1, <1>2, <1>3, FiniteInduction
  <1> QED BY <1>4 DEF X

\* The sets A[p] have room for the terms f[p].
Packs(P, f, A) ==
  IsFiniteSet(UNION {A[p] : p \in P}) /\ Sum(f, P) <= Cardinality(UNION {A[p] : p \in P})

\* Sets that are disjoint and no smaller than the terms cover no less.
LEMMA SumPacks ==
  ASSUME NEW P, IsFiniteSet(P), NEW f, NEW A,
         \A p \in P : f[p] \in Int /\ IsFiniteSet(A[p]) /\ f[p] <= Cardinality(A[p]),
         \A p, q \in P : p # q => A[p] \cap A[q] = {}
  PROVE  Packs(P, f, A)
  <1> DEFINE All(Q) == UNION {A[p] : p \in Q}
             Good(Q) == IsFiniteSet(All(Q)) /\ Sum(f, Q) <= Cardinality(All(Q))
             X == {Q \in SUBSET P : Good(Q)}
  <1>1. {} \in X
    <2>1. All({}) = {}
      OBVIOUS
    <2> QED BY <2>1, SumEmpty, FS_EmptySet
  <1>2. ASSUME NEW Q \in X, NEW y \in P \ Q PROVE Q \cup {y} \in X
    <2>1. PICK S : S = All(Q)
      OBVIOUS
    <2>2. PICK T : T = A[y]
      OBVIOUS
    <2>3. IsFiniteSet(S) /\ Sum(f, Q) <= Cardinality(S) /\ IsFiniteSet(T) /\ f[y] <= Cardinality(T) /\ f[y] \in Int
      BY <2>1, <2>2
    <2>4. All(Q \cup {y}) = S \cup T
      BY <2>1, <2>2
    <2>5. IsFiniteSet(Q) /\ y \notin Q /\ \A x \in Q \cup {y} : f[x] \in Int
      BY FS_Subset
    <2>6. Sum(f, Q) \in Int /\ Sum(f, Q \cup {y}) = Sum(f, Q) + f[y]
      BY <2>5, SumAdds
    <2>7. S \cap T = {}
      BY <2>1, <2>2
    <2>8. IsFiniteSet(S \cup T) /\ Cardinality(S \cup T) = Cardinality(S) + Cardinality(T)
          /\ Cardinality(S) \in Nat /\ Cardinality(T) \in Nat
      BY <2>3, <2>7, CardUnion
    <2>9. Sum(f, Q \cup {y}) <= Cardinality(S \cup T)
      BY <2>3, <2>6, <2>8
    <2> HIDE DEF All
    <2> QED BY <2>4, <2>8, <2>9
  <1> HIDE DEF X
  <1>3. X \in SUBSET (SUBSET P)
    BY DEF X
  <1>4. P \in X
    BY <1>1, <1>2, <1>3, FiniteInduction
  <1> QED BY <1>4 DEF X, Packs

\* Sums add term by term.
LEMMA SumPlus ==
  ASSUME NEW P, IsFiniteSet(P), NEW f, NEW g, NEW h,
         \A p \in P : f[p] \in Int /\ g[p] \in Int /\ h[p] = f[p] + g[p]
  PROVE  /\ Sum(f, P) \in Int /\ Sum(g, P) \in Int /\ Sum(h, P) = Sum(f, P) + Sum(g, P)
  <1> DEFINE X == {Q \in SUBSET P : Sum(f, Q) \in Int /\ Sum(g, Q) \in Int /\ Sum(h, Q) = Sum(f, Q) + Sum(g, Q)}
  <1>1. {} \in X
    BY SumEmpty
  <1>2. ASSUME NEW Q \in X, NEW y \in P \ Q PROVE Q \cup {y} \in X
    <2>1. IsFiniteSet(Q) /\ y \notin Q /\ (\A x \in Q \cup {y} : f[x] \in Int)
          /\ (\A x \in Q \cup {y} : g[x] \in Int) /\ (\A x \in Q \cup {y} : h[x] \in Int)
      BY FS_Subset
    <2>2. Sum(f, Q) \in Int /\ Sum(f, Q \cup {y}) = Sum(f, Q) + f[y]
      BY <2>1, SumAdds
    <2>3. Sum(g, Q) \in Int /\ Sum(g, Q \cup {y}) = Sum(g, Q) + g[y]
      BY <2>1, SumAdds
    <2>4. Sum(h, Q) \in Int /\ Sum(h, Q \cup {y}) = Sum(h, Q) + h[y]
      BY <2>1, SumAdds
    <2>5. f[y] \in Int /\ g[y] \in Int /\ h[y] = f[y] + g[y] /\ Sum(h, Q) = Sum(f, Q) + Sum(g, Q)
      OBVIOUS
    <2>6. Sum(f, Q \cup {y}) \in Int /\ Sum(g, Q \cup {y}) \in Int
          /\ Sum(h, Q \cup {y}) = Sum(f, Q \cup {y}) + Sum(g, Q \cup {y})
      BY <2>2, <2>3, <2>4, <2>5
    <2> QED BY <2>6
  <1> HIDE DEF X
  <1>3. X \in SUBSET (SUBSET P)
    BY DEF X
  <1>4. P \in X
    BY <1>1, <1>2, <1>3, FiniteInduction
  <1> QED BY <1>4 DEF X

(***************************************************************************)
(* Slots and days                                                          *)
(***************************************************************************)
\* The last slot boundary up to t.
LEMMA FloorIs ==
  ASSUME NEW t \in Int
  PROVE  /\ Filter!Floor(t) \in Int /\ Filter!Floor(t) <= t
         /\ \E j \in Int : Filter!Floor(t) = j * Step
         /\ \A j \in Int : j * Step <= t => j * Step <= Filter!Floor(t)
  <1>0. Step \in Nat \ {0}
    BY FilterAssumption
  <1>1. PICK q \in Int : q = t \div Step /\ q * Step <= t /\ t < (q + 1) * Step
    BY <1>0, DivBetween
  <1>2. Filter!Floor(t) = q * Step /\ q * Step \in Int
    BY <1>0, <1>1 DEF Filter!Floor
  <1>3. ASSUME NEW j \in Int, j * Step <= t PROVE j * Step <= q * Step
    <2>1. q < j => q * Step + Step <= j * Step
      BY <1>0, LessTimes
    <2>2. j < q => j * Step + Step <= q * Step
      BY <1>0, LessTimes
    <2>3. j * Step \in Int /\ (q + 1) * Step = q * Step + Step
      BY <1>0, LessTimes
    <2> QED BY <1>0, <1>1, <1>2, <1>3, <2>1, <2>2, <2>3
  <1> QED BY <1>1, <1>2, <1>3

\* The first slot boundary from t on.
LEMMA CeilIs ==
  ASSUME NEW t \in Int
  PROVE  /\ Filter!Ceil(t) \in Int /\ t <= Filter!Ceil(t)
         /\ \A j \in Int : t <= j * Step => Filter!Ceil(t) <= j * Step
  <1>0. Step \in Nat \ {0} /\ t + Step - 1 \in Int
    BY FilterAssumption
  <1>1. PICK q \in Int : q = (t + Step - 1) \div Step /\ q * Step <= t + Step - 1 /\ t + Step - 1 < (q + 1) * Step
    BY <1>0, DivBetween
  <1>2. Filter!Ceil(t) = q * Step /\ q * Step \in Int /\ (q + 1) * Step = q * Step + Step
    BY <1>0, <1>1, LessTimes DEF Filter!Floor, Filter!Ceil
  <1>3. t <= q * Step
    BY <1>0, <1>1, <1>2
  <1>4. ASSUME NEW j \in Int, t <= j * Step PROVE q * Step <= j * Step
    <2>1. j < q => j * Step + Step <= q * Step
      BY <1>0, LessTimes
    <2>2. q < j => q * Step + Step <= j * Step
      BY <1>0, LessTimes
    <2>3. j * Step \in Int
      BY <1>0, LessTimes
    <2> QED BY <1>0, <1>1, <1>2, <1>4, <2>1, <2>2, <2>3
  <1> QED BY <1>2, <1>3, <1>4

\* Days begin with a slot.
LEMMA DaySlots ==
  ASSUME NEW d \in Int
  PROVE  d * FilterDay \in Int /\ (d + 1) * FilterDay = d * FilterDay + FilterDay
         /\ \E j \in Int : d * FilterDay = j * Step
  <1>0. Step \in Nat \ {0} /\ FilterDay \in Nat \ {0} /\ FilterDay % Step = 0
    BY FilterAssumption
  <1>1. PICK e \in Int : FilterDay = e * Step
    <2>1. FilterDay = (FilterDay \div Step) * Step + (FilterDay % Step) /\ FilterDay \div Step \in Int
      BY <1>0
    <2> QED BY <1>0, <2>1
  <1>2. d * FilterDay = (d * e) * Step /\ d * e \in Int
    BY <1>0, <1>1
  <1>3. d * FilterDay \in Int /\ (d + 1) * FilterDay = d * FilterDay + FilterDay
    BY <1>0, LessTimes
  <1> QED BY <1>2, <1>3

\* A moment lies within its day.
LEMMA FilterDayIs ==
  ASSUME NEW t \in Int
  PROVE  /\ Filter!DayOf(t) \in Int
         /\ Filter!DayOf(t) * FilterDay <= t /\ t < (Filter!DayOf(t) + 1) * FilterDay
         /\ \A d \in Int : /\ d * FilterDay <= t /\ t < (d + 1) * FilterDay => Filter!DayOf(t) = d
                           /\ d * FilterDay <= t => d <= Filter!DayOf(t)
                           /\ t < d * FilterDay => Filter!DayOf(t) < d
  <1>0. FilterDay \in Nat \ {0}
    BY FilterAssumption
  <1>1. PICK q \in Int : q = Filter!DayOf(t)
    BY <1>0 DEF Filter!DayOf
  <1>2. q * FilterDay <= t /\ t < (q + 1) * FilterDay
    BY <1>0, <1>1, DivBetween DEF Filter!DayOf
  <1>3. ASSUME NEW d \in Int
        PROVE  /\ d * FilterDay <= t /\ t < (d + 1) * FilterDay => q = d
               /\ d * FilterDay <= t => d <= q
               /\ t < d * FilterDay => q < d
    <2>1. /\ q < d => q * FilterDay + FilterDay <= d * FilterDay
          /\ (q + 1) * FilterDay = q * FilterDay + FilterDay
      BY <1>0, LessTimes
    <2>2. /\ d < q => d * FilterDay + FilterDay <= q * FilterDay
          /\ (d + 1) * FilterDay = d * FilterDay + FilterDay
      BY <1>0, LessTimes
    <2>3. d * FilterDay \in Int /\ q * FilterDay \in Int
      BY <1>0, LessTimes
    <2> QED BY <1>0, <1>2, <2>1, <2>2, <2>3
  <1> QED BY <1>1, <1>2, <1>3

\* The units of slots.
Units(S) == {u \in Int : u \div Step \in S}

\* Unit u is one of slot k.
UnitIn(u, k) ==
  /\ k * Step \in Int /\ (k + 1) * Step = k * Step + Step /\ u \div Step \in Int
  /\ u \div Step = k <=> k * Step <= u /\ u < (k + 1) * Step

LEMMA UnitOf ==
  ASSUME NEW u \in Int, NEW k \in Int
  PROVE  UnitIn(u, k)
  <1>0. Step \in Nat \ {0}
    BY FilterAssumption
  <1>1. PICK q \in Int : q = u \div Step /\ q * Step <= u /\ u < (q + 1) * Step
    BY <1>0, DivBetween
  <1>2. /\ q < k => q * Step + Step <= k * Step
        /\ (q + 1) * Step = q * Step + Step
    BY <1>0, LessTimes
  <1>3. /\ k < q => k * Step + Step <= q * Step
        /\ (k + 1) * Step = k * Step + Step
    BY <1>0, LessTimes
  <1>4. k * Step \in Int /\ q * Step \in Int
    BY <1>0, LessTimes
  <1> QED BY <1>0, <1>1, <1>2, <1>3, <1>4 DEF UnitIn

\* A slot has Step units.
LEMMA UnitsCount ==
  ASSUME NEW S, S \subseteq Int, IsFiniteSet(S)
  PROVE  IsFiniteSet(Units(S)) /\ Cardinality(Units(S)) = Step * Cardinality(S) /\ Step * Cardinality(S) \in Nat
  <1>0. Step \in Nat \ {0}
    BY FilterAssumption
  <1> DEFINE Good(T) == IsFiniteSet(Units(T)) /\ Cardinality(Units(T)) = Step * Cardinality(T)
             X == {T \in SUBSET S : Good(T)}
  <1>1. {} \in X
    <2>1. Units({}) = {} /\ Step * 0 = 0
      BY <1>0 DEF Units
    <2> QED BY <2>1, FS_EmptySet
  <1>2. ASSUME NEW T \in X, NEW y \in S \ T PROVE T \cup {y} \in X
    <2>1. PICK a \in Int : a = y * Step
      BY <1>0, LessTimes
    <2>2. PICK B : B = a..(a + Step - 1)
      OBVIOUS
    <2>3. IsFiniteSet(B) /\ Cardinality(B) = Step
      <3>1. a + Step - 1 \in Int /\ ~(a > a + Step - 1) /\ (a + Step - 1) - a + 1 = Step
        BY <1>0
      <3> QED BY <2>2, <3>1, FS_Interval
    <2>4. \A u \in Int : u \div Step = y <=> u \in B
      <3> SUFFICES ASSUME NEW u \in Int PROVE u \div Step = y <=> u \in B
        OBVIOUS
      <3>1. y \in Int
        OBVIOUS
      <3>2. (y + 1) * Step = a + Step /\ (u \div Step = y <=> a <= u /\ u < (y + 1) * Step)
        <4>1. (y + 1) * Step = y * Step + Step /\ (u \div Step = y <=> y * Step <= u /\ u < (y + 1) * Step)
          BY <3>1, UnitOf DEF UnitIn
        <4> QED BY <2>1, <4>1
      <3> QED BY <1>0, <2>2, <3>2
    <2>5. PICK C : C = Units(T)
      OBVIOUS
    <2>6. IsFiniteSet(C) /\ Cardinality(C) = Step * Cardinality(T) /\ T \in SUBSET S
      BY <2>5
    <2>7. Units(T \cup {y}) = C \cup B /\ C \cap B = {}
      <3>1. B \subseteq Int
        BY <1>0, <2>2
      <3> QED BY <2>4, <2>5, <3>1 DEF Units
    <2>8. IsFiniteSet(C \cup B) /\ Cardinality(C \cup B) = Cardinality(C) + Cardinality(B)
      BY <2>3, <2>6, <2>7, CardUnion
    <2>9. IsFiniteSet(T) /\ Cardinality(T) \in Nat /\ Cardinality(T \cup {y}) = Cardinality(T) + 1
      BY <2>6, FS_Subset, FS_AddElement, FS_CardinalityType
    <2>10. Step * (Cardinality(T) + 1) = Step * Cardinality(T) + Step
      BY <1>0, <2>9
    <2>11. Cardinality(C \cup B) = Step * Cardinality(T \cup {y})
      BY <2>3, <2>6, <2>8, <2>9, <2>10
    <2> QED BY <2>6, <2>7, <2>8, <2>11
  <1> HIDE DEF X
  <1>3. X \in SUBSET (SUBSET S)
    BY DEF X
  <1>4. S \in X
    BY <1>1, <1>2, <1>3, FiniteInduction
  <1>5. Step * Cardinality(S) \in Nat
    <2>1. Cardinality(S) \in Nat
      BY FS_CardinalityType
    <2> QED BY <1>0, <2>1
  <1> QED BY <1>4, <1>5 DEF X

LEMMA FilterCounts == ASSUME NEW S PROVE Filter!Cardinality(S) = Cardinality(S)
  BY DEF Filter!Cardinality, Cardinality

LEMMA MinPair ==
  ASSUME NEW a \in Int, NEW b \in Int
  PROVE  Filter!Min({a, b}) = Lower(a, b) /\ Filter!Max({a, b}) = Upper(a, b)
  BY DEF Filter!Min, Filter!Max, Lower, Upper

\* The greatest of finitely many numbers is one of them.
LEMMA MaxOf ==
  ASSUME NEW S, S \subseteq Int, IsFiniteSet(S), S # {}
  PROVE  Filter!Max(S) \in S
  <1> DEFINE X == {T \in SUBSET S : T # {} => \E x \in T : \A y \in T : x >= y}
  <1>1. {} \in X
    OBVIOUS
  <1>2. ASSUME NEW T \in X, NEW z \in S \ T PROVE T \cup {z} \in X
    <2>1. T \cup {z} \in SUBSET S /\ z \in Int /\ T \subseteq Int
      OBVIOUS
    <2>2. \E x \in T \cup {z} : \A y \in T \cup {z} : x >= y
      <3>1. CASE T = {}
        BY <2>1, <3>1
      <3>2. CASE T # {}
        <4>1. PICK x \in T : \A y \in T : x >= y
          BY <3>2
        <4>2. CASE x >= z
          BY <4>1, <4>2
        <4>3. CASE ~(x >= z)
          <5>1. \A y \in T : z >= y
            BY <2>1, <4>1, <4>3
          <5> QED BY <2>1, <5>1
        <4> QED BY <4>2, <4>3
      <3> QED BY <3>1, <3>2
    <2> QED BY <2>1, <2>2
  <1> HIDE DEF X
  <1>3. X \in SUBSET (SUBSET S)
    BY DEF X
  <1>4. S \in X
    BY <1>1, <1>2, <1>3, FiniteInduction
  <1>5. \E x \in S : \A y \in S : x >= y
    BY <1>4 DEF X
  <1> QED BY <1>5 DEF Filter!Max

\* The units of given slots in which the fan ran.
FanIn(S) == {u \in Fan : u \div Step \in S}

\* Parts p of the time from a to t: of each the slots sl[p] are known.
Parted(P, sl, from, t) ==
  /\ IsFiniteSet(P)
  /\ \A p \in P : /\ sl[p] \subseteq Int /\ IsFiniteSet(sl[p])
                  /\ \A k \in sl[p] : from <= k * Step /\ (k + 1) * Step <= t
  /\ \A p, q \in P : p # q => sl[p] \cap sl[q] = {}

\* The units of known slots lie between from and t.
LEMMA FanPart ==
  ASSUME NEW P, NEW sl, NEW from \in Int, NEW t \in Int, Parted(P, sl, from, t), NEW p \in P
  PROVE  /\ IsFiniteSet(FanIn(sl[p])) /\ Cardinality(FanIn(sl[p])) \in Nat
         /\ Units(sl[p]) \subseteq from..(t - 1)
         /\ FanIn(sl[p]) \subseteq {u \in Fan : from <= u /\ u < t}
  <1>1. IsFiniteSet(FanIn(sl[p])) /\ Cardinality(FanIn(sl[p])) \in Nat
    <2>1. FanIn(sl[p]) \subseteq Fan
      BY DEF FanIn
    <2>2. IsFiniteSet(FanIn(sl[p]))
      BY <2>1, FS_Subset, FilterAssumption
    <2> QED BY <2>2, FS_CardinalityType
  <1>2. ASSUME NEW u \in Int, u \div Step \in sl[p] PROVE from <= u /\ u < t
    <2>1. PICK k \in Int : k = u \div Step /\ k \in sl[p]
      BY <1>2 DEF Parted
    <2>2. from <= k * Step /\ (k + 1) * Step <= t
      BY <2>1 DEF Parted
    <2>3. k * Step \in Int /\ (k + 1) * Step \in Int /\ k * Step <= u /\ u < (k + 1) * Step
      <3>1. UnitIn(u, k) /\ UnitIn(u, k + 1)
        BY UnitOf
      <3> QED BY <2>1, <3>1 DEF UnitIn
    <2> QED BY <2>2, <2>3
  <1>3. Units(sl[p]) \subseteq from..(t - 1)
    <2> SUFFICES ASSUME NEW u \in Int, u \div Step \in sl[p] PROVE u \in from..(t - 1)
      BY DEF Units
    <2>1. from <= u /\ u < t
      BY <1>2
    <2> QED BY <2>1
  <1>4. FanIn(sl[p]) \subseteq {u \in Fan : from <= u /\ u < t}
    BY <1>2, FilterAssumption DEF FanIn
  <1> QED BY <1>1, <1>3, <1>4

\* What is observed is runtime between from and t.
LEMMA ObservedRan ==
  ASSUME NEW P, NEW sl, NEW from \in Int, NEW t \in Int, Parted(P, sl, from, t),
         NEW ran, \A p \in P : ran[p] = Cardinality(FanIn(sl[p]))
  PROVE  Sum(ran, P) \in Int /\ Sum(ran, P) <= Cardinality({u \in Fan : from <= u /\ u < t})
  <1>0. IsFiniteSet(P)
    BY DEF Parted
  <1>1. PICK A : A = [p \in P |-> FanIn(sl[p])]
    OBVIOUS
  <1>2. \A p \in P : A[p] = FanIn(sl[p]) /\ IsFiniteSet(A[p]) /\ ran[p] \in Int /\ ran[p] <= Cardinality(A[p])
    <2> SUFFICES ASSUME NEW p \in P
                 PROVE  A[p] = FanIn(sl[p]) /\ IsFiniteSet(A[p]) /\ ran[p] \in Int /\ ran[p] <= Cardinality(A[p])
      OBVIOUS
    <2>1. IsFiniteSet(FanIn(sl[p])) /\ Cardinality(FanIn(sl[p])) \in Nat
      BY FanPart
    <2> QED BY <1>1, <2>1
  <1>3. \A p, q \in P : p # q => A[p] \cap A[q] = {}
    <2> SUFFICES ASSUME NEW p \in P, NEW q \in P, p # q PROVE FanIn(sl[p]) \cap FanIn(sl[q]) = {}
      BY <1>2
    <2>1. sl[p] \cap sl[q] = {}
      BY DEF Parted
    <2> QED BY <2>1 DEF FanIn
  <1>4. PICK U : U = UNION {A[p] : p \in P}
    OBVIOUS
  <1>5. IsFiniteSet(U) /\ Sum(ran, P) <= Cardinality(U)
    <2>1. \A p \in P : ran[p] \in Int /\ IsFiniteSet(A[p]) /\ ran[p] <= Cardinality(A[p])
      BY <1>2
    <2>2. Packs(P, ran, A)
      BY <1>0, <1>3, <2>1, SumPacks
    <2> QED BY <1>4, <2>2 DEF Packs
  <1>6. PICK E : E = {u \in Fan : from <= u /\ u < t}
    OBVIOUS
  <1>7. U \subseteq E
    <2> SUFFICES ASSUME NEW p \in P PROVE A[p] \subseteq E
      BY <1>4
    <2>1. FanIn(sl[p]) \subseteq {u \in Fan : from <= u /\ u < t}
      BY FanPart
    <2> QED BY <1>2, <1>6, <2>1
  <1>8. IsFiniteSet(E)
    BY <1>6, FS_Subset, FilterAssumption
  <1>9. Cardinality(U) <= Cardinality(E) /\ Cardinality(U) \in Nat /\ Cardinality(E) \in Nat
    BY <1>5, <1>7, <1>8, FS_Subset, FS_CardinalityType
  <1>10. Sum(ran, P) \in Int
    BY <1>0, <1>2, SumRemoves
  <1> QED BY <1>5, <1>6, <1>9, <1>10

\* Every part counts the units of its slots in which the fan ran, and bounds
\* those of its units it does not know.
Bounded(P, sl, ran, unk, R) ==
  \A p \in P : /\ ran[p] = Cardinality(FanIn(sl[p]))
              /\ unk[p] \in Int /\ IsFiniteSet(R[p]) /\ Cardinality(R[p]) <= unk[p] + Step * Cardinality(sl[p])

\* Runtime since a is at most what is observed and what is unknown.
Covered(P, ran, unk, a, t, tail) ==
  /\ Sum(unk, P) \in Int /\ Sum(ran, P) \in Int
  /\ Cardinality({u \in Fan : a <= u /\ u < t}) <= Sum(ran, P) + (Sum(unk, P) + tail)

\* A unit in which the fan ran is one of a known slot, and observed, or not:
\* the units that are of none are at most those the parts do not know and the
\* tail, since the known ones are counted once.
LEMMA UnknownCovers ==
  ASSUME NEW P, NEW sl, NEW a \in Int, NEW t \in Int, Parted(P, sl, a, t), a <= t,
         NEW ran, NEW unk, NEW R, Bounded(P, sl, ran, unk, R),
         NEW g \in Int, a..(g - 1) \subseteq UNION {R[p] : p \in P},
         NEW tail \in Int, t - g <= tail
  PROVE  Covered(P, ran, unk, a, t, tail)
  <1> USE DEF Bounded
  <1>0. IsFiniteSet(P) /\ Step \in Nat
    BY FilterAssumption DEF Parted
  <1>1. PICK A : A = [p \in P |-> FanIn(sl[p])]
    OBVIOUS
  <1>2. PICK C : C = [p \in P |-> Units(sl[p])]
    OBVIOUS
  <1>3. PICK cov : cov = [p \in P |-> Step * Cardinality(sl[p])]
    OBVIOUS
  <1>4. PICK w : w = [p \in P |-> unk[p] + cov[p]]
    OBVIOUS
  <1>5. ASSUME NEW p \in P
        PROVE  /\ A[p] = FanIn(sl[p]) /\ C[p] = Units(sl[p]) /\ C[p] \subseteq a..(t - 1)
               /\ IsFiniteSet(A[p]) /\ ran[p] \in Int /\ Cardinality(A[p]) <= ran[p]
               /\ IsFiniteSet(C[p]) /\ cov[p] \in Int /\ cov[p] <= Cardinality(C[p])
               /\ unk[p] \in Int /\ w[p] \in Int /\ w[p] = unk[p] + cov[p] /\ IsFiniteSet(R[p]) /\ Cardinality(R[p]) <= w[p]
    <2>1. /\ IsFiniteSet(FanIn(sl[p])) /\ Cardinality(FanIn(sl[p])) \in Nat /\ Units(sl[p]) \subseteq a..(t - 1)
      BY FanPart
    <2>2. sl[p] \subseteq Int /\ IsFiniteSet(sl[p])
      BY DEF Parted
    <2>3. PICK m : m = Cardinality(sl[p])
      OBVIOUS
    <2>4. PICK c : c = Step * m
      OBVIOUS
    <2>5. IsFiniteSet(Units(sl[p])) /\ Cardinality(Units(sl[p])) = c /\ c \in Nat
      BY <2>2, <2>3, <2>4, UnitsCount
    <2>6. cov[p] = c
      BY <1>3, <2>3, <2>4
    <2>7. Cardinality(R[p]) <= unk[p] + c
      BY <2>3, <2>4
    <2> QED BY <1>1, <1>2, <1>4, <2>1, <2>5, <2>6, <2>7
  <1>6. \A p, q \in P : p # q => C[p] \cap C[q] = {}
    <2> SUFFICES ASSUME NEW p \in P, NEW q \in P, p # q PROVE Units(sl[p]) \cap Units(sl[q]) = {}
      BY <1>5
    <2>1. sl[p] \cap sl[q] = {}
      BY DEF Parted
    <2> QED BY <2>1 DEF Units
  <1>7. PICK F : F = UNION {A[p] : p \in P}
    OBVIOUS
  <1>8. PICK K : K = UNION {C[p] : p \in P}
    OBVIOUS
  <1>9. PICK Q : Q = UNION {R[p] : p \in P}
    OBVIOUS
  <1>10. IsFiniteSet(F) /\ Cardinality(F) <= Sum(ran, P)
    BY <1>0, <1>5, <1>7, SumCovers
  <1>11. IsFiniteSet(K) /\ Sum(cov, P) <= Cardinality(K)
    <2>1. \A p \in P : cov[p] \in Int /\ IsFiniteSet(C[p]) /\ cov[p] <= Cardinality(C[p])
      BY <1>5
    <2>2. Packs(P, cov, C)
      BY <1>0, <1>6, <2>1, SumPacks
    <2> QED BY <1>8, <2>2 DEF Packs
  <1>12. IsFiniteSet(Q) /\ Cardinality(Q) <= Sum(w, P)
    <2>1. \A p \in P : w[p] \in Int /\ IsFiniteSet(R[p]) /\ Cardinality(R[p]) <= w[p]
      BY <1>5
    <2> QED BY <1>0, <1>9, <2>1, SumCovers
  <1>13. Sum(unk, P) \in Int /\ Sum(cov, P) \in Int /\ Sum(w, P) = Sum(unk, P) + Sum(cov, P)
    <2>1. \A p \in P : unk[p] \in Int /\ cov[p] \in Int /\ w[p] = unk[p] + cov[p]
      BY <1>5
    <2> QED BY <1>0, <2>1, SumPlus
  <1>14. Sum(ran, P) \in Int
    BY <1>0, <1>5, SumRemoves
  <1>15. PICK T : T = a..(t - 1)
    OBVIOUS
  <1>16. IsFiniteSet(T) /\ Cardinality(T) = t - a
    <2>1. t - 1 \in Int /\ (a > t - 1 => t - a = 0) /\ t - 1 - a + 1 = t - a
      OBVIOUS
    <2> QED BY <1>15, <2>1, FS_Interval
  <1>17. PICK W : W = T \ K
    OBVIOUS
  <1>18. IsFiniteSet(W) /\ Cardinality(W) \in Nat /\ Cardinality(K) \in Nat /\ Cardinality(W) + Cardinality(K) = t - a
    <2>1. K \subseteq T
      BY <1>5, <1>8, <1>15
    <2>2. IsFiniteSet(W) /\ W \cap K = {} /\ W \cup K = T
      BY <1>16, <1>17, <2>1, FS_Subset
    <2>3. Cardinality(W \cup K) = Cardinality(W) + Cardinality(K) /\ Cardinality(W) \in Nat /\ Cardinality(K) \in Nat
      BY <1>11, <2>2, CardUnion
    <2> QED BY <1>16, <2>2, <2>3
  <1>19. PICK E : E = {u \in Fan : a <= u /\ u < t}
    OBVIOUS
  <1>20. E \subseteq F \cup W
    <2> SUFFICES ASSUME NEW u \in E, u \notin W PROVE u \in F
      OBVIOUS
    <2>1. u \in Fan /\ u \in Int /\ u \in T
      BY <1>15, <1>19, FilterAssumption
    <2>2. u \in K
      BY <1>17, <2>1
    <2>3. PICK p \in P : u \in C[p]
      BY <1>8, <2>2
    <2>4. u \div Step \in sl[p]
      BY <1>5, <2>3 DEF Units
    <2>5. u \in A[p]
      BY <1>5, <2>1, <2>4 DEF FanIn
    <2> QED BY <1>7, <2>5
  <1>21. Cardinality(E) \in Nat /\ Cardinality(F) \in Nat /\ Cardinality(E) <= Cardinality(F) + Cardinality(W)
    <2>1. IsFiniteSet(F \cup W) /\ Cardinality(F \cup W) <= Cardinality(F) + Cardinality(W)
          /\ Cardinality(F \cup W) \in Nat /\ Cardinality(F) \in Nat
      BY <1>10, <1>18, CardUnion
    <2>2. IsFiniteSet(E) /\ Cardinality(E) <= Cardinality(F \cup W)
      BY <1>20, <2>1, FS_Subset
    <2>3. Cardinality(E) \in Nat
      BY <2>2, FS_CardinalityType
    <2> QED BY <1>18, <2>1, <2>2, <2>3
  <1>22. g - a <= Cardinality(Q) /\ Cardinality(Q) \in Nat
    <2>1. PICK I : I = a..(g - 1)
      OBVIOUS
    <2>2. IsFiniteSet(I) /\ (Cardinality(I) = IF a > g - 1 THEN 0 ELSE g - 1 - a + 1)
      BY <2>1, FS_Interval
    <2>3. I \subseteq Q
      BY <1>9, <2>1
    <2>4. Cardinality(I) <= Cardinality(Q) /\ Cardinality(Q) \in Nat
      BY <1>12, <2>3, FS_Subset, FS_CardinalityType
    <2> QED BY <2>2, <2>4
  <1> DEFINE cE == Cardinality(E)
             cF == Cardinality(F)
             cW == Cardinality(W)
             cK == Cardinality(K)
             cQ == Cardinality(Q)
             sr == Sum(ran, P)
             su == Sum(unk, P)
             sc == Sum(cov, P)
             sw == Sum(w, P)
  <1>23. /\ cE \in Int /\ cF \in Int /\ cW \in Int /\ cK \in Int /\ cQ \in Int /\ sr \in Int /\ su \in Int /\ sc \in Int
         /\ cE <= cF + cW /\ cF <= sr /\ cW + cK = t - a /\ sc <= cK /\ g - a <= cQ /\ cQ <= sw /\ sw = su + sc
    BY <1>10, <1>11, <1>12, <1>13, <1>14, <1>18, <1>21, <1>22
  <1>24. cE <= sr + (su + tail)
    <2> HIDE DEF cE, cF, cW, cK, cQ, sr, su, sc, sw
    <2> QED BY <1>23
  <1> QED BY <1>13, <1>14, <1>19, <1>24 DEF Covered

(***************************************************************************)
(* What an observation adds up                                             *)
(***************************************************************************)
Seen(p) == IF p.got.observed = None THEN 0 ELSE p.got.observed
Unseen(p) == p.got.unknown

SeenFold(P) == Filter!FoldSet(LAMBDA p, n : n + Seen(p), 0, P)
UnseenFold(P) == Filter!FoldSet(LAMBDA p, n : n + Unseen(p), 0, P)

\* The parts of an observation: the change day and the days after it.
PartsOf(c, cached, end, summary) ==
  Filter!Days(c, end, summary)
    \cup {[day |-> Filter!DayOf(c.at), got |-> Filter!Boundary(c, cached, end)]}

\* What build_filter_runtime_observation puts together.
LEMMA ObservationIs ==
  ASSUME NEW c, NEW cached, NEW end, NEW summary, NEW P, P = PartsOf(c, cached, end, summary),
         NEW o, o = Filter!Observation(c, cached, end, summary)
  PROVE  \/ o = [observed |-> None, unknown |-> None]
         \/ o = [observed |-> IF Filter!Known(P) = {} THEN None ELSE SeenFold(P),
                 unknown  |-> IF end = None \/ \E p \in P : p.got.unknown = None
                              THEN None ELSE UnseenFold(P) + Filter!Tail(c, end)]
  BY DEF Filter!Observation, PartsOf, SeenFold, UnseenFold, Seen, Unseen

\* The fold over parts is the sum: of what was observed ...
LEMMA SeenIsSum ==
  ASSUME NEW P, IsFiniteSet(P), NEW g, \A p \in P : g[p] = Seen(p)
  PROVE  SeenFold(P) = Sum(g, P)
  <1> DEFINE F == CHOOSE F : Summed(g, P, F)
             G == CHOOSE G : G = [u \in SUBSET P |-> IF u = {} THEN 0
                                                     ELSE LET x == CHOOSE x \in u : TRUE IN G[u \ {x}] + Seen(x)]
  <1>1. SeenFold(P) = G[P]
    BY DEF SeenFold, Filter!FoldSet, Filter!MapThenFoldSet
  <1>2. ASSUME NEW H
        PROVE Summed(g, P, H) <=> H = [u \in SUBSET P |-> IF u = {} THEN 0
                                                     ELSE LET x == CHOOSE x \in u : TRUE IN H[u \ {x}] + Seen(x)]
    <2>1. \A u \in SUBSET P : u # {} => g[Pick(u)] = Seen(Pick(u))
      BY PickIn
    <2>2. [u \in SUBSET P |-> IF u = {} THEN 0 ELSE H[u \ {Pick(u)}] + g[Pick(u)]]
            = [u \in SUBSET P |-> IF u = {} THEN 0 ELSE H[u \ {Pick(u)}] + Seen(Pick(u))]
      BY <2>1
    <2> QED BY <2>2 DEF Summed, Pick
  <1>3. \E H : Summed(g, P, H)
    BY SumDefined
  <1>4. Summed(g, P, G)
    <2>0. PICK H : Summed(g, P, H)
      BY <1>3
    <2>1. \E H2 : H2 = [u \in SUBSET P |-> IF u = {} THEN 0
                                                     ELSE LET x == CHOOSE x \in u : TRUE IN H2[u \ {x}] + Seen(x)]
      <3>1. H = [u \in SUBSET P |-> IF u = {} THEN 0
                                                     ELSE LET x == CHOOSE x \in u : TRUE IN H[u \ {x}] + Seen(x)]
        BY <1>2, <2>0
      <3> QED BY <3>1
    <2>2. G = [u \in SUBSET P |-> IF u = {} THEN 0
                                                     ELSE LET x == CHOOSE x \in u : TRUE IN G[u \ {x}] + Seen(x)]
      BY <2>1
    <2> HIDE DEF G
    <2> QED BY <1>2, <2>2
  <1>5. Summed(g, P, F) /\ Sum(g, P) = F[P]
    BY <1>3 DEF Sum
  <1> HIDE DEF F, G
  <1>6. F[P] = G[P]
    BY <1>4, <1>5, SumUnique
  <1> QED BY <1>1, <1>5, <1>6

\* ... and of what is unknown.
LEMMA UnseenIsSum ==
  ASSUME NEW P, IsFiniteSet(P), NEW g, \A p \in P : g[p] = Unseen(p)
  PROVE  UnseenFold(P) = Sum(g, P)
  <1> DEFINE F == CHOOSE F : Summed(g, P, F)
             G == CHOOSE G : G = [u \in SUBSET P |-> IF u = {} THEN 0
                                                     ELSE LET x == CHOOSE x \in u : TRUE IN G[u \ {x}] + Unseen(x)]
  <1>1. UnseenFold(P) = G[P]
    BY DEF UnseenFold, Filter!FoldSet, Filter!MapThenFoldSet
  <1>2. ASSUME NEW H
        PROVE Summed(g, P, H) <=> H = [u \in SUBSET P |-> IF u = {} THEN 0
                                                     ELSE LET x == CHOOSE x \in u : TRUE IN H[u \ {x}] + Unseen(x)]
    <2>1. \A u \in SUBSET P : u # {} => g[Pick(u)] = Unseen(Pick(u))
      BY PickIn
    <2>2. [u \in SUBSET P |-> IF u = {} THEN 0 ELSE H[u \ {Pick(u)}] + g[Pick(u)]]
            = [u \in SUBSET P |-> IF u = {} THEN 0 ELSE H[u \ {Pick(u)}] + Unseen(Pick(u))]
      BY <2>1
    <2> QED BY <2>2 DEF Summed, Pick
  <1>3. \E H : Summed(g, P, H)
    BY SumDefined
  <1>4. Summed(g, P, G)
    <2>0. PICK H : Summed(g, P, H)
      BY <1>3
    <2>1. \E H2 : H2 = [u \in SUBSET P |-> IF u = {} THEN 0
                                                     ELSE LET x == CHOOSE x \in u : TRUE IN H2[u \ {x}] + Unseen(x)]
      <3>1. H = [u \in SUBSET P |-> IF u = {} THEN 0
                                                     ELSE LET x == CHOOSE x \in u : TRUE IN H[u \ {x}] + Unseen(x)]
        BY <1>2, <2>0
      <3> QED BY <3>1
    <2>2. G = [u \in SUBSET P |-> IF u = {} THEN 0
                                                     ELSE LET x == CHOOSE x \in u : TRUE IN G[u \ {x}] + Unseen(x)]
      BY <2>1
    <2> HIDE DEF G
    <2> QED BY <1>2, <2>2
  <1>5. Summed(g, P, F) /\ Sum(g, P) = F[P]
    BY <1>3 DEF Sum
  <1> HIDE DEF F, G
  <1>6. F[P] = G[P]
    BY <1>4, <1>5, SumUnique
  <1> QED BY <1>1, <1>5, <1>6

(***************************************************************************)
(* What each part of an observation knows                                  *)
(***************************************************************************)

\* A change that was on record at time t.
IsChange(c, t) ==
  /\ c.at \in Int /\ c.at <= t /\ c.exact \in BOOLEAN
  /\ ~c.exact => \E d \in Int : c.at = d * FilterDay

\* Slots that were over at time t.
Finished(S, t) == S \subseteq Int /\ IsFiniteSet(S) /\ \A k \in S : (k + 1) * Step <= t

\* The end of the change's day, and the first moment its filter was surely in.
DayEnd(c) == (Filter!DayOf(c.at) + 1) * FilterDay
From(c) == IF c.exact THEN c.at ELSE DayEnd(c)

\* Where the reports end, or the day of a change known by its date.
Reach(c, end) == Upper(Filter!Floor(Filter!Horizon(end)), From(c))

\* A part of day d knows the slots B; if it bounds what it does not know,
\* the units from the change on that it answers for are R.
Knows(c, end, d, got, B, R) ==
  /\ B \subseteq Int /\ IsFiniteSet(B)
  /\ \A k \in B : From(c) <= k * Step /\ (k + 1) * Step <= now /\ Filter!DayOf(k * Step) = d
  /\ got.observed = IF B = {} THEN None ELSE Cardinality(FanIn(B))
  /\ got.unknown # None =>
       /\ got.unknown \in Int
       /\ IsFiniteSet(R) /\ Cardinality(R) <= got.unknown + Step * Cardinality(B)
       /\ \A u \in Int : c.at <= u /\ u < Reach(c, end) /\ Filter!DayOf(u) = d => u \in R

\* A runtime counts the units of its slots in which the fan ran.
LEMMA RanIs == ASSUME NEW S PROVE Filter!Ran(S) = Cardinality(FanIn(S))
  BY FilterCounts DEF Filter!Ran, FanIn

LEMMA HorizonIs ==
  ASSUME now \in Int, NEW end, end = None \/ end \in Int
  PROVE  Filter!Horizon(end) \in Int /\ Filter!Horizon(end) <= now
  <1>0. Step \in Int
    BY FilterAssumption
  <1>1. CASE end = None
    BY <1>1 DEF Filter!Horizon
  <1>2. CASE end # None
    <2>1. PICK e \in Int : e = (end + 1) * Step
      BY <1>0, <1>2
    <2>2. Filter!Horizon(end) = Lower(now, e)
      BY <1>2, <2>1, MinPair DEF Filter!Horizon
    <2> QED BY <2>1, <2>2 DEF Lower
  <1> QED BY <1>1, <1>2

\* A change lies before the end of its day, one known by its date at the start.
LEMMA FromIs ==
  ASSUME now \in Int, NEW c, IsChange(c, now), NEW end, end = None \/ end \in Int
  PROVE  /\ Filter!DayOf(c.at) \in Int /\ DayEnd(c) \in Int /\ From(c) \in Int
         /\ c.at <= From(c) /\ From(c) <= DayEnd(c) /\ c.at < DayEnd(c)
         /\ ~c.exact => c.at = Filter!DayOf(c.at) * FilterDay /\ DayEnd(c) = c.at + FilterDay
         /\ Reach(c, end) \in Int
  <1>0. c.at \in Int /\ c.at <= now /\ c.exact \in BOOLEAN /\ FilterDay \in Nat \ {0}
    BY FilterAssumption DEF IsChange
  <1>1. PICK d \in Int : d = Filter!DayOf(c.at) /\ d * FilterDay <= c.at /\ c.at < (d + 1) * FilterDay
    BY <1>0, FilterDayIs
  <1>2. d * FilterDay \in Int /\ (d + 1) * FilterDay = d * FilterDay + FilterDay
    BY DaySlots
  <1>3. DayEnd(c) = d * FilterDay + FilterDay
    BY <1>1, <1>2 DEF DayEnd
  <1>4. ~c.exact => c.at = d * FilterDay
    <2> SUFFICES ASSUME ~c.exact PROVE c.at = d * FilterDay
      OBVIOUS
    <2>1. PICK x \in Int : c.at = x * FilterDay
      BY DEF IsChange
    <2>2. x * FilterDay \in Int /\ (x + 1) * FilterDay = x * FilterDay + FilterDay
      BY DaySlots
    <2>3. x * FilterDay <= c.at /\ c.at < (x + 1) * FilterDay
      BY <1>0, <2>1, <2>2
    <2>4. Filter!DayOf(c.at) = x
      BY <1>0, <2>3, FilterDayIs
    <2> QED BY <1>1, <2>1, <2>4
  <1>5. Filter!Floor(Filter!Horizon(end)) \in Int
    BY HorizonIs, FloorIs
  <1>6. From(c) \in Int /\ c.at <= From(c) /\ From(c) <= DayEnd(c) /\ c.at < DayEnd(c) /\ DayEnd(c) \in Int
    BY <1>0, <1>1, <1>2, <1>3 DEF From
  <1>7. Reach(c, end) \in Int
    BY <1>5, <1>6 DEF Reach, Upper
  <1> QED BY <1>1, <1>3, <1>4, <1>6, <1>7

\* A day known by its summary.
LEMMA DayKnows ==
  ASSUME now \in Int, NEW c, IsChange(c, now), NEW end, end = None \/ end \in Int,
         NEW summary, Finished(summary, now), NEW p \in Filter!Days(c, end, summary)
  PROVE  /\ p.day \in Int /\ Filter!DayOf(c.at) < p.day
         /\ \E B, R : Knows(c, end, p.day, p.got, B, R)
  <1>0. /\ Step \in Nat \ {0} /\ FilterDay \in Nat \ {0} /\ None \notin Int
        /\ c.at \in Int /\ Filter!DayOf(c.at) \in Int /\ DayEnd(c) \in Int /\ From(c) \in Int /\ From(c) <= DayEnd(c)
        /\ Reach(c, end) \in Int /\ c.at < DayEnd(c)
    BY FromIs, FilterAssumption DEF IsChange
  <1>1. PICK h \in Int : h = Filter!Floor(Filter!Horizon(end)) /\ \E j \in Int : h = j * Step
    BY HorizonIs, FloorIs
  <1> DEFINE units(d) == Filter!Floor(Filter!Above0(Filter!Min({(d + 1) * FilterDay, h}) - d * FilterDay))
  <1>2. PICK d \in Filter!DayOf(c.at) + 1 .. Filter!DayOf(h) :
          units(d) > 0 /\ p = [day |-> d, got |-> Filter!Daily(d, summary, units(d))]
    BY <1>1 DEF Filter!Days
  <1>3. d \in Int /\ Filter!DayOf(c.at) < d
    <2>1. Filter!DayOf(h) \in Int
      BY FilterDayIs
    <2> QED BY <1>0, <2>1
  <1>4. PICK a \in Int, z \in Int : a = d * FilterDay /\ z = (d + 1) * FilterDay /\ z = a + FilterDay
    BY <1>3, DaySlots
  <1>5. DayEnd(c) <= a
    <2>1. d < Filter!DayOf(c.at) + 1 \/ d = Filter!DayOf(c.at) + 1 \/ Filter!DayOf(c.at) + 1 < d
      BY <1>0, <1>3
    <2>2. Filter!DayOf(c.at) + 1 < d => (Filter!DayOf(c.at) + 1) * FilterDay + FilterDay <= d * FilterDay
      BY <1>0, <1>3, LessTimes
    <2>3. (Filter!DayOf(c.at) + 1) * FilterDay \in Int
      BY <1>0 DEF DayEnd
    <2> QED BY <1>0, <1>3, <1>4, <2>1, <2>2, <2>3 DEF DayEnd
  <1>6. PICK e \in Int : e = Lower(z, h)
    BY DEF Lower
  <1>7. units(d) = e - a /\ a < e
    <2>1. units(d) = Filter!Floor(Filter!Above0(e - a))
      BY <1>4, <1>6, MinPair
    <2>2. PICK i \in Int : e = i * Step
      <3>1. \E j \in Int : z = j * Step
        BY <1>3, <1>4, DaySlots
      <3> QED BY <1>1, <1>6, <3>1 DEF Lower
    <2>3. PICK j \in Int : a = j * Step
      BY <1>3, <1>4, DaySlots
    <2>4. e - a = (i - j) * Step
      BY <1>0, <2>2, <2>3
    <2>5. a < e
      <3> SUFFICES ASSUME ~(a < e) PROVE FALSE
        OBVIOUS
      <3>1. Filter!Above0(e - a) = 0
        BY DEF Filter!Above0
      <3>2. units(d) = Filter!Floor(0)
        BY <2>1, <3>1
      <3>3. Filter!Floor(0) <= 0 /\ Filter!Floor(0) \in Int
        BY FloorIs
      <3> QED BY <1>2, <3>2, <3>3
    <2>6. Filter!Above0(e - a) = e - a
      BY <2>5 DEF Filter!Above0
    <2>7. /\ Filter!Floor(e - a) \in Int /\ Filter!Floor(e - a) <= e - a
          /\ \A m \in Int : m * Step <= e - a => m * Step <= Filter!Floor(e - a)
      BY FloorIs
    <2>8. e - a <= Filter!Floor(e - a)
      <3>1. i - j \in Int /\ (i - j) * Step <= e - a
        BY <2>4
      <3>2. (i - j) * Step <= Filter!Floor(e - a)
        BY <2>7, <3>1
      <3> QED BY <2>4, <3>2
    <2>9. Filter!Floor(e - a) = e - a
      BY <2>7, <2>8
    <2> QED BY <2>1, <2>5, <2>6, <2>9
  <1>8. PICK B : B = summary \cap Filter!SlotsOf(d)
    OBVIOUS
  <1>9. PICK R : R = a..(e - 1)
    OBVIOUS
  <1>10. PICK n \in Int : n = Step * Cardinality(B)
    <2>1. B \subseteq Int /\ IsFiniteSet(B)
      BY <1>8, FS_Subset DEF Finished
    <2>2. Cardinality(B) \in Nat
      BY <2>1, FS_CardinalityType
    <2> QED BY <1>0, <2>2
  <1>11. /\ p.day = d /\ p.got.observed = IF B = {} THEN None ELSE Cardinality(FanIn(B))
         /\ p.got.unknown = IF e - a - n < 0 THEN None ELSE e - a - n
    <2>1. p.day = d /\ p.got = Filter!Daily(d, summary, e - a)
      BY <1>2, <1>7
    <2> QED BY <1>8, <1>10, <2>1, RanIs, FilterCounts DEF Filter!Daily
  <1>12. B \subseteq Int /\ IsFiniteSet(B)
    BY <1>8, FS_Subset DEF Finished
  <1>13. ASSUME NEW k \in B PROVE From(c) <= k * Step /\ (k + 1) * Step <= now /\ Filter!DayOf(k * Step) = d
    <2>1. k \in Int /\ (k + 1) * Step <= now /\ Filter!DayOf(k * Step) = d /\ k * Step \in Int
      BY <1>0, <1>8, <1>12 DEF Finished, Filter!SlotsOf
    <2>2. a <= k * Step
      BY <1>4, <2>1, FilterDayIs
    <2> QED BY <1>0, <1>5, <2>1, <2>2
  <1>14. ASSUME p.got.unknown # None
         PROVE  /\ p.got.unknown \in Int
                /\ IsFiniteSet(R) /\ Cardinality(R) <= p.got.unknown + n
                /\ \A u \in Int : c.at <= u /\ u < Reach(c, end) /\ Filter!DayOf(u) = d => u \in R
    <2>1. p.got.unknown = e - a - n
      BY <1>11, <1>14
    <2>2. IsFiniteSet(R) /\ Cardinality(R) = e - a
      BY <1>7, <1>9, FS_Interval
    <2>3. ASSUME NEW u \in Int, u < Reach(c, end), Filter!DayOf(u) = d PROVE u \in R
      <3>1. a <= u /\ u < z
        BY <1>4, <2>3, FilterDayIs
      <3>2. u < h
        BY <1>0, <1>1, <1>5, <2>3, <3>1 DEF Reach, Upper
      <3> QED BY <1>6, <1>9, <3>1, <3>2 DEF Lower
    <2> QED BY <2>1, <2>2, <2>3
  <1>15. Knows(c, end, d, p.got, B, R)
    BY <1>10, <1>11, <1>12, <1>13, <1>14 DEF Knows
  <1> QED BY <1>3, <1>11, <1>15

\* A change day of which cached rows are read.
LEMMA ChangeDayKnows ==
  ASSUME now \in Int, NEW c, IsChange(c, now), c.exact, NEW end, end = None \/ end \in Int,
         NEW rows, Finished(rows, now)
  PROVE  \E B, R : Knows(c, end, Filter!DayOf(c.at), Filter!ChangeDay(c, rows, end), B, R)
  <1>0. /\ Step \in Nat \ {0} /\ FilterDay \in Nat \ {0} /\ None \notin Int
        /\ c.at \in Int /\ Filter!DayOf(c.at) \in Int /\ DayEnd(c) \in Int /\ c.at < DayEnd(c)
        /\ Reach(c, end) \in Int /\ From(c) = c.at
    BY FromIs, FilterAssumption DEF IsChange, From
  <1> DEFINE got == Filter!ChangeDay(c, rows, end)
  <1>1. PICK full \in Int : full = Filter!Horizon(end)
    BY HorizonIs
  <1>2. PICK h \in Int : h = Lower(DayEnd(c), full)
    BY <1>0 DEF Lower
  <1>3. PICK f \in Int : f = Filter!Floor(h) /\ f <= h /\ \A j \in Int : j * Step <= h => j * Step <= f
    BY FloorIs
  <1>4. PICK first \in Int : first = Filter!Ceil(c.at) /\ c.at <= first
    BY <1>0, CeilIs
  <1>5. PICK B : B = {k \in rows : first <= k * Step /\ k * Step < f}
    OBVIOUS
  <1>6. B \subseteq Int /\ IsFiniteSet(B)
    BY <1>5, FS_Subset DEF Finished
  <1>7. PICK n \in Nat : n = Step * Cardinality(B)
    <2>1. Cardinality(B) \in Nat
      BY <1>6, FS_CardinalityType
    <2> QED BY <1>0, <2>1
  <1>8. PICK x \in Int, y \in Int : x = Filter!Above0(f - first) /\ y = Filter!Above0(Lower(first - c.at, h - c.at))
    <2>1. f - first \in Int /\ first - c.at \in Int /\ h - c.at \in Int
      BY <1>0
    <2>2. Lower(first - c.at, h - c.at) \in Int
      BY <2>1 DEF Lower
    <2>3. \A i \in Int : Filter!Above0(i) \in Int
      BY DEF Filter!Above0
    <2> QED BY <2>1, <2>2, <2>3
  <1>9. /\ got.observed = IF B = {} THEN None ELSE Cardinality(FanIn(B))
        /\ got.unknown = Filter!Above0(x - n) + y
    <2>1. Filter!Min({(Filter!DayOf(c.at) + 1) * FilterDay, Filter!Horizon(end)}) = h
      BY <1>0, <1>1, <1>2, MinPair DEF DayEnd
    <2>2. Filter!Min({first - c.at, h - c.at}) = Lower(first - c.at, h - c.at)
      <3>1. first - c.at \in Int /\ h - c.at \in Int
        BY <1>0
      <3> QED BY <3>1, MinPair
    <2> QED BY <1>3, <1>4, <1>5, <1>7, <1>8, <2>1, <2>2, RanIs, FilterCounts DEF Filter!ChangeDay
  <1>10. PICK R : R = c.at..(f - 1)
    OBVIOUS
  <1>11. ASSUME NEW k \in B PROVE From(c) <= k * Step /\ (k + 1) * Step <= now /\ Filter!DayOf(k * Step) = Filter!DayOf(c.at)
    <2>1. k \in Int /\ (k + 1) * Step <= now /\ k * Step \in Int /\ first <= k * Step /\ k * Step < f
      BY <1>0, <1>5, <1>6 DEF Finished
    <2>2. c.at <= k * Step /\ k * Step < DayEnd(c)
      BY <1>0, <1>2, <1>3, <1>4, <2>1 DEF Lower
    <2>3. PICK d \in Int : d = Filter!DayOf(c.at) /\ d * FilterDay <= c.at
      BY <1>0, FilterDayIs
    <2>4. d * FilterDay \in Int /\ DayEnd(c) = (d + 1) * FilterDay
      BY <2>3, DaySlots DEF DayEnd
    <2>5. d * FilterDay <= k * Step /\ k * Step < (d + 1) * FilterDay
      BY <1>0, <2>1, <2>2, <2>3, <2>4
    <2>6. Filter!DayOf(k * Step) = d
      BY <2>1, <2>5, FilterDayIs
    <2> QED BY <1>0, <2>1, <2>2, <2>3, <2>6
  <1>12. /\ got.unknown \in Int
         /\ IsFiniteSet(R) /\ Cardinality(R) <= got.unknown + n
    <2>1. x - n <= Filter!Above0(x - n) /\ Filter!Above0(x - n) \in Int
      BY DEF Filter!Above0
    <2>2. IsFiniteSet(R) /\ Cardinality(R) = IF c.at > f - 1 THEN 0 ELSE f - 1 - c.at + 1
      <3>1. c.at \in Int /\ f - 1 \in Int
        BY <1>0
      <3> QED BY <1>10, <3>1, FS_Interval
    <2>3. 0 <= x /\ f - first <= x /\ 0 <= y /\ Lower(first - c.at, h - c.at) <= y
      BY <1>0, <1>8 DEF Filter!Above0, Lower
    <2>4. f - c.at <= x + y
      BY <1>0, <1>3, <1>4, <2>3 DEF Lower
    <2> QED BY <1>0, <1>9, <2>1, <2>2, <2>3, <2>4
  <1>13. ASSUME NEW u \in Int, c.at <= u, u < Reach(c, end), Filter!DayOf(u) = Filter!DayOf(c.at) PROVE u \in R
    <2>1. PICK g \in Int, j \in Int : g = Filter!Floor(full) /\ g <= full /\ g = j * Step
      BY FloorIs
    <2>2. u < g
      BY <1>0, <1>1, <1>13, <2>1 DEF Reach, Upper
    <2>3. u < DayEnd(c)
      <3>1. u < (Filter!DayOf(u) + 1) * FilterDay
        BY FilterDayIs
      <3> QED BY <1>13, <3>1 DEF DayEnd
    <2>4. PICK i \in Int : DayEnd(c) = i * Step
      <3>1. Filter!DayOf(c.at) + 1 \in Int
        BY <1>0
      <3> QED BY <3>1, DaySlots DEF DayEnd
    <2>5. u < f
      <3>1. CASE full < DayEnd(c)
        <4>1. h = full
          BY <1>0, <1>2, <3>1 DEF Lower
        <4> QED BY <1>3, <2>1, <2>2, <4>1
      <3>2. CASE ~(full < DayEnd(c))
        <4>1. h = DayEnd(c)
          BY <1>0, <1>2, <3>2 DEF Lower
        <4>2. i * Step <= f
          BY <1>0, <1>3, <2>4, <4>1
        <4> QED BY <1>0, <2>3, <2>4, <4>2
      <3> QED BY <3>1, <3>2
    <2> QED BY <1>0, <1>10, <1>13, <2>5
  <1> HIDE DEF got
  <1>14. Knows(c, end, Filter!DayOf(c.at), got, B, R)
    BY <1>6, <1>7, <1>9, <1>11, <1>12, <1>13 DEF Knows
  <1> QED BY <1>14 DEF got

\* The change day.
LEMMA BoundaryKnows ==
  ASSUME now \in Int, NEW c, IsChange(c, now), NEW end, end = None \/ end \in Int,
         NEW cached, cached # None => Finished(cached.rows, now)
  PROVE  \E B, R : Knows(c, end, Filter!DayOf(c.at), Filter!Boundary(c, cached, end), B, R)
  <1>0. /\ Step \in Nat \ {0} /\ FilterDay \in Nat \ {0} /\ None \notin Int
        /\ c.at \in Int /\ Filter!DayOf(c.at) \in Int /\ DayEnd(c) \in Int /\ c.at < DayEnd(c)
        /\ ~c.exact => DayEnd(c) = c.at + FilterDay
    BY FromIs, FilterAssumption DEF IsChange
  <1>1. CASE ~c.exact
    <2>1. PICK R : R = c.at..(DayEnd(c) - 1)
      OBVIOUS
    <2>2. IsFiniteSet(R) /\ Cardinality(R) = FilterDay
      BY <1>0, <1>1, <2>1, FS_Interval
    <2>3. IsFiniteSet({}) /\ Step * Cardinality({}) = 0
      BY <1>0, FS_EmptySet
    <2>4. \A u \in Int : c.at <= u /\ Filter!DayOf(u) = Filter!DayOf(c.at) => u \in R
      <3> SUFFICES ASSUME NEW u \in Int, c.at <= u, Filter!DayOf(u) = Filter!DayOf(c.at) PROVE u \in R
        OBVIOUS
      <3>1. u < (Filter!DayOf(u) + 1) * FilterDay
        BY FilterDayIs
      <3>2. u < DayEnd(c)
        BY <3>1 DEF DayEnd
      <3> QED BY <1>0, <2>1, <3>2
    <2>5. PICK got : got = [observed |-> None, unknown |-> FilterDay] /\ got = Filter!Boundary(c, cached, end)
      BY <1>1 DEF Filter!Boundary
    <2>6. got.observed = None /\ got.unknown = FilterDay
      BY <2>5
    <2>7. Knows(c, end, Filter!DayOf(c.at), got, {}, R)
      BY <1>0, <2>2, <2>3, <2>4, <2>6 DEF Knows
    <2> QED BY <2>5, <2>7
  <1>2. CASE c.exact /\ (cached = None \/ cached.key.at # c.at)
    <2>1. PICK got : got = [observed |-> None, unknown |-> None] /\ got = Filter!Boundary(c, cached, end)
      BY <1>2 DEF Filter!Boundary
    <2>2. got.observed = None /\ got.unknown = None /\ IsFiniteSet({})
      BY <2>1, FS_EmptySet
    <2>3. Knows(c, end, Filter!DayOf(c.at), got, {}, {})
      BY <2>2 DEF Knows
    <2> QED BY <2>1, <2>3
  <1>3. CASE c.exact /\ cached # None /\ cached.key.at = c.at
    <2>1. PICK got : got = Filter!ChangeDay(c, cached.rows, end) /\ got = Filter!Boundary(c, cached, end)
      BY <1>3 DEF Filter!Boundary
    <2>2. Finished(cached.rows, now)
      BY <1>3
    <2>3. \E B, R : Knows(c, end, Filter!DayOf(c.at), Filter!ChangeDay(c, cached.rows, end), B, R)
      BY <1>3, <2>2, ChangeDayKnows
    <2> QED BY <2>1, <2>3
  <1> QED BY <1>1, <1>2, <1>3

\* The units from a moment up to t in which the fan ran.
Exposed(from, t) == Cardinality({u \in Fan : from <= u /\ u < t})

\* What an observation of change c made at time t may say.
Honest(o, c, t) ==
  /\ o.observed # None => o.observed \in Int /\ o.observed <= Exposed(From(c), t)
  /\ o.observed # None /\ o.unknown # None =>
       o.unknown \in Int /\ Exposed(c.at, t) <= o.observed + o.unknown

\* Finitely many days, each once.
LEMMA DaysFinite ==
  ASSUME now \in Int, NEW c, IsChange(c, now), NEW end, end = None \/ end \in Int, NEW summary
  PROVE  /\ IsFiniteSet(Filter!Days(c, end, summary))
         /\ \A p, q \in Filter!Days(c, end, summary) : p.day = q.day => p = q
  <1>0. c.at \in Int /\ Filter!DayOf(c.at) + 1 \in Int
    BY FromIs DEF IsChange
  <1>1. PICK h \in Int : h = Filter!Floor(Filter!Horizon(end))
    BY HorizonIs, FloorIs
  <1>2. Filter!DayOf(h) \in Int
    BY FilterDayIs
  <1> DEFINE units(d) == Filter!Floor(Filter!Above0(Filter!Min({(d + 1) * FilterDay, h}) - d * FilterDay))
  <1>3. PICK D : D = {d \in Filter!DayOf(c.at) + 1 .. Filter!DayOf(h) : units(d) > 0}
    OBVIOUS
  <1>4. IsFiniteSet(D)
    <2>1. IsFiniteSet(Filter!DayOf(c.at) + 1 .. Filter!DayOf(h))
      BY <1>0, <1>2, FS_Interval
    <2> QED BY <1>3, <2>1, FS_Subset
  <1>5. PICK f : f = [d \in D |-> [day |-> d, got |-> Filter!Daily(d, summary, units(d))]]
    OBVIOUS
  <1>6. Filter!Days(c, end, summary) = {f[d] : d \in D}
    <2>1. Filter!Days(c, end, summary) = {[day |-> d, got |-> Filter!Daily(d, summary, units(d))] : d \in D}
      BY <1>1, <1>3 DEF Filter!Days
    <2>2. \A d \in D : f[d] = [day |-> d, got |-> Filter!Daily(d, summary, units(d))]
      BY <1>5
    <2> HIDE DEF units
    <2> QED BY <2>1, <2>2
  <1>7. PICK I : I = {f[d] : d \in D}
    OBVIOUS
  <1>8. IsFiniteSet(I)
    <2>1. f \in Surjection(D, I)
      <3>1. f \in [D -> I]
        BY <1>5, <1>7
      <3>2. \A i \in I : \E d \in D : f[d] = i
        BY <1>7
      <3> QED BY <3>1, <3>2 DEF Surjection
    <2> QED BY <1>4, <2>1, FS_Surjection
  <1>9. \A p, q \in I : p.day = q.day => p = q
    <2>1. \A d \in D : f[d].day = d
      BY <1>5
    <2> QED BY <1>7, <2>1
  <1> QED BY <1>6, <1>7, <1>8, <1>9

\* The slots and the units of every part.
Split(P, c, end, sl, R) ==
  /\ \A p \in P : Knows(c, end, p.day, p.got, sl[p], R[p])
  /\ IsFiniteSet(P)
  /\ \A p, q \in P : p.day = q.day => p = q

\* Every part of an observation knows its slots.
LEMMA PartsKnow ==
  ASSUME now \in Int, NEW c, IsChange(c, now), NEW end, end = None \/ end \in Int,
         NEW cached, cached # None => Finished(cached.rows, now),
         NEW summary, Finished(summary, now),
         NEW P, P = PartsOf(c, cached, end, summary)
  PROVE  \E sl, R : Split(P, c, end, sl, R)
  <1>1. PICK D : D = Filter!Days(c, end, summary)
    OBVIOUS
  <1>2. PICK b : b = [day |-> Filter!DayOf(c.at), got |-> Filter!Boundary(c, cached, end)]
    OBVIOUS
  <1>3. P = D \cup {b} /\ b.day = Filter!DayOf(c.at) /\ b.got = Filter!Boundary(c, cached, end)
    BY <1>1, <1>2 DEF PartsOf
  <1>4. IsFiniteSet(D) /\ \A p, q \in D : p.day = q.day => p = q
    BY <1>1, DaysFinite
  <1>5. \A p \in D : /\ p.day \in Int /\ Filter!DayOf(c.at) < p.day
                     /\ \E B, R : Knows(c, end, p.day, p.got, B, R)
    BY <1>1, DayKnows
  <1>6. \E B, R : Knows(c, end, b.day, b.got, B, R)
    BY <1>3, BoundaryKnows
  <1>7. \A p \in P : \E x : Knows(c, end, p.day, p.got, x[1], x[2])
    <2> SUFFICES ASSUME NEW p \in P PROVE \E x : Knows(c, end, p.day, p.got, x[1], x[2])
      OBVIOUS
    <2>1. PICK B, R : Knows(c, end, p.day, p.got, B, R)
      BY <1>3, <1>5, <1>6
    <2>2. <<B, R>>[1] = B /\ <<B, R>>[2] = R
      OBVIOUS
    <2> QED BY <2>1, <2>2
  <1> DEFINE x(p) == CHOOSE x : Knows(c, end, p.day, p.got, x[1], x[2])
  <1>8. \A p \in P : Knows(c, end, p.day, p.got, x(p)[1], x(p)[2])
    BY <1>7
  <1>9. PICK sl : sl = [p \in P |-> x(p)[1]]
    OBVIOUS
  <1>10. PICK R : R = [p \in P |-> x(p)[2]]
    OBVIOUS
  <1>11. \A p \in P : Knows(c, end, p.day, p.got, sl[p], R[p])
    <2> HIDE DEF x
    <2> QED BY <1>8, <1>9, <1>10
  <1>12. IsFiniteSet(P)
    BY <1>3, <1>4, FS_AddElement
  <1>13. Filter!DayOf(c.at) \in Int
    BY FromIs
  <1>14. \A p, q \in P : p.day = q.day => p = q
    BY <1>3, <1>4, <1>5, <1>13
  <1>15. Split(P, c, end, sl, R)
    BY <1>11, <1>12, <1>14 DEF Split
  <1> QED BY <1>15

\* No slot is of two parts: each is of the day of its part.
LEMMA SplitParts ==
  ASSUME now \in Int, NEW c, IsChange(c, now), NEW end, end = None \/ end \in Int,
         NEW P, NEW sl, NEW R, Split(P, c, end, sl, R)
  PROVE  Parted(P, sl, From(c), now) /\ Parted(P, sl, c.at, now)
  <1>0. Step \in Int /\ c.at \in Int /\ From(c) \in Int /\ c.at <= From(c)
    <2>1. c.at \in Int
      BY DEF IsChange
    <2>2. From(c) \in Int /\ c.at <= From(c)
      BY FromIs
    <2> QED BY <2>1, <2>2, FilterAssumption
  <1>1. \A p \in P : /\ sl[p] \subseteq Int /\ IsFiniteSet(sl[p])
                     /\ \A k \in sl[p] : From(c) <= k * Step /\ (k + 1) * Step <= now /\ Filter!DayOf(k * Step) = p.day
    BY DEF Split, Knows
  <1>2. \A p, q \in P : p # q => sl[p] \cap sl[q] = {}
    <2> SUFFICES ASSUME NEW p \in P, NEW q \in P, p # q, NEW k \in sl[p], k \in sl[q] PROVE FALSE
      OBVIOUS
    <2>1. p.day = Filter!DayOf(k * Step) /\ q.day = Filter!DayOf(k * Step)
      BY <1>1
    <2> QED BY <2>1 DEF Split
  <1>3. \A p \in P : \A k \in sl[p] : c.at <= k * Step
    <2> SUFFICES ASSUME NEW p \in P, NEW k \in sl[p] PROVE c.at <= k * Step
      OBVIOUS
    <2>1. k \in Int /\ From(c) <= k * Step
      BY <1>1
    <2>2. k * Step \in Int
      BY <1>0, <2>1
    <2> QED BY <1>0, <2>1, <2>2
  <1>4. IsFiniteSet(P)
    BY DEF Split
  <1> QED BY <1>1, <1>2, <1>3, <1>4 DEF Parted

\* Nothing of the time after the reports is known.
LEMMA TailIs ==
  ASSUME now \in Int, NEW c, IsChange(c, now), NEW end, end = None \/ end \in Int
  PROVE  Filter!Tail(c, end) \in Int /\ now - Reach(c, end) <= Filter!Tail(c, end)
  <1>1. PICK f \in Int : f = Filter!Floor(Filter!Horizon(end))
    BY HorizonIs, FloorIs
  <1>2. From(c) \in Int /\ Reach(c, end) = Upper(f, From(c)) /\ Reach(c, end) \in Int
    BY <1>1, FromIs DEF Reach
  <1>3. Filter!Max({f, From(c)}) = Upper(f, From(c))
    BY <1>2, MinPair
  <1>4. Filter!Tail(c, end) = Filter!Above0(now - Reach(c, end))
    BY <1>1, <1>2, <1>3 DEF Filter!Tail, From, DayEnd
  <1>5. now - Reach(c, end) \in Int
    BY <1>2
  <1> QED BY <1>4, <1>5 DEF Filter!Above0

\* Every day from the change to where the reports end is a part.
LEMMA EveryDay ==
  ASSUME now \in Int, NEW c, IsChange(c, now), NEW end, end = None \/ end \in Int, NEW cached, NEW summary,
         NEW u \in Int, c.at <= u, u < Reach(c, end)
  PROVE  \E p \in PartsOf(c, cached, end, summary) : p.day = Filter!DayOf(u)
  <1>0. /\ Step \in Nat \ {0} /\ FilterDay \in Nat \ {0} /\ c.at \in Int /\ c.at <= u
        /\ Filter!DayOf(c.at) \in Int /\ DayEnd(c) \in Int /\ From(c) \in Int /\ From(c) <= DayEnd(c)
    BY FromIs, FilterAssumption DEF IsChange
  <1>1. PICK b : b = [day |-> Filter!DayOf(c.at), got |-> Filter!Boundary(c, cached, end)]
    OBVIOUS
  <1>2. b \in PartsOf(c, cached, end, summary) /\ b.day = Filter!DayOf(c.at)
    BY <1>1 DEF PartsOf
  <1>3. PICK x \in Int : x = Filter!DayOf(c.at) /\ x * FilterDay <= c.at /\ DayEnd(c) = (x + 1) * FilterDay
    BY <1>0, FilterDayIs DEF DayEnd
  <1>4. PICK d \in Int : d = Filter!DayOf(u) /\ d * FilterDay <= u /\ u < (d + 1) * FilterDay
    BY FilterDayIs
  <1>5. x <= d
    <2>1. x * FilterDay \in Int
      BY <1>3, DaySlots
    <2>2. x * FilterDay <= u
      BY <1>0, <1>3, <2>1
    <2> QED BY <1>3, <1>4, <2>2, FilterDayIs
  <1>6. CASE d = x
    BY <1>2, <1>3, <1>4, <1>6
  <1>7. CASE x + 1 <= d
    <2>1. PICK h \in Int, i \in Int : h = Filter!Floor(Filter!Horizon(end)) /\ h = i * Step
      BY HorizonIs, FloorIs
    <2>2. PICK a \in Int, z \in Int, j \in Int, l \in Int :
            /\ a = d * FilterDay /\ z = (d + 1) * FilterDay /\ z = a + FilterDay
            /\ a = j * Step /\ z = l * Step
      <3>1. d * FilterDay \in Int /\ (d + 1) * FilterDay = d * FilterDay + FilterDay
        BY DaySlots
      <3>2. (d + 1) * FilterDay \in Int
        BY <1>0, <3>1
      <3>3. PICK j \in Int : d * FilterDay = j * Step
        BY DaySlots
      <3>4. PICK l \in Int : (d + 1) * FilterDay = l * Step
        <4>1. d + 1 \in Int
          OBVIOUS
        <4> QED BY <4>1, DaySlots
      <3> QED BY <3>1, <3>2, <3>3, <3>4
    <2>3. DayEnd(c) <= a
      <3>1. x + 1 = d \/ x + 1 < d
        BY <1>7
      <3>2. x + 1 < d => (x + 1) * FilterDay + FilterDay <= d * FilterDay
        BY <1>0, LessTimes
      <3> QED BY <1>0, <1>3, <2>2, <3>1, <3>2
    <2>4. u < h
      BY <1>0, <1>4, <2>1, <2>2, <2>3 DEF Reach, Upper
    <2>5. d <= Filter!DayOf(h)
      <3>1. a <= h
        BY <1>4, <2>2, <2>4
      <3> QED BY <2>2, <3>1, FilterDayIs
    <2> DEFINE units(y) == Filter!Floor(Filter!Above0(Filter!Min({(y + 1) * FilterDay, h}) - y * FilterDay))
    <2>6. units(d) > 0
      <3>1. PICK e \in Int : e = Lower(z, h)
        BY DEF Lower
      <3>2. units(d) = Filter!Floor(Filter!Above0(e - a))
        BY <2>2, <3>1, MinPair
      <3>3. PICK m \in Int : e = m * Step
        BY <2>1, <2>2, <3>1 DEF Lower
      <3>4. a < e
        BY <1>4, <2>2, <2>4, <3>1 DEF Lower
      <3>5. Filter!Above0(e - a) = e - a /\ e - a = (m - j) * Step /\ e - a > 0
        BY <1>0, <2>2, <3>3, <3>4 DEF Filter!Above0
      <3>6. Filter!Floor(e - a) \in Int /\ \A y \in Int : y * Step <= e - a => y * Step <= Filter!Floor(e - a)
        BY FloorIs
      <3>7. m - j \in Int /\ (m - j) * Step <= e - a
        BY <3>5
      <3>8. (m - j) * Step <= Filter!Floor(e - a)
        BY <3>6, <3>7
      <3> QED BY <3>2, <3>5, <3>6, <3>8
    <2>7. Filter!DayOf(h) \in Int
      BY FilterDayIs
    <2>8. d \in Filter!DayOf(c.at) + 1 .. Filter!DayOf(h)
      BY <1>3, <1>7, <2>5, <2>7
    <2>9. PICK p : p = [day |-> d, got |-> Filter!Daily(d, summary, units(d))]
      OBVIOUS
    <2>10. p \in Filter!Days(c, end, summary)
      BY <2>1, <2>6, <2>8, <2>9 DEF Filter!Days
    <2>11. p.day = d
      BY <2>9
    <2> QED BY <1>4, <2>10, <2>11 DEF PartsOf
  <1> QED BY <1>5, <1>6, <1>7

\* build_filter_runtime_observation: what it observes is runtime of the filter,
\* and with what is unknown it bounds all of it.
LEMMA HonestObservation ==
  ASSUME now \in Int, NEW c, IsChange(c, now), NEW end, end = None \/ end \in Int,
         NEW cached, cached # None => Finished(cached.rows, now),
         NEW summary, Finished(summary, now)
  PROVE  Honest(Filter!Observation(c, cached, end, summary), c, now)
  <1>0. None \notin Int /\ c.at \in Int /\ c.at <= now /\ From(c) \in Int
    BY FromIs, FilterAssumption DEF IsChange
  <1>1. PICK o : o = Filter!Observation(c, cached, end, summary)
    OBVIOUS
  <1>2. PICK P : P = PartsOf(c, cached, end, summary)
    OBVIOUS
  <1>3. CASE o = [observed |-> None, unknown |-> None]
    <2>1. o.observed = None
      BY <1>3
    <2> QED BY <1>1, <2>1 DEF Honest
  <1>4. CASE o = [observed |-> IF Filter!Known(P) = {} THEN None ELSE SeenFold(P),
                  unknown  |-> IF end = None \/ \E p \in P : p.got.unknown = None
                               THEN None ELSE UnseenFold(P) + Filter!Tail(c, end)]
    <2>1. PICK sl, R : Split(P, c, end, sl, R)
      BY <1>2, PartsKnow
    <2>2. Parted(P, sl, From(c), now) /\ Parted(P, sl, c.at, now)
      BY <2>1, SplitParts
    <2>3. IsFiniteSet(P)
      BY <2>1 DEF Split
    <2>4. PICK ran : ran = [p \in P |-> Seen(p)]
      OBVIOUS
    <2>5. \A p \in P : ran[p] = Seen(p) /\ ran[p] = Cardinality(FanIn(sl[p]))
      <3> SUFFICES ASSUME NEW p \in P PROVE ran[p] = Seen(p) /\ ran[p] = Cardinality(FanIn(sl[p]))
        OBVIOUS
      <3>1. p.got.observed = IF sl[p] = {} THEN None ELSE Cardinality(FanIn(sl[p]))
        BY <2>1 DEF Split, Knows
      <3>2. Cardinality(FanIn(sl[p])) \in Nat
        BY <1>0, <2>2, FanPart
      <3>3. sl[p] = {} => Cardinality(FanIn(sl[p])) = 0
        <4>1. sl[p] = {} => FanIn(sl[p]) = {}
          BY DEF FanIn
        <4> QED BY <4>1, FS_EmptySet
      <3> QED BY <1>0, <2>4, <3>1, <3>2, <3>3 DEF Seen
    <2>6. SeenFold(P) = Sum(ran, P)
      BY <2>3, <2>5, SeenIsSum
    <2>7. Sum(ran, P) \in Int /\ Sum(ran, P) <= Exposed(From(c), now)
      BY <1>0, <2>2, <2>5, ObservedRan DEF Exposed
    <2>8. o.observed = None \/ o.observed = Sum(ran, P)
      BY <1>4, <2>6
    <2>9. ASSUME o.observed # None, o.unknown # None
          PROVE  o.unknown \in Int /\ Exposed(c.at, now) <= o.observed + o.unknown
      <3>1. o.unknown = UnseenFold(P) + Filter!Tail(c, end) /\ \A p \in P : p.got.unknown # None
        BY <1>4, <2>9
      <3>2. PICK unk : unk = [p \in P |-> Unseen(p)]
        OBVIOUS
      <3>3. \A p \in P : unk[p] = Unseen(p)
        BY <3>2
      <3>4. UnseenFold(P) = Sum(unk, P)
        BY <2>3, <3>3, UnseenIsSum
      <3>5. \A p \in P : unk[p] \in Int /\ IsFiniteSet(R[p]) /\ Cardinality(R[p]) <= unk[p] + Step * Cardinality(sl[p])
        BY <2>1, <3>1, <3>3 DEF Split, Knows, Unseen
      <3>6. PICK g \in Int : g = Reach(c, end)
        BY FromIs
      <3>7. PICK tail \in Int : tail = Filter!Tail(c, end) /\ now - g <= tail
        BY <3>6, TailIs
      <3>8. c.at..(g - 1) \subseteq UNION {R[p] : p \in P}
        <4> SUFFICES ASSUME NEW u \in c.at..(g - 1) PROVE \E p \in P : u \in R[p]
          OBVIOUS
        <4>1. u \in Int /\ c.at <= u /\ u < g
          BY <1>0, <3>6
        <4>2. \E p \in P : p.day = Filter!DayOf(u)
          BY <1>2, <3>6, <4>1, EveryDay
        <4>3. PICK p \in P : p.day = Filter!DayOf(u)
          BY <4>2
        <4>4. u \in R[p]
          BY <2>1, <3>1, <3>6, <4>1, <4>3 DEF Split, Knows
        <4> QED BY <4>4
      <3>9. Sum(unk, P) \in Int /\ Cardinality({u \in Fan : c.at <= u /\ u < now}) <= Sum(ran, P) + (Sum(unk, P) + tail)
        <4>1. Bounded(P, sl, ran, unk, R)
          BY <2>5, <3>5 DEF Bounded
        <4>2. PICK a \in Int : a = c.at
          BY <1>0
        <4>3. Parted(P, sl, a, now) /\ a <= now /\ a..(g - 1) \subseteq UNION {R[p] : p \in P}
          BY <1>0, <2>2, <3>8, <4>2
        <4>4. now - g <= tail
          BY <3>7
        <4>5. Covered(P, ran, unk, a, now, tail)
          BY <4>1, <4>3, <4>4, UnknownCovers
        <4> QED BY <4>2, <4>5 DEF Covered
      <3>10. o.unknown = Sum(unk, P) + tail
        BY <3>1, <3>4, <3>7
      <3>11. o.observed = Sum(ran, P)
        BY <2>8, <2>9
      <3> QED BY <3>9, <3>10, <3>11 DEF Exposed
    <2>10. Honest(o, c, now)
      BY <2>7, <2>8, <2>9 DEF Honest
    <2> QED BY <1>1, <2>10
  <1>5. \/ o = [observed |-> None, unknown |-> None]
        \/ o = [observed |-> IF Filter!Known(P) = {} THEN None ELSE SeenFold(P),
                unknown  |-> IF end = None \/ \E p \in P : p.got.unknown = None
                             THEN None ELSE UnseenFold(P) + Filter!Tail(c, end)]
    BY <1>1, <1>2, ObservationIs
  <1> QED BY <1>3, <1>4, <1>5

(***************************************************************************)
(* The due state                                                           *)
(***************************************************************************)
LEMMA ExposedGrows ==
  ASSUME NEW from \in Int, NEW t \in Int, NEW u \in Int, t <= u
  PROVE  /\ Exposed(from, t) \in Nat /\ Exposed(from, u) \in Nat
         /\ Exposed(from, t) <= Exposed(from, u) /\ Exposed(from, u) <= Exposed(from, t) + (u - t)
  <1>0. Fan \subseteq Int /\ IsFiniteSet(Fan)
    BY FilterAssumption
  <1>1. PICK A : A = {x \in Fan : from <= x /\ x < t}
    OBVIOUS
  <1>2. PICK B : B = {x \in Fan : from <= x /\ x < u}
    OBVIOUS
  <1>3. PICK I : I = t..(u - 1)
    OBVIOUS
  <1>4. A \subseteq B /\ B \subseteq A \cup I /\ A \subseteq Fan /\ B \subseteq Fan
    <2>1. A \subseteq Fan /\ B \subseteq Fan
      BY <1>1, <1>2
    <2>2. \A x \in A : x \in B
      <3> SUFFICES ASSUME NEW x \in A PROVE x \in B
        OBVIOUS
      <3>1. x \in Fan /\ x \in Int /\ from <= x /\ x < t
        BY <1>0, <1>1
      <3>2. x < u
        BY <3>1
      <3> QED BY <1>2, <3>1, <3>2
    <2>3. \A x \in B : x \in A \cup I
      <3> SUFFICES ASSUME NEW x \in B, x \notin A PROVE x \in I
        OBVIOUS
      <3>1. x \in Fan /\ x \in Int /\ from <= x /\ x < u
        BY <1>0, <1>2
      <3>2. t <= x
        BY <1>1, <3>1
      <3> QED BY <1>3, <3>1, <3>2
    <2> QED BY <2>1, <2>2, <2>3
  <1>5. IsFiniteSet(A) /\ IsFiniteSet(B)
    BY <1>0, <1>4, FS_Subset
  <1>6. IsFiniteSet(I) /\ Cardinality(I) = u - t
    <2>1. u - 1 \in Int /\ (t > u - 1 => u - t = 0) /\ u - 1 - t + 1 = u - t
      OBVIOUS
    <2> QED BY <1>3, <2>1, FS_Interval
  <1>7. /\ IsFiniteSet(A \cup I) /\ Cardinality(A \cup I) <= Cardinality(A) + Cardinality(I)
        /\ Cardinality(A \cup I) \in Nat /\ Cardinality(A) \in Nat /\ Cardinality(I) \in Nat
    BY <1>5, <1>6, CardUnion
  <1>8. Cardinality(A) <= Cardinality(B)
    BY <1>4, <1>5, FS_Subset
  <1>9. Cardinality(B) <= Cardinality(A \cup I)
    BY <1>4, <1>7, FS_Subset
  <1>10. Cardinality(B) \in Nat
    BY <1>5, FS_CardinalityType
  <1> DEFINE a == Cardinality(A)
             b == Cardinality(B)
             i == Cardinality(I)
             w == Cardinality(A \cup I)
  <1>11. a \in Nat /\ b \in Nat /\ i \in Nat /\ w \in Nat /\ a <= b /\ b <= w /\ w <= a + i /\ i = u - t
    BY <1>6, <1>7, <1>8, <1>9, <1>10
  <1>12. Exposed(from, t) = a /\ Exposed(from, u) = b
    BY <1>1, <1>2 DEF Exposed
  <1> HIDE DEF a, b, i, w
  <1>13. a \in Nat /\ b \in Nat /\ a <= b /\ b <= a + (u - t)
    BY <1>11
  <1> QED BY <1>12, <1>13

\* A projection that is at most t old, and the deadline it is good for.
Valid(p, deadline, t) ==
  /\ p.end = None \/ p.end \in Int
  /\ Finished(p.summary, t)
  /\ p.changed # None =>
       /\ p.at \in Int /\ p.at <= t /\ IsChange(p.changed, p.at) /\ Honest(p.seen, p.changed, p.at)
       /\ deadline \in Int /\ deadline <= (Filter!DayOf(p.at) + 1) * FilterDay
       /\ Filter!Reached(p.seen) = FALSE => deadline <= p.at + Filter!Left(p.seen)

\* All rows that were read were over then, and the projection is valid.
FilterInv ==
  /\ now \in Int
  /\ changed = None \/ IsChange(changed, now)
  /\ Finished(reported, now)
  /\ cache # None => Finished(cache.rows, now)
  /\ DOMAIN task = {"pc", "changed", "end", "summary", "at"}
  /\ (task.end = None \/ task.end \in Int) /\ Finished(task.summary, now)
  /\ Valid(published, timer, now)

\* What was known at t is true at u.
LEMMA Later ==
  ASSUME NEW t \in Int, NEW u \in Int, t <= u
  PROVE  /\ \A S : Finished(S, t) => Finished(S, u)
         /\ \A c : IsChange(c, t) => IsChange(c, u)
         /\ \A p, deadline : Valid(p, deadline, t) => Valid(p, deadline, u)
  <1>0. Step \in Int
    BY FilterAssumption
  <1>1. ASSUME NEW S, Finished(S, t) PROVE Finished(S, u)
    <2>1. \A k \in S : k \in Int /\ (k + 1) * Step <= t
      BY <1>1 DEF Finished
    <2>2. \A k \in S : (k + 1) * Step <= u
      <3> SUFFICES ASSUME NEW k \in S PROVE (k + 1) * Step <= u
        OBVIOUS
      <3>1. (k + 1) * Step \in Int /\ (k + 1) * Step <= t
        BY <1>0, <2>1
      <3> QED BY <3>1
    <2> QED BY <1>1, <2>2 DEF Finished
  <1>2. ASSUME NEW c, IsChange(c, t) PROVE IsChange(c, u)
    <2>1. c.at \in Int /\ c.at <= t
      BY <1>2 DEF IsChange
    <2>2. c.at <= u
      BY <2>1
    <2> QED BY <1>2, <2>2 DEF IsChange
  <1>3. ASSUME NEW p, NEW deadline, Valid(p, deadline, t) PROVE Valid(p, deadline, u)
    <2>1. Finished(p.summary, u)
      BY <1>1, <1>3 DEF Valid
    <2>2. p.changed # None => p.at \in Int /\ p.at <= t
      BY <1>3 DEF Valid
    <2>3. p.changed # None => p.at <= u
      BY <2>2
    <2> QED BY <1>3, <2>1, <2>3 DEF Valid
  <1> QED BY <1>1, <1>2, <1>3

\* threshold_reached answers when the observation proves it.
LEMMA ReachedIs ==
  ASSUME NEW o
  PROVE  /\ Filter!Reached(o) = TRUE => o.observed # None /\ o.observed >= Lifetime
         /\ Filter!Reached(o) = FALSE => o.observed # None /\ o.unknown # None /\ o.observed + o.unknown < Lifetime
  <1>0. None # TRUE /\ None # FALSE
    BY FilterAssumption
  <1>1. CASE o.observed = None
    <2>1. Filter!Reached(o) = None
      BY <1>1 DEF Filter!Reached
    <2> QED BY <1>0, <2>1
  <1>2. CASE o.observed # None /\ o.observed >= Lifetime
    <2>1. Filter!Reached(o) = TRUE
      BY <1>2 DEF Filter!Reached
    <2> QED BY <1>2, <2>1
  <1>3. CASE o.observed # None /\ ~(o.observed >= Lifetime) /\ o.unknown # None /\ o.observed + o.unknown < Lifetime
    <2>1. Filter!Reached(o) = FALSE
      BY <1>3 DEF Filter!Reached
    <2> QED BY <1>3, <2>1
  <1>4. CASE o.observed # None /\ ~(o.observed >= Lifetime) /\ ~(o.unknown # None /\ o.observed + o.unknown < Lifetime)
    <2>1. Filter!Reached(o) = None
      BY <1>4 DEF Filter!Reached
    <2> QED BY <1>0, <2>1
  <1> QED BY <1>1, <1>2, <1>3, <1>4

\* The deadline is the end of the day, or earlier.
LEMMA DeadlineIs ==
  ASSUME now \in Int, NEW o, NEW c, Honest(o, c, now)
  PROVE  /\ Filter!Deadline(o) \in Int /\ Filter!Deadline(o) <= (Filter!DayOf(now) + 1) * FilterDay
         /\ Filter!Reached(o) = FALSE => Filter!Deadline(o) <= now + Filter!Left(o)
  <1>0. FilterDay \in Int /\ Lifetime \in Int
    BY FilterAssumption
  <1>1. PICK e \in Int : e = (Filter!DayOf(now) + 1) * FilterDay
    BY <1>0, FilterDayIs
  <1>2. CASE Filter!Reached(o) = FALSE
    <2>1. o.observed \in Int /\ o.unknown \in Int
      BY <1>2, ReachedIs DEF Honest
    <2>2. PICK l \in Int : l = now + Filter!Left(o)
      BY <1>0, <2>1 DEF Filter!Left
    <2>3. Filter!Deadline(o) = Filter!Min({e, l})
      <3>1. {e} \cup {l} = {e, l}
        OBVIOUS
      <3> QED BY <1>1, <1>2, <2>2, <3>1 DEF Filter!Deadline, Filter!UncertainAt
    <2>4. Filter!Deadline(o) = Lower(e, l)
      BY <2>3, MinPair
    <2> QED BY <1>1, <2>2, <2>4 DEF Lower
  <1>3. CASE Filter!Reached(o) # FALSE
    <2>1. Filter!Deadline(o) = Filter!Min({e, e})
      <3>1. {e} \cup {} = {e, e}
        OBVIOUS
      <3> QED BY <1>1, <1>3, <3>1 DEF Filter!Deadline, Filter!UncertainAt
    <2>2. Filter!Deadline(o) = Lower(e, e)
      BY <2>1, MinPair
    <2>3. Filter!Deadline(o) = e
      BY <2>2 DEF Lower
    <2>4. Filter!Deadline(o) \in Int /\ Filter!Deadline(o) <= e
      BY <2>3
    <2> QED BY <1>1, <1>3, <2>4
  <1> QED BY <1>2, <1>3

\* What is published is valid now ...
LEMMA PublishValid ==
  ASSUME now \in Int, NEW c, c = None \/ IsChange(c, now), NEW end, end = None \/ end \in Int,
         NEW cached, cached # None => Finished(cached.rows, now),
         NEW summary, Finished(summary, now), NEW p, NEW deadline,
         p = [changed |-> c, end |-> end, summary |-> summary, at |-> now,
              seen |-> Filter!Observation(c, cached, end, summary)],
         deadline = Filter!Deadline(Filter!Observation(c, cached, end, summary))
  PROVE  Valid(p, deadline, now)
  <1>1. PICK o : o = Filter!Observation(c, cached, end, summary)
    OBVIOUS
  <1>2. /\ p.changed = c /\ p.end = end /\ p.summary = summary /\ p.at = now /\ p.seen = o
        /\ deadline = Filter!Deadline(o)
    BY <1>1
  <1>3. CASE c = None
    BY <1>2, <1>3 DEF Valid
  <1>4. CASE c # None
    <2>1. IsChange(c, now)
      BY <1>4
    <2>2. Honest(o, c, now)
      BY <1>1, <2>1, HonestObservation
    <2>3. /\ deadline \in Int /\ deadline <= (Filter!DayOf(now) + 1) * FilterDay
          /\ Filter!Reached(o) = FALSE => deadline <= now + Filter!Left(o)
      BY <1>2, <2>2, DeadlineIs
    <2> QED BY <1>2, <2>1, <2>2, <2>3 DEF Valid
  <1> QED BY <1>3, <1>4

\* Nothing is published yet.
LEMMA FilterInvInit ==
  ASSUME Filter!Init
  PROVE  FilterInv
  <1>0. Step \in Nat \ {0} /\ FilterDay \in Nat \ {0} /\ Start \in Nat
    BY FilterAssumption
  <1>1. now = Start /\ now \in Int
    BY <1>0 DEF Filter!Init
  <1>2. Finished({}, now)
    BY FS_EmptySet DEF Finished
  <1>3. changed = None \/ IsChange(changed, now)
    <2>1. CASE changed = None
      BY <2>1
    <2>2. CASE changed = [at |-> now, exact |-> TRUE]
      <3>1. changed.at = now /\ changed.exact /\ changed.exact \in BOOLEAN
        BY <2>2
      <3>2. changed.at \in Int /\ changed.at <= now
        BY <1>1, <3>1
      <3> QED BY <3>1, <3>2, Zenon DEF IsChange
    <2>3. CASE changed = [at |-> -FilterDay, exact |-> FALSE]
      <3>1. changed.at = -FilterDay /\ changed.exact = FALSE
        BY <2>3
      <3>2. -FilterDay \in Int /\ -FilterDay <= now /\ -FilterDay = (-1) * FilterDay /\ -1 \in Int
        BY <1>0, <1>1
      <3> QED BY <3>1, <3>2 DEF IsChange
    <2> QED BY <2>1, <2>2, <2>3 DEF Filter!Init
  <1>4. Finished(reported, now)
    <2>1. PICK q \in Int : q = Start \div Step /\ q * Step <= Start
      BY <1>0, DivBetween
    <2>2. reported = 0..(q - 1)
      BY <2>1 DEF Filter!Init
    <2>3. reported \subseteq Int /\ IsFiniteSet(reported)
      BY <2>2, FS_Interval
    <2>4. ASSUME NEW k \in reported PROVE (k + 1) * Step <= now
      <3>1. k \in Int /\ k + 1 \in Int /\ k + 1 <= q
        BY <2>2
      <3>2. k + 1 < q => (k + 1) * Step + Step <= q * Step
        BY <1>0, <3>1, LessTimes
      <3>3. (k + 1) * Step \in Int /\ q * Step \in Int
        BY <1>0, <3>1
      <3>4. k + 1 = q => (k + 1) * Step = q * Step
        OBVIOUS
      <3> QED BY <1>0, <1>1, <2>1, <3>1, <3>2, <3>3, <3>4
    <2> QED BY <2>3, <2>4 DEF Finished
  <1>5. cache = None /\ task.end = None /\ task.summary = {} /\ DOMAIN task = {"pc", "changed", "end", "summary", "at"}
    BY DEF Filter!Init, Filter!Idle
  <1>6. Valid(published, timer, now)
    <2>1. published.changed = None /\ published.end = None /\ published.summary = {}
      BY DEF Filter!Init, Filter!NoData
    <2> QED BY <1>2, <2>1 DEF Valid
  <1> QED BY <1>1, <1>2, <1>3, <1>4, <1>5, <1>6 DEF FilterInv

\* ... with whatever cached rows it is made of.
LEMMA PublishKept ==
  ASSUME FilterInv, NEW cached, cached # None => Finished(cached.rows, now), NEW end, end = None \/ end \in Int,
         NEW summary, Finished(summary, now), Filter!Publish(changed, cached, end, summary)
  PROVE  Valid(published', timer', now)
  <1>1. PICK p : p = published'
    OBVIOUS
  <1>2. PICK deadline : deadline = timer'
    OBVIOUS
  <1>3. /\ p = [changed |-> changed, end |-> end, summary |-> summary, at |-> now,
                seen |-> Filter!Observation(changed, cached, end, summary)]
        /\ deadline = Filter!Deadline(Filter!Observation(changed, cached, end, summary))
    BY <1>1, <1>2 DEF Filter!Publish
  <1>4. PICK c : c = changed
    OBVIOUS
  <1>5. now \in Int /\ (c = None \/ IsChange(c, now))
    BY <1>4 DEF FilterInv
  <1>6. Valid(p, deadline, now)
    BY <1>3, <1>4, <1>5, PublishValid
  <1> QED BY <1>1, <1>2, <1>6

\* Every step keeps it.
LEMMA FilterInvStep ==
  ASSUME FilterInv, [Filter!Next]_filterVars
  PROVE  FilterInv'
  <1>0. /\ Step \in Nat \ {0} /\ FilterDay \in Nat \ {0} /\ now \in Int
        /\ Finished({}, now) /\ Finished(reported, now) /\ reported \subseteq Int /\ IsFiniteSet(reported)
    BY FilterAssumption, FS_EmptySet DEF FilterInv, Finished
  <1>1. CASE Filter!Tick
    <2>1. now' = now + 1 /\ UNCHANGED <<reported, changed, cache, task, published, timer>>
      BY <1>1 DEF Filter!Tick
    <2>2. PICK t \in Int : t = now + 1 /\ now <= t
      BY <1>0
    <2>3. /\ \A S : Finished(S, now) => Finished(S, t)
          /\ \A c : IsChange(c, now) => IsChange(c, t)
          /\ \A p, deadline : Valid(p, deadline, now) => Valid(p, deadline, t)
      BY <1>0, <2>2, Later
    <2>4. /\ changed = None \/ IsChange(changed, t)
          /\ Finished(reported, t)
          /\ cache # None => Finished(cache.rows, t)
          /\ (task.end = None \/ task.end \in Int) /\ Finished(task.summary, t)
          /\ Valid(published, timer, t)
      BY <2>3 DEF FilterInv
    <2> QED BY <2>1, <2>2, <2>4 DEF FilterInv
  <1>2. CASE Filter!Change
    <2>1. UNCHANGED <<now, reported, cache, task, published, timer>>
      BY <1>2 DEF Filter!Change
    <2>2. PICK c : c = changed'
      OBVIOUS
    <2>3. IsChange(c, now)
      <3>1. CASE changed' = [at |-> now, exact |-> TRUE]
        <4>1. c.at = now /\ c.exact /\ c.exact \in BOOLEAN
          BY <2>2, <3>1
        <4>2. c.at \in Int /\ c.at <= now
          BY <1>0, <4>1
        <4> QED BY <4>1, <4>2, Zenon DEF IsChange
      <3>2. CASE \E d \in 0..Filter!DayOf(now) : changed' = [at |-> d * FilterDay, exact |-> FALSE]
        <4>1. PICK q \in Int : q = Filter!DayOf(now) /\ q * FilterDay <= now
          BY <1>0, FilterDayIs
        <4>2. PICK d \in 0..q : changed' = [at |-> d * FilterDay, exact |-> FALSE]
          BY <3>2, <4>1
        <4>3. c.at = d * FilterDay /\ c.exact = FALSE /\ d \in Int /\ d <= q
          BY <2>2, <4>2
        <4>4. d < q => d * FilterDay + FilterDay <= q * FilterDay
          BY <1>0, <4>3, LessTimes
        <4>5. d = q => d * FilterDay = q * FilterDay
          OBVIOUS
        <4>6. d * FilterDay \in Int /\ q * FilterDay \in Int
          BY <1>0, <4>3
        <4>7. d * FilterDay <= now
          BY <1>0, <4>1, <4>3, <4>4, <4>5, <4>6
        <4> QED BY <4>3, <4>6, <4>7 DEF IsChange
      <3> QED BY <1>2, <3>1, <3>2 DEF Filter!Change
    <2> QED BY <2>1, <2>2, <2>3 DEF FilterInv
  <1>3. CASE Filter!Rebuild
    <2>1. UNCHANGED <<now, reported, changed, cache, task>> /\ Filter!Publish(changed, cache, published.end, published.summary)
      BY <1>3 DEF Filter!Rebuild
    <2>2. /\ cache # None => Finished(cache.rows, now)
          /\ published.end = None \/ published.end \in Int
          /\ Finished(published.summary, now)
      BY DEF FilterInv, Valid
    <2>3. Valid(published', timer', now)
      BY <2>1, <2>2, PublishKept
    <2> QED BY <2>1, <2>3 DEF FilterInv
  <1>4. CASE Filter!ReadRows
    <2>1. /\ UNCHANGED <<now, reported, changed, cache, published, timer>>
          /\ task' = [pc |-> "summary", changed |-> changed, summary |-> {}, at |-> 0,
                      end |-> IF reported = {} THEN None ELSE Filter!Max(reported)]
      BY <1>4 DEF Filter!ReadRows
    <2>2. DOMAIN task' = {"pc", "changed", "end", "summary", "at"} /\ task'.summary = {} /\ (task'.end = None \/ task'.end \in Int)
      <3>1. reported # {} => Filter!Max(reported) \in reported
        BY <1>0, MaxOf
      <3> QED BY <1>0, <2>1, <3>1
    <2> QED BY <1>0, <2>1, <2>2 DEF FilterInv
  <1>5. CASE Filter!ReadSummary
    <2>1. UNCHANGED <<now, reported, changed>>
      BY <1>5 DEF Filter!ReadSummary
    <2>2. \/ /\ task' = [task EXCEPT !.pc = "points", !.summary = reported, !.at = now]
             /\ cache' = None /\ UNCHANGED <<published, timer>>
          \/ /\ task' = Filter!Idle /\ (cache' = cache \/ cache' = None)
             /\ Filter!Publish(changed, cache', task.end, reported)
      BY <1>5 DEF Filter!ReadSummary
    <2>3. CASE /\ task' = [task EXCEPT !.pc = "points", !.summary = reported, !.at = now]
               /\ cache' = None /\ UNCHANGED <<published, timer>>
      <3>1. DOMAIN task' = {"pc", "changed", "end", "summary", "at"} /\ task'.end = task.end /\ Finished(task'.summary, now)
        <4>1. PICK x : x = task'
          OBVIOUS
        <4>2. PICK y : y = task
          OBVIOUS
        <4>3. x = [y EXCEPT !.pc = "points", !.summary = reported, !.at = now]
          BY <2>3, <4>1, <4>2
        <4>4. DOMAIN y = {"pc", "changed", "end", "summary", "at"}
          BY <4>2 DEF FilterInv
        <4>5. DOMAIN x = DOMAIN y /\ x.end = y.end /\ x.summary = reported
          BY <4>3, <4>4
        <4> QED BY <1>0, <4>1, <4>2, <4>4, <4>5
      <3> QED BY <2>1, <2>3, <3>1 DEF FilterInv
    <2>4. CASE /\ task' = Filter!Idle /\ (cache' = cache \/ cache' = None)
               /\ Filter!Publish(changed, cache', task.end, reported)
      <3>1. PICK cc : cc = cache'
        OBVIOUS
      <3>2. cc # None => Finished(cc.rows, now)
        BY <2>4, <3>1 DEF FilterInv
      <3>3. Filter!Publish(changed, cc, task.end, reported) /\ (task.end = None \/ task.end \in Int)
        BY <2>4, <3>1 DEF FilterInv
      <3>4. Valid(published', timer', now)
        BY <1>0, <3>2, <3>3, PublishKept
      <3>5. DOMAIN task' = {"pc", "changed", "end", "summary", "at"} /\ task'.end = None /\ task'.summary = {}
        BY <2>4 DEF Filter!Idle
      <3> QED BY <1>0, <2>1, <3>1, <3>2, <3>4, <3>5 DEF FilterInv
    <2> QED BY <2>2, <2>3, <2>4
  <1>6. CASE Filter!ReadPoints
    <2>1. UNCHANGED <<now, reported, changed>> /\ task' = Filter!Idle
      BY <1>6 DEF Filter!ReadPoints
    <2>2. PICK cc : cc = cache'
      OBVIOUS
    <2>3. Filter!Publish(changed, cc, task.end, task.summary)
      BY <1>6, <2>2 DEF Filter!ReadPoints
    <2>4. cc # None => Finished(cc.rows, now)
      <3>1. PICK rows, key : /\ rows = {k \in reported \cap Filter!SlotsOf(Filter!DayOf(task.changed.at)) : k * Step <= task.at}
                             /\ cc = None \/ cc = [key |-> key, rows |-> rows]
        BY <1>6, <2>2 DEF Filter!ReadPoints
      <3>2. rows \subseteq reported
        BY <3>1
      <3>3. IsFiniteSet(rows)
        BY <1>0, <3>2, FS_Subset
      <3>4. Finished(rows, now)
        BY <1>0, <3>2, <3>3 DEF Finished
      <3> QED BY <3>1, <3>4
    <2>5. (task.end = None \/ task.end \in Int) /\ Finished(task.summary, now)
      BY DEF FilterInv
    <2>6. Valid(published', timer', now)
      BY <2>3, <2>4, <2>5, PublishKept
    <2>7. DOMAIN task' = {"pc", "changed", "end", "summary", "at"} /\ task'.end = None /\ task'.summary = {}
      BY <2>1 DEF Filter!Idle
    <2> QED BY <1>0, <2>1, <2>2, <2>4, <2>6, <2>7 DEF FilterInv
  <1>7. ASSUME NEW k \in 0..(FilterTime \div Step), Filter!Report(k) PROVE FilterInv'
    <2>1. /\ (k + 1) * Step <= now /\ reported' = reported \cup {k}
          /\ UNCHANGED <<now, changed, cache, task, published, timer>>
      BY <1>7 DEF Filter!Report
    <2>2. IsFiniteSet(reported \cup {k})
      BY <1>0, FS_AddElement
    <2>3. Finished(reported \cup {k}, now)
      BY <1>0, <2>1, <2>2 DEF Finished
    <2> QED BY <2>1, <2>3 DEF FilterInv
  <1>8. CASE UNCHANGED filterVars
    BY <1>8 DEF filterVars, FilterInv
  <1> QED BY <1>1, <1>2, <1>3, <1>4, <1>5, <1>6, <1>7, <1>8 DEF Filter!Next

\* Until its deadline a valid projection is true of the filter: the day is the
\* same, and no more time has passed than was left.
LEMMA FilterInvProves ==
  ASSUME FilterInv
  PROVE  Filter!DueStateProven
  <1> SUFFICES ASSUME published.changed # None, now < timer
               PROVE  LET c == published.changed
                      IN  /\ Filter!Shown = TRUE =>
                               \/ Filter!Aged(c)
                               \/ Filter!Exposure(IF c.exact THEN c.at ELSE (Filter!DayOf(c.at) + 1) * FilterDay) >= Lifetime
                          /\ Filter!Shown = FALSE => Filter!Exposure(c.at) < Lifetime
                          /\ Filter!Aged(c) => Filter!Shown = TRUE
    BY DEF Filter!DueStateProven
  <1>1. PICK c : c = published.changed
    OBVIOUS
  <1>2. PICK o : o = published.seen
    OBVIOUS
  <1>3. PICK t \in Int : t = published.at /\ t <= now
    BY DEF FilterInv, Valid
  <1>4. /\ now \in Int /\ IsChange(c, t) /\ Honest(o, c, t)
        /\ timer \in Int /\ timer <= (Filter!DayOf(t) + 1) * FilterDay
        /\ Filter!Reached(o) = FALSE => timer <= t + Filter!Left(o)
    BY <1>1, <1>2, <1>3 DEF FilterInv, Valid
  <1>5. IsChange(c, now)
    BY <1>3, <1>4, Later
  <1>6. c.at \in Int /\ From(c) \in Int
    <2>1. None = None \/ None \in Int
      OBVIOUS
    <2> QED BY <1>4, <1>5, <2>1, FromIs DEF IsChange
  <1>7. Filter!DayOf(now) = Filter!DayOf(t)
    <2>1. PICK d \in Int : d = Filter!DayOf(t) /\ d * FilterDay <= t
      BY FilterDayIs
    <2>2. d * FilterDay \in Int /\ (d + 1) * FilterDay = d * FilterDay + FilterDay /\ FilterDay \in Int
      <3>1. FilterDay \in Int
        BY FilterAssumption
      <3> QED BY <3>1, DaySlots
    <2>3. d * FilterDay <= now /\ now < (d + 1) * FilterDay
      BY <1>3, <1>4, <2>1, <2>2
    <2> QED BY <1>4, <2>1, <2>3, FilterDayIs
  <1>8. Filter!Shown = IF Filter!Aged(c) THEN TRUE ELSE Filter!Reached(o)
    BY <1>1, <1>2, <1>3, <1>7 DEF Filter!Shown, Filter!Due, Filter!Aged
  <1>9. \A f \in Int : Filter!Exposure(f) = Exposed(f, now)
    BY FilterCounts DEF Filter!Exposure, Exposed
  <1>10. ASSUME Filter!Reached(o) = TRUE
         PROVE  Filter!Exposure(From(c)) >= Lifetime
    <2>1. o.observed \in Int /\ o.observed <= Exposed(From(c), t) /\ o.observed >= Lifetime
      BY <1>4, <1>10, ReachedIs DEF Honest
    <2>2. Exposed(From(c), t) \in Nat /\ Exposed(From(c), now) \in Nat /\ Exposed(From(c), t) <= Exposed(From(c), now)
      BY <1>3, <1>4, <1>6, ExposedGrows
    <2>3. Lifetime \in Int
      BY FilterAssumption
    <2>4. Exposed(From(c), now) >= Lifetime
      BY <2>1, <2>2, <2>3
    <2> QED BY <1>6, <1>9, <2>4
  <1>11. ASSUME Filter!Reached(o) = FALSE
         PROVE  Filter!Exposure(c.at) < Lifetime
    <2>1. /\ o.observed \in Int /\ o.unknown \in Int /\ o.observed + o.unknown < Lifetime
          /\ Exposed(c.at, t) <= o.observed + o.unknown
      BY <1>4, <1>11, ReachedIs DEF Honest
    <2>2. timer <= t + (Lifetime - (o.observed + o.unknown))
      BY <1>4, <1>11 DEF Filter!Left
    <2>3. /\ Exposed(c.at, t) \in Nat /\ Exposed(c.at, now) \in Nat
          /\ Exposed(c.at, now) <= Exposed(c.at, t) + (now - t)
      BY <1>3, <1>4, <1>6, ExposedGrows
    <2>4. Lifetime \in Int
      BY FilterAssumption
    <2>5. Exposed(c.at, now) < Lifetime
      BY <1>3, <1>4, <2>1, <2>2, <2>3, <2>4
    <2> QED BY <1>6, <1>9, <2>5
  <1>12. From(c) = IF c.exact THEN c.at ELSE (Filter!DayOf(c.at) + 1) * FilterDay
    BY DEF From, DayEnd
  <1>13. Filter!Shown = TRUE => Filter!Aged(c) \/ Filter!Exposure(From(c)) >= Lifetime
    BY <1>8, <1>10
  <1>14. Filter!Shown = FALSE => Filter!Exposure(c.at) < Lifetime
    BY <1>8, <1>11
  <1>15. Filter!Aged(c) => Filter!Shown = TRUE
    BY <1>8
  <1> QED BY <1>1, <1>12, <1>13, <1>14, <1>15

(***************************************************************************)
(* A published due state is true of the filter on record until the         *)
(* deadline the coordinator set for it (filter_forecast, coordinator).     *)
(***************************************************************************)
THEOREM FilterDueStateProven == Filter!Spec => []Filter!DueStateProven
  <1>1. Filter!Init => FilterInv
    BY FilterInvInit
  <1>2. FilterInv /\ [Filter!Next]_Filter!vars => FilterInv'
    BY FilterInvStep DEF Filter!vars, filterVars
  <1>3. FilterInv => Filter!DueStateProven
    BY FilterInvProves
  <1> QED BY <1>1, <1>2, <1>3, PTL DEF Filter!Spec

(***************************************************************************)
(* The parts together: what holds of one holds of it in a behaviour of     *)
(* which it is the part that runs.                                         *)
(***************************************************************************)
OfParts ==
  /\ part = "reads" => ReadsInv /\ BudgetInv
  /\ part = "filter" => FilterInv
  /\ part = "pages" => PagesInv /\ TruthInv

LEMMA OfPartsInit ==
  ASSUME PartsInit
  PROVE  OfParts
  <1>1. /\ part = "reads" => Reads!Init
        /\ part = "filter" => Filter!Init
        /\ part = "pages" => Pages!Init
    BY DEF PartsInit
  <1>2. part = "reads" => ReadsInv /\ BudgetInv
    BY <1>1, ReadsInvInit, BudgetInvInit
  <1>3. part = "filter" => FilterInv
    BY <1>1, FilterInvInit
  <1>4. part = "pages" => PagesInv /\ TruthInv
    BY <1>1, PagesInvInit, TruthInvInit
  <1> QED BY <1>2, <1>3, <1>4 DEF OfParts

LEMMA OfPartsStep ==
  ASSUME OfParts, [PartsNext]_<<part, vars, readsVars, filterVars, pagesVars>>
  PROVE  OfParts'
  <1>1. /\ part' = part
        /\ part = "reads" => Reads!Next \/ UNCHANGED readsVars
        /\ part = "filter" => Filter!Next \/ UNCHANGED filterVars
        /\ part = "pages" => Pages!Next \/ UNCHANGED pagesVars
    BY DEF PartsNext
  <1>2. CASE part = "reads"
    <2>1. ReadsInv /\ BudgetInv
      BY <1>2 DEF OfParts
    <2>2. [Reads!Next]_(Reads!vars)
      BY <1>1, <1>2 DEF readsVars, Reads!vars
    <2>3. ReadsInv' /\ BudgetInv'
      BY <2>1, <2>2, ReadsInvStep, BudgetInvStep
    <2> QED BY <1>1, <1>2, <2>3 DEF OfParts
  <1>3. CASE part = "filter"
    <2>1. FilterInv
      BY <1>3 DEF OfParts
    <2>2. FilterInv'
      BY <1>1, <1>3, <2>1, FilterInvStep
    <2> QED BY <1>1, <1>3, <2>2 DEF OfParts
  <1>4. CASE part = "pages"
    <2>1. PagesInv /\ TruthInv
      BY <1>4 DEF OfParts
    <2>2. [Pages!Next]_(Pages!vars)
      <3>1. UNCHANGED pagesVars => UNCHANGED Pages!vars
        BY DEF pagesVars, Pages!vars, Pages!evidence, Pages!legacy
      <3>2. Pages!Next \/ UNCHANGED pagesVars
        BY <1>1, <1>4
      <3> QED BY <3>1, <3>2
    <2>3. PagesInv' /\ TruthInv'
      BY <2>1, <2>2, PagesInvStep, TruthInvStep
    <2> QED BY <1>1, <1>4, <2>3 DEF OfParts
  <1>5. CASE part \notin {"reads", "filter", "pages"}
    BY <1>1, <1>5 DEF OfParts
  <1> QED BY <1>2, <1>3, <1>4, <1>5

\* Whichever part runs, its inductive invariant holds.
LEMMA OfPartsHolds == PartsSpec => []OfParts
  BY OfPartsInit, OfPartsStep, PTL DEF PartsSpec

\* importer._async_read_runtime_window: no failure, retry or split of a read
\* loses or repeats a moment of a resource's window.
THEOREM AccountedHolds == PartsSpec => []Accounted
  <1>1. OfParts => Accounted
    BY ReadsInvAccounted DEF OfParts, Accounted
  <1> QED BY <1>1, OfPartsHolds, PTL

\* import_evidence.py:13-17: a silent source is asked a bounded number of
\* times, and one bad day in full windows never exhausts the budget.
THEOREM BudgetFitsHolds == PartsSpec => []BudgetFits
  <1>1. OfParts => BudgetFits
    BY BudgetInvFits DEF OfParts, BudgetFits
  <1> QED BY <1>1, OfPartsHolds, PTL

\* filter_forecast, coordinator: what the entity shows of a filter's due state
\* is true of the filter at any moment before the deadline that was set.
THEOREM DueStateProvenHolds == PartsSpec => []DueStateProven
  <1>1. OfParts => DueStateProven
    BY FilterInvProves DEF OfParts, DueStateProven
  <1> QED BY <1>1, OfPartsHolds, PTL

\* Hourly query pages: the pages a caller joins are one answer, of one view.
THEOREM PagesAreOneViewHolds == PartsSpec => []PagesAreOneView
  <1>1. OfParts => PagesAreOneView
    BY PagesInvJoined DEF OfParts, PagesAreOneView
  <1> QED BY <1>1, OfPartsHolds, PTL

\* Hourly query values: a total that is called complete is that of all its
\* hours, each once, none of them pending.
THEOREM TotalsTrueHolds == PartsSpec => []TotalsTrue
  <1>1. OfParts => TotalsTrue
    BY TruthInvTotals DEF OfParts, TotalsTrue
  <1> QED BY <1>1, OfPartsHolds, PTL
=============================================================================
