-------------------------------- MODULE Zones --------------------------------
(***************************************************************************)
(* The detection zones (avclient.py).  Protect sends them in a message,    *)
(* which the receiver takes apart into three tables, one after another:    *)
(* the zones' polygons, the types of object each is for, and their ids.    *)
(* A tick of the poll loop looks a detection up in the three, one after    *)
(* another as well, and no lock is held by both.                           *)
(*                                                                         *)
(* A foot, the middle of the bottom of a detection's box, and polygons are *)
(* on Protect's canvas; detections are of one type.                        *)
(***************************************************************************)
EXTENDS Integers, Sequences, FiniteSets, FiniteSetsExt, SequencesExt

CONSTANTS
  Zone,        \* bound of the model: zones, [id, coord, types, dict]
  Settings,    \* bound of the model: what messages may say of the zones: sequences of them, or Omitted
  Omitted,     \* a message that says nothing of them ({"isLprCamera": 0})
  Foot,        \* bound of the model: places of a detection's foot
  DetectedType \* what it is a detection of

ASSUME SettingsAssumption == Settings \subseteq {Omitted} \cup Seq(Zone)

VARIABLES
  polygons,  \* _detect_zones
  types,     \* _detect_zone_types
  ids,       \* _detect_zone_ids
  receiver,  \* the message the receiver is in, and the table it sets next
  told,      \* history: the zones last sent
  torn,      \* history: a message raised since the last one that did not
  lookup,    \* the tick's lookup, with what it has read
  crossed    \* history: the tables changed since it began

zoneVars == <<polygons, types, ids, receiver, told, torn, lookup, crossed>>

NoLookup == [at |-> "begin", foot |-> <<0, 0>>, polygons |-> <<>>, types |-> <<>>, ids |-> <<>>,
             inZone |-> FALSE]
NoMessage == [at |-> "idle", zones |-> <<>>]

ZonesInit ==
  /\ polygons = <<>> /\ types = <<>> /\ ids = <<>>
  /\ receiver = NoMessage /\ told = <<>> /\ torn = FALSE
  /\ lookup = NoLookup /\ crossed = FALSE

-----------------------------------------------------------------------------
(* Geometry                                                                *)

\* Ray casting: the edges that a line from (x, y) to the right meets are counted; of an edge its
\* lower end counts and its upper does not.  (The quotient is multiplied out.)
PointInPolygon(x, y, polygon) ==
  LET Prev(i) == IF i = 1 THEN polygon[Len(polygon)] ELSE polygon[i - 1]
      Meets(i) ==
        LET a == Prev(i)
            b == polygon[i]
            dy == b[2] - a[2]
            left == (x - a[1]) * dy
            right == (b[1] - a[1]) * (y - a[2])
        IN /\ (a[2] > y) # (b[2] > y)
           /\ IF dy > 0 THEN left < right ELSE left > right
  IN Cardinality({i \in DOMAIN polygon : Meets(i)}) % 2 = 1

\* "any": the zone lists no types (None), which is not the same as an empty list.
ZoneAllows(listed) == listed \cap {"any", DetectedType} # {}

-----------------------------------------------------------------------------
(* The message (ChangeSmartDetectSettings)                                 *)

\* A zone needs three points.  One that is no dictionary is passed over by the polygons, while the
\* types raise on it.
IsZone(z) == z.dict /\ Len(z.coord) >= 3
Taken(zones) ==
  LET taken[i \in 0..Len(zones)] ==
        IF i = 0 THEN <<>>
        ELSE IF IsZone(zones[i]) THEN Append(taken[i - 1], zones[i]) ELSE taken[i - 1]
  IN taken[Len(zones)]
Raises(zones) == \E i \in DOMAIN zones : ~zones[i].dict

Of(zones, field) == [i \in DOMAIN Taken(zones) |-> Taken(zones)[i][field]]

Message(zones) ==
  /\ receiver = NoMessage
  /\ IF zones = Omitted THEN UNCHANGED <<receiver, told>>
     ELSE receiver' = [at |-> "polygons", zones |-> zones] /\ told' = zones
  /\ UNCHANGED <<polygons, types, ids, torn, lookup, crossed>>

SetsPolygons ==
  /\ receiver.at = "polygons"
  /\ polygons' = Of(receiver.zones, "coord")
  /\ IF Raises(receiver.zones) THEN receiver' = NoMessage /\ torn' = TRUE
     ELSE receiver' = [receiver EXCEPT !.at = "types"] /\ UNCHANGED torn
  /\ crossed' = TRUE
  /\ UNCHANGED <<types, ids, told, lookup>>

SetsTypes ==
  /\ receiver.at = "types"
  /\ types' = Of(receiver.zones, "types") /\ receiver' = [receiver EXCEPT !.at = "ids"]
  /\ crossed' = TRUE
  /\ UNCHANGED <<polygons, ids, told, torn, lookup>>

\* Mistake: the ids of the zones that were passed over are kept too.
SetsIdsOfAll ==
  /\ receiver.at = "ids"
  /\ ids' = [i \in DOMAIN receiver.zones |-> receiver.zones[i].id] /\ receiver' = NoMessage
  /\ torn' = FALSE /\ crossed' = TRUE
  /\ UNCHANGED <<polygons, types, told, lookup>>

SetsIds ==
  /\ receiver.at = "ids"
  /\ ids' = Of(receiver.zones, "id") /\ receiver' = NoMessage
  /\ torn' = FALSE /\ crossed' = TRUE
  /\ UNCHANGED <<polygons, types, told, lookup>>

\* ResetToDefaults empties the three one after another too, which no lookup that it does not cross
\* can tell from at once: with no polygons there are no zones.
ClearsZones ==
  /\ receiver = NoMessage /\ polygons # <<>>
  /\ polygons' = <<>> /\ types' = <<>> /\ ids' = <<>>
  /\ told' = <<>> /\ torn' = FALSE /\ crossed' = TRUE
  /\ UNCHANGED <<receiver, lookup>>

-----------------------------------------------------------------------------
(* The lookup (_zones_of, and what the tick makes of it)                   *)

LooksUp(foot) ==
  /\ lookup.at \in {"begin", "done"}
  /\ lookup' = [NoLookup EXCEPT !.at = IF polygons = <<>> THEN "found" ELSE "types",
                                !.foot = foot, !.polygons = polygons]
  /\ crossed' = FALSE
  /\ UNCHANGED <<polygons, types, ids, receiver, told, torn>>

ReadsTypes ==
  /\ lookup.at = "types"
  /\ lookup' = [lookup EXCEPT !.at = "ids", !.types = types]
  /\ UNCHANGED <<polygons, types, ids, receiver, told, torn, crossed>>

ReadsIds ==
  /\ lookup.at = "ids"
  /\ lookup' = [lookup EXCEPT !.at = "found", !.ids = ids]
  /\ UNCHANGED <<polygons, types, ids, receiver, told, torn, crossed>>

\* Types that are missing allow anything, if there are none at all; ids that are missing count on.
Types(k) == IF k.types = <<>> THEN [i \in DOMAIN k.polygons |-> {"any"}] ELSE k.types
Ids(k) == [i \in 1..Max({Len(k.polygons), Len(k.ids)}) |-> IF i <= Len(k.ids) THEN k.ids[i] ELSE i]

Zipped(k) == 1..Min({Len(k.polygons), Len(Types(k)), Len(Ids(k))})

ZonesOf(k) ==
  {Ids(k)[i] : i \in {j \in Zipped(k) :
                 /\ ZoneAllows(Types(k)[j])
                 /\ PointInPolygon(k.foot[1], k.foot[2], k.polygons[j])}}

\* in_zone: in one, or there are none by now.
Decides ==
  /\ lookup.at = "found"
  /\ lookup' = [lookup EXCEPT !.at = "done", !.inZone = ZonesOf(lookup) # {} \/ polygons = <<>>]
  /\ UNCHANGED <<polygons, types, ids, receiver, told, torn, crossed>>

ZonesNext ==
  \/ \E zones \in Settings : Message(zones)
  \/ SetsPolygons \/ SetsTypes \/ SetsIds \/ ClearsZones
  \/ \E foot \in Foot : LooksUp(foot)
  \/ ReadsTypes \/ ReadsIds \/ Decides

ZonesSpec == ZonesInit /\ [][ZonesNext]_zoneVars

-----------------------------------------------------------------------------
(* Properties                                                              *)

ZonesTypeOK ==
  /\ receiver.at \in {"idle", "polygons", "types", "ids"}
  /\ lookup.at \in {"begin", "types", "ids", "found", "done"}
  /\ {torn, crossed, lookup.inZone} \subseteq BOOLEAN
  /\ {Len(polygons), Len(types), Len(ids)} \subseteq Nat

\* A detection is in the zones Protect drew: what a lookup finds that no change of the tables
\* crossed are the ids of just those zones last sent that list its type and hold its foot,
\* and what the tick makes of it is that it is in a zone exactly if it is in one of them, or
\* Protect sent none.  (Not while tables are left over from before a message that raised.)
InTheZone(z) == /\ IsZone(z) /\ ZoneAllows(z.types)
                /\ PointInPolygon(lookup.foot[1], lookup.foot[2], z.coord)
ZonesAreAsDrawn ==
  lookup.at = "done" /\ ~crossed /\ ~torn /\ receiver = NoMessage =>
    LET holding == {z \in Range(told) : InTheZone(z)} IN
    /\ ZonesOf(lookup) = {z.id : z \in holding}
    /\ lookup.inZone = (holding # {} \/ \A z \in Range(told) : ~IsZone(z))

\* Zones drawn side by side share no place of a foot and leave none out: where a foot that was
\* looked up is on the edge two zones have in common, it is in exactly one of them.
BesideEachOther(z, y) == Cardinality(Range(z.coord) \cap Range(y.coord)) = 2
\* On the line through two corners, strictly between them.
Between(p, c, d) == /\ c[2] < p[2] /\ p[2] < d[2]
                    /\ (p[1] - c[1]) * (d[2] - c[2]) = (d[1] - c[1]) * (p[2] - c[2])
BordersAreOwned ==
  lookup.at = "done" =>
    LET p == lookup.foot IN
    \A z, y \in {w \in Zone : IsZone(w)} :
      BesideEachOther(z, y)
        /\ (\E c, d \in Range(z.coord) \cap Range(y.coord) : Between(p, c, d)) =>
      PointInPolygon(p[1], p[2], z.coord) # PointInPolygon(p[1], p[2], y.coord)
=============================================================================
