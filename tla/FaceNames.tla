------------------------------ MODULE FaceNames ------------------------------
(***************************************************************************)
(* Naming a face (avclient.py).  The JPEG reader replaces a camera's       *)
(* snapshot now and then.  A tick reads it for faces, once for each        *)
(* modification time; a face that matches a known subject counts for the   *)
(* subject with the face's track and with the person's, and the second     *)
(* count names the track.  Until then a face's embedding is held back from *)
(* Protect, for some reads.                                                *)
(*                                                                         *)
(* One person, and their face, whose track may end and begin again.  A     *)
(* snapshot and its modification time have the same number.                *)
(***************************************************************************)
EXTENDS Integers, FiniteSets, Sequences

CONSTANTS
  Subject,    \* the subjects of Protect's database
  NoSubject,  \* a face that matches none
  Hits,       \* FACE_MATCH_HITS
  HoldReads,  \* FACE_EMBED_HOLD_READS
  MaxShots    \* bound of the model: snapshots

ASSUME FaceAssumption ==
  /\ Hits \in Nat \ {0} /\ {HoldReads, MaxShots} \subseteq Nat /\ HoldReads >= Hits
  /\ NoSubject \notin Subject

Shot == 1..MaxShots

VARIABLES
  shot,       \* the snapshot, 0 before the first
  mtime,      \* the tick: the modification time it has looked at
  bytes,      \* _snapshot_bytes: a modification time, and the snapshot read for it
  read,       \* the tick: the snapshot it is to look for faces in
  enriched,   \* _enrich_cache: the modification time of the last that was looked at
  extra,      \* and what was found: "nothing", a "face", or one "good" enough to report
  person,     \* the person's track and what it knows of names (see Unnamed)
  face,       \* that of their face, or NoFace
  swapped     \* history: a snapshot was replaced between the look at its time and its reading

faceVars == <<shot, mtime, bytes, read, enriched, extra, person, face, swapped>>

\* hits: match_hits; from: history, the snapshots they were counted in; name: matchedId.
Unnamed == [hits |-> [s \in Subject |-> 0], from |-> [s \in Subject |-> {}], name |-> NoSubject]

\* Of a face, besides: embed: it has an embedding (faceEmbed); reads: embed_reads; first: history,
\* what the first Hits of these matched; shown: a box of it was reported with the embedding.
NoFace == [there |-> FALSE, names |-> Unnamed, embed |-> FALSE, reads |-> 0, first |-> <<>>,
           shown |-> FALSE]
NewFace == [NoFace EXCEPT !.there = TRUE]

FaceInit ==
  /\ shot = 0 /\ mtime = 0 /\ bytes = [mtime |-> 0, shot |-> 0] /\ read = 0 /\ enriched = 0
  /\ extra = "nothing" /\ person = Unnamed /\ face = NoFace /\ swapped = FALSE

-----------------------------------------------------------------------------
(* The snapshot (_write_snapshot, _read_snapshot)                          *)

WritesShot ==
  /\ shot < MaxShots /\ shot' = shot + 1
  /\ UNCHANGED <<mtime, bytes, read, enriched, extra, person, face, swapped>>

LooksAtTime ==
  /\ mtime = 0 /\ shot # 0
  /\ mtime' = shot
  /\ UNCHANGED <<shot, bytes, read, enriched, extra, person, face, swapped>>

\* What was read for that time is not read again.
ReadsShot ==
  /\ mtime # 0 /\ read = 0
  /\ bytes' = IF bytes.mtime = mtime THEN bytes ELSE [mtime |-> mtime, shot |-> shot]
  /\ read' = bytes'.shot
  /\ swapped' = (swapped \/ bytes'.shot # mtime)
  /\ UNCHANGED <<shot, mtime, enriched, extra, person, face>>

-----------------------------------------------------------------------------
(* The tick (_enrich_detections, _merge_extra, _link_faces, _track_args)   *)

\* A match counts for a track; the subject counted most (of several, any) names it, with Hits.
Counted(tr, s) ==
  LET n == [tr EXCEPT !.hits[s] = @ + 1, !.from[s] = @ \cup {read}]
      most == {b \in Subject : \A o \in Subject : n.hits[o] <= n.hits[b]}
  IN {IF n.hits[b] >= Hits THEN [n EXCEPT !.name = b] ELSE n : b \in most}

Merged(tr, s) == IF s = NoSubject THEN {tr} ELSE Counted(tr, s)

\* A face without a name takes its person's (and what that comes from).
Linked(p, n) ==
  IF n.name = NoSubject /\ p.name # NoSubject
  THEN [n EXCEPT !.name = p.name, !.from[p.name] = @ \cup p.from[p.name]]
  ELSE n

\* A face's embedding is reported when it has a name; or after a few reads, more if any matched.
\* (A leave always has it; what is told of here are the boxes before.)
Decided(f) ==
  \/ f.names.name # NoSubject
  \/ f.reads >= IF \E s \in Subject : f.names.hits[s] > 0 THEN HoldReads ELSE Hits

\* A face found is reported with the tick, or its turn is not yet.
Reported(f) == {f, [f EXCEPT !.shown = @ \/ (f.embed /\ Decided(f))]}

\* The face's track begins with what was found, or goes on.
ThisFace == IF face.there THEN face ELSE NewFace

\* Mistake: a match counts again with every tick that uses its read again.
FindsFaceAgain(s, good) ==
  /\ read # 0
  /\ enriched' = mtime /\ mtime' = 0 /\ read' = 0 /\ extra' = "face"
  /\ \E p \in Merged(person, s), n \in Merged(ThisFace.names, s) :
       person' = p /\ face' = [ThisFace EXCEPT !.names = Linked(p, n)]
  /\ UNCHANGED <<shot, bytes, swapped>>

\* A face is found in a snapshot not looked at before: with an embedding good enough to report, or
\* not, and whom it matches.
FindsFace(s, good) ==
  /\ read # 0 /\ enriched # mtime
  /\ enriched' = mtime /\ mtime' = 0 /\ read' = 0
  /\ extra' = IF good THEN "good" ELSE "face"
  /\ \E p \in Merged(person, s), n \in Merged(ThisFace.names, s) :
       /\ person' = p
       /\ face' \in Reported([ThisFace EXCEPT
             !.names = Linked(p, n), !.embed = @ \/ good,
             !.reads = IF good /\ @ < HoldReads THEN @ + 1 ELSE @,
             !.first = IF good /\ Len(@) < Hits THEN Append(@, s) ELSE @])
  /\ UNCHANGED <<shot, bytes, swapped>>

FindsNone ==
  /\ read # 0 /\ enriched # mtime
  /\ enriched' = mtime /\ mtime' = 0 /\ read' = 0 /\ extra' = "nothing"
  /\ face' = [face EXCEPT !.names = IF face.there THEN Linked(person, @) ELSE @]
  /\ UNCHANGED <<shot, bytes, person, swapped>>

\* A snapshot looked at before: what was found stands for it again, but counts no more.
FindsSame ==
  /\ read # 0 /\ enriched = mtime
  /\ mtime' = 0 /\ read' = 0
  /\ face' \in IF extra = "nothing" THEN {face}
               ELSE Reported([ThisFace EXCEPT !.names = Linked(person, @),
                                              !.embed = @ \/ extra = "good"])
  /\ UNCHANGED <<shot, bytes, enriched, extra, person, swapped>>

\* Their tracks end.
FaceGoes == /\ face.there /\ face' = NoFace
            /\ UNCHANGED <<shot, mtime, bytes, read, enriched, extra, person, swapped>>

PersonGoes == /\ person # Unnamed /\ person' = Unnamed
              /\ UNCHANGED <<shot, mtime, bytes, read, enriched, extra, face, swapped>>

-----------------------------------------------------------------------------
FaceNext ==
  \/ WritesShot \/ LooksAtTime \/ ReadsShot
  \/ \E s \in Subject \cup {NoSubject}, good \in BOOLEAN : FindsFace(s, good)
  \/ FindsNone \/ FindsSame \/ FaceGoes \/ PersonGoes

FaceSpec == FaceInit /\ [][FaceNext]_faceVars

-----------------------------------------------------------------------------
(* Properties                                                              *)

FaceTypeOK ==
  /\ {shot, mtime, read, enriched, bytes.mtime, bytes.shot} \subseteq 0..MaxShots
  /\ {person.name, face.names.name} \subseteq Subject \cup {NoSubject}
  /\ extra \in {"nothing", "face", "good"}
  /\ face.reads \in 0..HoldReads /\ {face.shown, face.there, swapped} \subseteq BOOLEAN

\* "a face names a subject after FACE_MATCH_HITS matches": nobody is named from one picture.  A
\* track's name is of a subject it matched in Hits different snapshots, unless a snapshot was
\* replaced while it was read, when one may be read twice; or its person's track did.
Earned(tr) == tr.name # NoSubject => Cardinality(tr.from[tr.name]) >= Hits
NamedFromPictures == ~swapped => Earned(person) /\ Earned(face.names)

\* A face that is named by its first reads is never shown as one without a name before ("Protect
\* searched the first, unmatched embedding of a face diy-port named a second later"): as long as
\* one of its first reads matched, and no more than HoldReads were made, its boxes have no
\* embedding without the name.
HeldUntilNamed ==
  face.shown /\ face.names.name = NoSubject =>
    \/ \A i \in DOMAIN face.first : face.first[i] = NoSubject
    \/ face.reads >= HoldReads

FacesAreNamed == NamedFromPictures /\ HeldUntilNamed
=============================================================================
