-------------------------------- MODULE Plates --------------------------------
(***************************************************************************)
(* The plate of a vehicle (enrich.py, avclient.py).  Each picture may read *)
(* one in the vehicle's box; the track keeps the last reads, groups those  *)
(* alike, and the largest group votes, character by character.  Once a     *)
(* plate is confident its vehicle is read no more.                         *)
(*                                                                         *)
(* A text is a sequence of characters, which are numbers; a confidence a   *)
(* percentage; a similarity a fraction of Unit.                            *)
(***************************************************************************)
EXTENDS Integers, Sequences, FiniteSets, SequencesExt, FiniteSetsExt

CONSTANTS
  PlateText,     \* what a plate may be read as
  Conf,     \* confidences of a detection and of its text
  NoPlate,
  Keep,     \* PLATE_READS_KEEP
  Agree     \* PLATE_AGREE_READS

ASSUME PlatesAssumption == Agree \in Nat \ {0} /\ Keep >= Agree /\ NoPlate \notin PlateText

ScoreThresh == 50   \* PLATE_SCORE_THRESH
Confident == 85     \* PLATE_CONFIDENT
Unit == 100000
Alike == 85000      \* PLATE_CLUSTER_SIMILARITY

VARIABLES
  reads,     \* plate_reads: texts and their confidence, the last Keep
  plate,     \* extra["name"]: what is reported
  sure       \* extra_scores["name"]

plateVars == <<reads, plate, sure>>

PlatesInit == reads = <<>> /\ plate = NoPlate /\ sure = 0

-----------------------------------------------------------------------------
(* Similarity of two texts (Jaro-Winkler)                                  *)

Indexes(s) == [i \in DOMAIN s |-> i]

\* Each character's partner, in order: the first like it, not yet taken, within reach.
Partners(s, t) ==
  LET reach == Max({0, (Max({Len(s), Len(t)}) \div 2) - 1})
      free(acc, i) == {j \in DOMAIN t : /\ j >= i - reach /\ j <= i + reach /\ t[j] = s[i]
                                        /\ \A k \in DOMAIN acc : acc[k][2] # j}
  IN FoldLeft(LAMBDA acc, i : IF free(acc, i) = {} THEN acc ELSE Append(acc, <<i, Min(free(acc, i))>>),
              <<>>, Indexes(s))

CommonPrefix(s, t) ==
  Max({n \in 0..Min({4, Len(s), Len(t)}) : \A i \in 1..n : s[i] = t[i]})

JaroWinkler(s, t) ==
  LET pairs == Partners(s, t)
      m == Len(pairs)
      tHit == SelectSeq(Indexes(t), LAMBDA j : \E k \in 1..m : pairs[k][2] = j)
      h == Cardinality({k \in 1..m : s[pairs[k][1]] # t[tHit[k]]})
      jaro == (Unit * (2 * m * m * (Len(s) + Len(t)) + (2 * m - h) * Len(s) * Len(t)))
                \div (6 * m * Len(s) * Len(t))
  IN IF s = t THEN Unit ELSE IF m = 0 THEN 0
     ELSE jaro + (CommonPrefix(s, t) * (Unit - jaro)) \div 10

\* (@@ makes a table of it, for TLC.)
Similarity == <<>> @@ [p \in PlateText \X PlateText |-> JaroWinkler(p[1], p[2])]

-----------------------------------------------------------------------------
(* What a picture reads (Enricher.plates)                                  *)

\* What is seen in a crop of the vehicle; a plate too small or too short or doubtful is no read.
Sight == [text : PlateText, detected : Conf, ocr : Conf, wide : BOOLEAN]
IsRead(s) == s.detected >= ScoreThresh /\ s.wide /\ Len(s.text) >= 3
AsRead(s) == [text |-> s.text, conf |-> Min({s.detected, s.ocr})]
PlateRead == {AsRead(s) : s \in {x \in Sight : IsRead(x)}}

-----------------------------------------------------------------------------
(* The vote (_plate_rep)                                                   *)

\* The first index that has the most.
FirstMost(key) ==
  LET most == Max(ToSet(key)) IN Min({i \in DOMAIN key : key[i] = most})

TotalOf(s) == FoldLeft(+, 0, s)
Surest(group) == Max({r.conf : r \in ToSet(group)})

\* A read joins the first group that it is alike on average.
Joined(groups, r) ==
  LET alike == {g \in DOMAIN groups :
                  TotalOf([i \in DOMAIN groups[g] |-> Similarity[r.text, groups[g][i].text]])
                    >= Alike * Len(groups[g])}
  IN IF alike = {} THEN Append(groups, <<r>>)
     ELSE [groups EXCEPT ![Min(alike)] = Append(@, r)]

Weight(group) == 1000 * Len(group) + Surest(group)
Largest(groups) == groups[FirstMost([g \in DOMAIN groups |-> Weight(groups[g])])]

\* Those of the length that is most frequent in the largest group.
OfLength(group, n) == SelectSeq(group, LAMBDA r : Len(r.text) = n)
Often(group) == FirstMost([i \in DOMAIN group |-> Weight(OfLength(group, Len(group[i].text)))])
OftenestLength(group) == OfLength(group, Len(group[Often(group)].text))

Voters(rs) == OftenestLength(Largest(FoldLeft(Joined, <<>>, rs)))

\* The confidence behind the character that voter v has at place i.
Backing(voters, v, i) ==
  TotalOf([w \in DOMAIN voters |->
             IF voters[w].text[i] = voters[v].text[i] THEN voters[w].conf ELSE 0])

\* The character with the most of it, at each place.
Voted(voters) ==
  [i \in DOMAIN voters[1].text |->
     voters[FirstMost([v \in DOMAIN voters |-> Backing(voters, v, i)])].text[i]]

\* Mistake: the confidence is the sum of the voters', not their mean.
AgreedInSum(voters) ==
  [text |-> Voted(voters), conf |-> TotalOf([v \in DOMAIN voters |-> voters[v].conf]),
   agreeing |-> Len(voters)]

Agreed(voters) ==
  [text |-> Voted(voters),
   conf |-> TotalOf([v \in DOMAIN voters |-> voters[v].conf]) \div Len(voters),
   agreeing |-> Len(voters)]

PlateRepOf(rs) == Agreed(Voters(rs))

\* Of all the reads a track may keep, at once, a table too.
PlateRep == <<>> @@ [rs \in UNION {[1..n -> PlateRead] : n \in 1..Keep} |-> PlateRepOf(rs)]

-----------------------------------------------------------------------------
(* The track (_plate_settled, _merge_extra)                                *)

\* A vehicle is not read once its plate is confident, while its box stays on its track's.  (Nor
\* while it stands, when nothing happens to its plate.)
PlateSettled(onTrack) == onTrack /\ sure >= Confident

Kept(rs) == SubSeq(rs, Max({1, Len(rs) - Keep + 1}), Len(rs))

MergeRead(r) ==
  LET kept == Kept(Append(reads, r))
      rep == PlateRep[kept]
  IN /\ reads' = kept
     /\ IF rep.agreeing < Agree THEN UNCHANGED <<plate, sure>>
        ELSE plate' = rep.text /\ sure' = rep.conf

ReadPlate ==
  /\ ~ \A onTrack \in BOOLEAN : PlateSettled(onTrack)
  /\ \E r \in PlateRead : MergeRead(r)

PlatesNext == ReadPlate

PlatesSpec == PlatesInit /\ [][PlatesNext]_plateVars

-----------------------------------------------------------------------------
(* Properties                                                              *)

PlatesTypeOK ==
  /\ reads \in Seq([text : PlateText, conf : Conf]) /\ Len(reads) <= Keep
  /\ sure \in 0..100 /\ (plate = NoPlate <=> sure = 0)

\* A misread does not stick: where all of the track's reads but one are the same text, the plate
\* reported is that text, or none yet.  The one misread gets through only where its reader is
\* surer of it than of all the others together; and never so that the vehicle is left alone.
NoMisreadSticks ==
  \A t \in PlateText :
    LET misread == {i \in DOMAIN reads : reads[i].text # t}
        right == {i \in DOMAIN reads : reads[i].text = t} IN
    Cardinality(misread) <= 1 =>
      \/ plate \in {t, NoPlate}
      \/ /\ sure < Confident
         /\ \E i \in misread : reads[i].conf >= MapThenSumSet(LAMBDA j : reads[j].conf, right)
=============================================================================
