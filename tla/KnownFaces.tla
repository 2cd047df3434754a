------------------------------ MODULE KnownFaces ------------------------------
(***************************************************************************)
(* The known faces (avclient.py, facedb.py).  Protect offers its database  *)
(* in a message; a thread for each message downloads it to known.db by way *)
(* of known.db.tmp, one name for all of them, and loads it.  A tick that   *)
(* needs the database before any was loaded loads the file itself, once.   *)
(* Matching reads what was loaded last.                                    *)
(*                                                                         *)
(* A file is an inode, which a thread goes on writing whatever its name    *)
(* is by then.  Its content is the database of one message, by its number, *)
(* or torn: part of one and part of another.                               *)
(***************************************************************************)
EXTENDS Integers, FiniteSets

CONSTANTS MaxOffers \* bound of the model: messages with a database

ASSUME OffersAssumption == MaxOffers \in Nat

Offer == 1..MaxOffers
Inode == Offer      \* no thread makes more than one
NoInode == 0
NoDb == 0
TornDb == -1

VARIABLES
  offers,   \* messages so far
  download, \* the threads, one of a message
  content,  \* what is in each inode
  dbTmp,    \* known.db.tmp
  dbFile,   \* known.db
  db,       \* _face_db: the database in memory, NoDb for None
  tried,    \* _face_db_tried
  lazy,     \* the tick's load, with what it has read
  overlaps, \* history: two loads or downloads were under way at one time since the start
  mixed     \* history: two downloads were, ever

faceDbVars == <<offers, download, content, dbTmp, dbFile, db, tried, lazy, overlaps, mixed>>

Nothing == [at |-> "no", fd |-> NoInode, read |-> NoDb]

KnownFacesInit ==
  /\ offers = 0 /\ download = [i \in Offer |-> Nothing]
  /\ content = [i \in Inode |-> NoDb] /\ dbTmp = NoInode /\ dbFile = NoInode
  /\ db = NoDb /\ tried = FALSE /\ lazy = Nothing /\ overlaps = FALSE /\ mixed = FALSE

\* The threads on their way, the tick's load included (as number 0).
DbBusy == {i \in Offer : download[i].at \notin {"no", "over"}} \cup (IF lazy.at = "no" THEN {} ELSE {0})

-----------------------------------------------------------------------------
(* A download                                                              *)

\* UpdateFaceDBRequest; the answer of the GET comes when it comes.
Offered ==
  /\ offers < MaxOffers
  /\ offers' = offers + 1
  /\ download' = [download EXCEPT ![offers + 1].at = "get"]
  /\ overlaps' = (overlaps \/ DbBusy # {}) /\ mixed' = (mixed \/ DbBusy \ {0} # {})
  /\ UNCHANGED <<content, dbTmp, dbFile, db, tried, lazy>>

NotGot(i) ==
  /\ download[i].at = "get" /\ download' = [download EXCEPT ![i].at = "over"]
  /\ UNCHANGED <<offers, content, dbTmp, dbFile, db, tried, lazy, overlaps, mixed>>

\* open(..., "wb"): a file of that name is emptied, whoever writes it.
OpensTmp(i) ==
  /\ download[i].at = "get"
  /\ LET fd == IF dbTmp = NoInode THEN i ELSE dbTmp IN
     /\ dbTmp' = fd /\ content' = [content EXCEPT ![fd] = NoDb]
     /\ download' = [download EXCEPT ![i].at = "write", ![i].fd = fd]
  /\ UNCHANGED <<offers, dbFile, db, tried, lazy, overlaps, mixed>>

\* What is written covers what is there, or not all of it; writes of two threads may mix.
WritesDb(i) ==
  /\ download[i].at = "write"
  /\ LET fd == download[i].fd
         meets == \/ content[fd] # NoDb
                  \/ \E j \in DbBusy \ {i, 0} : download[j].at = "write" /\ download[j].fd = fd
     IN content' \in {[content EXCEPT ![fd] = c] : c \in IF meets THEN {i, TornDb} ELSE {i}}
  /\ download' = [download EXCEPT ![i].at = "replace"]
  /\ UNCHANGED <<offers, dbTmp, dbFile, db, tried, lazy, overlaps, mixed>>

\* The name is gone if another thread replaced it first: this one ends there.
ReplacesDb(i) ==
  /\ download[i].at = "replace"
  /\ IF dbTmp = NoInode
     THEN download' = [download EXCEPT ![i].at = "over"] /\ UNCHANGED <<dbFile, dbTmp>>
     ELSE /\ dbFile' = dbTmp /\ dbTmp' = NoInode
          /\ download' = [download EXCEPT ![i].at = "load"]
  /\ UNCHANGED <<offers, content, db, tried, lazy, overlaps, mixed>>

\* What cannot be read as a database is none (parse, load).
Loaded(c) == IF c = TornDb THEN NoDb ELSE c

LoadsDb(i) ==
  /\ download[i].at = "load"
  /\ download' = [download EXCEPT ![i].at = "set", ![i].read = Loaded(content[dbFile])]
  /\ UNCHANGED <<offers, content, dbTmp, dbFile, db, tried, lazy, overlaps, mixed>>

SetsDb(i) ==
  /\ download[i].at = "set"
  /\ db' = download[i].read /\ tried' = TRUE
  /\ download' = [download EXCEPT ![i].at = "over"]
  /\ UNCHANGED <<offers, content, dbTmp, dbFile, lazy, overlaps, mixed>>

-----------------------------------------------------------------------------
(* The tick (_get_face_db)                                                 *)

LazyLoads ==
  /\ lazy.at = "no" /\ ~tried
  /\ lazy' = [lazy EXCEPT !.at = "set",
                          !.read = IF dbFile = NoInode THEN NoDb ELSE Loaded(content[dbFile])]
  /\ overlaps' = (overlaps \/ DbBusy # {})
  /\ UNCHANGED <<offers, download, content, dbTmp, dbFile, db, tried, mixed>>

LazySets ==
  /\ lazy.at = "set"
  /\ db' = lazy.read /\ tried' = TRUE /\ lazy' = Nothing
  /\ UNCHANGED <<offers, download, content, dbTmp, dbFile, overlaps, mixed>>

\* The process starts again, with the files there are.
Restarts ==
  /\ tried \/ DbBusy # {}
  /\ download' = [i \in Offer |-> IF i <= offers THEN [Nothing EXCEPT !.at = "over"] ELSE Nothing]
  /\ db' = NoDb /\ tried' = FALSE /\ lazy' = Nothing /\ overlaps' = FALSE
  /\ UNCHANGED <<offers, content, dbTmp, dbFile, mixed>>

-----------------------------------------------------------------------------
KnownFacesNext ==
  \/ Offered \/ LazyLoads \/ LazySets \/ Restarts
  \/ \E i \in Offer : NotGot(i) \/ OpensTmp(i) \/ WritesDb(i) \/ ReplacesDb(i) \/ LoadsDb(i) \/ SetsDb(i)

KnownFacesSpec == KnownFacesInit /\ [][KnownFacesNext]_faceDbVars

-----------------------------------------------------------------------------
(* Properties                                                              *)

KnownFacesTypeOK ==
  /\ offers \in 0..MaxOffers /\ {dbTmp, dbFile} \subseteq Inode \cup {NoInode}
  /\ {tried, overlaps, mixed} \subseteq BOOLEAN
  /\ {db, lazy.read} \cup {download[i].read : i \in Offer} \subseteq Offer \cup {NoDb}
  /\ {content[i] : i \in Inode} \subseteq Offer \cup {NoDb, TornDb}

\* Faces are matched against the database that was saved: once something was loaded and nothing
\* is under way, what is in memory is what is in known.db, and that is one whole database, if
\* downloads and loads came one after another.
MemoryIsTheFile ==
  DbBusy = {} /\ tried /\ ~overlaps =>
    IF dbFile = NoInode THEN db = NoDb ELSE db = Loaded(content[dbFile])

\* known.db is one whole database whenever there is one, a restart at any moment included, if no
\* two downloads were ever under way at one time.
FileIsWhole == ~mixed /\ dbFile # NoInode => content[dbFile] \in Offer

FacesAreThoseSaved == MemoryIsTheFile /\ FileIsWhole
=============================================================================
