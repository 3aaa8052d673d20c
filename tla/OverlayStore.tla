---------------------------- MODULE OverlayStore ----------------------------
(***************************************************************************)
(* The overlays of the viewer's library: their rows and memberships in the *)
(* database and the R-tree that is kept beside it (map_overlay_manager.cpp,*)
(* with the commands of overlay_library_panel.cpp and main_window.cpp).    *)
(*                                                                         *)
(* A Transaction has no destructor: one that is left by an exception stays *)
(* open on the connection.  The statements after it join it, and are lost  *)
(* when the process ends; another BEGIN throws, which ends the process     *)
(* where the Transaction is made outside of a try block.                   *)
(*                                                                         *)
(* An overlay is its bounding box.  Folders are in LibraryTree; an entry   *)
(* that is in the index twice, as a process that was killed may cause,     *)
(* counts once.                                                            *)
(***************************************************************************)
EXTENDS Naturals, Sequences, FiniteSets

CONSTANTS Boxes,          \* bounding boxes
          MaxOverlays,    \* bound: overlays ever written
          MaxCollections, \* bound: collections ever made
          MaxCommands     \* bound: commands of the user

ASSUME StoreAssumption ==
    MaxOverlays \in Nat /\ MaxCollections \in Nat \ {0} /\ MaxCommands \in Nat

VARIABLES db,        \* the tables as the connection sees them
          disk,      \* the tables as committed
          tx,        \* a transaction is open on the connection
          index,     \* the R-tree: pairs of an overlay and its box
          saved,     \* the R-tree in its file
          clipboard, \* the overlays that were copied
          commands,  \* how many commands the user gave
          (* history *)
          lost,      \* overlays whose deletion failed
          stray,     \* overlays written to no collection that exists
          diverged   \* tables and index were not saved together

history == <<lost, stray, diverged>>
vars == <<db, disk, tx, index, saved, clipboard, commands, history>>

Overlays == 1 .. MaxOverlays
Collections == 1 .. MaxCollections

(* The tables with other rows, memberships or collections.                 *)
WithRows(d, row, last) ==
    [row |-> row, member |-> d.member, collection |-> d.collection,
     last |-> last, lastCollection |-> d.lastCollection]
WithMembers(d, member) ==
    [row |-> d.row, member |-> member, collection |-> d.collection,
     last |-> d.last, lastCollection |-> d.lastCollection]
WithCollections(d, collection, last) ==
    [row |-> d.row, member |-> d.member, collection |-> collection,
     last |-> d.last, lastCollection |-> last]

In(d, c) == {o \in DOMAIN d.row : <<o, c>> \in d.member}
Stored(d, S) == S \cap DOMAIN d.row
Entries(d, S) == {<<o, d.row[o]>> : o \in Stored(d, S)}

(* load() joins the memberships and the collections.                       *)
Loads(d, o) == o \in DOMAIN d.row /\ \E c \in d.collection : <<o, c>> \in d.member

Command == commands < MaxCommands /\ commands' = commands + 1

(* A statement commits on its own, unless a transaction is open.           *)
Store(d) ==
    /\ db' = d
    /\ disk' = IF tx THEN disk ELSE d
    /\ UNCHANGED tx

-----------------------------------------------------------------------------
(* Writing.                                                                *)

(* Mutant: the ids follow the number of rows.                              *)
BugNewIds(d, n) == LET top == Cardinality(DOMAIN d.row) IN top + 1 .. top + n

(* The ids that the rows of n objects get: AUTOINCREMENT.                  *)
NewIds(d, n) == d.last + 1 .. d.last + n

(* Mutant: ids are not counted.                                            *)
BugInserted(d, boxes) ==
    LET new == NewIds(d, Len(boxes))
    IN  WithRows(d, [o \in DOMAIN d.row \cup new |->
                       IF o \in new THEN boxes[1] ELSE d.row[o]], d.last)

(* The INSERTs of write(), and last_insert_rowid() after each.             *)
Inserted(d, boxes) ==
    LET new == NewIds(d, Len(boxes))
        first == CHOOSE o \in new : \A p \in new : o <= p
    IN  WithRows(d, [o \in DOMAIN d.row \cup new |->
                       IF o \in new THEN boxes[o - first + 1] ELSE d.row[o]],
                 d.last + Len(boxes))

(* write() of new or duplicated overlays to a collection, which may have   *)
(* been deleted since it was selected.                                     *)
Write(c, boxes) ==
    /\ Command
    /\ ~tx /\ db.last + Len(boxes) <= MaxOverlays
    /\ LET new == NewIds(db, Len(boxes))
           rows == Inserted(db, boxes)
       IN  /\ Store(WithMembers(rows, rows.member \cup (new \X {c})))
           /\ index' = index \cup Entries(rows, new)
           /\ stray' = IF c \in db.collection THEN stray ELSE stray \cup new
    /\ UNCHANGED <<saved, clipboard, lost, diverged>>

(* An INSERT fails: write() swallows the exception, and its caller commits *)
(* the rows that were written before.                                      *)
WriteFails(c, boxes) ==
    /\ Command
    /\ ~tx /\ db.last + Len(boxes) <= MaxOverlays
    /\ LET new == NewIds(db, Len(boxes))
           rows == Inserted(db, boxes)
       IN  /\ \E S \in SUBSET new \ {new} :   \* the memberships made so far
                 Store(WithMembers(rows, rows.member \cup (S \X {c})))
           /\ stray' = stray \cup new
           /\ lost' = lost \cup new
    /\ UNCHANGED <<index, saved, clipboard, diverged>>

(* Mutant: the entry of the old box stays.                                 *)
BugUpdate(o, box) ==
    /\ Command
    /\ Loads(db, o)
    /\ Store(WithRows(db, [db.row EXCEPT ![o] = box], db.last))
    /\ index' = index \cup {<<o, box>>}
    /\ UNCHANGED <<saved, clipboard, history>>

Update(o, box) ==
    /\ Command
    /\ Loads(db, o)
    /\ Store(WithRows(db, [db.row EXCEPT ![o] = box], db.last))
    /\ index' = (index \ {<<o, db.row[o]>>}) \cup {<<o, box>>}
    /\ UNCHANGED <<saved, clipboard, history>>

Copy(S) ==
    /\ Command
    /\ clipboard' = S
    /\ UNCHANGED <<db, disk, tx, index, saved, history>>

(* addOverlayInCollection(); its BEGIN fails in an open transaction.       *)
Paste(c) ==
    /\ Command
    /\ ~tx
    /\ Store(WithMembers(db, db.member \cup (clipboard \X {c})))
    /\ UNCHANGED <<index, saved, clipboard, history>>

-----------------------------------------------------------------------------
(* Deleting.                                                               *)

(* deleteOverlaysFromCollection() for overlays of the list of c: they      *)
(* leave the index; the memberships go, in a transaction that the          *)
(* malformed DELETE of the rows leaves open; in an open one, BEGIN throws. *)
DeleteOverlays(c, S, copied) ==
    /\ Command
    /\ S # {} /\ S \subseteq In(db, c)
    /\ index' = index \ Entries(db, S)
    /\ db' = IF tx THEN db ELSE WithMembers(db, db.member \ (S \X {c}))
    /\ tx' = TRUE
    /\ clipboard' = IF copied THEN S ELSE clipboard
    /\ lost' = lost \cup S
    /\ UNCHANGED <<disk, saved, stray, diverged>>

(* Mutant: the memberships go before the rows that are found by them.      *)
BugCollectionSteps(d, S) ==
    LET first == WithCollections(d, d.collection \ S, d.lastCollection)
        second == WithMembers(first, {m \in d.member : m[2] \notin S})
    IN  <<first, second, second>>

(* The tables after each of the three statements of deleteCollection().    *)
CollectionSteps(d, S) ==
    LET first == WithCollections(d, d.collection \ S, d.lastCollection)
        gone == UNION {In(d, c) : c \in S}
        second == WithRows(first, [o \in DOMAIN d.row \ gone |-> d.row[o]], d.last)
    IN  <<first, second, WithMembers(second, {m \in d.member : m[2] \notin S})>>

(* deleteItem() for a collection, or in one transaction for all that are   *)
(* in a folder.  It reads the kind and the id from a node that was freed:  *)
(* when the memory is used again in between, the overlays leave the index  *)
(* and the rows stay.                                                      *)
DeleteCollections(S, folder) ==
    /\ Command
    /\ S # {} /\ (folder => ~tx) /\ (~folder => Cardinality(S) = 1)
    /\ LET gone == UNION {In(db, c) : c \in S}
       IN  /\ index' = index \ Entries(db, gone)
           /\ \/ Store(CollectionSteps(db, S)[3]) /\ UNCHANGED lost
              \/ UNCHANGED <<db, disk, tx>> /\ lost' = lost \cup gone
    /\ UNCHANGED <<saved, clipboard, stray, diverged>>

AddCollection ==
    /\ Command
    /\ db.lastCollection < MaxCollections
    /\ LET c == db.lastCollection + 1
       IN  Store(WithCollections(db, db.collection \cup {c}, c))
    /\ UNCHANGED <<index, saved, clipboard, history>>

-----------------------------------------------------------------------------
(* The end of a session and the next one.                                  *)

Ends(found) ==
    /\ Command
    /\ tx' = FALSE
    /\ clipboard' \in {clipboard, {}}
    /\ index' = found /\ saved' = found

(* cleanup() writes the index; a transaction that is open is lost.         *)
Close ==
    /\ Ends(index)
    /\ db' = disk /\ disk' = disk
    /\ diverged' = (diverged \/ db # disk)
    /\ UNCHANGED <<lost, stray>>

(* The process is killed, or ended by the exception of a BEGIN outside of  *)
(* a try block.  The file of the index is as it was opened, has been       *)
(* written since, or does not load, and then a new one is made.            *)
Dies ==
    /\ \E found \in {saved, index, {}} : Ends(found)
    /\ diverged' = TRUE

Killed ==
    /\ Dies
    /\ db' = disk /\ disk' = disk
    /\ UNCHANGED <<lost, stray>>

(* It is killed between the statements of deleteCollection().              *)
KilledInDelete(c) ==
    /\ ~tx
    /\ Dies
    /\ \E k \in 1 .. 2 : disk' = CollectionSteps(db, {c})[k]
    /\ db' = disk'
    /\ stray' = stray \cup In(db, c)
    /\ UNCHANGED lost

-----------------------------------------------------------------------------
Empty == [row |-> [o \in {} |-> {}], member |-> {}, collection |-> {1},
          last |-> 0, lastCollection |-> 1]

Init ==
    /\ db = Empty /\ disk = Empty
    /\ tx = FALSE
    /\ index = {} /\ saved = {}
    /\ clipboard = {}
    /\ commands = 0
    /\ lost = {} /\ stray = {} /\ diverged = FALSE

(* One overlay that was drawn, or two that were selected and duplicated.   *)
Objects == {<<a>> : a \in Boxes} \cup (Boxes \X Boxes)

Next ==
    \/ \E c \in Collections, boxes \in Objects :
         (c <= db.lastCollection) /\ (Write(c, boxes) \/ WriteFails(c, boxes))
    \/ \E o \in Overlays, box \in Boxes : Update(o, box)
    \/ \E c \in db.collection :
         \/ \E S \in SUBSET In(db, c) :
              Copy(S) \/ \E copied \in BOOLEAN : DeleteOverlays(c, S, copied)
         \/ Paste(c)
         \/ KilledInDelete(c)
    \/ \E S \in SUBSET db.collection, folder \in BOOLEAN : DeleteCollections(S, folder)
    \/ AddCollection
    \/ Close
    \/ Killed

Spec == Init /\ [][Next]_vars

-----------------------------------------------------------------------------
(* Properties.                                                             *)

(* The shape of the tables and the index; no id is used before it was      *)
(* given out, and what the user sees and what is committed are the same    *)
(* unless a transaction is open.                                           *)
TablesOK(d) ==
    /\ DOMAIN d.row \subseteq 1 .. d.last
    /\ \A o \in DOMAIN d.row : d.row[o] \in Boxes
    /\ d.member \subseteq (1 .. d.last) \X (1 .. d.lastCollection)
    /\ d.collection \subseteq 1 .. d.lastCollection
    /\ d.last \in 0 .. MaxOverlays /\ d.lastCollection \in Collections

TypeOK ==
    /\ TablesOK(db) /\ TablesOK(disk)
    /\ tx \in BOOLEAN /\ (~tx => db = disk)
    /\ index \subseteq Overlays \X Boxes /\ saved \subseteq Overlays \X Boxes
    /\ clipboard \subseteq Overlays
    /\ lost \subseteq Overlays /\ stray \subseteq Overlays /\ diverged \in BOOLEAN
    /\ commands \in 0 .. MaxCommands

(* What can be clicked and drawn is what is stored: the index has one      *)
(* entry for every overlay, with its box of now, and none for others;      *)
(* except for overlays whose deletion or writing failed, and as long as    *)
(* every session was closed with no transaction left open.                 *)
IndexAgrees ==
    ~diverged =>
        \A o \in Overlays \ lost :
            {e \in index : e[1] = o} = Entries(db, {o})

(* Every overlay can be reached through a collection, whatever collections *)
(* it was pasted to and which of them were deleted; except where its       *)
(* writing or deletion failed, or the process was killed in the middle of  *)
(* the deletion of its collection.                                         *)
OverlaysReachable ==
    \A o \in DOMAIN db.row \ (lost \cup stray) : Loads(db, o)

(* A new overlay shares its id with nothing that is left of another one: a *)
(* membership, an entry of the index, a copied id.                         *)
NewIdsAreFresh ==
    [][\A o \in DOMAIN db'.row \ (DOMAIN db.row \cup DOMAIN disk.row) :
         /\ \A m \in db.member : m[1] # o
         /\ o \notin clipboard
         /\ ~diverged => \A e \in index : e[1] # o]_vars

=============================================================================
