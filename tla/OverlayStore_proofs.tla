------------------------- MODULE OverlayStore_proofs -------------------------
(***************************************************************************)
(* Proofs about OverlayStore, for any boxes and any bounds.  The inductive *)
(* invariant says of the committed tables what it says of the visible      *)
(* ones, because the end of a session brings them back, and that no id     *)
(* above `last' is mentioned anywhere.                                     *)
(***************************************************************************)
EXTENDS OverlayStore, SequenceTheorems, TLAPS

IsTables(d) ==
    /\ d.row \in [DOMAIN d.row -> Boxes]
    /\ TablesOK(d)

Shape ==
    /\ TypeOK
    /\ IsTables(db) /\ IsTables(disk)
    /\ db.last = disk.last

Ids ==
    /\ clipboard \subseteq 1 .. db.last
    /\ ~diverged => \A e \in index : e[1] \in 1 .. db.last

Reachable(d) == \A o \in DOMAIN d.row \ (lost \cup stray) : Loads(d, o)

IInv == Shape /\ Ids /\ IndexAgrees /\ Reachable(db) /\ Reachable(disk)

-----------------------------------------------------------------------------
(* The boxes of the objects that are written form a sequence.              *)
LEMMA ObjectsAreBoxes ==
  ASSUME NEW boxes \in Objects
  PROVE  /\ Len(boxes) \in Nat /\ Len(boxes) >= 1
         /\ \A i \in 1 .. Len(boxes) : boxes[i] \in Boxes
BY DEF Objects

(* INSERTs add the rows of the new ids and nothing else.                   *)
LEMMA InsertedRows ==
  ASSUME NEW d, IsTables(d), NEW boxes \in Objects, d.last + Len(boxes) <= MaxOverlays
  PROVE  LET rows == Inserted(d, boxes)
             new == NewIds(d, Len(boxes))
         IN  /\ IsTables(rows)
             /\ DOMAIN rows.row = DOMAIN d.row \cup new
             /\ \A o \in DOMAIN d.row \ new : rows.row[o] = d.row[o]
             /\ rows.member = d.member /\ rows.collection = d.collection
             /\ rows.last = d.last + Len(boxes) /\ rows.lastCollection = d.lastCollection
             /\ new \subseteq Overlays /\ new \subseteq 1 .. rows.last
             /\ new \cap (1 .. d.last) = {} /\ new # {}
<1> DEFINE new == NewIds(d, Len(boxes))
           first == CHOOSE o \in new : \A p \in new : o <= p
           row == [o \in DOMAIN d.row \cup new |->
                     IF o \in new THEN boxes[o - first + 1] ELSE d.row[o]]
<1>1. /\ Len(boxes) \in Nat /\ Len(boxes) >= 1 /\ \A i \in 1 .. Len(boxes) : boxes[i] \in Boxes
      /\ d.last \in Nat /\ d.last <= MaxOverlays /\ MaxOverlays \in Nat
  BY ObjectsAreBoxes, StoreAssumption DEF IsTables, TablesOK
<1>2. /\ d.last + 1 \in new /\ new = d.last + 1 .. d.last + Len(boxes)
      /\ \A p \in new : d.last + 1 <= p
  BY <1>1 DEF NewIds
<1>3. first = d.last + 1
  <2>1. \E q \in new : \A p \in new : q <= p
    BY <1>2
  <2>2. first \in new /\ \A p \in new : first <= p
    BY <2>1, Zenon
  <2> HIDE DEF first
  <2> QED BY <1>1, <1>2, <2>2
<1>4. \A o \in new : boxes[o - first + 1] \in Boxes
  <2> SUFFICES ASSUME NEW o \in new PROVE boxes[o - first + 1] \in Boxes
    OBVIOUS
  <2>1. o - first + 1 \in 1 .. Len(boxes)
    BY <1>1, <1>2, <1>3
  <2> QED BY <1>1, <2>1
<1>5. row \in [DOMAIN d.row \cup new -> Boxes]
  BY <1>4 DEF IsTables
<1>6. Inserted(d, boxes) = [row |-> row, member |-> d.member, collection |-> d.collection,
                            last |-> d.last + Len(boxes), lastCollection |-> d.lastCollection]
  BY DEF Inserted, IsTables, WithRows
<1> HIDE DEF row, first
<1>7. TablesOK(Inserted(d, boxes))
  BY <1>1, <1>2, <1>5, <1>6 DEF IsTables, TablesOK, Overlays
<1>8. \A o \in DOMAIN d.row \ new : row[o] = d.row[o]
  BY DEF row
<1> QED
  BY <1>1, <1>2, <1>5, <1>6, <1>7, <1>8 DEF IsTables, TablesOK, Overlays

(* Changes of one part of the tables keep their shape.                     *)
LEMMA TablesKept ==
  ASSUME NEW d, IsTables(d)
  PROVE  /\ \A member : member \subseteq (1 .. d.last) \X (1 .. d.lastCollection)
               => IsTables(WithMembers(d, member))
         /\ \A collection, n : /\ collection \subseteq 1 .. n
                               /\ n \in Collections /\ d.lastCollection <= n
               => IsTables(WithCollections(d, collection, n))
         /\ \A row : /\ row \in [DOMAIN row -> Boxes]
                     /\ DOMAIN row \subseteq DOMAIN d.row
               => IsTables(WithRows(d, row, d.last))
<1> USE DEF IsTables, TablesOK
<1>1. ASSUME NEW member, member \subseteq (1 .. d.last) \X (1 .. d.lastCollection)
      PROVE  IsTables(WithMembers(d, member))
  BY <1>1 DEF WithMembers
<1>2. ASSUME NEW collection, NEW n, collection \subseteq 1 .. n,
             n \in Collections, d.lastCollection <= n
      PROVE  IsTables(WithCollections(d, collection, n))
  BY <1>2, StoreAssumption DEF WithCollections, Collections
<1>3. ASSUME NEW row, row \in [DOMAIN row -> Boxes], DOMAIN row \subseteq DOMAIN d.row
      PROVE  IsTables(WithRows(d, row, d.last))
  BY <1>3 DEF WithRows
<1> QED BY <1>1, <1>2, <1>3

(* What the deletion of collections takes with it.                         *)
Gone(d, S) == UNION {In(d, c) : c \in S}

(* Every prefix of the deletion of collections leaves tables, and drops no *)
(* overlay and no membership outside of them.                              *)
DeletedFrom(d, S, e) ==
    /\ IsTables(e) /\ e.last = d.last
    /\ e.collection = d.collection \ S
    /\ \A m \in d.member : m[2] \notin S => m \in e.member

RowsLeft(d, S, e) == e.row = [o \in DOMAIN d.row \ Gone(d, S) |-> d.row[o]]

(* The three steps of CollectionSteps() are of that kind.                  *)
LEMMA StepsAreTables ==
  ASSUME NEW d, IsTables(d), NEW S
  PROVE  /\ \A k \in 1 .. 3 : DeletedFrom(d, S, CollectionSteps(d, S)[k])
         /\ CollectionSteps(d, S)[1].row = d.row
         /\ \A k \in 2 .. 3 : RowsLeft(d, S, CollectionSteps(d, S)[k])
<1> DEFINE first == WithCollections(d, d.collection \ S, d.lastCollection)
           second == WithRows(first, [o \in DOMAIN d.row \ Gone(d, S) |-> d.row[o]], d.last)
           third == WithMembers(second, {m \in d.member : m[2] \notin S})
<1>1. CollectionSteps(d, S) = <<first, second, third>>
  BY DEF CollectionSteps, Gone
<1>2. DeletedFrom(d, S, first) /\ first.row = d.row
  BY DEF IsTables, TablesOK, WithCollections, DeletedFrom
<1>3. DeletedFrom(d, S, second) /\ RowsLeft(d, S, second)
  BY DEF RowsLeft, IsTables, TablesOK, WithCollections, WithRows, DeletedFrom
<1>4. DeletedFrom(d, S, third) /\ RowsLeft(d, S, third)
  BY DEF RowsLeft, IsTables, TablesOK, WithCollections, WithRows, WithMembers, DeletedFrom
<1> HIDE DEF first, second, third
<1> QED BY <1>1, <1>2, <1>3, <1>4

-----------------------------------------------------------------------------
(* Shape and Ids hold at first.                                            *)
LEMMA Initially == Init => IInv
<1> SUFFICES ASSUME Init PROVE IInv
  OBVIOUS
<1> USE StoreAssumption DEF Init
<1>1. IsTables(Empty)
  BY DEF IsTables, TablesOK, Empty, Overlays, Collections
<1>2. Shape
  <2>1. IsTables(db) /\ IsTables(disk)
    BY <1>1
  <2>2. TypeOK
    <3>1. TablesOK(db) /\ TablesOK(disk)
      BY <2>1 DEF IsTables
    <3>2. commands \in 0 .. MaxCommands
      OBVIOUS
    <3>3. tx \in BOOLEAN /\ diverged \in BOOLEAN
      OBVIOUS
    <3> QED BY <3>1, <3>2, <3>3, Zenon DEF TypeOK
  <2> QED BY <2>1, <2>2 DEF Shape
<1> USE DEF Empty
<1>3. Ids /\ IndexAgrees
  BY DEF Ids, IndexAgrees, Entries, Stored
<1>4. Reachable(db) /\ Reachable(disk)
  BY DEF Reachable
<1> QED BY <1>2, <1>3, <1>4 DEF IInv

(* What storing tables of the same ids needs, and what it gives.           *)
LEMMA StoreKeepsTables ==
  ASSUME Shape, NEW e, IsTables(e), e.last = db.last, Store(e)
  PROVE  /\ IsTables(db') /\ IsTables(disk') /\ db'.last = disk'.last /\ db'.last = db.last
         /\ tx' \in BOOLEAN /\ (~tx' => db' = disk')
BY DEF Shape, TypeOK, Store

(* Writing overlays adds rows and entries of new ids.                      *)
LEMMA WriteKeeps ==
  ASSUME IInv, NEW c \in Collections, c <= db.lastCollection, NEW boxes \in Objects,
         Write(c, boxes)
  PROVE  IInv'
<1> DEFINE new == NewIds(db, Len(boxes))
           rows == Inserted(db, boxes)
           e == WithMembers(rows, rows.member \cup (new \X {c}))
<1>1. /\ db' = e /\ disk' = e /\ tx' = tx /\ index' = index \cup Entries(rows, new)
      /\ stray' = IF c \in db.collection THEN stray ELSE stray \cup new
      /\ UNCHANGED <<saved, clipboard, lost, diverged>>
      /\ commands' = commands + 1 /\ commands < MaxCommands
  BY DEF Write, Store, Command, IInv, Shape, TypeOK
<1>2. /\ IsTables(db) /\ TypeOK /\ db.last + Len(boxes) <= MaxOverlays
      /\ Len(boxes) \in Nat
  BY ObjectsAreBoxes DEF IInv, Shape, Write
<1>3. /\ IsTables(rows)
      /\ DOMAIN rows.row = DOMAIN db.row \cup new
      /\ \A o \in DOMAIN db.row \ new : rows.row[o] = db.row[o]
      /\ rows.member = db.member /\ rows.collection = db.collection
      /\ rows.last = db.last + Len(boxes) /\ rows.lastCollection = db.lastCollection
      /\ new \subseteq Overlays /\ new \subseteq 1 .. rows.last
      /\ new \cap (1 .. db.last) = {}
  BY <1>2, InsertedRows
<1>4. IsTables(e)
  <2>1. rows.member \cup (new \X {c}) \subseteq (1 .. rows.last) \X (1 .. rows.lastCollection)
    BY <1>3 DEF IsTables, TablesOK, Collections
  <2> QED BY <1>3, <2>1, TablesKept
<1>5. /\ e.row = rows.row /\ e.last = rows.last /\ e.collection = db.collection
      /\ e.member = db.member \cup (new \X {c})
  BY <1>3 DEF WithMembers
<1> HIDE DEF new, rows, e
<1>6. Entries(rows, new) \subseteq new \X Boxes
  BY <1>3 DEF Entries, Stored, IsTables
<1>7. Shape'
  <2>1. commands' \in 0 .. MaxCommands
    BY <1>1, <1>2, StoreAssumption DEF TypeOK
  <2>2. index' \subseteq Overlays \X Boxes /\ stray' \subseteq Overlays
    BY <1>1, <1>2, <1>3, <1>6 DEF TypeOK
  <2> QED BY <1>1, <1>2, <1>4, <2>1, <2>2 DEF Shape, TypeOK, IsTables
<1>8. Ids'
  BY <1>1, <1>2, <1>3, <1>5, <1>6 DEF IInv, Ids, IsTables, TablesOK
<1>9. IndexAgrees'
  <2> SUFFICES ASSUME ~diverged, NEW o \in Overlays \ lost
               PROVE  {x \in index' : x[1] = o} = Entries(e, {o})
    BY <1>1 DEF IndexAgrees
  <2>1. {x \in index : x[1] = o} = Entries(db, {o})
    BY DEF IInv, IndexAgrees
  <2>2. CASE o \in new
    BY <1>1, <1>3, <1>5, <2>1, <2>2 DEF Entries, Stored, IsTables, TablesOK, IInv, Shape
  <2>3. CASE o \notin new
    BY <1>1, <1>3, <1>5, <2>1, <2>3 DEF Entries, Stored
  <2> QED BY <2>2, <2>3
<1>10. Reachable(db)' /\ Reachable(disk)'
  BY <1>1, <1>3, <1>5 DEF IInv, Reachable, Loads
<1> QED BY <1>7, <1>8, <1>9, <1>10 DEF IInv

(* A failed write leaves rows that only `lost' and `stray' account for.    *)
LEMMA WriteFailsKeeps ==
  ASSUME IInv, NEW c \in Collections, c <= db.lastCollection, NEW boxes \in Objects,
         WriteFails(c, boxes)
  PROVE  IInv'
<1> DEFINE new == NewIds(db, Len(boxes))
           rows == Inserted(db, boxes)
<1>1. PICK S \in SUBSET new : Store(WithMembers(rows, rows.member \cup (S \X {c})))
  BY DEF WriteFails
<1> DEFINE e == WithMembers(rows, rows.member \cup (S \X {c}))
<1>2. /\ db' = e /\ disk' = e /\ tx' = tx
      /\ stray' = stray \cup new /\ lost' = lost \cup new
      /\ UNCHANGED <<index, saved, clipboard, diverged>>
      /\ commands' = commands + 1 /\ commands < MaxCommands
  BY <1>1 DEF WriteFails, Store, Command
<1>3. /\ IsTables(db) /\ TypeOK /\ db.last + Len(boxes) <= MaxOverlays
      /\ Len(boxes) \in Nat
  BY ObjectsAreBoxes DEF IInv, Shape, WriteFails
<1>4. /\ IsTables(rows)
      /\ DOMAIN rows.row = DOMAIN db.row \cup new
      /\ \A o \in DOMAIN db.row \ new : rows.row[o] = db.row[o]
      /\ rows.member = db.member /\ rows.collection = db.collection
      /\ rows.last = db.last + Len(boxes) /\ rows.lastCollection = db.lastCollection
      /\ new \subseteq Overlays /\ new \subseteq 1 .. rows.last
  BY <1>3, InsertedRows
<1>5. IsTables(e)
  <2>1. rows.member \cup (S \X {c}) \subseteq (1 .. rows.last) \X (1 .. rows.lastCollection)
    BY <1>4 DEF IsTables, TablesOK, Collections
  <2> QED BY <1>4, <2>1, TablesKept
<1>6. /\ e.row = rows.row /\ e.last = rows.last /\ e.collection = db.collection
      /\ db.member \subseteq e.member
  BY <1>4 DEF WithMembers
<1> HIDE DEF new, rows, e
<1>7. Shape'
  <2>1. commands' \in 0 .. MaxCommands
    BY <1>2, <1>3, StoreAssumption DEF TypeOK
  <2>2. lost' \subseteq Overlays /\ stray' \subseteq Overlays
    BY <1>2, <1>3, <1>4 DEF TypeOK
  <2> QED BY <1>2, <1>3, <1>5, <2>1, <2>2 DEF Shape, TypeOK, IsTables
<1>8. Ids'
  BY <1>2, <1>3, <1>4, <1>6 DEF IInv, Ids, IsTables, TablesOK
<1>9. IndexAgrees'
  BY <1>2, <1>4, <1>6 DEF IInv, IndexAgrees, Entries, Stored
<1>10. Reachable(db)' /\ Reachable(disk)'
  BY <1>2, <1>4, <1>6 DEF IInv, Reachable, Loads
<1> QED BY <1>7, <1>8, <1>9, <1>10 DEF IInv

(* A changed box is replaced in the row and in the index alike.            *)
LEMMA UpdateKeeps ==
  ASSUME IInv, NEW o \in Overlays, NEW box \in Boxes, Update(o, box)
  PROVE  IInv'
<1> DEFINE row == [db.row EXCEPT ![o] = box]
           e == WithRows(db, row, db.last)
<1>1. /\ Store(e) /\ o \in DOMAIN db.row
      /\ index' = (index \ {<<o, db.row[o]>>}) \cup {<<o, box>>}
      /\ UNCHANGED <<saved, clipboard, lost, stray, diverged>>
      /\ commands' = commands + 1 /\ commands < MaxCommands
  BY DEF Update, Command, Loads, history
<1>2. IsTables(db) /\ TypeOK /\ Shape
  BY DEF IInv, Shape
<1>3. /\ row \in [DOMAIN row -> Boxes] /\ DOMAIN row = DOMAIN db.row
      /\ row[o] = box /\ \A p \in DOMAIN db.row \ {o} : row[p] = db.row[p]
  BY <1>1, <1>2 DEF IsTables
<1>4. IsTables(e)
  BY <1>2, <1>3, TablesKept
<1>5. e.row = row /\ e.last = db.last /\ e.collection = db.collection /\ e.member = db.member
  BY DEF WithRows
<1> HIDE DEF row, e
<1>6. /\ IsTables(db') /\ IsTables(disk') /\ db'.last = disk'.last /\ db'.last = db.last
      /\ tx' \in BOOLEAN /\ (~tx' => db' = disk')
  BY <1>1, <1>2, <1>4, <1>5, StoreKeepsTables
<1>7. Shape'
  <2>1. commands' \in 0 .. MaxCommands
    BY <1>1, <1>2, StoreAssumption DEF TypeOK
  <2>2. index' \subseteq Overlays \X Boxes
    BY <1>1, <1>2 DEF TypeOK
  <2> QED BY <1>1, <1>2, <1>6, <2>1, <2>2 DEF Shape, TypeOK, IsTables
<1>8. db' = e /\ disk' \in {e, disk}
  BY <1>1 DEF Store
<1>9. Ids'
  <2>1. o \in 1 .. db.last
    BY <1>1, <1>2 DEF IsTables, TablesOK
  <2> QED BY <1>1, <1>6, <2>1 DEF IInv, Ids
<1>10. IndexAgrees'
  <2> SUFFICES ASSUME ~diverged, NEW p \in Overlays \ lost
               PROVE  {x \in index' : x[1] = p} = Entries(e, {p})
    BY <1>1, <1>8 DEF IndexAgrees
  <2>1. {x \in index : x[1] = p} = Entries(db, {p})
    BY DEF IInv, IndexAgrees
  <2>2. CASE p = o
    <3>1. Entries(db, {p}) = {<<o, db.row[o]>>} /\ Entries(e, {p}) = {<<o, box>>}
      BY <1>1, <1>3, <1>5, <2>2 DEF Entries, Stored
    <3>2. ASSUME NEW x PROVE x \in {y \in index' : y[1] = p} <=> x = <<o, box>>
      <4>1. x \in index /\ x[1] = o => x = <<o, db.row[o]>>
        BY <2>1, <2>2, <3>1
      <4> QED BY <1>1, <2>2, <4>1
    <3> QED BY <3>1, <3>2
  <2>3. CASE p # o
    <3>1. Entries(db, {p}) = Entries(e, {p})
      BY <1>3, <1>5, <2>3 DEF Entries, Stored
    <3> QED BY <1>1, <2>1, <2>3, <3>1
  <2> QED BY <2>2, <2>3
<1>11. Reachable(db)' /\ Reachable(disk)'
  BY <1>1, <1>3, <1>5, <1>8 DEF IInv, Reachable, Loads
<1> QED BY <1>7, <1>9, <1>10, <1>11 DEF IInv

(* The clipboard holds ids that were given out.                            *)
LEMMA CopyKeeps ==
  ASSUME IInv, NEW c, NEW S \in SUBSET In(db, c), Copy(S)
  PROVE  IInv'
<1>1. /\ clipboard' = S /\ UNCHANGED <<db, disk, tx, index, saved, lost, stray, diverged>>
      /\ commands' = commands + 1 /\ commands < MaxCommands
  BY DEF Copy, Command, history
<1>2. S \subseteq 1 .. db.last /\ S \subseteq Overlays
  <2>1. S \subseteq DOMAIN db.row
    BY DEF In
  <2>2. DOMAIN db.row \subseteq 1 .. db.last /\ db.last \in 0 .. MaxOverlays
    BY DEF IInv, Shape, TypeOK, TablesOK
  <2> QED BY <2>1, <2>2, StoreAssumption DEF Overlays
<1>3. Shape'
  <2>1. commands' \in 0 .. MaxCommands
    BY <1>1, StoreAssumption DEF IInv, Shape, TypeOK
  <2> QED BY <1>1, <1>2, <2>1 DEF IInv, Shape, TypeOK, IsTables, TablesOK
<1>4. Ids'
  BY <1>1, <1>2 DEF IInv, Ids
<1>5. IndexAgrees'
  BY <1>1 DEF IInv, IndexAgrees
<1>6. Reachable(db)' /\ Reachable(disk)'
  BY <1>1 DEF IInv, Reachable
<1> QED BY <1>3, <1>4, <1>5, <1>6 DEF IInv

(* Pasting adds memberships of known ids.                                  *)
LEMMA PasteKeeps ==
  ASSUME IInv, NEW c \in db.collection, Paste(c)
  PROVE  IInv'
<1> DEFINE e == WithMembers(db, db.member \cup (clipboard \X {c}))
<1>1. /\ Store(e) /\ UNCHANGED <<index, saved, clipboard, lost, stray, diverged>>
      /\ commands' = commands + 1 /\ commands < MaxCommands
  BY DEF Paste, Command, history
<1>2. Shape /\ TypeOK /\ IsTables(db) /\ clipboard \subseteq 1 .. db.last
  BY DEF IInv, Shape, Ids
<1>3. IsTables(e)
  <2>1. db.member \cup (clipboard \X {c}) \subseteq (1 .. db.last) \X (1 .. db.lastCollection)
    BY <1>2 DEF IsTables, TablesOK
  <2> QED BY <1>2, <2>1, TablesKept
<1>4. /\ e.row = db.row /\ e.last = db.last /\ e.collection = db.collection
      /\ db.member \subseteq e.member
  BY DEF WithMembers
<1> HIDE DEF e
<1>5. /\ IsTables(db') /\ IsTables(disk') /\ db'.last = disk'.last /\ db'.last = db.last
      /\ tx' \in BOOLEAN /\ (~tx' => db' = disk')
  BY <1>1, <1>2, <1>3, <1>4, StoreKeepsTables
<1>6. Shape'
  <2>1. commands' \in 0 .. MaxCommands
    BY <1>1, <1>2, StoreAssumption DEF TypeOK
  <2> QED BY <1>1, <1>2, <1>5, <2>1 DEF Shape, TypeOK, IsTables
<1>7. db' = e /\ disk' \in {e, disk}
  BY <1>1 DEF Store
<1>8. Ids'
  BY <1>1, <1>5 DEF IInv, Ids
<1>9. IndexAgrees'
  BY <1>1, <1>4, <1>7 DEF IInv, IndexAgrees, Entries, Stored
<1>10. Reachable(db)' /\ Reachable(disk)'
  BY <1>1, <1>4, <1>7 DEF IInv, Reachable, Loads
<1> QED BY <1>6, <1>8, <1>9, <1>10 DEF IInv

(* Overlays whose deletion fails are all in `lost'.                        *)
LEMMA DeleteOverlaysKeeps ==
  ASSUME IInv, NEW c \in db.collection, NEW S \in SUBSET In(db, c), NEW copied \in BOOLEAN,
         DeleteOverlays(c, S, copied)
  PROVE  IInv'
<1> DEFINE e == WithMembers(db, db.member \ (S \X {c}))
<1>1. /\ db' = IF tx THEN db ELSE e
      /\ disk' = disk /\ tx' = TRUE /\ index' = index \ Entries(db, S)
      /\ clipboard' = IF copied THEN S ELSE clipboard
      /\ lost' = lost \cup S
      /\ UNCHANGED <<saved, stray, diverged>>
      /\ commands' = commands + 1 /\ commands < MaxCommands
  BY DEF DeleteOverlays, Command
<1>2. Shape /\ TypeOK /\ IsTables(db)
  BY DEF IInv, Shape
<1>3. S \subseteq 1 .. db.last /\ S \subseteq Overlays
  <2>1. S \subseteq DOMAIN db.row
    BY DEF In
  <2>2. DOMAIN db.row \subseteq 1 .. db.last /\ db.last \in 0 .. MaxOverlays
    BY DEF IInv, Shape, TypeOK, TablesOK
  <2> QED BY <2>1, <2>2, StoreAssumption DEF Overlays
<1>4. IsTables(e)
  <2>1. db.member \ (S \X {c}) \subseteq (1 .. db.last) \X (1 .. db.lastCollection)
    BY <1>2 DEF IsTables, TablesOK
  <2> QED BY <1>2, <2>1, TablesKept
<1>5. /\ e.row = db.row /\ e.last = db.last /\ e.collection = db.collection
      /\ \A m \in db.member : m[1] \notin S => m \in e.member
  BY DEF WithMembers
<1> HIDE DEF e
<1>6. db' \in {db, e}
  BY <1>1
<1>7. Shape'
  <2>1. commands' \in 0 .. MaxCommands
    BY <1>1, <1>2, StoreAssumption DEF TypeOK
  <2>2. IsTables(db') /\ db'.last = db.last
    BY <1>2, <1>4, <1>5, <1>6
  <2>3. index' \subseteq Overlays \X Boxes /\ lost' \subseteq Overlays /\ clipboard' \subseteq Overlays
    BY <1>1, <1>2, <1>3 DEF TypeOK
  <2> QED BY <1>1, <1>2, <2>1, <2>2, <2>3 DEF Shape, TypeOK, IsTables
<1>8. Ids'
  BY <1>1, <1>3, <1>5, <1>6 DEF IInv, Ids
<1>9. IndexAgrees'
  <2> SUFFICES ASSUME ~diverged, NEW o \in Overlays \ lost'
               PROVE  {x \in index' : x[1] = o} = Entries(db', {o})
    BY <1>1 DEF IndexAgrees
  <2>1. {x \in index : x[1] = o} = Entries(db, {o}) /\ o \notin S
    BY <1>1 DEF IInv, IndexAgrees
  <2>2. Entries(db', {o}) = Entries(db, {o})
    BY <1>5, <1>6 DEF Entries, Stored
  <2>3. \A x \in Entries(db, S) : x[1] \in S
    BY DEF Entries, Stored
  <2> QED BY <1>1, <2>1, <2>2, <2>3
<1>10. Reachable(db)' /\ Reachable(disk)'
  BY <1>1, <1>5, <1>6 DEF IInv, Reachable, Loads
<1> QED BY <1>7, <1>8, <1>9, <1>10 DEF IInv

(* A new collection takes nothing away.                                    *)
LEMMA AddCollectionKeeps ==
  ASSUME IInv, AddCollection
  PROVE  IInv'
<1> DEFINE c == db.lastCollection + 1
           e == WithCollections(db, db.collection \cup {c}, c)
<1>1. /\ Store(e) /\ db.lastCollection < MaxCollections
      /\ UNCHANGED <<index, saved, clipboard, lost, stray, diverged>>
      /\ commands' = commands + 1 /\ commands < MaxCommands
  BY DEF AddCollection, Command, history
<1>2. Shape /\ TypeOK /\ IsTables(db)
  BY DEF IInv, Shape
<1>3. IsTables(e)
  <2>1. c \in Collections /\ db.lastCollection <= c /\ db.collection \cup {c} \subseteq 1 .. c
    BY <1>1, <1>2, StoreAssumption DEF IsTables, TablesOK, Collections
  <2> QED BY <1>2, <2>1, TablesKept
<1>4. /\ e.row = db.row /\ e.last = db.last /\ db.collection \subseteq e.collection
      /\ e.member = db.member
  BY DEF WithCollections
<1> HIDE DEF e
<1>5. /\ IsTables(db') /\ IsTables(disk') /\ db'.last = disk'.last /\ db'.last = db.last
      /\ tx' \in BOOLEAN /\ (~tx' => db' = disk')
  BY <1>1, <1>2, <1>3, <1>4, StoreKeepsTables
<1>6. Shape'
  <2>1. commands' \in 0 .. MaxCommands
    BY <1>1, <1>2, StoreAssumption DEF TypeOK
  <2> QED BY <1>1, <1>2, <1>5, <2>1 DEF Shape, TypeOK, IsTables
<1>7. db' = e /\ disk' \in {e, disk}
  BY <1>1 DEF Store
<1>8. Ids'
  BY <1>1, <1>5 DEF IInv, Ids
<1>9. IndexAgrees'
  BY <1>1, <1>4, <1>7 DEF IInv, IndexAgrees, Entries, Stored
<1>10. Reachable(db)' /\ Reachable(disk)'
  BY <1>1, <1>4, <1>7 DEF IInv, Reachable, Loads
<1> QED BY <1>6, <1>8, <1>9, <1>10 DEF IInv

(* The rows that survive a deletion of collections are in another one.     *)
LEMMA DeletionKeepsReach ==
  ASSUME IInv, NEW S, NEW k \in 2 .. 3
  PROVE  Reachable(CollectionSteps(db, S)[k])
<1> DEFINE e == CollectionSteps(db, S)[k]
<1>1. DeletedFrom(db, S, e) /\ DOMAIN e.row = DOMAIN db.row \ Gone(db, S)
  <2>1. IsTables(db) /\ k \in 1 .. 3
    BY DEF IInv, Shape
  <2>2. DeletedFrom(db, S, e)
    BY <2>1, StepsAreTables, Zenon
  <2>3. RowsLeft(db, S, e)
    BY <2>1, StepsAreTables, Zenon
  <2> QED BY <2>2, <2>3 DEF RowsLeft
<1> HIDE DEF e
<1>2. ASSUME NEW o \in DOMAIN e.row \ (lost \cup stray) PROVE Loads(e, o)
  <2>1. PICK c \in db.collection : <<o, c>> \in db.member
    BY <1>1, <1>2 DEF IInv, Reachable, Loads
  <2>2. c \notin S
    BY <1>1, <1>2, <2>1 DEF In, Gone
  <2> QED BY <1>1, <1>2, <2>1, <2>2 DEF Loads, DeletedFrom
<1> QED BY <1>2 DEF Reachable, e

(* Deleting collections takes overlays from rows and index together.       *)
LEMMA DeleteCollectionsKeeps ==
  ASSUME IInv, NEW S \in SUBSET db.collection, NEW folder \in BOOLEAN,
         DeleteCollections(S, folder)
  PROVE  IInv'
<1> DEFINE e == CollectionSteps(db, S)[3]
           gone == Gone(db, S)
<1>1. /\ index' = index \ Entries(db, gone)
      /\ UNCHANGED <<saved, clipboard, stray, diverged>>
      /\ commands' = commands + 1 /\ commands < MaxCommands
      /\ \/ Store(e) /\ lost' = lost
         \/ db' = db /\ disk' = disk /\ tx' = tx /\ lost' = lost \cup gone
  BY DEF DeleteCollections, Command, Gone
<1>2. Shape /\ TypeOK /\ IsTables(db)
  BY DEF IInv, Shape
<1>3. gone \subseteq Overlays
  <2>1. gone \subseteq DOMAIN db.row
    BY DEF In, Gone
  <2>2. DOMAIN db.row \subseteq 1 .. db.last /\ db.last \in 0 .. MaxOverlays
    BY DEF IInv, Shape, TypeOK, TablesOK
  <2> QED BY <2>1, <2>2, StoreAssumption DEF Overlays
<1>4. /\ IsTables(e) /\ e.last = db.last
      /\ DOMAIN e.row = DOMAIN db.row \ gone
      /\ \A o \in DOMAIN db.row \ gone : e.row[o] = db.row[o]
  <2>1. DeletedFrom(db, S, e)
    <3>1. 3 \in 1 .. 3
      OBVIOUS
    <3> QED BY <1>2, <3>1, StepsAreTables, Zenon
  <2>2. RowsLeft(db, S, e)
    <3>1. 3 \in 2 .. 3
      OBVIOUS
    <3> QED BY <1>2, <3>1, StepsAreTables, Zenon
  <2> QED BY <2>1, <2>2 DEF DeletedFrom, RowsLeft
<1>5. Reachable(e)
  BY DeletionKeepsReach
<1> HIDE DEF e, gone
<1>6. /\ IsTables(db') /\ IsTables(disk') /\ db'.last = disk'.last /\ db'.last = db.last
      /\ tx' \in BOOLEAN /\ (~tx' => db' = disk')
  <2>1. CASE Store(e)
    BY <1>2, <1>4, <2>1, StoreKeepsTables
  <2>2. CASE db' = db /\ disk' = disk /\ tx' = tx
    BY <1>2, <2>2 DEF Shape, TypeOK
  <2> QED BY <1>1, <2>1, <2>2
<1>7. Shape'
  <2>1. commands' \in 0 .. MaxCommands
    BY <1>1, <1>2, StoreAssumption DEF TypeOK
  <2>2. index' \subseteq Overlays \X Boxes /\ lost' \subseteq Overlays
    BY <1>1, <1>2, <1>3 DEF TypeOK
  <2> QED BY <1>1, <1>2, <1>6, <2>1, <2>2 DEF Shape, TypeOK, IsTables
<1>8. Ids'
  BY <1>1, <1>6 DEF IInv, Ids
<1>9. /\ db' = e \/ (db' = db /\ gone \subseteq lost')
      /\ disk' \in {e, disk} /\ lost \subseteq lost'
  BY <1>1 DEF Store
<1>10. IndexAgrees'
  <2> SUFFICES ASSUME ~diverged, NEW o \in Overlays \ lost'
               PROVE  {x \in index' : x[1] = o} = Entries(db', {o})
    BY <1>1 DEF IndexAgrees
  <2>1. {x \in index : x[1] = o} = Entries(db, {o})
    BY <1>9 DEF IInv, IndexAgrees
  <2>2. \A x \in Entries(db, gone) : x[1] \in gone
    BY DEF Entries, Stored
  <2>3. CASE o \in gone
    <3>1. Entries(db, {o}) \subseteq Entries(db, gone)
      BY <2>3 DEF Entries, Stored
    <3>2. Entries(db', {o}) = {}
      BY <1>4, <1>9, <2>3 DEF Entries, Stored
    <3> QED BY <1>1, <2>1, <3>1, <3>2
  <2>4. CASE o \notin gone
    <3>1. Entries(db', {o}) = Entries(db, {o})
      BY <1>4, <1>9, <2>4 DEF Entries, Stored
    <3> QED BY <1>1, <2>1, <2>2, <2>4, <3>1
  <2> QED BY <2>3, <2>4
<1>11. Reachable(db)' /\ Reachable(disk)'
  BY <1>1, <1>5, <1>9 DEF IInv, Reachable
<1> QED BY <1>7, <1>8, <1>10, <1>11 DEF IInv

(* The end of a session brings back the committed tables, of which the     *)
(* invariant says the same.                                                *)
LEMMA EndKeeps ==
  ASSUME IInv, Close \/ Killed \/ (\E c \in db.collection : KilledInDelete(c))
  PROVE  IInv'
<1>1. /\ commands' = commands + 1 /\ commands < MaxCommands /\ tx' = FALSE
      /\ clipboard' \subseteq clipboard /\ index' \in {index, saved, {}} /\ saved' = index'
      /\ lost' = lost /\ db' = disk'
  BY DEF Close, Killed, KilledInDelete, Dies, Ends, Command
<1>2. Shape /\ TypeOK
  BY DEF IInv, Shape
<1>3. /\ IsTables(disk') /\ disk'.last = db.last
      /\ stray' \subseteq Overlays /\ stray \subseteq stray' /\ Reachable(disk)'
  <2>1. CASE Close \/ Killed
    <3>1. disk' = disk /\ stray' = stray
      BY <2>1 DEF Close, Killed
    <3>2. Reachable(disk)'
      BY <1>1, <3>1 DEF IInv, Reachable
    <3> QED BY <1>2, <3>1, <3>2 DEF Shape, TypeOK
  <2>2. ASSUME NEW c \in db.collection, KilledInDelete(c)
        PROVE  /\ IsTables(disk') /\ disk'.last = db.last
               /\ stray' \subseteq Overlays /\ stray \subseteq stray' /\ Reachable(disk)'
    <3>1. PICK k \in 1 .. 2 : disk' = CollectionSteps(db, {c})[k]
      BY <2>2 DEF KilledInDelete
    <3>2. stray' = stray \cup In(db, c) /\ In(db, c) \subseteq Overlays
      <4>1. In(db, c) \subseteq DOMAIN db.row
        BY DEF In
      <4>2. DOMAIN db.row \subseteq 1 .. db.last /\ db.last \in 0 .. MaxOverlays
        BY DEF IInv, Shape, TypeOK, TablesOK
      <4> QED BY <2>2, <4>1, <4>2, StoreAssumption DEF Overlays, KilledInDelete
    <3>3. IsTables(disk') /\ disk'.last = db.last
      <4>1. IsTables(db) /\ k \in 1 .. 3
        BY <1>2 DEF Shape
      <4>2. DeletedFrom(db, {c}, CollectionSteps(db, {c})[k])
        BY <4>1, StepsAreTables, Zenon
      <4> QED BY <3>1, <4>2 DEF DeletedFrom
    <3>4. Reachable(disk)'
      <4>1. CASE k = 2
        <5>1. Reachable(disk')
          BY <3>1, <4>1, DeletionKeepsReach
        <5> QED BY <1>1, <3>2, <5>1 DEF Reachable
      <4>2. CASE k = 1
        <5>1. DeletedFrom(db, {c}, disk') /\ disk'.row = db.row
          <6>1. IsTables(db) /\ 1 \in 1 .. 3
            BY <1>2 DEF Shape
          <6>2. /\ DeletedFrom(db, {c}, CollectionSteps(db, {c})[1])
                /\ CollectionSteps(db, {c})[1].row = db.row
            BY <6>1, StepsAreTables, Zenon
          <6> QED BY <3>1, <4>2, <6>2
        <5>2. ASSUME NEW o \in DOMAIN db.row \ (lost \cup stray'), o \notin In(db, c)
              PROVE  Loads(disk', o)
          <6>1. PICK a \in db.collection : <<o, a>> \in db.member
            BY <3>2, <5>2 DEF IInv, Reachable, Loads
          <6>2. a # c
            BY <5>2, <6>1 DEF In
          <6> QED BY <5>1, <5>2, <6>1, <6>2 DEF Loads, DeletedFrom
        <5> QED BY <1>1, <3>2, <5>1, <5>2 DEF Reachable
      <4> QED BY <4>1, <4>2
    <3> QED BY <1>2, <3>2, <3>3, <3>4 DEF TypeOK
  <2> QED BY <2>1, <2>2
<1>4. diverged' \in BOOLEAN /\ (~diverged' => ~diverged /\ index' = index /\ db' = db)
  <2>1. CASE Close
    BY <1>2, <2>1 DEF Close, Ends, TypeOK
  <2>2. CASE ~Close
    BY <2>2 DEF Killed, KilledInDelete, Dies
  <2> QED BY <2>1, <2>2
<1>5. Shape'
  <2>1. commands' \in 0 .. MaxCommands
    BY <1>1, <1>2, StoreAssumption DEF TypeOK
  <2>2. /\ index' \subseteq Overlays \X Boxes /\ saved' \subseteq Overlays \X Boxes
        /\ clipboard' \subseteq Overlays
    BY <1>1, <1>2 DEF TypeOK
  <2>3. IsTables(db') /\ db'.last = disk'.last
    BY <1>1, <1>3
  <2> QED BY <1>1, <1>2, <1>3, <1>4, <2>1, <2>2, <2>3 DEF Shape, TypeOK, IsTables
<1>6. Ids'
  BY <1>1, <1>3, <1>4 DEF IInv, Ids
<1>7. IndexAgrees'
  BY <1>1, <1>4 DEF IInv, IndexAgrees
<1>8. Reachable(db)' /\ Reachable(disk)'
  BY <1>1, <1>3 DEF Reachable
<1> QED BY <1>5, <1>6, <1>7, <1>8 DEF IInv

-----------------------------------------------------------------------------
(* Every step keeps the invariant.                                         *)
LEMMA Kept == IInv /\ [Next]_vars => IInv'
<1> SUFFICES ASSUME IInv, [Next]_vars PROVE IInv'
  OBVIOUS
<1>1. ASSUME NEW c \in Collections, NEW boxes \in Objects, c <= db.lastCollection,
             Write(c, boxes) \/ WriteFails(c, boxes)
      PROVE  IInv'
  BY <1>1, WriteKeeps, WriteFailsKeeps
<1>2. ASSUME NEW o \in Overlays, NEW box \in Boxes, Update(o, box)
      PROVE  IInv'
  BY <1>2, UpdateKeeps
<1>3. ASSUME NEW c \in db.collection, NEW S \in SUBSET In(db, c),
             Copy(S) \/ \E copied \in BOOLEAN : DeleteOverlays(c, S, copied)
      PROVE  IInv'
  BY <1>3, CopyKeeps, DeleteOverlaysKeeps
<1>4. ASSUME NEW c \in db.collection, Paste(c) \/ KilledInDelete(c)
      PROVE  IInv'
  BY <1>4, PasteKeeps, EndKeeps
<1>5. ASSUME NEW S \in SUBSET db.collection, NEW folder \in BOOLEAN, DeleteCollections(S, folder)
      PROVE  IInv'
  BY <1>5, DeleteCollectionsKeeps
<1>6. CASE AddCollection
  BY <1>6, AddCollectionKeeps
<1>7. CASE Close \/ Killed
  BY <1>7, EndKeeps
<1>8. CASE UNCHANGED vars
  <2>1. UNCHANGED <<db, disk, tx, index, saved, clipboard, commands, lost, stray, diverged>>
    BY <1>8 DEF vars, history
  <2>2. Shape'
    BY <2>1 DEF IInv, Shape, TypeOK, IsTables, TablesOK
  <2>3. Ids' /\ IndexAgrees'
    BY <2>1 DEF IInv, Ids, IndexAgrees
  <2>4. Reachable(db)' /\ Reachable(disk)'
    BY <2>1 DEF IInv, Reachable
  <2> QED BY <2>2, <2>3, <2>4 DEF IInv
<1> QED BY <1>1, <1>2, <1>3, <1>4, <1>5, <1>6, <1>7, <1>8 DEF Next

(* The inductive invariant holds.                                          *)
LEMMA Invariant == Spec => []IInv
BY Initially, Kept, PTL DEF Spec

(* Type correctness, with committed and visible tables equal outside of    *)
(* transactions.                                                           *)
THEOREM Typing == Spec => []TypeOK
<1>1. IInv => TypeOK
  BY DEF IInv, Shape
<1> QED BY <1>1, Invariant, PTL

(* The spatial index stays in step with the tables (write(), update() and  *)
(* the deletions of map_overlay_manager.cpp).                              *)
THEOREM IndexInStep == Spec => []IndexAgrees
<1>1. IInv => IndexAgrees
  BY DEF IInv
<1> QED BY <1>1, Invariant, PTL

(* Overlays stay reachable through a collection.                           *)
THEOREM StaysReachable == Spec => []OverlaysReachable
<1>1. IInv => OverlaysReachable
  BY DEF IInv, Reachable, OverlaysReachable
<1> QED BY <1>1, Invariant, PTL

(* A step that is no write shows no row that was not there or committed.   *)
LEMMA OnlyWritesAddRows ==
  ASSUME IInv, [Next]_vars,
         ~\E c \in Collections, boxes \in Objects : Write(c, boxes) \/ WriteFails(c, boxes)
  PROVE  DOMAIN db'.row \subseteq DOMAIN db.row \cup DOMAIN disk.row
<1>1. ASSUME NEW S, NEW k \in 1 .. 3
      PROVE  DOMAIN CollectionSteps(db, S)[k].row \subseteq DOMAIN db.row
  <2> IsTables(db)
    BY DEF IInv, Shape
  <2>1. CASE k = 1
    BY <2>1, StepsAreTables
  <2>2. CASE k \in 2 .. 3
    <3>1. RowsLeft(db, S, CollectionSteps(db, S)[k])
      BY <2>2, StepsAreTables, Zenon
    <3> QED BY <3>1 DEF RowsLeft
  <2> QED BY <2>1, <2>2
<1>2. ASSUME NEW o \in Overlays, NEW box \in Boxes, Update(o, box)
      PROVE  DOMAIN db'.row = DOMAIN db.row
  BY <1>2 DEF Update, Store, WithRows
<1>3. ASSUME NEW c, NEW S, Copy(S) \/ \E copied \in BOOLEAN : DeleteOverlays(c, S, copied)
      PROVE  db'.row = db.row
  BY <1>3 DEF Copy, DeleteOverlays, WithMembers
<1>4. ASSUME NEW c, Paste(c)
      PROVE  db'.row = db.row
  BY <1>4 DEF Paste, Store, WithMembers
<1>5. ASSUME NEW c, KilledInDelete(c)
      PROVE  DOMAIN db'.row \subseteq DOMAIN db.row
  BY <1>1, <1>5 DEF KilledInDelete
<1>6. ASSUME NEW S, NEW folder \in BOOLEAN, DeleteCollections(S, folder)
      PROVE  DOMAIN db'.row \subseteq DOMAIN db.row
  BY <1>1, <1>6 DEF DeleteCollections, Store
<1>7. ASSUME AddCollection
      PROVE  db'.row = db.row
  BY <1>7 DEF AddCollection, Store, WithCollections
<1>8. ASSUME Close \/ Killed
      PROVE  db' = disk
  BY <1>8 DEF Close, Killed
<1>9. ASSUME UNCHANGED vars
      PROVE  db' = db
  BY <1>9 DEF vars
<1> QED BY <1>2, <1>3, <1>4, <1>5, <1>6, <1>7, <1>8, <1>9 DEF Next

(* Nothing that is left of an overlay is taken for a new one.              *)
THEOREM FreshIds == Spec => NewIdsAreFresh
<1>1. ASSUME IInv, [Next]_vars, NEW o \in DOMAIN db'.row \ (DOMAIN db.row \cup DOMAIN disk.row)
      PROVE  /\ \A m \in db.member : m[1] # o
             /\ o \notin clipboard
             /\ ~diverged => \A e \in index : e[1] # o
  <2>1. PICK c \in Collections, boxes \in Objects : Write(c, boxes) \/ WriteFails(c, boxes)
    BY <1>1, OnlyWritesAddRows
  <2>2. o \in NewIds(db, Len(boxes))
    <3>1. IsTables(db) /\ db.last + Len(boxes) <= MaxOverlays
      BY <1>1, <2>1 DEF IInv, Shape, Write, WriteFails
    <3>2. db'.row = Inserted(db, boxes).row
      BY <2>1 DEF Write, WriteFails, Store, WithMembers
    <3> QED BY <1>1, <3>1, <3>2, InsertedRows
  <2>3. o \notin 1 .. db.last
    BY <1>1, <2>1, <2>2, InsertedRows DEF IInv, Shape, Write, WriteFails
  <2> QED BY <1>1, <2>3 DEF IInv, Ids, Shape, TypeOK, TablesOK
<1>2. IInv /\ [Next]_vars => [\A o \in DOMAIN db'.row \ (DOMAIN db.row \cup DOMAIN disk.row) :
         /\ \A m \in db.member : m[1] # o
         /\ o \notin clipboard
         /\ ~diverged => \A e \in index : e[1] # o]_vars
  BY <1>1
<1> QED BY <1>2, Invariant, PTL DEF Spec, NewIdsAreFresh
=============================================================================
