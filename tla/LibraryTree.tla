---------------------------- MODULE LibraryTree -----------------------------
(***************************************************************************)
(* The tree of the overlay library of the viewer: the folders and          *)
(* collections of the database (map_overlay_manager.cpp) and the nodes the *)
(* panel keeps of them (overlay_library_panel.cpp).                        *)
(*                                                                         *)
(* The visibility of a folder is spread by triggers that are created for   *)
(* one UPDATE and dropped after it.  Each of those statements commits on   *)
(* its own, so a process that is killed may leave a trigger behind; and    *)
(* triggers fire each other only where recursive_triggers is set, which is *)
(* on the connection that created the database.                            *)
(*                                                                         *)
(* Names, icons and the order of rows are left out.  Overlays are in       *)
(* OverlayStore.                                                           *)
(***************************************************************************)
EXTENDS Naturals, Sequences, FiniteSets

CONSTANTS MaxFolders,      \* bound: folders ever created
          MaxCollections,  \* bound: collections ever created
          MaxCommands      \* bound: commands of the user

ASSUME BoundsAssumption ==
    MaxFolders \in Nat \ {0} /\ MaxCollections \in Nat /\ MaxCommands \in Nat

VARIABLES db,        \* the rows and triggers of the database
          recursive, \* PRAGMA recursive_triggers of the connection
          folders,   \* nodes of folders in the panel, by id
          items,     \* nodes of collections in the panel, by id and origin
          pending,   \* folders whose pending_ is not zero
          commands,  \* how many commands the user gave
          (* history *)
          looped,    \* folders that were moved into their own subtree
          emptied,   \* folders whose node was replaced by a childless one
          twice,     \* collections that were shown by two nodes
          misread    \* rows kept because deleteItem read a freed node

panel == <<folders, items, pending>>
history == <<looped, emptied, twice, misread>>
vars == <<db, recursive, panel, commands, history>>

Root == 0      \* the id of root_, and of the parent of 'Library'
Library == 1

FolderIds == 1 .. MaxFolders
CollectionIds == 1 .. MaxCollections

(* A collection may have a node that was added with it and one that        *)
(* loadPending made later.                                                 *)
Origins == {"added", "loaded"}

Row(parent, visible) == [parent |-> parent, visible |-> visible]
Node(parent, checked, moved) ==
    [parent |-> parent, checked |-> checked, moved |-> moved]

Parents(table) == [x \in DOMAIN table |-> table[x].parent]
Without(table, S) == [x \in DOMAIN table \ S |-> table[x]]
With(table, x, row) ==
    [y \in DOMAIN table \cup {x} |-> IF y = x THEN row ELSE table[y]]
Shown(c) == {i \in DOMAIN items : i[1] = c}

(* Everything below f, where parent maps folders to their parents: the     *)
(* least set closed under children.                                        *)
Below(parent, f) ==
    LET Closed(S) == \A g \in DOMAIN parent : parent[g] \in S \cup {f} => g \in S
    IN  {g \in DOMAIN parent : \A S \in SUBSET DOMAIN parent : Closed(S) => g \in S}
Above(parent, f) == {g \in DOMAIN parent : f \in Below(parent, g)}
Children(parent, f) == {g \in DOMAIN parent : parent[g] = f}

-----------------------------------------------------------------------------
(* The rows.                                                               *)

getFolderCollections(d, f) ==
    {c \in DOMAIN d.collection : d.collection[c].parent = f}

addNewFolder(d, p) ==
    LET f == d.lastFolder + 1
    IN  [d EXCEPT !.folder = With(@, f, Row(p, TRUE)), !.lastFolder = f]

addNewCollection(d, p) ==
    LET c == d.lastCollection + 1
    IN  [d EXCEPT !.collection = With(@, c, Row(p, TRUE)), !.lastCollection = c]

(* In the database: a folder and the collection in it.  Folders inside it  *)
(* repeat the same step.                                                   *)
addCollectionTree(d, p) == addNewCollection(addNewFolder(d, p), d.lastFolder + 1)

moveFolder(d, f, to) == [d EXCEPT !.folder[f] = Row(to, @.visible)]

moveCollection(d, c, to) ==
    [d EXCEPT !.collection = [x \in DOMAIN @ |->
        IF x = c THEN Row(to, @[x].visible) ELSE @[x]]]

deleteCollection(d, c) == [d EXCEPT !.collection = Without(@, {c})]

-----------------------------------------------------------------------------
(* Visibility in the database.                                             *)

(* The folders that are updated directly by an UPDATE of the visibility of *)
(* folder f: with folder_visibility its children, with                     *)
(* parent_folder_visibility (for TRUE only) its parent.  Without           *)
(* recursive_triggers no trigger fires within itself.                      *)
Fires(d, f, state) ==
    LET up == Parents(d.folder)
        rise == "parent_folder_visibility" \in d.triggers /\ state
        start == {f} \cap DOMAIN up
        parent == {up[g] : g \in start} \cap DOMAIN up
        risen == IF rise THEN IF recursive THEN Above(up, f) ELSE parent ELSE {}
        fired == IF recursive /\ "folder_visibility" \in d.triggers THEN Below(up, f) ELSE {}
    IN  start \cup risen \cup fired

(* What it touches: with folder_visibility the children and collections of *)
(* all of them, too.                                                       *)
Updated(d, f, state) ==
    LET up == Parents(d.folder)
        down == "folder_visibility" \in d.triggers
        fires == Fires(d, f, state)
        spread == IF down THEN UNION {Children(up, g) : g \in fires} ELSE {}
    IN  [d EXCEPT
          !.folder = [g \in DOMAIN up |-> IF g \in fires \cup spread
                                          THEN Row(up[g], state) ELSE @[g]],
          !.collection = [c \in DOMAIN @ |-> IF down /\ @[c].parent \in fires
                                             THEN Row(@[c].parent, state) ELSE @[c]]]

(* Mutant: the trigger stays.                                              *)
BugKeepsTrigger(d, trigger, f, state) ==
    LET created == [d EXCEPT !.triggers = @ \cup {trigger}]
    IN  <<created, Updated(created, f, state)>>

(* CREATE TRIGGER, the UPDATE and DROP TRIGGER, as the states of the       *)
(* database after each; CREATE throws when the trigger is there already.   *)
WithTrigger(d, trigger, f, state) ==
    IF trigger \in d.triggers THEN <<>>
    ELSE LET created == [d EXCEPT !.triggers = @ \cup {trigger}]
             updated == Updated(created, f, state)
         IN  <<created, updated, [updated EXCEPT !.triggers = @ \ {trigger}]>>

EndOf(d, steps) == IF steps = <<>> THEN d ELSE steps[Len(steps)]

FolderVisibility(d, f, state) ==
    LET first == WithTrigger(d, "folder_visibility", f, state)
    IN  IF first = <<>> \/ ~state THEN first
        ELSE first \o WithTrigger(EndOf(d, first), "parent_folder_visibility", f, TRUE)

CollectionVisibility(d, c, state) ==
    LET updated == [d EXCEPT !.collection = [x \in DOMAIN @ |->
                        IF x = c THEN Row(@[x].parent, state) ELSE @[x]]]
    IN  <<updated>> \o (IF state /\ c \in DOMAIN d.collection
                        THEN WithTrigger(updated, "parent_folder_visibility",
                                         d.collection[c].parent, TRUE)
                        ELSE <<>>)

-----------------------------------------------------------------------------
(* The panel.                                                              *)

(* populate(): all folders that can be reached from root_; collections     *)
(* wait until their folder is expanded.                                    *)
Populate(d) ==
    LET reached == Below(Parents(d.folder), Root)
    IN  /\ folders' = [f \in reached |->
                         Node(d.folder[f].parent, d.folder[f].visible, FALSE)]
        /\ items' = <<>>
        /\ pending' = {f \in reached : getFolderCollections(d, f) # {}}

(* loadPending(): a node for every collection of the folder in the         *)
(* database, also for one that has a node already.                         *)
Loaded(f) ==
    LET cs == IF f \in pending THEN getFolderCollections(db, f) ELSE {}
        new == cs \X {"loaded"}
    IN  [i \in new \cup DOMAIN items |->
           IF i \in new THEN Node(f, db.collection[i[1]].visible, FALSE) ELSE items[i]]
LoadedTwice(f) == {c \in CollectionIds : Cardinality({i \in DOMAIN Loaded(f) : i[1] = c}) = 2}

(* Mutant: the folders above are forgotten.                                *)
BugChecksDownOnly(state, hitFolders, hitItems, above) ==
    /\ folders' = [g \in DOMAIN folders |->
         IF g \in hitFolders THEN Node(folders[g].parent, state, FALSE) ELSE folders[g]]
    /\ items' = [i \in DOMAIN items |->
         IF i \in hitItems THEN Node(items[i].parent, state, FALSE) ELSE items[i]]
    /\ UNCHANGED pending

(* changeCheckedState() of what is at or below the nodes hit, and of the   *)
(* folders above.                                                          *)
Checked(state, hitFolders, hitItems, above) ==
    /\ folders' = [g \in DOMAIN folders |->
         IF g \in hitFolders THEN Node(folders[g].parent, state, FALSE)
         ELSE IF state /\ g \in above THEN Node(folders[g].parent, TRUE, FALSE)
         ELSE folders[g]]
    /\ items' = [i \in DOMAIN items |->
         IF i \in hitItems THEN Node(items[i].parent, state, FALSE) ELSE items[i]]
    /\ UNCHANGED pending

Command == commands < MaxCommands /\ commands' = commands + 1

(* Mutant: pending_ is cleared and nothing is loaded.                      *)
BugFetchesNothing(f) ==
    /\ f \in pending
    /\ pending' = pending \ {f}
    /\ UNCHANGED <<db, recursive, folders, items, commands, history>>

FetchMore(f) ==
    /\ f \in pending
    /\ items' = Loaded(f)
    /\ pending' = pending \ {f}
    /\ twice' = twice \cup LoadedTwice(f)
    /\ UNCHANGED <<db, recursive, folders, commands, looped, emptied, misread>>

AddFolder(p) ==
    /\ Command
    /\ p \in DOMAIN folders /\ db.lastFolder < MaxFolders
    /\ db' = addNewFolder(db, p)
    /\ folders' = With(folders, db'.lastFolder, Node(p, TRUE, FALSE))
    /\ UNCHANGED <<recursive, items, pending, history>>

(* Mutant: the id of a row that was deleted is given out again.            *)
BugReusesIds(p) ==
    /\ Command
    /\ p \in DOMAIN folders /\ db.lastCollection < MaxCollections
    /\ LET c == CHOOSE x \in 1 .. MaxCollections : x \notin DOMAIN db.collection
       IN  /\ db' = [db EXCEPT !.collection = With(@, c, Row(p, TRUE))]
           /\ items' = With(items, <<c, "added">>, Node(p, TRUE, FALSE))
    /\ UNCHANGED <<recursive, folders, pending, history>>

(* A new collection, or one that was imported from a GPX file.             *)
AddCollection(p) ==
    /\ Command
    /\ p \in DOMAIN folders /\ db.lastCollection < MaxCollections
    /\ db' = addNewCollection(db, p)
    /\ items' = With(items, <<db'.lastCollection, "added">>, Node(p, TRUE, FALSE))
    /\ UNCHANGED <<recursive, folders, pending, history>>

(* A KML file: a folder with the collection of its overlays.               *)
AddCollectionTree(p) ==
    /\ Command
    /\ p \in DOMAIN folders
    /\ db.lastFolder < MaxFolders /\ db.lastCollection < MaxCollections
    /\ db' = addCollectionTree(db, p)
    /\ folders' = With(folders, db'.lastFolder, Node(p, TRUE, FALSE))
    /\ items' = With(items, <<db'.lastCollection, "added">>,
                     Node(db'.lastFolder, TRUE, FALSE))
    /\ UNCHANGED <<recursive, pending, history>>

(* moveItem() of a folder: the collections of the target are loaded, the   *)
(* row moves, a node without children is put into the target, and the old  *)
(* node goes with all that is below it, the new one included when the      *)
(* target is there.                                                        *)
MoveFolder(f, to) ==
    /\ Command
    /\ {f, to} \subseteq DOMAIN folders
    /\ LET below == Below(Parents(folders), f)
           loop == to \in below \cup {f}
           gone == IF loop THEN below \cup {f} ELSE below
           moved == With(folders, f, Node(to, TRUE, TRUE))
       IN  /\ db' = moveFolder(db, f, to)
           /\ folders' = Without(moved, gone)
           /\ items' = LET all == Loaded(to)
                       IN  Without(all, {i \in DOMAIN all :
                                           all[i].parent \in below \cup {f}})
           /\ pending' = pending \ (below \cup {f, to})
           /\ looped' = IF loop THEN looped \cup {f} ELSE looped
    /\ emptied' = emptied \cup {f}
    /\ twice' = twice \cup LoadedTwice(to)
    /\ UNCHANGED <<recursive, misread>>

(* Mutant: the node moves, the row does not.                               *)
BugMovesNode(i, to) ==
    /\ Command
    /\ i \in DOMAIN items /\ to \in DOMAIN folders
    /\ items' = With(Loaded(to), i, Node(to, TRUE, TRUE))
    /\ pending' = pending \ {to}
    /\ twice' = twice \cup LoadedTwice(to)
    /\ UNCHANGED <<db, recursive, folders, looped, emptied, misread>>

(* moveItem() of a collection.                                             *)
MoveCollection(i, to) ==
    /\ Command
    /\ i \in DOMAIN items /\ to \in DOMAIN folders
    /\ db' = moveCollection(db, i[1], to)
    /\ items' = With(Loaded(to), i, Node(to, TRUE, TRUE))
    /\ pending' = pending \ {to}
    /\ twice' = twice \cup LoadedTwice(to)
    /\ UNCHANGED <<recursive, folders, looped, emptied, misread>>

(* Mutant: as deleteFolders(), one level only.                             *)
BugDeletesOneLevel(d, f) ==
    LET gone == Children(Parents(d.folder), f) \cup {f}
    IN  [d EXCEPT !.folder = Without(@, gone),
                  !.collection = Without(@, {c \in DOMAIN @ : @[c].parent \in gone})]

(* deleteFolder(): the folder, its collections, and all folders below.     *)
DeletedFolder(d, f) ==
    LET gone == Below(Parents(d.folder), f) \cup {f}
    IN  [d EXCEPT !.folder = Without(@, gone),
                  !.collection = Without(@, {c \in DOMAIN @ : @[c].parent \in gone})]

(* deleteItem() frees the node, with what is below it, and then reads the  *)
(* kind and the id out of it: the rows go, or, when the memory was used    *)
(* again meanwhile, those of an id that no row has.                        *)
DeleteFolder(f) ==
    /\ Command
    /\ f \in DOMAIN folders
    /\ LET gone == Below(Parents(folders), f) \cup {f}
       IN  /\ folders' = Without(folders, gone)
           /\ items' = Without(items, {i \in DOMAIN items : items[i].parent \in gone})
           /\ pending' = pending \ gone
    /\ \/ db' = DeletedFolder(db, f) /\ UNCHANGED misread
       \/ db' = db /\ misread' = misread \cup {f}
    /\ UNCHANGED <<recursive, looped, emptied, twice>>

DeleteCollection(i) ==
    /\ Command
    /\ i \in DOMAIN items
    /\ items' = Without(items, {i})
    /\ \/ db' = deleteCollection(db, i[1]) /\ UNCHANGED misread
       \/ db' = db /\ misread' = misread \cup {db.collection[c].parent :
                                                 c \in {i[1]} \cap DOMAIN db.collection}
    /\ UNCHANGED <<recursive, folders, pending, looped, emptied, twice>>

(* setData() with the check state of a node.                               *)
CheckFolder(f, state) ==
    /\ Command
    /\ f \in DOMAIN folders
    /\ LET hit == Below(Parents(folders), f) \cup {f}
       IN  Checked(state, hit, {i \in DOMAIN items : items[i].parent \in hit},
                   Above(Parents(folders), f))
    /\ db' = EndOf(db, FolderVisibility(db, f, state))
    /\ UNCHANGED <<recursive, history>>

CheckCollection(i, state) ==
    /\ Command
    /\ i \in DOMAIN items
    /\ LET p == items[i].parent
       IN  Checked(state, {}, {i}, {p} \cup Above(Parents(folders), p))
    /\ db' = EndOf(db, CollectionVisibility(db, i[1], state))
    /\ UNCHANGED <<recursive, history>>

(* The next session, on a database that exists: the panel is made anew and *)
(* recursive_triggers is off.                                              *)
Reopen(d) ==
    /\ db' = d
    /\ Populate(d)
    /\ recursive' = FALSE
    /\ emptied' = {} /\ twice' = {} /\ misread' = {}
    /\ UNCHANGED looped

Restart == Command /\ Reopen(db)

(* The process is killed between two statements of a change of visibility. *)
Killed ==
    /\ Command
    /\ \E state \in BOOLEAN :
         \E steps \in {FolderVisibility(db, f, state) : f \in DOMAIN folders}
                \cup {CollectionVisibility(db, i[1], state) : i \in DOMAIN items} :
           \E k \in 1 .. Len(steps) - 1 : Reopen(steps[k])

-----------------------------------------------------------------------------
Init ==
    /\ db = [folder |-> [f \in {Library} |-> Row(Root, TRUE)], collection |-> <<>>,
             triggers |-> {}, lastFolder |-> Library, lastCollection |-> 0]
    /\ recursive = TRUE
    /\ folders = [f \in {Library} |-> Node(Root, TRUE, FALSE)]
    /\ items = <<>>
    /\ pending = {}
    /\ commands = 0
    /\ looped = {} /\ emptied = {} /\ twice = {} /\ misread = {}

Next ==
    \/ \E f \in FolderIds :
         \/ FetchMore(f) \/ AddFolder(f) \/ AddCollection(f) \/ AddCollectionTree(f)
         \/ DeleteFolder(f)
         \/ \E to \in FolderIds : MoveFolder(f, to)
         \/ \E state \in BOOLEAN : CheckFolder(f, state)
    \/ \E i \in CollectionIds \X Origins :
         \/ DeleteCollection(i)
         \/ \E to \in FolderIds : MoveCollection(i, to)
         \/ \E state \in BOOLEAN : CheckCollection(i, state)
    \/ Restart
    \/ Killed

Spec == Init /\ [][Next]_vars

-----------------------------------------------------------------------------
(* Properties.                                                             *)

FolderRow == [parent : 0 .. MaxFolders, visible : BOOLEAN]
PanelNode == [parent : 0 .. MaxFolders, checked : BOOLEAN, moved : BOOLEAN]

(* The shape of the state; no id is used before it was given out.          *)
TypeOK ==
    /\ db.lastFolder \in FolderIds /\ db.lastCollection \in 0 .. MaxCollections
    /\ DOMAIN db.folder \subseteq 1 .. db.lastFolder
    /\ \A f \in DOMAIN db.folder : db.folder[f] \in FolderRow
    /\ DOMAIN db.collection \subseteq 1 .. db.lastCollection
    /\ \A c \in DOMAIN db.collection : db.collection[c] \in FolderRow
    /\ db.triggers \subseteq {"folder_visibility", "parent_folder_visibility"}
    /\ recursive \in BOOLEAN
    /\ DOMAIN folders \subseteq FolderIds
    /\ \A f \in DOMAIN folders : folders[f] \in PanelNode
    /\ DOMAIN items \subseteq CollectionIds \X Origins
    /\ \A i \in DOMAIN items : items[i] \in PanelNode
    /\ pending \subseteq DOMAIN folders
    /\ commands \in 0 .. MaxCommands

(* Nothing in the database is out of reach: every collection is in a       *)
(* folder that exists and every folder hangs from the root, except for a   *)
(* folder that moveFolder() put into its own subtree and what is below it. *)
NoOrphans ==
    LET up == Parents(db.folder)
    IN  /\ \A c \in DOMAIN db.collection : db.collection[c].parent \in DOMAIN up
        /\ \A f \in DOMAIN up :
             \/ f \in Below(up, Root)
             \/ \E g \in looped \cap DOMAIN up : f \in Below(up, g)

(* What the panel shows is in the database, in the same folder, so that a  *)
(* command on a node means the row it stands for; except for a collection  *)
(* that loadPending() has shown a second time.                             *)
ShownIsStored ==
    /\ \A f \in DOMAIN folders :
         f \in DOMAIN db.folder /\ folders[f].parent = db.folder[f].parent
    /\ \A i \in DOMAIN items : i[1] \notin twice =>
         /\ i[1] \in DOMAIN db.collection
         /\ items[i].parent = db.collection[i[1]].parent

(* The other way round: a folder of the database whose parent is shown is  *)
(* shown, and so is a collection once its folder was expanded; except      *)
(* below a folder that was moved in this session, whose node is made anew  *)
(* without children, and rows that deleteItem() failed to delete.          *)
StoredIsShown ==
    /\ \A f \in DOMAIN db.folder :
         LET p == db.folder[f].parent
         IN  p \in DOMAIN folders \cup {Root} /\ f \notin looped \cup misread =>
               f \in DOMAIN folders \/ p \in emptied
    /\ \A c \in DOMAIN db.collection :
         LET p == db.collection[c].parent
         IN  p \in DOMAIN folders \ (pending \cup emptied \cup misread) => Shown(c) # {}

(* The check marks agree with the visibility in the database, although one *)
(* is spread over the loaded nodes by changeCheckedState() and the other   *)
(* over the rows by triggers: in the session that created the database, as *)
(* long as no collection is shown twice, and but for a node that           *)
(* moveItem() made, which is checked whatever the row says.                *)
ChecksAgree ==
    recursive /\ twice = {} =>
        /\ \A f \in DOMAIN folders : ~folders[f].moved =>
             folders[f].checked = db.folder[f].visible
        /\ \A i \in DOMAIN items : ~items[i].moved =>
             items[i].checked = db.collection[i[1]].visible

(* A check mark that is set or cleared changes what it should: the folder  *)
(* and the collections in it take the new state, nothing beside the folder,*)
(* what is below and what is above it changes, and a mark on a collection  *)
(* leaves the other collections alone; in a later session only if no       *)
(* process that was killed left a trigger behind.                          *)
TogglesAreExact ==
    [][/\ \A f \in FolderIds, state \in BOOLEAN :
            CheckFolder(f, state) /\ (recursive \/ db.triggers = {}) =>
              /\ db'.folder[f].visible = state
              /\ \A c \in DOMAIN db.collection : db.collection[c].parent = f =>
                   db'.collection[c].visible = state
              /\ LET up == Parents(db.folder)
                     near == Below(up, f) \cup Above(up, f) \cup {f}
                 IN  /\ \A g \in DOMAIN up \ near : db'.folder[g] = db.folder[g]
                     /\ \A c \in DOMAIN db.collection :
                          db.collection[c].parent \notin near =>
                            db'.collection[c] = db.collection[c]
       /\ \A i \in DOMAIN items, state \in BOOLEAN :
            CheckCollection(i, state) /\ (recursive \/ db.triggers = {}) =>
              \A c \in DOMAIN db.collection \ {i[1]} :
                db'.collection[c] = db.collection[c]]_vars

(* "establish a triger that will update recursively child folders and      *)
(* collections" (map_overlay_manager.cpp:1097): a change of a folder       *)
(* reaches everything below it, when no kill has left an older trigger in  *)
(* the database, with which it cannot be established.                      *)
CascadeReachesAll ==
    [][\A f \in FolderIds, state \in BOOLEAN : CheckFolder(f, state) /\ db.triggers = {} =>
         LET below == Below(Parents(db.folder), f)
         IN  /\ \A g \in below : db'.folder[g].visible = state
             /\ \A c \in DOMAIN db.collection :
                  db.collection[c].parent \in below => db'.collection[c].visible = state]_vars
=============================================================================
