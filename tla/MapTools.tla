------------------------------ MODULE MapTools ------------------------------
(***************************************************************************)
(* The tools that draw and edit overlays on the map: PolygonTool, PointTool*)
(* and FeatureEditTool with their undo stacks (map_tool.cpp), the current  *)
(* overlay and the overlay cache of the widget (map_widget.cpp).           *)
(*                                                                         *)
(* The pointer has no place on the screen: what it touches is any part of  *)
(* the object, and findNearest() any stored overlay or none.  One button is*)
(* down at a time.  The shapes are open lines; ids, nodes and commands are *)
(* as in the code, names and styles are left out.                          *)
(***************************************************************************)
EXTENDS Integers, Sequences, SequencesExt

CONSTANTS First,    \* the nodes of the overlay that is stored at the start
          Points,   \* coordinates of new nodes
          MaxEdits, \* bound: commands pushed on the undo stacks
          MaxRows,  \* bound: overlays ever stored
          NoObject

ASSUME NodesAssumption == First \in Seq(Int) /\ Points \subseteq Int
ASSUME BoundsAssumption == MaxEdits \in Nat /\ MaxRows \in Nat
ASSUME NoObjectAssumption == NoObject \notin [id : Nat, nodes : Seq(Int)]

VARIABLES rows,      \* the stored overlays: the nodes of each id
          tool,      \* current_tool_ of the widget
          mouse,     \* the button that is down, up and how, or the pointer outside
          active,    \* the active stack of the undo group
          editing,   \* is_editing_ of a tool
          object,    \* current_object_ of a tool
          stack,     \* the commands of a tool's undo stack
          index,     \* how many of them are done
          touch,     \* current_touch_ and current_node_
          extending, \* is_extending_
          overlay,   \* current_overlay_ of the widget
          cache,     \* overlay_cache_: nodes by id
          crashed,   \* a node was addressed that does not exist
          (* history *)
          edits,     \* how many commands were pushed
          versions,  \* for each stack, the contents its commands led through
          mixed,     \* stacks that hold commands of another object
          latest,    \* for each id, the nodes the user saw last
          left       \* ids whose edits were left behind unsaved

widget == <<overlay, cache>>
editor == <<touch, extending>>
undo == <<active, stack, index>>
past == <<edits, versions, mixed, latest, left>>
vars == <<rows, tool, mouse, undo, editing, object, editor, widget, crashed, past>>

Stacks == {"draw", "edit"}
Objects == {[id |-> i, nodes |-> rows[i]] : i \in DOMAIN rows}  \* as load() returns them

Touching(o) ==
    LET n == Len(o.nodes)
    IN  {[on |-> "nothing", node |-> 0]}
        \cup {[on |-> IF i = 1 THEN "begin" ELSE IF i = n THEN "end" ELSE "node", node |-> i] : i \in 1 .. n}
        \cup {[on |-> "edge", node |-> i] : i \in 1 .. n - 1}

Up == mouse \in {"up", "clicked"}
Down == mouse \in {"left", "right", "second"}  \* second: the second press of a double click

Using(t) == tool = t /\ ~crashed

OnNode(t) == t.on \in {"node", "begin", "end"}

Init ==
    /\ rows = <<First>> /\ tool = "pan" /\ mouse = "up"
    /\ active = "widget"
    /\ stack = [s \in Stacks |-> <<>>] /\ index = [s \in Stacks |-> 0]
    /\ editing = [s \in Stacks |-> FALSE] /\ object = [s \in Stacks |-> NoObject]
    \* uninitialised
    /\ touch \in {[on |-> "nothing", node |-> 0], [on |-> "node", node |-> 9]}
    /\ extending = "no" /\ overlay = NoObject /\ cache = <<>> /\ crashed = FALSE
    /\ edits = 0 /\ versions = [s \in Stacks |-> <<>>] /\ mixed = {}
    /\ latest = rows /\ left = {}

-----------------------------------------------------------------------------
(* Commands.  Each has a copy of the object of its own.                    *)

Shifted(nodes, delta) == [i \in DOMAIN nodes |-> nodes[i] + delta]

(* The nodes after redo(), from those before it.                           *)
Applied(c, nodes) ==
    CASE c.do = "append"    -> Append(nodes, c.pt)
      [] c.do = "prepend"   -> <<c.pt>> \o nodes
      [] c.do = "move node" -> [nodes EXCEPT ![c.node] = @ + c.pt]
      [] c.do = "move edge" -> Shifted(nodes, c.pt)
      [] c.do = "delete"    -> RemoveAt(nodes, c.node)
      [] c.do = "insert"    -> InsertAt(nodes, c.node + 1, c.pt)

(* The node exists, so that redo() is defined.                             *)
Applicable(c, nodes) ==
    /\ c.do \in {"move node", "delete", "insert"} => c.node \in DOMAIN nodes
    /\ c.do = "insert" => c.node + 1 \in DOMAIN nodes

redo(c) == [c EXCEPT !.feature.nodes = Applied(c, @),
                     !.old = c.feature.nodes,
                     !.node = IF c.do = "insert" THEN @ + 1 ELSE @]

(* The nodes after undo().                                                 *)
Reverted(c, nodes) ==
    CASE c.do = "append"    -> Front(nodes)
      [] c.do = "prepend"   -> Tail(nodes)
      [] c.do = "move node" -> [nodes EXCEPT ![c.node] = @ - c.pt]
      [] c.do = "move edge" -> Shifted(nodes, -c.pt)
      [] c.do = "delete"    -> c.old
      [] c.do = "insert"    -> RemoveAt(nodes, c.node)

(* Mutant: undo() of an insertion leaves node_ alone.                      *)
BugUndo(c) == [c EXCEPT !.feature.nodes = Reverted(c, @)]

Undone(c) == [c EXCEPT !.feature.nodes = Reverted(c, @),
                       !.node = IF c.do = "insert" THEN @ - 1 ELSE @]

(* Mutant: the cached copy of the current overlay stays.                   *)
BugSetCurrentOverlay(o) == overlay' = o /\ UNCHANGED cache

setCurrentOverlay(o) ==
    /\ overlay' = o
    /\ cache' = IF o = NoObject THEN cache
                ELSE [i \in DOMAIN cache \ {o.id} |-> cache[i]]

Unsaved(o) == o # NoObject /\ o.id # 0 /\ rows[o.id] # o.nodes

(* The edited object becomes o: what is not saved is left behind, if o is  *)
(* another one; and o is what the user sees of its id.                     *)
Shows(s, o) ==
    /\ object' = [object EXCEPT ![s] = o]
    /\ latest' = IF o.id = 0 THEN latest ELSE [latest EXCEPT ![o.id] = o.nodes]
    /\ left' = (IF s = "edit" /\ Unsaved(object[s]) THEN left \cup {object[s].id} ELSE left) \ {o.id}
    /\ setCurrentOverlay(o)

(* push(), which calls redo().                                             *)
Push(s, o, do, node, pt) ==
    LET c == [do |-> do, feature |-> o, old |-> <<>>, node |-> node, pt |-> pt]
        done == SubSeq(stack[s], 1, index[s])
    IN  /\ edits < MaxEdits /\ edits' = edits + 1
        /\ IF Applicable(c, o.nodes)
           THEN /\ stack' = [stack EXCEPT ![s] = Append(done, redo(c))]
                /\ index' = [index EXCEPT ![s] = @ + 1]
                /\ Shows(s, redo(c).feature)
                /\ versions' = [versions EXCEPT ![s] =
                     (IF @ = <<>> THEN <<o.nodes>> ELSE SubSeq(@, 1, index[s] + 1))
                       \o <<Applied(c, o.nodes)>>]
                /\ UNCHANGED crashed
           ELSE crashed' = TRUE /\ UNCHANGED <<stack, index, object, latest, left, widget, versions>>

Undo ==
    /\ ~crashed /\ active \in Stacks /\ index[active] > 0
    /\ LET c == Undone(stack[active][index[active]])
       IN  /\ stack' = [stack EXCEPT ![active][index[active]] = c]
           /\ Shows(active, c.feature)
    /\ index' = [index EXCEPT ![active] = @ - 1]
    /\ UNCHANGED <<rows, tool, mouse, active, editing, editor, crashed, edits, versions, mixed>>

Redo ==
    /\ ~crashed /\ active \in Stacks /\ index[active] < Len(stack[active])
    /\ LET c == redo(stack[active][index[active] + 1])
       IN  /\ stack' = [stack EXCEPT ![active][index[active] + 1] = c]
           /\ Shows(active, c.feature)
    /\ index' = [index EXCEPT ![active] = @ + 1]
    /\ UNCHANGED <<rows, tool, mouse, active, editing, editor, crashed, edits, versions, mixed>>

(* clear() of the stack of a tool.                                         *)
Clear(s) ==
    /\ stack' = [stack EXCEPT ![s] = <<>>]
    /\ index' = [index EXCEPT ![s] = 0]
    /\ versions' = [versions EXCEPT ![s] = <<>>]
    /\ mixed' = mixed \ {s}

-----------------------------------------------------------------------------
(* Choosing a tool, painting, and the tools without a stack.               *)

(* The buttons of the tools are beside the map, and FeatureEditTool tracks *)
(* the pointer: it moves into the map before it can click there.  init()   *)
(* resets the flags of the chosen tool only; those of a tool that is left  *)
(* are reset here as well, for its own init() does so before they are read.*)
setTool(t) ==
    /\ ~crashed
    /\ (Up \/ mouse = "outside")
    /\ t # tool
    /\ tool' = t
    /\ mouse' = IF t = "edit" THEN "outside" ELSE "up"
    /\ editing' = [s \in Stacks |-> FALSE] /\ extending' = "no"
    /\ UNCHANGED <<rows, undo, object, touch, widget, crashed, past>>

(* drawOverlays() loads what is not cached, but for the current overlay.   *)
Paint ==
    /\ ~crashed
    /\ cache' = [i \in {o.id : o \in {p \in Objects : overlay = NoObject \/ overlay.id # p.id}}
                   \cup DOMAIN cache |-> IF i \in DOMAIN cache THEN cache[i] ELSE rows[i]]
    /\ UNCHANGED <<rows, tool, mouse, undo, editing, object, editor, overlay, crashed, past>>

PanMove ==
    /\ Using("pan") /\ Up
    /\ \E o \in Objects \cup {NoObject} : setCurrentOverlay(o)
    /\ UNCHANGED <<rows, tool, mouse, undo, editing, object, editor, crashed, past>>

(* write() gives the object the id of its row.                             *)
Written(nodes) ==
    /\ Len(rows) < MaxRows
    /\ rows' = Append(rows, nodes)
    /\ latest' = Append(latest, nodes)
    /\ UNCHANGED <<edits, left>>

PointReleased ==
    /\ Using("point") /\ Up
    /\ \E pt \in Points :
          /\ Written(<<pt>>)
          /\ setCurrentOverlay([id |-> Len(rows) + 1, nodes |-> <<pt>>])
    /\ active' = "widget"
    /\ UNCHANGED <<tool, mouse, stack, index, editing, object, editor, crashed, versions, mixed>>

-----------------------------------------------------------------------------
(* PolygonTool.                                                            *)

DrawPressed ==
    /\ Using("draw") /\ Up
    /\ mouse' = "left"
    /\ editing' = [editing EXCEPT !.draw = TRUE] /\ active' = "draw"
    /\ UNCHANGED <<rows, tool, stack, index, object, editor, widget, crashed, past>>

DrawReleased ==
    /\ Using("draw") /\ Down
    /\ mouse' = IF mouse = "second" THEN "up" ELSE "clicked"
    /\ IF editing.draw
       THEN \E pt \in Points :
              IF object.draw = NoObject
              THEN /\ edits < MaxEdits /\ edits' = edits + 1
                   /\ LET c == redo([do |-> "append", feature |-> [id |-> 0, nodes |-> <<>>],
                                     old |-> <<>>, node |-> 0, pt |-> pt])
                      IN  /\ stack' = [stack EXCEPT !.draw = <<c>>]
                          /\ Shows("draw", c.feature)
                          /\ versions' = [versions EXCEPT !.draw = <<<<>>, c.feature.nodes>>]
                   /\ index' = [index EXCEPT !.draw = 1]
                   /\ mixed' = mixed \ {"draw"}
                   /\ UNCHANGED crashed
              ELSE Push("draw", object.draw, "append", 0, pt) /\ UNCHANGED mixed
       ELSE UNCHANGED <<stack, index, object, widget, crashed, past>>
    /\ UNCHANGED <<rows, tool, active, editing, editor>>

(* The second press of a double click.  A click with the right button makes*)
(* no object, and without one the null pointer is dereferenced.            *)
DrawDoubleClicked(button) ==
    /\ Using("draw")
    /\ (mouse = "clicked" \/ (button = "right" /\ Up))
    /\ mouse' = IF button = "left" THEN "second" ELSE "up"
    /\ editing' = [editing EXCEPT !.draw = FALSE]
    /\ IF object.draw = NoObject
       THEN crashed' = TRUE /\ UNCHANGED <<rows, active, object, widget, latest, edits, left>>
       ELSE /\ Written(object.draw.nodes)
            /\ active' = "widget"
            /\ object' = [object EXCEPT !.draw = NoObject]
            /\ setCurrentOverlay(NoObject)
            /\ UNCHANGED crashed
    /\ UNCHANGED <<tool, stack, index, editor, versions, mixed>>

-----------------------------------------------------------------------------
(* FeatureEditTool.                                                        *)

(* A move while nothing is edited: whatever is under the pointer becomes   *)
(* the current object, without regard to the one that was.                 *)
EditHover ==
    /\ Using("edit") /\ ~editing.edit
    /\ mouse' = IF mouse = "outside" THEN "up" ELSE mouse
    /\ \E o \in Objects \cup {NoObject} :
          /\ object' = [object EXCEPT !.edit = o]
          /\ setCurrentOverlay(o)
          /\ mixed' = IF stack.edit = <<>> THEN mixed ELSE mixed \cup {"edit"}
    /\ left' = IF Unsaved(object.edit) THEN left \cup {object.edit.id} ELSE left
    /\ UNCHANGED <<rows, tool, undo, editing, editor, crashed, edits, versions, latest>>

EditTouches ==
    /\ Using("edit") /\ editing.edit /\ Up /\ extending = "no"
    /\ touch' \in Touching(object.edit)
    /\ UNCHANGED <<rows, tool, mouse, undo, editing, object, extending, widget, crashed, past>>

EditDragged ==
    /\ Using("edit") /\ editing.edit /\ mouse \in {"left", "second"} /\ extending = "no"
    /\ IF OnNode(touch) THEN Push("edit", object.edit, "move node", touch.node, 1)
       ELSE touch.on = "edge" /\ Push("edit", object.edit, "move edge", touch.node, 1)
    /\ UNCHANGED <<rows, tool, mouse, active, editing, touch, extending, mixed>>

(* A command at the press, with what it makes of the touched node.         *)
EditPushes(do, node, pt, touched) ==
    /\ Push("edit", object.edit, do, node, pt)
    /\ touch' = touched
    /\ UNCHANGED <<editing, extending, mixed>>

Idle == UNCHANGED <<stack, index, object, widget, crashed, past, touch>>

EditPressed(button, key) ==
    LET edited == editing.edit /\ button = "left"
        leaves == edited /\ touch.on = "nothing"
        deletes == edited /\ OnNode(touch) /\ key = "ctrl"
        inserts == edited /\ touch.on = "edge" /\ key = "shift"
        extends == edited /\ OnNode(touch) /\ key = "shift" /\ extending = "no"
        adds == edited /\ extending # "no" /\ ~(leaves \/ deletes \/ inserts)
    IN  /\ Using("edit") /\ Up
        /\ mouse' = button /\ active' = "edit"
        /\ CASE leaves  -> editing' = [editing EXCEPT !.edit = FALSE] /\ Idle /\ UNCHANGED extending
             [] deletes -> EditPushes("delete", touch.node, 0, touch)
             [] inserts -> \E pt \in Points :
                  EditPushes("insert", touch.node, pt, [on |-> "node", node |-> touch.node + 1])
             [] extends ->
                  /\ extending' = IF touch.on = "node" THEN "no" ELSE touch.on
                  /\ Idle /\ UNCHANGED editing
             [] adds    -> \E pt \in Points :
                  IF extending = "end"
                  THEN EditPushes("append", 0, pt, [touch EXCEPT !.node = Len(object.edit.nodes) + 1])
                  ELSE EditPushes("prepend", 0, pt, [touch EXCEPT !.node = 1])
             [] OTHER   -> Idle /\ UNCHANGED <<editing, extending>>
        /\ UNCHANGED <<rows, tool>>

(* Mutant: the object is cleared before it is saved.                       *)
BugSaved(o) == rows

(* saveOverlay() of an object that was edited.                             *)
Saved(o) == [rows EXCEPT ![o.id] = o.nodes]

(* A release while nothing is edited saves the object, and selects one.    *)
EditReleased ==
    LET o == object.edit
        saves == o # NoObject
        rowsNow == IF saves THEN Saved(o) ELSE rows
    IN  /\ Using("edit") /\ Down
        /\ mouse' = IF mouse = "second" THEN "up" ELSE "clicked"
        /\ IF editing.edit
           THEN UNCHANGED <<rows, undo, editing, object, widget, past>>
           ELSE /\ rows' = rowsNow
                /\ active' = IF saves THEN "widget" ELSE active
                /\ IF saves THEN Clear("edit") ELSE UNCHANGED <<stack, index, versions, mixed>>
                /\ \/ /\ object' = [object EXCEPT !.edit = NoObject]
                      /\ overlay' = IF saves THEN NoObject ELSE overlay
                      /\ UNCHANGED <<cache, editing>>
                   \/ \E i \in DOMAIN rowsNow :
                        LET p == [id |-> i, nodes |-> rowsNow[i]]
                        IN  /\ object' = [object EXCEPT !.edit = p]
                            /\ setCurrentOverlay(p)
                            /\ editing' = [editing EXCEPT !.edit = TRUE]
                /\ UNCHANGED <<edits, latest, left>>
        /\ UNCHANGED <<tool, touch, extending, crashed>>

EditDoubleClicked ==
    /\ Using("edit") /\ mouse = "clicked"
    /\ mouse' = "second" /\ extending' = "no"
    /\ UNCHANGED <<rows, tool, undo, editing, object, touch, widget, crashed, past>>

Next ==
    \/ Undo \/ Redo \/ Paint \/ PanMove \/ PointReleased
    \/ \E t \in {"pan", "point", "draw", "edit"} : setTool(t)
    \/ DrawPressed \/ DrawReleased
    \/ \E b \in {"left", "right"} : DrawDoubleClicked(b)
    \/ EditHover \/ EditTouches \/ EditDragged
    \/ \E b \in {"left", "right"}, k \in {"no", "ctrl", "shift"} : EditPressed(b, k)
    \/ EditReleased \/ EditDoubleClicked

Spec == Init /\ [][Next]_vars

-----------------------------------------------------------------------------
(* The copies of the object in the commands agree: undo and redo lead      *)
(* through the contents that the commands led through, in both directions, *)
(* unless the stack has been kept for another object.                      *)
UndoIsLinear ==
    \A s \in Stacks :
        stack[s] # <<>> /\ s \notin mixed /\ object[s] # NoObject /\ ~crashed
            => object[s].nodes = versions[s][index[s] + 1]

(* What the widget draws from its cache is what is stored, although edited *)
(* overlays are saved behind the cache.                                    *)
CacheIsStored == \A i \in DOMAIN cache : cache[i] = rows[i]

(* An edit is stored or still in the tool, unless the tool turned to       *)
(* another object by a move of the pointer or an undo; so an edit whose    *)
(* overlay is left by a click is not lost.                                 *)
EditsAreKept ==
    \A i \in DOMAIN rows :
        \/ rows[i] = latest[i]
        \/ i \in left
        \/ object.edit # NoObject /\ object.edit.id = i /\ object.edit.nodes = latest[i]
=============================================================================
