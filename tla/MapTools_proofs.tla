--------------------------- MODULE MapTools_proofs ---------------------------
(***************************************************************************)
(* Undo of the map tools, the cache of the widget and the edits of the     *)
(* user, for overlays of any number of nodes, any points, any number of    *)
(* commands and of overlays.                                               *)
(***************************************************************************)
EXTENDS MapTools, SequenceTheorems, TLAPS

Nodes == Seq(Int)
Feature == [id : Nat, nodes : Nodes]
Kinds == {"append", "prepend", "move node", "move edge", "delete", "insert"}
Command == [do : Kinds, feature : Feature, old : Nodes, node : Int, pt : Int]

(* The drawing tool holds objects that are not stored yet, the editing     *)
(* tool objects of the table.                                              *)
Own(s, o) == IF s = "draw" THEN o.id = 0 ELSE o.id \in 1 .. Len(rows)

(* Where command c leads from and to: one that is not done turns a into b, *)
(* and one that is done does so once it is undone.                         *)
Waits(c, a, b) == c.feature.nodes = a /\ Applicable(c, a) /\ b = Applied(c, a)
Done(c, a, b) == c.feature.nodes = b /\ Waits(Undone(c), a, b)
Leads(c, done, a, b) == IF done THEN Done(c, a, b) ELSE Waits(c, a, b)

TableType ==
    rows \in Seq(Nodes) /\ latest \in Seq(Nodes) /\ Len(latest) = Len(rows)
PointerType ==
    /\ tool \in {"pan", "point", "draw", "edit"}
    /\ mouse \in {"up", "clicked", "left", "right", "second", "outside"}
    /\ active \in Stacks \cup {"widget"}
    /\ editing \in [Stacks -> BOOLEAN]
    /\ touch \in [on : {"nothing", "begin", "end", "node", "edge"}, node : Nat]
    /\ crashed \in BOOLEAN
ToolType ==
    /\ object \in [Stacks -> Feature \cup {NoObject}]
    /\ \A s \in Stacks : object[s] # NoObject => Own(s, object[s])
StackType ==
    /\ stack \in [Stacks -> Seq(Command)]
    /\ index \in [Stacks -> Nat]
    /\ versions \in [Stacks -> Seq(Nodes)]
    /\ mixed \subseteq Stacks
WidgetType ==
    /\ cache = [i \in DOMAIN cache |-> cache[i]] /\ DOMAIN cache \subseteq DOMAIN rows
    /\ overlay \in Feature \cup {NoObject}

(* Every variable has its type.                                            *)
TypeOK == TableType /\ PointerType /\ ToolType /\ StackType /\ WidgetType

(* The commands st of a stack, of which k are done: each can be undone or  *)
(* done again, and there is one content more than commands.                *)
Reversible(st, k, vs) ==
    /\ k <= Len(st)
    /\ IF st = <<>> THEN vs = <<>> ELSE Len(vs) = Len(st) + 1
    /\ \A j \in 1 .. Len(st) : \E a, b \in Nodes : Leads(st[j], j <= k, a, b)

(* One command takes up where the one before it ends.                      *)
Chained(st, k, vs) ==
    \A j \in 1 .. Len(st) : Leads(st[j], j <= k, vs[j], vs[j + 1])

(* Every stack can be undone, whatever the tool holds, with objects of its *)
(* own kind; and one that has been kept for one object undoes it step by   *)
(* step.                                                                   *)
StacksOK ==
    \A s \in Stacks :
        /\ Reversible(stack[s], index[s], versions[s])
        /\ \A j \in 1 .. Len(stack[s]) : Own(s, stack[s][j].feature)
        /\ s \notin mixed => Chained(stack[s], index[s], versions[s])

(* A tool edits an object; and a stack with commands has one, but for the  *)
(* stack of a drawing that is finished.                                    *)
EditsAnObject ==
    /\ editing.edit => object.edit # NoObject
    /\ stack.edit # <<>> /\ "edit" \notin mixed => object.edit # NoObject

(* The editing tool saves an object that is not in the cache and will not  *)
(* be painted from there, or one that is stored as it is; this needs that  *)
(* the pointer enters the map before it can be pressed, and that an undo   *)
(* cannot reach the drawing tool after that.                               *)
SavesBehindCache ==
    tool = "edit" /\ mouse # "outside" =>
        /\ mouse # "up" => active # "draw"
        /\ object.edit # NoObject =>
             \/ object.edit.nodes = rows[object.edit.id]
             \/ /\ active # "draw"
                /\ object.edit.id \notin DOMAIN cache
                /\ overlay # NoObject /\ overlay.id = object.edit.id

(* The tool holds what the user saw last, unless that was left behind.     *)
HoldsLatest ==
    object.edit # NoObject /\ object.edit.id \notin left =>
        object.edit.nodes = latest[object.edit.id]

(* All of it but what depends on where the pointer is.                     *)
Contents ==
    /\ TableType /\ ToolType /\ StackType /\ WidgetType
    /\ StacksOK /\ EditsAnObject
    /\ UndoIsLinear /\ CacheIsStored /\ EditsAreKept /\ HoldsLatest

IInv == PointerType /\ SavesBehindCache /\ Contents

-----------------------------------------------------------------------------
(* Sequences.                                                              *)

LEMMA NodeSeq ==
    ASSUME NEW s \in Nodes
    PROVE  /\ Len(s) \in Nat /\ DOMAIN s = 1 .. Len(s)
           /\ s \in [1 .. Len(s) -> Int]
BY LenProperties DEF Nodes

(* What was appended or prepended is taken off again.                      *)
LEMMA FrontOfAppend ==
    ASSUME NEW s \in Nodes, NEW x \in Int
    PROVE  Append(s, x) \in Nodes /\ Front(Append(s, x)) = s
<1>1. Append(s, x) \in Nodes /\ Len(Append(s, x)) = Len(s) + 1
  BY DEF Nodes
<1>2. Front(Append(s, x)) \in Nodes /\ Len(Front(Append(s, x))) = Len(s)
  BY <1>1, SubSeqProperties, NodeSeq DEF Front, Nodes
<1>3. \A i \in 1 .. Len(s) : Front(Append(s, x))[i] = s[i]
  BY <1>1, NodeSeq DEF Front, Nodes
<1> QED
  BY <1>1, <1>2, <1>3, SeqEqual DEF Nodes

LEMMA TailOfPrepend ==
    ASSUME NEW s \in Nodes, NEW x \in Int
    PROVE  <<x>> \o s \in Nodes /\ Tail(<<x>> \o s) = s
<1>1. <<x>> \o s \in Nodes /\ Len(<<x>> \o s) = Len(s) + 1 /\ <<x>> \o s # <<>>
  BY DEF Nodes
<1>2. Tail(<<x>> \o s) \in Nodes /\ Len(Tail(<<x>> \o s)) = Len(s)
  BY <1>1, HeadTailProperties, NodeSeq DEF Nodes
<1>3. \A i \in 1 .. Len(s) : Tail(<<x>> \o s)[i] = s[i]
  BY <1>1, NodeSeq DEF Nodes
<1> QED
  BY <1>1, <1>2, <1>3, SeqEqual DEF Nodes

(* Moving a node, or all of them, there and back.                          *)
LEMMA NodeBack ==
    ASSUME NEW s \in Nodes, NEW d \in Int, NEW i \in DOMAIN s
    PROVE  /\ [s EXCEPT ![i] = @ + d] \in Nodes
           /\ [[s EXCEPT ![i] = @ + d] EXCEPT ![i] = @ - d] = s
<1>1. i \in 1 .. Len(s) /\ s[i] \in Int /\ s \in [1 .. Len(s) -> Int]
  BY NodeSeq
<1>2. [s EXCEPT ![i] = s[i] + d] \in Nodes
  BY <1>1, ExceptSeq DEF Nodes
<1> DEFINE t == [s EXCEPT ![i] = s[i] + d]
<1>3. t \in [1 .. Len(s) -> Int] /\ t[i] - d = s[i] /\ \A j \in 1 .. Len(s) : j # i => t[j] = s[j]
  BY <1>1
<1> HIDE DEF t
<1>4. [t EXCEPT ![i] = t[i] - d] = s
  BY <1>1, <1>3
<1> QED
  BY <1>2, <1>4 DEF t

LEMMA ShiftBack ==
    ASSUME NEW s \in Nodes, NEW d \in Int
    PROVE  Shifted(s, d) \in Nodes /\ Shifted(Shifted(s, d), -d) = s
<1>1. DOMAIN s = 1 .. Len(s) /\ Len(s) \in Nat /\ s \in [1 .. Len(s) -> Int]
  BY NodeSeq
<1>2. Shifted(s, d) = [i \in 1 .. Len(s) |-> s[i] + d]
  BY <1>1 DEF Shifted
<1>3. [i \in 1 .. Len(s) |-> s[i] + d] \in Nodes
  BY <1>1 DEF Nodes
<1>4. Shifted(Shifted(s, d), -d) = [i \in 1 .. Len(s) |-> (s[i] + d) + (-d)]
  BY <1>1, <1>2 DEF Shifted
<1>5. \A i \in 1 .. Len(s) : (s[i] + d) + (-d) = s[i]
  BY <1>1
<1> QED
  BY <1>1, <1>2, <1>3, <1>4, <1>5

(* The node that was inserted is the one that is removed.                  *)
LEMMA RemoveInserted ==
    ASSUME NEW s \in Nodes, NEW i \in DOMAIN s, NEW x \in Int
    PROVE  /\ InsertAt(s, i, x) \in Nodes /\ Len(InsertAt(s, i, x)) = Len(s) + 1
           /\ RemoveAt(InsertAt(s, i, x), i) = s
<1> DEFINE a == SubSeq(s, 1, i - 1)
           b == SubSeq(s, i, Len(s))
           t == a \o <<x>> \o b
<1>0. Len(s) \in Nat /\ i \in 1 .. Len(s) /\ \A j \in 1 .. Len(s) : s[j] \in Int
  BY NodeSeq
<1>1. a \in Nodes /\ Len(a) = i - 1
  BY <1>0, SubSeqProperties DEF Nodes
<1>2. b \in Nodes /\ Len(b) = Len(s) - i + 1
  BY <1>0, SubSeqProperties DEF Nodes
<1>3. a \o b = s
  <2>1. i \in 1 .. Len(s) + 1 /\ i - 1 \in 0 .. Len(s) /\ (i - 1) + 1 = i
    BY <1>0
  <2>2. SubSeq(s, 1, i - 1) \o SubSeq(s, (i - 1) + 1, Len(s)) = SubSeq(s, 1, Len(s))
    <3>1. 1 \in 1 .. Len(s) + 1 /\ i - 1 \in 1 - 1 .. Len(s) /\ Len(s) \in i - 1 .. Len(s)
      BY <1>0
    <3> QED
      BY <3>1, ConcatAdjacentSubSeq DEF Nodes
  <2>3. SubSeq(s, 1, Len(s)) = s
    BY SubSeqFull DEF Nodes
  <2> QED
    BY <2>1, <2>2, <2>3
<1> HIDE DEF a, b
<1>4. /\ t \in Nodes /\ Len(t) = Len(s) + 1
      /\ \A j \in 1 .. i - 1 : t[j] = a[j]
      /\ \A j \in 1 .. Len(b) : t[i + j] = b[j]
  <2> DEFINE u == a \o <<x>>
  <2>1. <<x>> \in Nodes /\ Len(<<x>>) = 1
    BY DEF Nodes
  <2>2. u \in Nodes /\ Len(u) = i /\ \A j \in 1 .. i - 1 : u[j] = a[j]
    BY <1>0, <1>1, <2>1, ConcatProperties DEF Nodes
  <2> HIDE DEF u
  <2>3. /\ u \o b \in Nodes /\ Len(u \o b) = Len(u) + Len(b)
        /\ \A j \in 1 .. Len(u) + Len(b) : (u \o b)[j] = IF j <= Len(u) THEN u[j] ELSE b[j - Len(u)]
    BY <1>2, <2>2, ConcatProperties DEF Nodes
  <2>4. \A j \in 1 .. i - 1 : (u \o b)[j] = a[j]
    BY <1>0, <1>2, <2>2, <2>3
  <2>5. ASSUME NEW j \in 1 .. Len(b) PROVE (u \o b)[i + j] = b[j]
    <3>1. i + j \in 1 .. Len(u) + Len(b) /\ ~(i + j <= Len(u)) /\ (i + j) - Len(u) = j
      BY <1>0, <1>2, <2>2
    <3> QED
      BY <2>3, <3>1
  <2>6. t = u \o b /\ Len(u \o b) = Len(s) + 1
    BY <1>0, <1>2, <2>2, <2>3 DEF u
  <2> QED
    BY <2>3, <2>4, <2>5, <2>6
<1> HIDE DEF t
<1>40. \A j \in 1 .. Len(t) : t[j] \in Int
  BY <1>4, NodeSeq
<1>5. SubSeq(t, 1, i - 1) = a
  <2>1. /\ SubSeq(t, 1, i - 1) \in Nodes /\ Len(SubSeq(t, 1, i - 1)) = i - 1
        /\ \A j \in 1 .. i - 1 : SubSeq(t, 1, i - 1)[j] = t[j]
    BY <1>0, <1>4, <1>40, SubSeqProperties DEF Nodes
  <2> QED
    BY <1>1, <1>4, <2>1, SeqEqual DEF Nodes
<1>6. SubSeq(t, i + 1, Len(t)) = b
  <2>1. /\ SubSeq(t, i + 1, Len(t)) \in Nodes /\ Len(SubSeq(t, i + 1, Len(t))) = Len(b)
        /\ \A j \in 1 .. Len(b) : SubSeq(t, i + 1, Len(t))[j] = t[i + j]
    <3>1. i + 1 \in Int /\ Len(t) \in Int /\ \A j \in i + 1 .. Len(t) : t[j] \in Int
      BY <1>0, <1>4, <1>40
    <3>2. /\ SubSeq(t, i + 1, Len(t)) \in Seq(Int)
          /\ Len(SubSeq(t, i + 1, Len(t))) = IF i + 1 <= Len(t) THEN Len(t) - (i + 1) + 1 ELSE 0
          /\ \A j \in 1 .. Len(t) - (i + 1) + 1 : SubSeq(t, i + 1, Len(t))[j] = t[i + 1 + j - 1]
      BY <3>1, SubSeqProperties
    <3>3. Len(b) = Len(t) - (i + 1) + 1 /\ \A j \in 1 .. Len(b) : i + 1 + j - 1 = i + j
      BY <1>0, <1>2, <1>4
    <3>4. i + 1 <= Len(t) /\ Len(SubSeq(t, i + 1, Len(t))) = Len(b)
      BY <1>0, <1>2, <1>4, <3>2, <3>3
    <3>5. ASSUME NEW j \in 1 .. Len(b) PROVE SubSeq(t, i + 1, Len(t))[j] = t[i + j]
      BY <3>2, <3>3, <3>5
    <3> QED
      BY <3>2, <3>4, <3>5 DEF Nodes
  <2> QED
    BY <1>2, <1>4, <2>1, SeqEqual DEF Nodes
<1>7. InsertAt(s, i, x) = t
  BY DEF InsertAt, a, b, t
<1> QED
  BY <1>3, <1>4, <1>5, <1>6, <1>7 DEF RemoveAt

LEMMA Removed ==
    ASSUME NEW s \in Nodes, NEW i \in DOMAIN s
    PROVE  RemoveAt(s, i) \in Nodes
<1>0. Len(s) \in Nat /\ i \in 1 .. Len(s) /\ \A j \in 1 .. Len(s) : s[j] \in Int
  BY NodeSeq
<1>1. SubSeq(s, 1, i - 1) \in Nodes /\ SubSeq(s, i + 1, Len(s)) \in Nodes
  BY <1>0, SubSeqProperties DEF Nodes
<1> QED
  BY <1>1, ConcatProperties DEF RemoveAt, Nodes

-----------------------------------------------------------------------------
(* Commands.                                                               *)

LEMMA AppliedType ==
    ASSUME NEW c \in Command, NEW a \in Nodes, Applicable(c, a)
    PROVE  Applied(c, a) \in Nodes
<1>1. c.pt \in Int
  BY DEF Command
<1>2. CASE c.do = "append"
  BY <1>1, <1>2, FrontOfAppend DEF Applied
<1>3. CASE c.do = "prepend"
  BY <1>1, <1>3, TailOfPrepend DEF Applied
<1>4. CASE c.do = "move node"
  BY <1>1, <1>4, NodeBack DEF Applied, Applicable
<1>5. CASE c.do = "move edge"
  BY <1>1, <1>5, ShiftBack DEF Applied
<1>6. CASE c.do = "delete"
  BY <1>1, <1>6, Removed DEF Applied, Applicable
<1>7. CASE c.do = "insert"
  BY <1>1, <1>7, RemoveInserted DEF Applied, Applicable
<1> QED
  BY <1>2, <1>3, <1>4, <1>5, <1>6, <1>7 DEF Command, Kinds

LEMMA Edited ==
    ASSUME NEW c \in Command, NEW n \in Nodes, NEW o \in Nodes, NEW i \in Int
    PROVE  /\ [c EXCEPT !.feature.nodes = n, !.old = o, !.node = i] \in Command
           /\ [c EXCEPT !.feature.nodes = n, !.node = i] \in Command
<1>1. [c EXCEPT !.feature.nodes = n, !.old = o, !.node = i] \in Command
  BY DEF Command, Feature
<1>2. [c EXCEPT !.feature.nodes = n, !.node = i] \in Command
  BY DEF Command, Feature
<1> QED
  BY <1>1, <1>2

LEMMA RedoFields ==
    ASSUME NEW c \in Command, Applicable(c, c.feature.nodes)
    PROVE  /\ redo(c) \in Command
           /\ redo(c).do = c.do /\ redo(c).pt = c.pt /\ redo(c).old = c.feature.nodes
           /\ redo(c).node = IF c.do = "insert" THEN c.node + 1 ELSE c.node
           /\ redo(c).feature.nodes = Applied(c, c.feature.nodes)
           /\ redo(c).feature.id = c.feature.id
<1>0. c.feature.nodes \in Nodes /\ c.node \in Int
  BY DEF Command, Feature
<1>1. c.feature.nodes \in Nodes /\ c.node \in Int /\ c.node + 1 \in Int
  BY <1>0
<1>2. Applied(c, c.feature.nodes) \in Nodes
  BY <1>1, AppliedType
<1>3. redo(c) \in Command
  <2>1. CASE c.do = "insert"
    BY <1>1, <1>2, <2>1, Edited DEF redo
  <2>2. CASE c.do # "insert"
    BY <1>1, <1>2, <2>2, Edited DEF redo
  <2> QED
    BY <2>1, <2>2
<1> QED
  BY <1>3 DEF redo, Command, Feature

LEMMA UndoneFields ==
    ASSUME NEW c \in Command
    PROVE  /\ Undone(c).do = c.do /\ Undone(c).pt = c.pt /\ Undone(c).old = c.old
           /\ Undone(c).node = IF c.do = "insert" THEN c.node - 1 ELSE c.node
           /\ Undone(c).feature.nodes = Reverted(c, c.feature.nodes)
           /\ Undone(c).feature.id = c.feature.id
           /\ Reverted(c, c.feature.nodes) \in Nodes => Undone(c) \in Command
<1>0. c.old \in Nodes /\ c.node \in Int
  BY DEF Command
<1>1. c.old \in Nodes /\ c.node \in Int /\ c.node - 1 \in Int
  BY <1>0
<1>2. ASSUME Reverted(c, c.feature.nodes) \in Nodes PROVE Undone(c) \in Command
  <2>1. CASE c.do = "insert"
    BY <1>1, <1>2, <2>1, Edited DEF Undone
  <2>2. CASE c.do # "insert"
    BY <1>1, <1>2, <2>2, Edited DEF Undone
  <2> QED
    BY <2>1, <2>2
<1> QED
  BY <1>2 DEF Undone, Command, Feature

(* undo() of a command that is done gives back what redo() was given.      *)
LEMMA RedoDone ==
    ASSUME NEW c \in Command, NEW a, NEW b, Waits(c, a, b)
    PROVE  Done(redo(c), a, b)
<1> DEFINE d == redo(c)
           u == Undone(d)
<1>1. a \in Nodes /\ c.pt \in Int /\ c.node \in Int /\ a = c.feature.nodes /\ b = Applied(c, a)
      /\ Applicable(c, a)
  BY DEF Waits, Command, Feature
<1>2. /\ d \in Command /\ d.do = c.do /\ d.pt = c.pt /\ d.old = a
      /\ d.node = IF c.do = "insert" THEN c.node + 1 ELSE c.node
      /\ d.feature.nodes = b
  BY <1>1, RedoFields
<1> HIDE DEF d
<1>3. u.do = c.do /\ u.pt = c.pt /\ u.node = c.node /\ u.feature.nodes = Reverted(d, b)
  BY <1>1, <1>2, UndoneFields
<1>4. Reverted(d, b) = a
  <2>2. CASE c.do = "append"
    BY <1>1, <1>2, <2>2, FrontOfAppend DEF Applied, Reverted
  <2>3. CASE c.do = "prepend"
    BY <1>1, <1>2, <2>3, TailOfPrepend DEF Applied, Reverted
  <2>4. CASE c.do = "move node"
    <3>1. c.node \in DOMAIN a /\ b = [a EXCEPT ![c.node] = @ + c.pt]
      BY <1>1, <2>4 DEF Applied, Applicable
    <3>2. Reverted(d, b) = [b EXCEPT ![c.node] = @ - c.pt]
      BY <1>2, <2>4 DEF Reverted
    <3> QED
      BY <1>1, <3>1, <3>2, NodeBack
  <2>5. CASE c.do = "move edge"
    BY <1>1, <1>2, <2>5, ShiftBack DEF Applied, Reverted
  <2>6. CASE c.do = "delete"
    BY <1>1, <1>2, <2>6 DEF Reverted
  <2>7. CASE c.do = "insert"
    BY <1>1, <1>2, <2>7, RemoveInserted DEF Applied, Applicable, Reverted
  <2> QED
    BY <2>2, <2>3, <2>4, <2>5, <2>6, <2>7 DEF Command, Kinds
<1>5. Applicable(u, a) /\ Applied(u, a) = b
  BY <1>1, <1>3 DEF Applicable, Applied
<1> QED
  BY <1>2, <1>3, <1>4, <1>5 DEF Done, Waits, d

LEMMA UndoneType ==
    ASSUME NEW c \in Command, NEW a \in Nodes, NEW b, Done(c, a, b)
    PROVE  /\ Undone(c) \in Command
           /\ Undone(c).feature.nodes = a
           /\ Undone(c).feature.id = c.feature.id
           /\ Waits(Undone(c), a, b)
<1>1. Waits(Undone(c), a, b)
  BY DEF Done
<1>2. Undone(c).feature.nodes = a
  BY <1>1 DEF Waits
<1> QED
  BY <1>1, <1>2, UndoneFields

-----------------------------------------------------------------------------
(* Stacks: commands st, of which k are done, through contents vs.          *)

Pushed(st, k, c) == Append(SubSeq(st, 1, k), redo(c))
Extended(vs, k, a, b) == (IF vs = <<>> THEN <<a>> ELSE SubSeq(vs, 1, k + 1)) \o <<b>>

(* push() drops what was undone, and the new command is done.              *)
LEMMA PushStack ==
    ASSUME NEW st \in Seq(Command), NEW k \in Nat, NEW vs \in Seq(Nodes), Reversible(st, k, vs),
           NEW c \in Command, NEW a \in Nodes, NEW b \in Nodes, Waits(c, a, b)
    PROVE  LET st2 == Pushed(st, k, c)
               vs2 == Extended(vs, k, a, b)
           IN  /\ st2 \in Seq(Command) /\ vs2 \in Seq(Nodes) /\ Len(st2) = k + 1
               /\ st2[k + 1] = redo(c) /\ \A j \in 1 .. k : st2[j] = st[j] /\ j \in 1 .. Len(st)
               /\ Reversible(st2, k + 1, vs2) /\ vs2[k + 2] = b
               /\ Chained(st, k, vs) /\ (st # <<>> => vs[k + 1] = a) => Chained(st2, k + 1, vs2)
<1> DEFINE st2 == Pushed(st, k, c)
           vs2 == Extended(vs, k, a, b)
<1>d. /\ st2 = Append(SubSeq(st, 1, k), redo(c))
      /\ vs2 = (IF vs = <<>> THEN <<a>> ELSE SubSeq(vs, 1, k + 1)) \o <<b>>
  BY DEF Pushed, Extended
<1> HIDE DEF st2, vs2
<1> USE <1>d
<1>0. Len(st) \in Nat /\ k <= Len(st) /\ (\A j \in 1 .. Len(st) : st[j] \in Command)
      /\ (st = <<>> => Len(st) = 0) /\ (Len(st) = 0 => st = <<>>)
  BY LenProperties, EmptySeq DEF Reversible
<1>1. /\ SubSeq(st, 1, k) \in Seq(Command) /\ Len(SubSeq(st, 1, k)) = k
      /\ \A j \in 1 .. k : SubSeq(st, 1, k)[j] = st[j]
  BY <1>0, SubSeqProperties
<1>2. redo(c) \in Command /\ Done(redo(c), a, b)
  BY RedoFields, RedoDone DEF Waits
<1>3. /\ st2 \in Seq(Command) /\ Len(st2) = k + 1 /\ st2[k + 1] = redo(c)
      /\ \A j \in 1 .. k : st2[j] = st[j] /\ j \in 1 .. Len(st)
  <2> HIDE DEF redo
  <2>1. ASSUME NEW j \in 1 .. k PROVE st2[j] = st[j] /\ j \in 1 .. Len(st)
    BY <1>0, <1>1, <1>2
  <2> QED
    BY <1>0, <1>1, <1>2, <2>1
<1> DEFINE u == IF vs = <<>> THEN <<a>> ELSE SubSeq(vs, 1, k + 1)
<1>4. u \in Seq(Nodes) /\ Len(u) = k + 1 /\ (st # <<>> => \A j \in 1 .. k + 1 : u[j] = vs[j])
      /\ (st = <<>> => u[1] = a)
  <2>1. CASE st = <<>>
    BY <1>0, <2>1 DEF Reversible
  <2>2. CASE st # <<>>
    <3>1. vs # <<>> /\ Len(vs) = Len(st) + 1 /\ \A j \in 1 .. Len(vs) : vs[j] \in Nodes
      BY <1>0, <2>2, LenProperties, EmptySeq DEF Reversible
    <3>2. k + 1 \in Int /\ \A j \in 1 .. k + 1 : vs[j] \in Nodes
      BY <1>0, <3>1
    <3>3. /\ SubSeq(vs, 1, k + 1) \in Seq(Nodes)
          /\ Len(SubSeq(vs, 1, k + 1)) = IF 1 <= k + 1 THEN (k + 1) - 1 + 1 ELSE 0
          /\ \A j \in 1 .. (k + 1) - 1 + 1 : SubSeq(vs, 1, k + 1)[j] = vs[1 + j - 1]
      BY <3>2, SubSeqProperties
    <3>4. u = SubSeq(vs, 1, k + 1) /\ Len(u) = k + 1 /\ \A j \in 1 .. k + 1 : u[j] = vs[j]
      BY <3>1, <3>3
    <3> QED
      BY <2>2, <3>3, <3>4
  <2> QED
    BY <2>1, <2>2
<1> HIDE DEF u
<1>5. /\ vs2 \in Seq(Nodes) /\ Len(vs2) = k + 2 /\ vs2[k + 2] = b
      /\ \A j \in 1 .. k + 1 : vs2[j] = u[j]
  <2>1. vs2 = u \o <<b>> /\ <<b>> \in Seq(Nodes) /\ Len(<<b>>) = 1 /\ <<b>>[1] = b
    BY DEF u
  <2> DEFINE w == u \o <<b>>
  <2>2. /\ w \in Seq(Nodes) /\ Len(w) = Len(u) + Len(<<b>>)
        /\ \A j \in 1 .. Len(u) + Len(<<b>>) : w[j] = IF j <= Len(u) THEN u[j] ELSE <<b>>[j - Len(u)]
    BY <1>4, <2>1, ConcatProperties
  <2> HIDE DEF w
  <2>3. Len(w) = k + 2 /\ w[k + 2] = b
    <3>1. k + 2 \in 1 .. Len(u) + Len(<<b>>) /\ ~(k + 2 <= Len(u)) /\ (k + 2) - Len(u) = 1
      BY <1>4, <2>1
    <3> QED
      BY <1>4, <2>1, <2>2, <3>1
  <2>4. \A j \in 1 .. k + 1 : w[j] = u[j]
    BY <1>4, <2>1, <2>2
  <2> QED
    BY <2>1, <2>2, <2>3, <2>4 DEF w
<1>6. Reversible(st2, k + 1, vs2)
  <2>1. ASSUME NEW j \in 1 .. k + 1 PROVE \E x, y \in Nodes : Leads(st2[j], j <= k + 1, x, y)
    <3>1. CASE j = k + 1
      BY <1>2, <1>3, <3>1 DEF Leads
    <3>2. CASE j # k + 1
      <4>1. j \in 1 .. Len(st) /\ j <= k /\ j <= k + 1 /\ st2[j] = st[j]
        BY <1>0, <1>3, <3>2
      <4> QED
        BY <4>1 DEF Reversible, Leads
    <3> QED
      BY <3>1, <3>2
  <2>2. st2 # <<>> /\ Len(vs2) = Len(st2) + 1
    <3>1. Len(st2) # 0 /\ k + 2 = (k + 1) + 1
      BY <1>3
    <3> QED
      BY <1>3, <1>5, <3>1, EmptySeq
  <2>3. k + 1 <= Len(st2) /\ 1 .. Len(st2) = 1 .. k + 1
    BY <1>3
  <2> QED
    BY <2>1, <2>2, <2>3 DEF Reversible
<1>7. ASSUME Chained(st, k, vs), st # <<>> => vs[k + 1] = a
      PROVE  Chained(st2, k + 1, vs2)
  <2>0. (\A j \in 1 .. k + 1 : Done(st2[j], vs2[j], vs2[j + 1])) => Chained(st2, k + 1, vs2)
    <3>1. \A j \in 1 .. k + 1 : j <= k + 1
      OBVIOUS
    <3> QED
      BY <1>3, <3>1 DEF Chained, Leads
  <2> SUFFICES ASSUME NEW j \in 1 .. k + 1 PROVE Done(st2[j], vs2[j], vs2[j + 1])
    BY <2>0
  <2>1. CASE j = k + 1
    <3>1. u[k + 1] = a
      <4>1. CASE st = <<>>
        BY <1>0, <1>4, <4>1
      <4>2. CASE st # <<>>
        BY <1>4, <1>7, <4>2
      <4> QED
        BY <4>1, <4>2
    <3>2. vs2[j] = a /\ vs2[j + 1] = b
      <4>1. (k + 1) + 1 = k + 2 /\ k + 1 \in 1 .. k + 1
        OBVIOUS
      <4> QED
        BY <1>5, <2>1, <3>1, <4>1
    <3> QED
      BY <1>2, <1>3, <2>1, <3>2
  <2>2. CASE j # k + 1
    <3>1. j \in 1 .. k /\ j + 1 \in 1 .. k + 1 /\ j \in 1 .. Len(st) /\ j <= k /\ st2[j] = st[j] /\ st # <<>>
      BY <1>0, <1>3, <2>2
    <3>2. vs2[j] = vs[j] /\ vs2[j + 1] = vs[j + 1]
      BY <1>4, <1>5, <3>1
    <3>3. Done(st[j], vs[j], vs[j + 1])
      BY <1>7, <3>1 DEF Chained, Leads
    <3> QED
      BY <3>1, <3>2, <3>3
  <2> QED
    BY <2>1, <2>2
<1> QED
  BY <1>3, <1>5, <1>6, <1>7 DEF st2, vs2

(* undo() takes the object one content back.                               *)
LEMMA UndoStack ==
    ASSUME NEW st \in Seq(Command), NEW k \in Nat, k > 0, NEW vs, Reversible(st, k, vs)
    PROVE  LET c == Undone(st[k])
               st2 == [st EXCEPT ![k] = c]
           IN  /\ c \in Command /\ c.feature.id = st[k].feature.id
               /\ st2 \in Seq(Command) /\ Len(st2) = Len(st) /\ st2 # <<>> /\ st # <<>>
               /\ \A j \in 1 .. Len(st) : st2[j] = IF j = k THEN c ELSE st[j]
               /\ Reversible(st2, k - 1, vs)
               /\ Chained(st, k, vs) => Chained(st2, k - 1, vs) /\ c.feature.nodes = vs[k]
<1> DEFINE c == Undone(st[k])
           st2 == [st EXCEPT ![k] = c]
<1>d. c = Undone(st[k]) /\ st2 = [st EXCEPT ![k] = c]
  OBVIOUS
<1> HIDE DEF c, st2
<1> USE <1>d
<1>0. Len(st) \in Nat /\ k \in 1 .. Len(st) /\ st[k] \in Command /\ k <= k
  BY ElementOfSeq, LenProperties DEF Reversible
<1>1. PICK a \in Nodes, b \in Nodes : Done(st[k], a, b)
  BY <1>0 DEF Reversible, Leads
<1>2. c \in Command /\ c.feature.id = st[k].feature.id /\ Waits(c, a, b)
  BY <1>0, <1>1, UndoneType
<1>3. /\ st2 \in Seq(Command) /\ Len(st2) = Len(st)
      /\ \A j \in 1 .. Len(st) : st2[j] = IF j = k THEN c ELSE st[j]
  BY <1>0, <1>2, ExceptSeq
<1>4. st2 # <<>> /\ st # <<>>
  BY <1>0, <1>3, EmptySeq
<1>5. Reversible(st2, k - 1, vs)
  <2>1. ASSUME NEW j \in 1 .. Len(st) PROVE \E x, y \in Nodes : Leads(st2[j], j <= k - 1, x, y)
    <3>1. CASE j = k
      BY <1>0, <1>2, <1>3, <3>1 DEF Leads
    <3>2. CASE j # k
      <4>1. st2[j] = st[j] /\ ((j <= k - 1) <=> (j <= k))
        BY <1>0, <1>3, <3>2
      <4> QED
        BY <4>1 DEF Reversible, Leads
    <3> QED
      BY <3>1, <3>2
  <2>2. k - 1 <= Len(st)
    BY <1>0
  <2> QED
    BY <1>3, <1>4, <2>1, <2>2 DEF Reversible
<1>6. ASSUME Chained(st, k, vs) PROVE Chained(st2, k - 1, vs) /\ c.feature.nodes = vs[k]
  <2>1. Waits(c, vs[k], vs[k + 1])
    BY <1>0, <1>6 DEF Chained, Leads, Done
  <2>2. ASSUME NEW j \in 1 .. Len(st) PROVE Leads(st2[j], j <= k - 1, vs[j], vs[j + 1])
    <3>1. CASE j = k
      BY <1>0, <1>3, <2>1, <3>1 DEF Leads
    <3>2. CASE j # k
      <4>1. st2[j] = st[j] /\ ((j <= k - 1) <=> (j <= k))
        BY <1>0, <1>3, <3>2
      <4> QED
        BY <1>6, <4>1 DEF Chained, Leads
    <3> QED
      BY <3>1, <3>2
  <2> QED
    BY <1>3, <2>1, <2>2 DEF Chained, Waits
<1> QED
  BY <1>2, <1>3, <1>4, <1>5, <1>6 DEF c, st2

(* redo() takes it one content on.                                         *)
LEMMA RedoStack ==
    ASSUME NEW st \in Seq(Command), NEW k \in Nat, k < Len(st), NEW vs, Reversible(st, k, vs)
    PROVE  LET c == redo(st[k + 1])
               st2 == [st EXCEPT ![k + 1] = c]
           IN  /\ c \in Command /\ c.feature.id = st[k + 1].feature.id
               /\ st2 \in Seq(Command) /\ Len(st2) = Len(st) /\ st2 # <<>> /\ st # <<>>
               /\ \A j \in 1 .. Len(st) : st2[j] = IF j = k + 1 THEN c ELSE st[j]
               /\ Reversible(st2, k + 1, vs)
               /\ Chained(st, k, vs) => Chained(st2, k + 1, vs) /\ c.feature.nodes = vs[k + 2]
<1> DEFINE c == redo(st[k + 1])
           st2 == [st EXCEPT ![k + 1] = c]
<1>d. c = redo(st[k + 1]) /\ st2 = [st EXCEPT ![k + 1] = c]
  OBVIOUS
<1> HIDE DEF c, st2
<1> USE <1>d
<1>0. Len(st) \in Nat /\ k + 1 \in 1 .. Len(st) /\ st[k + 1] \in Command /\ ~(k + 1 <= k)
  BY ElementOfSeq, LenProperties
<1>1. PICK a \in Nodes, b \in Nodes : Waits(st[k + 1], a, b)
  BY <1>0 DEF Reversible, Leads
<1>2. c \in Command /\ c.feature.id = st[k + 1].feature.id /\ Done(c, a, b)
  BY <1>0, <1>1, RedoFields, RedoDone DEF Waits
<1>3. /\ st2 \in Seq(Command) /\ Len(st2) = Len(st)
      /\ \A j \in 1 .. Len(st) : st2[j] = IF j = k + 1 THEN c ELSE st[j]
  BY <1>0, <1>2, ExceptSeq
<1>4. st2 # <<>> /\ st # <<>>
  BY <1>0, <1>3, EmptySeq
<1>5. Reversible(st2, k + 1, vs)
  <2>1. ASSUME NEW j \in 1 .. Len(st) PROVE \E x, y \in Nodes : Leads(st2[j], j <= k + 1, x, y)
    <3>1. CASE j = k + 1
      BY <1>0, <1>2, <1>3, <3>1 DEF Leads
    <3>2. CASE j # k + 1
      <4>1. st2[j] = st[j] /\ ((j <= k + 1) <=> (j <= k))
        BY <1>0, <1>3, <3>2
      <4> QED
        BY <4>1 DEF Reversible, Leads
    <3> QED
      BY <3>1, <3>2
  <2>2. k + 1 <= Len(st)
    BY <1>0
  <2> QED
    BY <1>3, <1>4, <2>1, <2>2 DEF Reversible
<1>6. ASSUME Chained(st, k, vs) PROVE Chained(st2, k + 1, vs) /\ c.feature.nodes = vs[k + 2]
  <2>0. (k + 1) + 1 = k + 2
    BY <1>0
  <2>1. Waits(st[k + 1], vs[k + 1], vs[k + 2])
    BY <1>0, <1>6, <2>0 DEF Chained, Leads
  <2>2. Done(c, vs[k + 1], vs[k + 2])
    BY <1>0, <2>1, RedoDone
  <2>3. ASSUME NEW j \in 1 .. Len(st) PROVE Leads(st2[j], j <= k + 1, vs[j], vs[j + 1])
    <3>1. CASE j = k + 1
      BY <1>0, <1>3, <2>0, <2>2, <3>1 DEF Leads
    <3>2. CASE j # k + 1
      <4>1. st2[j] = st[j] /\ ((j <= k + 1) <=> (j <= k))
        BY <1>0, <1>3, <3>2
      <4> QED
        BY <1>6, <4>1 DEF Chained, Leads
    <3> QED
      BY <3>1, <3>2
  <2> QED
    BY <1>3, <2>2, <2>3 DEF Chained, Done
<1> QED
  BY <1>2, <1>3, <1>4, <1>5, <1>6 DEF c, st2

-----------------------------------------------------------------------------
(* What the steps of several actions keep.                                 *)

LEMMA ObjectFacts ==
    /\ NoObject \notin Feature
    /\ \A o \in Feature : o.id \in Nat /\ o.nodes \in Nodes
    /\ \A i \in Nat, n \in Nodes : [id |-> i, nodes |-> n] \in Feature
BY NoObjectAssumption DEF Feature, Nodes

LEMMA RowFacts ==
    ASSUME TableType
    PROVE  /\ Len(rows) \in Nat /\ DOMAIN rows = 1 .. Len(rows) /\ DOMAIN latest = 1 .. Len(rows)
           /\ \A i \in 1 .. Len(rows) : rows[i] \in Nodes /\ latest[i] \in Nodes
           /\ Objects \subseteq Feature
           /\ \A o \in Objects : o.id \in 1 .. Len(rows) /\ o.nodes = rows[o.id]
<1>1. /\ Len(rows) \in Nat /\ DOMAIN rows = 1 .. Len(rows) /\ DOMAIN latest = 1 .. Len(rows)
      /\ \A i \in 1 .. Len(rows) : rows[i] \in Nodes /\ latest[i] \in Nodes
  BY LenProperties, ElementOfSeq DEF TableType
<1>2. \A i \in 1 .. Len(rows) : i \in Nat
  BY <1>1
<1> QED
  BY <1>1, <1>2, ObjectFacts DEF Objects

(* What is made current leaves the cache.                                  *)
LEMMA CurrentLeavesCache ==
    ASSUME WidgetType, CacheIsStored, NEW o \in Feature \cup {NoObject}, setCurrentOverlay(o),
           rows' = rows
    PROVE  /\ WidgetType' /\ CacheIsStored' /\ overlay' = o
           /\ DOMAIN cache' \subseteq DOMAIN cache
           /\ o # NoObject => o.id \notin DOMAIN cache'
<1>1. CASE o = NoObject
  BY <1>1 DEF setCurrentOverlay, WidgetType, CacheIsStored
<1>2. CASE o # NoObject
  BY <1>2 DEF setCurrentOverlay, WidgetType, CacheIsStored
<1> QED
  BY <1>1, <1>2

(* The object that a command shows is the edited one, out of the cache and *)
(* what the user sees; the edits of another one are left behind.           *)
LEMMA ShowsKeeps ==
    ASSUME IInv, NEW s \in Stacks, NEW o \in Feature, Own(s, o), Shows(s, o), rows' = rows
    PROVE  /\ TableType' /\ ToolType' /\ WidgetType'
           /\ object'[s] = o /\ o # NoObject
           /\ \A t \in Stacks \ {s} : object'[t] = object[t]
           /\ DOMAIN cache' \subseteq DOMAIN cache /\ o.id \notin DOMAIN cache' /\ overlay' = o
           /\ CacheIsStored' /\ EditsAreKept' /\ HoldsLatest'
<1>0. TableType /\ ToolType /\ WidgetType /\ CacheIsStored /\ EditsAreKept /\ HoldsLatest
  BY DEF IInv, Contents
<1>1. o # NoObject /\ o.id \in Nat /\ o.nodes \in Nodes
  BY ObjectFacts
<1>2. /\ WidgetType' /\ CacheIsStored' /\ overlay' = o
      /\ DOMAIN cache' \subseteq DOMAIN cache /\ o.id \notin DOMAIN cache'
  BY <1>0, <1>1, CurrentLeavesCache DEF Shows
<1>3. /\ object' = [object EXCEPT ![s] = o]
      /\ latest' = (IF o.id = 0 THEN latest ELSE [latest EXCEPT ![o.id] = o.nodes])
      /\ left' = (IF s = "edit" /\ Unsaved(object[s]) THEN left \cup {object[s].id} ELSE left) \ {o.id}
  BY DEF Shows
<1>4. ToolType' /\ object'[s] = o /\ \A t \in Stacks \ {s} : object'[t] = object[t]
  BY <1>0, <1>3 DEF ToolType, Own
<1>5. /\ Len(rows) \in Nat /\ DOMAIN rows = 1 .. Len(rows) /\ DOMAIN latest = 1 .. Len(rows)
  BY <1>0, RowFacts
<1>6. /\ latest' \in Seq(Nodes) /\ Len(latest') = Len(rows)
      /\ \A i \in 1 .. Len(rows) : latest'[i] = IF i = o.id THEN o.nodes ELSE latest[i]
  <2>1. CASE o.id = 0
    BY <1>0, <1>3, <1>5, <2>1 DEF TableType
  <2>2. CASE o.id # 0
    <3>1. o.id \in 1 .. Len(rows)
      BY <2>2 DEF Own
    <3> QED
      BY <1>0, <1>1, <1>3, <2>2, <3>1, ExceptSeq DEF TableType
  <2> QED
    BY <2>1, <2>2
<1>7. TableType'
  BY <1>0, <1>6 DEF TableType
<1>8. CASE s = "draw"
  <2>1. o.id = 0 /\ \A i \in 1 .. Len(rows) : latest'[i] = latest[i] /\ (i \in left' <=> i \in left)
    BY <1>3, <1>5, <1>6, <1>8 DEF Own
  <2>2. object'.edit = object.edit
    BY <1>4, <1>8 DEF Stacks
  <2>3. object.edit # NoObject => object.edit.id \in 1 .. Len(rows)
    BY <1>0 DEF ToolType, Own, Stacks
  <2>4. EditsAreKept'
    BY <1>0, <1>5, <2>1, <2>2 DEF EditsAreKept
  <2>5. HoldsLatest'
    BY <1>0, <2>1, <2>2, <2>3 DEF HoldsLatest
  <2> QED
    BY <1>1, <1>2, <1>4, <1>7, <2>4, <2>5
<1>9. CASE s = "edit"
  <2>1. o.id \in 1 .. Len(rows) /\ latest'[o.id] = o.nodes /\ object'.edit = o
    BY <1>4, <1>6, <1>9 DEF Own
  <2>2. HoldsLatest'
    BY <1>1, <2>1 DEF HoldsLatest
  <2>3. ASSUME NEW i \in DOMAIN rows, i # o.id
        PROVE  rows[i] = latest'[i] \/ i \in left'
    <3>1. latest'[i] = latest[i] /\ (i \in left => i \in left')
      BY <1>3, <1>5, <1>6, <2>3
    <3>2. CASE rows[i] = latest[i] \/ i \in left
      BY <3>1, <3>2
    <3>3. CASE object.edit # NoObject /\ object.edit.id = i /\ object.edit.nodes = latest[i]
      <4>1. rows[i] = latest[i] \/ Unsaved(object.edit)
        BY <1>5, <3>3 DEF Unsaved
      <4> QED
        BY <1>3, <1>9, <2>3, <3>1, <3>3, <4>1
    <3> QED
      BY <1>0, <2>3, <3>2, <3>3 DEF EditsAreKept
  <2>4. EditsAreKept'
    BY <1>1, <2>1, <2>3 DEF EditsAreKept
  <2> QED
    BY <1>1, <1>2, <1>4, <1>7, <2>2, <2>4
<1> QED
  BY <1>8, <1>9 DEF Stacks

(* One stack is led on, with the object of its tool; the other stays.      *)
LEMMA OneStack ==
    ASSUME IInv, NEW s \in Stacks,
           NEW st2 \in Seq(Command), NEW k2 \in Nat, NEW vs2 \in Seq(Nodes),
           Reversible(st2, k2, vs2), \A j \in 1 .. Len(st2) : Own(s, st2[j].feature),
           s \notin mixed' => Chained(st2, k2, vs2) /\ object'[s].nodes = vs2[k2 + 1],
           object'[s] # NoObject, \A t \in Stacks \ {s} : object'[t] = object[t],
           stack' = [stack EXCEPT ![s] = st2], index' = [index EXCEPT ![s] = k2],
           versions' = [versions EXCEPT ![s] = vs2],
           mixed' \subseteq Stacks, \A t \in Stacks \ {s} : t \in mixed' <=> t \in mixed,
           UNCHANGED <<rows, editing, crashed>>
    PROVE  StackType' /\ StacksOK' /\ EditsAnObject' /\ UndoIsLinear'
<1>0. StackType /\ StacksOK /\ EditsAnObject /\ UndoIsLinear
  BY DEF IInv, Contents
<1>1. StackType'
  BY <1>0 DEF StackType
<1>2. ASSUME NEW t \in Stacks
      PROVE  /\ stack'[t] = IF t = s THEN st2 ELSE stack[t]
             /\ index'[t] = IF t = s THEN k2 ELSE index[t]
             /\ versions'[t] = IF t = s THEN vs2 ELSE versions[t]
  BY <1>0 DEF StackType
<1>3. ASSUME NEW t \in Stacks
      PROVE  /\ Reversible(stack'[t], index'[t], versions'[t])
             /\ \A j \in 1 .. Len(stack'[t]) : Own(t, stack[t][j].feature)'
             /\ t \notin mixed' => Chained(stack'[t], index'[t], versions'[t])
  <2>1. CASE t = s
    BY <1>2, <2>1 DEF Own
  <2>2. CASE t # s
    BY <1>0, <1>2, <2>2 DEF StacksOK, Own
  <2> QED
    BY <2>1, <2>2
<1>4. StacksOK'
  BY <1>3 DEF StacksOK, Own
<1>5. UndoIsLinear'
  <2>1. ASSUME NEW t \in Stacks, stack'[t] # <<>>, t \notin mixed', object'[t] # NoObject, ~crashed'
        PROVE  object'[t].nodes = versions'[t][index'[t] + 1]
    <3>1. CASE t = s
      BY <1>2, <2>1, <3>1
    <3>2. CASE t # s
      BY <1>0, <1>2, <2>1, <3>2 DEF UndoIsLinear
    <3> QED
      BY <3>1, <3>2
  <2> QED
    BY <2>1 DEF UndoIsLinear
<1>6. EditsAnObject'
  <2>1. CASE s = "edit"
    BY <2>1 DEF EditsAnObject
  <2>2. CASE s # "edit"
    BY <1>0, <1>2, <2>2 DEF EditsAnObject, Stacks
  <2> QED
    BY <2>1, <2>2
<1> QED
  BY <1>1, <1>4, <1>5, <1>6

LEMMA InitIInv == Init => IInv
<1> SUFFICES ASSUME Init PROVE IInv
  OBVIOUS
<1> USE DEF Init
<1>1. TableType
  <2>1. First \in Nodes /\ Len(<<First>>) = 1
    BY NodesAssumption DEF Nodes
  <2> QED
    BY <2>1 DEF TableType
<1>2. PointerType /\ ToolType /\ StackType /\ WidgetType
  <2>1. PointerType
    <3>1. touch \in [on : {"nothing", "begin", "end", "node", "edge"}, node : Nat]
      OBVIOUS
    <3> QED
      BY <3>1 DEF PointerType, Stacks
  <2>2. ToolType /\ StackType
    BY DEF ToolType, StackType, Stacks
  <2>3. WidgetType
    BY DEF WidgetType
  <2> QED
    BY <2>1, <2>2, <2>3
<1>3. StacksOK
  BY DEF StacksOK, Reversible, Chained, Stacks
<1>4. EditsAnObject /\ UndoIsLinear /\ SavesBehindCache /\ HoldsLatest
  BY DEF EditsAnObject, UndoIsLinear, SavesBehindCache, HoldsLatest, Stacks
<1>5. CacheIsStored /\ EditsAreKept
  BY DEF CacheIsStored, EditsAreKept
<1> QED
  BY <1>1, <1>2, <1>3, <1>4, <1>5 DEF IInv, Contents

(* A command that is pushed on the stack of the object of the tool, or the *)
(* crash of one that addresses a node there is not.                        *)
LEMMA PushKeeps ==
    ASSUME IInv, NEW s \in Stacks, NEW kind \in Kinds,
           NEW node \in Int, NEW pt \in Int, ~crashed, object[s] # NoObject,
           Push(s, object[s], kind, node, pt), UNCHANGED <<rows, editing, mixed>>
    PROVE  /\ Contents' /\ crashed' \in BOOLEAN
           /\ \A t \in Stacks \ {s} : object'[t] = object[t]
           /\ \/ UNCHANGED <<object, cache, overlay>>
              \/ object'[s].id \notin DOMAIN cache' /\ overlay' # NoObject /\ overlay' = object'[s]
<1>00. object[s] \in Feature /\ index[s] \in Nat
  BY DEF IInv, Contents, ToolType, StackType
<1> PICK k \in Nat : k = index[s]
  BY <1>00
<1> PICK o \in Feature : o = object[s]
  BY <1>00
<1> DEFINE c == [do |-> kind, feature |-> o, old |-> <<>>, node |-> node, pt |-> pt]
           st == Pushed(stack[s], k, c)
           vs == Extended(versions[s], k, o.nodes, Applied(c, o.nodes))
<1>0. /\ Own(s, o) /\ o.nodes \in Nodes
      /\ stack[s] \in Seq(Command) /\ versions[s] \in Seq(Nodes)
      /\ mixed \subseteq Stacks
      /\ Reversible(stack[s], k, versions[s])
      /\ \A j \in 1 .. Len(stack[s]) : Own(s, stack[s][j].feature)
      /\ s \notin mixed => Chained(stack[s], k, versions[s])
      /\ s \notin mixed /\ stack[s] # <<>> => versions[s][k + 1] = o.nodes
  BY ObjectFacts DEF IInv, Contents, ToolType, StackType, StacksOK, UndoIsLinear
<1>1. c \in Command /\ c.feature = o
  <2>1. <<>> \in Nodes
    BY EmptySeq DEF Nodes
  <2> QED
    BY <1>0, <2>1 DEF Command
<1>2. CASE ~Applicable(c, o.nodes)
  <2>1. crashed' = TRUE /\ UNCHANGED <<stack, index, object, latest, left, overlay, cache, versions>>
    BY <1>2 DEF Push, widget
  <2>2. Contents'
    BY <2>1 DEF IInv, Contents, TableType, ToolType, Own, StackType, WidgetType, StacksOK,
               EditsAnObject, UndoIsLinear, CacheIsStored, EditsAreKept, HoldsLatest
  <2> QED
    BY <2>1, <2>2
<1>3. CASE Applicable(c, o.nodes)
  <2>1. /\ stack' = [stack EXCEPT ![s] = st]
        /\ index' = [index EXCEPT ![s] = k + 1]
        /\ Shows(s, redo(c).feature)
        /\ versions' = [versions EXCEPT ![s] = vs]
        /\ crashed' = crashed
    BY <1>3 DEF Push, Pushed, Extended
  <2>2. /\ redo(c) \in Command /\ redo(c).feature.nodes = Applied(c, o.nodes)
        /\ redo(c).feature.id = o.id /\ Applied(c, o.nodes) \in Nodes
    BY <1>0, <1>1, <1>3, RedoFields, AppliedType
  <2>3. redo(c).feature \in Feature /\ Own(s, redo(c).feature)
    BY <1>0, <2>2 DEF Command, Own
  <2>4. Waits(c, o.nodes, Applied(c, o.nodes))
    BY <1>1, <1>3 DEF Waits
  <2> HIDE DEF c
  <2>5. /\ st \in Seq(Command) /\ vs \in Seq(Nodes) /\ Len(st) = k + 1
        /\ st[k + 1] = redo(c)
        /\ \A j \in 1 .. k : st[j] = stack[s][j] /\ j \in 1 .. Len(stack[s])
        /\ Reversible(st, k + 1, vs) /\ vs[k + 2] = Applied(c, o.nodes)
        /\ s \notin mixed => Chained(st, k + 1, vs)
    <3>1. /\ stack[s] \in Seq(Command) /\ versions[s] \in Seq(Nodes) /\ o.nodes \in Nodes
          /\ Reversible(stack[s], k, versions[s]) /\ c \in Command
          /\ Applied(c, o.nodes) \in Nodes /\ Waits(c, o.nodes, Applied(c, o.nodes))
      BY <1>0, <1>1, <2>2, <2>4
    <3>2. st \in Seq(Command) /\ vs \in Seq(Nodes) /\ Len(st) = k + 1 /\ st[k + 1] = redo(c)
      BY <3>1, PushStack
    <3>3. Reversible(st, k + 1, vs) /\ vs[k + 2] = Applied(c, o.nodes)
      BY <3>1, PushStack
    <3>4. \A j \in 1 .. k : st[j] = stack[s][j] /\ j \in 1 .. Len(stack[s])
      BY <3>1, PushStack
    <3>5. Chained(stack[s], k, versions[s]) /\ (stack[s] # <<>> => versions[s][k + 1] = o.nodes)
            => Chained(st, k + 1, vs)
      BY <3>1, PushStack
    <3> QED
      BY <1>0, <3>2, <3>3, <3>4, <3>5
  <2> HIDE DEF st, vs
  <2>6. /\ TableType' /\ ToolType' /\ WidgetType'
        /\ object'[s] = redo(c).feature /\ redo(c).feature # NoObject
        /\ \A t \in Stacks \ {s} : object'[t] = object[t]
        /\ redo(c).feature.id \notin DOMAIN cache' /\ overlay' = redo(c).feature
        /\ CacheIsStored' /\ EditsAreKept' /\ HoldsLatest'
    BY <2>1, <2>3, ShowsKeeps
  <2>7. \A j \in 1 .. Len(st) : Own(s, st[j].feature)
    <3>1. ASSUME NEW j \in 1 .. Len(st) PROVE Own(s, st[j].feature)
      <4>1. CASE j = k + 1
        BY <2>3, <2>5, <4>1
      <4>2. CASE j # k + 1
        <5>1. j \in 1 .. k
          BY <2>5, <4>2
        <5> QED
          BY <1>0, <2>5, <5>1
      <4> QED
        BY <4>1, <4>2
    <3> QED
      BY <3>1
  <2>8. k + 1 \in Nat /\ (k + 1) + 1 = k + 2
    OBVIOUS
  <2>9. StackType' /\ StacksOK' /\ EditsAnObject' /\ UndoIsLinear'
    <3>1. s \notin mixed' => Chained(st, k + 1, vs) /\ object'[s].nodes = vs[(k + 1) + 1]
      BY <2>2, <2>5, <2>6, <2>8
    <3>2. mixed' \subseteq Stacks /\ \A t \in Stacks \ {s} : t \in mixed' <=> t \in mixed
      BY <1>0
    <3>3. UNCHANGED <<rows, editing, crashed>> /\ object'[s] # NoObject
      BY <2>1, <2>6
    <3> QED
      BY <2>1, <2>5, <2>6, <2>7, <2>8, <3>1, <3>2, <3>3, OneStack
  <2>10. Contents'
    BY <2>6, <2>9 DEF Contents
  <2>11. crashed' \in BOOLEAN
    BY <2>1 DEF IInv, PointerType
  <2> QED
    BY <2>6, <2>10, <2>11
<1> QED
  BY <1>2, <1>3
LEMMA StepUndo == ASSUME IInv, Undo PROVE IInv'
<1> DEFINE s == active
<1>00. /\ s \in Stacks /\ index[s] \in Nat /\ stack[s] \in Seq(Command) /\ versions[s] \in Seq(Nodes)
       /\ Reversible(stack[s], index[s], versions[s]) /\ versions \in [Stacks -> Seq(Nodes)]
  BY DEF Undo, IInv, Contents, StackType, StacksOK
<1> PICK k \in Nat : k = index[s]
  BY <1>00
<1> DEFINE c == Undone(stack[s][k])
           st == [stack[s] EXCEPT ![k] = c]
<1>0. /\ k > 0
      /\ mixed \subseteq Stacks
      /\ \A j \in 1 .. Len(stack[s]) : Own(s, stack[s][j].feature)
      /\ s \notin mixed => Chained(stack[s], k, versions[s])
  BY <1>00 DEF Undo, IInv, Contents, StackType, StacksOK
<1>1. /\ stack' = [stack EXCEPT ![s] = st] /\ index' = [index EXCEPT ![s] = k - 1]
      /\ Shows(s, c.feature)
      /\ UNCHANGED <<rows, tool, mouse, active, editing, touch, extending, crashed, versions, mixed>>
  BY DEF Undo, editor
<1>10. versions' = [versions EXCEPT ![s] = versions[s]]
  BY <1>00, <1>1
<1>2. /\ c \in Command /\ c.feature.id = stack[s][k].feature.id
      /\ st \in Seq(Command) /\ Len(st) = Len(stack[s])
  <2>1. c \in Command /\ c.feature.id = stack[s][k].feature.id
    BY <1>00, <1>0, UndoStack
  <2>2. st \in Seq(Command) /\ Len(st) = Len(stack[s])
    BY <1>00, <1>0, UndoStack
  <2> QED
    BY <2>1, <2>2
<1>3. \A j \in 1 .. Len(stack[s]) : st[j] = IF j = k THEN c ELSE stack[s][j]
  BY <1>00, <1>0, UndoStack
<1>4. Reversible(st, k - 1, versions[s])
  BY <1>00, <1>0, UndoStack
<1>5. ASSUME Chained(stack[s], k, versions[s])
      PROVE  Chained(st, k - 1, versions[s]) /\ c.feature.nodes = versions[s][k]
  <2>1. Chained(st, k - 1, versions[s])
    BY <1>00, <1>0, <1>5, UndoStack
  <2> HIDE DEF c, st
  <2>2. k \in 1 .. Len(st) /\ k \in 1 .. Len(stack[s]) /\ st[k] = c
    BY <1>00, <1>0, <1>2, <1>3 DEF Reversible
  <2>3. Leads(c, k <= k - 1, versions[s][k], versions[s][k + 1])
    BY <2>1, <2>2 DEF Chained
  <2>4. ~(k <= k - 1)
    OBVIOUS
  <2>5. c.feature.nodes = versions[s][k]
    BY <2>3, <2>4 DEF Leads, Done, Waits
  <2> QED
    BY <2>1, <2>5
<1> HIDE DEF c, st
<1>6. c.feature \in Feature /\ Own(s, c.feature) /\ \A j \in 1 .. Len(st) : Own(s, st[j].feature)
  <2>1. k \in 1 .. Len(stack[s])
    BY <1>00, <1>0 DEF Reversible
  <2>2. c.feature \in Feature /\ Own(s, c.feature)
    BY <1>0, <1>2, <2>1 DEF Own, Command
  <2> QED
    BY <1>0, <1>2, <1>3, <2>2
<1>7. /\ TableType' /\ ToolType' /\ WidgetType'
      /\ object'[s] = c.feature /\ c.feature # NoObject
      /\ \A t \in Stacks \ {s} : object'[t] = object[t]
      /\ c.feature.id \notin DOMAIN cache' /\ overlay' = c.feature
      /\ CacheIsStored' /\ EditsAreKept' /\ HoldsLatest'
  BY <1>00, <1>1, <1>6, ShowsKeeps
<1>8. k - 1 \in Nat /\ (k - 1) + 1 = k
  BY <1>0
<1>9. StackType' /\ StacksOK' /\ EditsAnObject' /\ UndoIsLinear'
  <2>1. s \notin mixed' => Chained(st, k - 1, versions[s]) /\ object'[s].nodes = versions[s][(k - 1) + 1]
    BY <1>0, <1>1, <1>5, <1>7, <1>8
  <2>2. mixed' \subseteq Stacks /\ \A t \in Stacks \ {s} : t \in mixed' <=> t \in mixed
    BY <1>0, <1>1
  <2>3. UNCHANGED <<rows, editing, crashed>> /\ object'[s] # NoObject
    BY <1>1, <1>7
  <2> QED
    BY <1>00, <1>1, <1>10, <1>2, <1>4, <1>6, <1>7, <1>8, <2>1, <2>2, <2>3, OneStack
<1>11. PointerType'
  BY <1>1 DEF IInv, PointerType
<1>12. SavesBehindCache'
  <2>1. SavesBehindCache
    BY DEF IInv
  <2>2. CASE s = "draw"
    <3>1. object'.edit = object.edit
      BY <1>7, <2>2 DEF Stacks
    <3> QED
      BY <1>1, <2>1, <2>2, <3>1 DEF SavesBehindCache
  <2>3. CASE s = "edit"
    BY <1>1, <1>7, <2>3 DEF SavesBehindCache
  <2> QED
    BY <1>00, <2>2, <2>3 DEF Stacks
<1> QED
  BY <1>7, <1>9, <1>11, <1>12 DEF IInv, Contents

LEMMA StepRedo == ASSUME IInv, Redo PROVE IInv'
<1> DEFINE s == active
<1>00. /\ s \in Stacks /\ index[s] \in Nat /\ stack[s] \in Seq(Command) /\ versions[s] \in Seq(Nodes)
       /\ Reversible(stack[s], index[s], versions[s]) /\ versions \in [Stacks -> Seq(Nodes)]
  BY DEF Redo, IInv, Contents, StackType, StacksOK
<1> PICK k \in Nat : k = index[s]
  BY <1>00
<1> DEFINE c == redo(stack[s][k + 1])
           st == [stack[s] EXCEPT ![k + 1] = c]
<1>0. /\ k < Len(stack[s])
      /\ mixed \subseteq Stacks
      /\ \A j \in 1 .. Len(stack[s]) : Own(s, stack[s][j].feature)
      /\ s \notin mixed => Chained(stack[s], k, versions[s])
  BY <1>00 DEF Redo, IInv, Contents, StackType, StacksOK
<1>1. /\ stack' = [stack EXCEPT ![s] = st] /\ index' = [index EXCEPT ![s] = k + 1]
      /\ Shows(s, c.feature)
      /\ UNCHANGED <<rows, tool, mouse, active, editing, touch, extending, crashed, versions, mixed>>
  BY DEF Redo, editor
<1>10. versions' = [versions EXCEPT ![s] = versions[s]]
  BY <1>00, <1>1
<1>2. /\ c \in Command /\ c.feature.id = stack[s][k + 1].feature.id
      /\ st \in Seq(Command) /\ Len(st) = Len(stack[s])
  <2>1. c \in Command /\ c.feature.id = stack[s][k + 1].feature.id
    BY <1>00, <1>0, RedoStack
  <2>2. st \in Seq(Command) /\ Len(st) = Len(stack[s])
    BY <1>00, <1>0, RedoStack
  <2> QED
    BY <2>1, <2>2
<1>3. \A j \in 1 .. Len(stack[s]) : st[j] = IF j = k + 1 THEN c ELSE stack[s][j]
  BY <1>00, <1>0, RedoStack
<1>4. Reversible(st, k + 1, versions[s])
  BY <1>00, <1>0, RedoStack
<1>5. ASSUME Chained(stack[s], k, versions[s])
      PROVE  Chained(st, k + 1, versions[s]) /\ c.feature.nodes = versions[s][k + 2]
  <2>1. Chained(st, k + 1, versions[s])
    BY <1>00, <1>0, <1>5, RedoStack
  <2> HIDE DEF c, st
  <2>2. k + 1 \in 1 .. Len(st) /\ k + 1 \in 1 .. Len(stack[s]) /\ st[k + 1] = c
    BY <1>00, <1>0, <1>2, <1>3 DEF Reversible
  <2>3. Leads(c, k + 1 <= k + 1, versions[s][k + 1], versions[s][(k + 1) + 1])
    BY <2>1, <2>2 DEF Chained
  <2>4. k + 1 <= k + 1 /\ (k + 1) + 1 = k + 2
    OBVIOUS
  <2>5. c.feature.nodes = versions[s][k + 2]
    BY <2>3, <2>4 DEF Leads, Done, Waits
  <2> QED
    BY <2>1, <2>5
<1> HIDE DEF c, st
<1>6. c.feature \in Feature /\ Own(s, c.feature) /\ \A j \in 1 .. Len(st) : Own(s, st[j].feature)
  <2>1. k + 1 \in 1 .. Len(stack[s])
    BY <1>00, <1>0 DEF Reversible
  <2>2. c.feature \in Feature /\ Own(s, c.feature)
    BY <1>0, <1>2, <2>1 DEF Own, Command
  <2> QED
    BY <1>0, <1>2, <1>3, <2>2
<1>7. /\ TableType' /\ ToolType' /\ WidgetType'
      /\ object'[s] = c.feature /\ c.feature # NoObject
      /\ \A t \in Stacks \ {s} : object'[t] = object[t]
      /\ c.feature.id \notin DOMAIN cache' /\ overlay' = c.feature
      /\ CacheIsStored' /\ EditsAreKept' /\ HoldsLatest'
  BY <1>00, <1>1, <1>6, ShowsKeeps
<1>8. k + 1 \in Nat /\ (k + 1) + 1 = k + 2
  BY <1>0
<1>9. StackType' /\ StacksOK' /\ EditsAnObject' /\ UndoIsLinear'
  <2>1. s \notin mixed' => Chained(st, k + 1, versions[s]) /\ object'[s].nodes = versions[s][(k + 1) + 1]
    BY <1>0, <1>1, <1>5, <1>7, <1>8
  <2>2. mixed' \subseteq Stacks /\ \A t \in Stacks \ {s} : t \in mixed' <=> t \in mixed
    BY <1>0, <1>1
  <2>3. UNCHANGED <<rows, editing, crashed>> /\ object'[s] # NoObject
    BY <1>1, <1>7
  <2> QED
    BY <1>00, <1>1, <1>10, <1>2, <1>4, <1>6, <1>7, <1>8, <2>1, <2>2, <2>3, OneStack
<1>11. PointerType'
  BY <1>1 DEF IInv, PointerType
<1>12. SavesBehindCache'
  <2>1. SavesBehindCache
    BY DEF IInv
  <2>2. CASE s = "draw"
    <3>1. object'.edit = object.edit
      BY <1>7, <2>2 DEF Stacks
    <3> QED
      BY <1>1, <2>1, <2>2, <3>1 DEF SavesBehindCache
  <2>3. CASE s = "edit"
    BY <1>1, <1>7, <2>3 DEF SavesBehindCache
  <2> QED
    BY <1>00, <2>2, <2>3 DEF Stacks
<1> QED
  BY <1>7, <1>9, <1>11, <1>12 DEF IInv, Contents

(* Nothing but the cache and the current overlay changes of the contents.  *)
LEMMA SameContents ==
    ASSUME Contents, WidgetType', CacheIsStored',
           UNCHANGED <<rows, object, stack, index, versions, mixed, latest, left>>,
           editing'.edit => editing.edit, crashed' = crashed
    PROVE  Contents'
<1> USE DEF Contents
<1>1. TableType' /\ ToolType' /\ StackType'
  BY DEF TableType, ToolType, Own, StackType
<1>2. StacksOK'
  BY DEF StacksOK, Own
<1>3. EditsAnObject' /\ UndoIsLinear' /\ EditsAreKept' /\ HoldsLatest'
  BY DEF EditsAnObject, UndoIsLinear, EditsAreKept, HoldsLatest
<1> QED
  BY <1>1, <1>2, <1>3

LEMMA SameWidget ==
    ASSUME Contents, UNCHANGED <<rows, widget>>
    PROVE  WidgetType' /\ CacheIsStored'
BY DEF Contents, WidgetType, CacheIsStored, widget

LEMMA Stutter == ASSUME IInv, UNCHANGED vars PROVE IInv'
<1>1. UNCHANGED <<rows, tool, mouse, active, stack, index, editing, object, touch, overlay, cache,
                  widget, crashed, versions, mixed, latest, left>>
  BY DEF vars, undo, editor, widget, past
<1>2. Contents'
  BY <1>1, SameWidget, SameContents DEF IInv
<1> QED
  BY <1>1, <1>2 DEF IInv, PointerType, SavesBehindCache

LEMMA StepSetTool == ASSUME IInv, NEW t \in {"pan", "point", "draw", "edit"}, setTool(t) PROVE IInv'
<1>1. /\ UNCHANGED <<rows, active, stack, index, object, touch, overlay, cache,
                     widget, crashed, versions, mixed, latest, left>>
      /\ tool' = t /\ mouse' = (IF t = "edit" THEN "outside" ELSE "up")
      /\ editing' = [s \in Stacks |-> FALSE]
  BY DEF setTool, undo, widget, past
<1>2. Contents'
  <2>1. editing'.edit => editing.edit
    BY <1>1 DEF Stacks
  <2> QED
    BY <1>1, <2>1, SameWidget, SameContents DEF IInv
<1>3. PointerType'
  BY <1>1 DEF IInv, PointerType
<1>4. SavesBehindCache'
  BY <1>1 DEF SavesBehindCache
<1> QED
  BY <1>2, <1>3, <1>4 DEF IInv

LEMMA StepPaint == ASSUME IInv, Paint PROVE IInv'
<1>1. UNCHANGED <<rows, tool, mouse, active, stack, index, editing, object, touch, overlay,
                  crashed, versions, mixed, latest, left>>
  BY DEF Paint, undo, editor, past
<1> DEFINE loads == {o.id : o \in {p \in Objects : overlay = NoObject \/ overlay.id # p.id}}
<1>2. cache' = [i \in loads \cup DOMAIN cache |-> IF i \in DOMAIN cache THEN cache[i] ELSE rows[i]]
  BY DEF Paint
<1>3. loads \subseteq DOMAIN rows /\ (overlay # NoObject => overlay.id \notin loads)
  BY RowFacts DEF IInv, Contents
<1> HIDE DEF loads
<1>4. WidgetType' /\ CacheIsStored'
  BY <1>1, <1>2, <1>3 DEF IInv, Contents, WidgetType, CacheIsStored
<1>5. Contents'
  BY <1>1, <1>4, SameContents DEF IInv
<1>6. PointerType' /\ SavesBehindCache'
  BY <1>1, <1>2, <1>3 DEF IInv, PointerType, SavesBehindCache
<1> QED
  BY <1>5, <1>6 DEF IInv

LEMMA StepPanMove == ASSUME IInv, PanMove PROVE IInv'
<1>1. UNCHANGED <<rows, tool, mouse, active, stack, index, editing, object, touch,
                  crashed, versions, mixed, latest, left>>
  BY DEF PanMove, undo, editor, past
<1>2. PICK o \in Feature \cup {NoObject} : setCurrentOverlay(o)
  BY RowFacts DEF PanMove, IInv, Contents
<1>3. WidgetType' /\ CacheIsStored'
  BY <1>1, <1>2, CurrentLeavesCache DEF IInv, Contents
<1>4. Contents'
  BY <1>1, <1>3, SameContents DEF IInv
<1>5. tool' = "pan"
  BY DEF PanMove, Using
<1>6. PointerType' /\ SavesBehindCache'
  BY <1>1, <1>5 DEF IInv, PointerType, SavesBehindCache
<1> QED
  BY <1>4, <1>6 DEF IInv

LEMMA StepDrawPressed == ASSUME IInv, DrawPressed PROVE IInv'
<1>1. /\ UNCHANGED <<rows, tool, stack, index, object, touch, overlay, cache, widget, crashed,
                     versions, mixed, latest, left>>
      /\ mouse' = "left" /\ active' = "draw" /\ tool' = "draw"
      /\ editing' = [editing EXCEPT !.draw = TRUE]
  BY DEF DrawPressed, Using, editor, widget, past
<1>2. Contents'
  <2>1. editing'.edit => editing.edit
    BY <1>1 DEF IInv, PointerType, Stacks
  <2> QED
    BY <1>1, <2>1, SameWidget, SameContents DEF IInv
<1>3. PointerType'
  BY <1>1 DEF IInv, PointerType, Stacks
<1>4. SavesBehindCache'
  BY <1>1 DEF SavesBehindCache
<1> QED
  BY <1>2, <1>3, <1>4 DEF IInv

LEMMA StepEditTouches == ASSUME IInv, EditTouches PROVE IInv'
<1>1. /\ UNCHANGED <<rows, tool, mouse, active, stack, index, editing, object, overlay, cache, widget,
                     crashed, versions, mixed, latest, left>>
      /\ touch' \in Touching(object.edit) /\ editing.edit
  BY DEF EditTouches, undo, widget, past
<1>2. Contents'
  BY <1>1, SameWidget, SameContents DEF IInv
<1>3. touch' \in [on : {"nothing", "begin", "end", "node", "edge"}, node : Nat]
  <2>1. object.edit \in Feature
    BY <1>1 DEF IInv, Contents, EditsAnObject, ToolType, Stacks
  <2>2. Len(object.edit.nodes) \in Nat
    BY <2>1, ObjectFacts, NodeSeq
  <2> QED
    BY <1>1, <2>2 DEF Touching
<1>4. PointerType' /\ SavesBehindCache'
  BY <1>1, <1>3 DEF IInv, PointerType, SavesBehindCache
<1> QED
  BY <1>2, <1>4 DEF IInv

LEMMA StepEditDoubleClicked == ASSUME IInv, EditDoubleClicked PROVE IInv'
<1>1. /\ UNCHANGED <<rows, tool, active, stack, index, editing, object, touch, overlay, cache,
                     widget, crashed, versions, mixed, latest, left>>
      /\ tool = "edit" /\ mouse = "clicked" /\ mouse' = "second"
  BY DEF EditDoubleClicked, Using, undo, widget, past
<1>2. Contents'
  BY <1>1, SameWidget, SameContents DEF IInv
<1>3. PointerType' /\ SavesBehindCache'
  BY <1>1 DEF IInv, PointerType, SavesBehindCache
<1> QED
  BY <1>2, <1>3 DEF IInv
(* A new overlay is stored, and what was stored stays.                     *)
LEMMA WrittenFacts ==
    ASSUME TableType, NEW n \in Nodes, Written(n)
    PROVE  /\ TableType' /\ Len(rows') = Len(rows) + 1
           /\ \A i \in 1 .. Len(rows) : rows'[i] = rows[i] /\ latest'[i] = latest[i]
           /\ rows'[Len(rows) + 1] = n /\ latest'[Len(rows) + 1] = n
<1>1. rows' = Append(rows, n) /\ latest' = Append(latest, n)
  BY DEF Written
<1>2. rows \in Seq(Nodes) /\ latest \in Seq(Nodes) /\ Len(latest) = Len(rows) /\ Len(rows) \in Nat
  BY LenProperties DEF TableType
<1>3. /\ rows' \in Seq(Nodes) /\ latest' \in Seq(Nodes)
      /\ Len(rows') = Len(rows) + 1 /\ Len(latest') = Len(rows) + 1
  BY <1>1, <1>2
<1>4. \A i \in 1 .. Len(rows) : rows'[i] = rows[i] /\ latest'[i] = latest[i]
  BY <1>1, <1>2, AppendProperties
<1>5. rows'[Len(rows) + 1] = n /\ latest'[Len(rows) + 1] = n
  BY <1>1, <1>2
<1> QED
  BY <1>3, <1>4, <1>5 DEF TableType

LEMMA GrownContents ==
    ASSUME Contents, NEW n \in Nodes, Written(n),
           NEW o \in Feature \cup {NoObject}, setCurrentOverlay(o),
           object' = object \/ object' = [object EXCEPT !.draw = NoObject],
           editing'.edit => editing.edit, UNCHANGED <<stack, index, versions, mixed, crashed>>
    PROVE  Contents'
<1> DEFINE N == Len(rows)
<1>0. TableType /\ ToolType /\ StackType /\ WidgetType /\ StacksOK /\ EditsAnObject
      /\ UndoIsLinear /\ CacheIsStored /\ EditsAreKept /\ HoldsLatest
  BY DEF Contents
<1>1. N \in Nat /\ DOMAIN rows = 1 .. N
  BY <1>0, RowFacts
<1>2. /\ TableType' /\ Len(rows') = N + 1
      /\ \A i \in 1 .. N : rows'[i] = rows[i] /\ latest'[i] = latest[i]
      /\ rows'[N + 1] = latest'[N + 1]
  BY <1>0, WrittenFacts
<1>3. DOMAIN rows' = 1 .. N + 1 /\ 1 .. N \subseteq 1 .. N + 1 /\ left' = left
  BY <1>1, <1>2, LenProperties DEF TableType, Written
<1>4. /\ object'.edit = object.edit /\ object'["edit"] = object["edit"]
      /\ object'.draw \in {object.draw, NoObject}
      /\ \A s \in Stacks : object'[s] \in {object[s], NoObject}
      /\ object' \in [Stacks -> Feature \cup {NoObject}]
  BY <1>0 DEF ToolType, Stacks
<1> HIDE DEF N
<1>5. ToolType'
  <2>1. ASSUME NEW s \in Stacks, object'[s] # NoObject PROVE Own(s, object[s])'
    <3>1. object'[s] = object[s] /\ Own(s, object[s])
      BY <1>0, <1>4, <2>1 DEF ToolType
    <3> QED
      BY <1>2, <1>3, <3>1 DEF Own, N
  <2> QED
    BY <1>4, <2>1 DEF ToolType
<1>6. StackType'
  BY <1>0 DEF StackType
<1>7. cache' = cache \/ cache' = [i \in DOMAIN cache \ {o.id} |-> cache[i]]
  BY DEF setCurrentOverlay
<1>8. WidgetType' /\ CacheIsStored'
  <2>1. overlay' = o /\ DOMAIN cache' \subseteq DOMAIN cache
        /\ cache' = [i \in DOMAIN cache' |-> cache[i]] /\ \A i \in DOMAIN cache' : cache'[i] = cache[i]
    BY <1>0, <1>7 DEF WidgetType, setCurrentOverlay
  <2>2. WidgetType'
    BY <1>0, <1>1, <1>3, <2>1 DEF WidgetType
  <2>3. CacheIsStored'
    BY <1>0, <1>1, <1>2, <2>1 DEF WidgetType, CacheIsStored
  <2> QED
    BY <2>2, <2>3
<1>9. StacksOK'
  <2>1. ASSUME NEW s \in Stacks, NEW j \in 1 .. Len(stack[s]) PROVE Own(s, stack[s][j].feature)'
    <3>1. Own(s, stack[s][j].feature)
      BY <1>0 DEF StacksOK
    <3> QED
      BY <1>2, <1>3, <3>1 DEF Own, N
  <2> QED
    BY <1>0, <2>1 DEF StacksOK
<1>10. EditsAnObject' /\ UndoIsLinear'
  <2>1. EditsAnObject'
    BY <1>0, <1>4 DEF EditsAnObject
  <2>2. UndoIsLinear'
    BY <1>0, <1>4 DEF UndoIsLinear
  <2> QED
    BY <2>1, <2>2
<1>11. EditsAreKept'
  <2>1. ASSUME NEW i \in 1 .. N
        PROVE  \/ rows'[i] = latest'[i] \/ i \in left'
               \/ object'.edit # NoObject /\ object'.edit.id = i /\ object'.edit.nodes = latest'[i]
    BY <1>0, <1>1, <1>2, <1>3, <1>4, <2>1 DEF EditsAreKept
  <2>2. \A i \in 1 .. N + 1 : i \in 1 .. N \/ i = N + 1
    BY <1>1
  <2> QED
    BY <1>2, <1>3, <2>1, <2>2 DEF EditsAreKept
<1>12. HoldsLatest'
  <2>1. object.edit # NoObject => object.edit.id \in 1 .. N
    BY <1>0 DEF ToolType, Own, Stacks, N
  <2> QED
    BY <1>0, <1>2, <1>3, <1>4, <2>1 DEF HoldsLatest
<1> QED
  BY <1>2, <1>5, <1>6, <1>8, <1>9, <1>10, <1>11, <1>12 DEF Contents

LEMMA StepPointReleased == ASSUME IInv, PointReleased PROVE IInv'
<1>1. PICK pt \in Points : /\ Written(<<pt>>)
                           /\ setCurrentOverlay([id |-> Len(rows) + 1, nodes |-> <<pt>>])
  BY DEF PointReleased
<1>2. /\ UNCHANGED <<mouse, stack, index, object, touch, editing, crashed, versions, mixed>>
      /\ tool' = "point" /\ active' = "widget"
  BY DEF PointReleased, Using, editor
<1>3. <<pt>> \in Nodes
  BY NodesAssumption DEF Nodes
<1>4. [id |-> Len(rows) + 1, nodes |-> <<pt>>] \in Feature
  <2>1. Len(rows) + 1 \in Nat
    BY RowFacts DEF IInv, Contents
  <2> QED
    BY <1>3, <2>1 DEF Feature
<1>5. Contents'
  BY <1>1, <1>2, <1>3, <1>4, GrownContents DEF IInv
<1>6. PointerType' /\ SavesBehindCache'
  BY <1>2 DEF IInv, PointerType, SavesBehindCache
<1> QED
  BY <1>5, <1>6 DEF IInv

LEMMA StepDrawDoubleClicked ==
    ASSUME IInv, NEW b \in {"left", "right"}, DrawDoubleClicked(b) PROVE IInv'
<1>1. /\ UNCHANGED <<stack, index, touch, versions, mixed>>
      /\ tool = "draw" /\ tool' = "draw" /\ mouse' \in {"second", "up"}
      /\ editing' = [editing EXCEPT !.draw = FALSE]
  BY DEF DrawDoubleClicked, Using, editor
<1>2. editing' \in [Stacks -> BOOLEAN] /\ (editing'.edit => editing.edit)
  BY <1>1 DEF IInv, PointerType, Stacks
<1>3. SavesBehindCache'
  BY <1>1 DEF SavesBehindCache
<1>4. CASE object.draw = NoObject
  <2>1. crashed' = TRUE /\ UNCHANGED <<rows, active, object, overlay, cache, widget, latest, left>>
    BY <1>4 DEF DrawDoubleClicked, widget
  <2>2. PointerType'
    BY <1>1, <1>2, <2>1 DEF IInv, PointerType
  <2>3. Contents'
    BY <1>1, <1>2, <2>1 DEF IInv, Contents, TableType, ToolType, Own, StackType, WidgetType, StacksOK,
          EditsAnObject, UndoIsLinear, CacheIsStored, EditsAreKept, HoldsLatest
  <2> QED
    BY <1>3, <2>2, <2>3 DEF IInv
<1>5. CASE object.draw # NoObject
  <2>1. /\ Written(object.draw.nodes) /\ active' = "widget" /\ crashed' = crashed
        /\ object' = [object EXCEPT !.draw = NoObject] /\ setCurrentOverlay(NoObject)
    BY <1>5 DEF DrawDoubleClicked
  <2>2. object.draw.nodes \in Nodes
    <3>1. object.draw \in Feature
      BY <1>5 DEF IInv, Contents, ToolType, Stacks
    <3> QED
      BY <3>1, ObjectFacts
  <2>3. Contents'
    BY <1>1, <1>2, <2>1, <2>2, GrownContents DEF IInv
  <2>4. PointerType'
    BY <1>1, <1>2, <2>1 DEF IInv, PointerType
  <2> QED
    BY <1>3, <2>3, <2>4 DEF IInv
<1> QED
  BY <1>4, <1>5
(* The first command of a new object.                                      *)
LEMMA FirstCommand ==
    ASSUME NEW c \in Command, NEW a \in Nodes, NEW b \in Nodes, Waits(c, a, b)
    PROVE  /\ <<redo(c)>> \in Seq(Command) /\ <<a, b>> \in Seq(Nodes)
           /\ Reversible(<<redo(c)>>, 1, <<a, b>>) /\ Chained(<<redo(c)>>, 1, <<a, b>>)
<1>1. redo(c) \in Command /\ Done(redo(c), a, b)
  BY RedoFields, RedoDone DEF Waits
<1> DEFINE d == redo(c)
<1> HIDE DEF d
<1>2. <<d>> \in Seq(Command) /\ Len(<<d>>) = 1 /\ <<d>>[1] = d /\ <<d>> # <<>>
  BY <1>1 DEF d
<1>3. <<a, b>> \in Seq(Nodes) /\ Len(<<a, b>>) = 2 /\ <<a, b>>[1] = a /\ <<a, b>>[2] = b
  OBVIOUS
<1>4. Leads(d, 1 <= 1, a, b)
  BY <1>1 DEF Leads, d
<1>5. Chained(<<d>>, 1, <<a, b>>)
  <2> SUFFICES ASSUME NEW j \in 1 .. 1
               PROVE  Leads(<<d>>[j], j <= 1, <<a, b>>[j], <<a, b>>[j + 1])
    BY <1>2 DEF Chained
  <2>1. j = 1 /\ 1 + 1 = 2
    OBVIOUS
  <2> QED
    BY <1>2, <1>3, <1>4, <2>1
<1>6. Reversible(<<d>>, 1, <<a, b>>)
  <2>1. \A j \in 1 .. 1 : \E x, y \in Nodes : Leads(<<d>>[j], j <= 1, x, y)
    <3> SUFFICES ASSUME NEW j \in 1 .. 1 PROVE Leads(<<d>>[j], j <= 1, a, b)
      OBVIOUS
    <3>1. j = 1
      OBVIOUS
    <3> QED
      BY <1>2, <1>4, <3>1
  <2> QED
    BY <1>2, <1>3, <2>1 DEF Reversible
<1> QED
  BY <1>2, <1>3, <1>5, <1>6 DEF d

LEMMA StepDrawReleased == ASSUME IInv, DrawReleased PROVE IInv'
<1>1. /\ UNCHANGED <<rows, tool, active, editing, touch>>
      /\ tool = "draw" /\ tool' = "draw" /\ mouse' \in {"up", "clicked"} /\ ~crashed
  BY DEF DrawReleased, Using, editor
<1>2. SavesBehindCache'
  BY <1>1 DEF SavesBehindCache
<1>3. crashed' \in BOOLEAN => PointerType'
  BY <1>1 DEF IInv, PointerType
<1>4. CASE ~editing.draw
  <2>1. UNCHANGED <<stack, index, object, overlay, cache, widget, crashed, versions, mixed, latest, left>>
    BY <1>4 DEF DrawReleased, widget, past
  <2>2. Contents'
    BY <1>1, <2>1, SameWidget, SameContents DEF IInv
  <2> QED
    BY <1>2, <1>3, <2>1, <2>2 DEF IInv, PointerType
<1>5. CASE editing.draw /\ object.draw # NoObject
  <2>1. PICK pt \in Points : Push("draw", object.draw, "append", 0, pt) /\ mixed' = mixed
    BY <1>5 DEF DrawReleased
  <2>2. pt \in Int /\ "append" \in Kinds /\ "draw" \in Stacks /\ 0 \in Int
    BY NodesAssumption DEF Kinds, Stacks
  <2>3. UNCHANGED <<rows, editing, mixed>>
    BY <1>1, <2>1
  <2>4. Contents' /\ crashed' \in BOOLEAN
    BY <1>1, <1>5, <2>1, <2>2, <2>3, PushKeeps
  <2> QED
    BY <1>2, <1>3, <2>4 DEF IInv
<1>6. CASE editing.draw /\ object.draw = NoObject
  <2>1. PICK pt \in Points :
          LET c == redo([do |-> "append", feature |-> [id |-> 0, nodes |-> <<>>],
                         old |-> <<>>, node |-> 0, pt |-> pt])
          IN  /\ stack' = [stack EXCEPT !.draw = <<c>>] /\ index' = [index EXCEPT !.draw = 1]
              /\ Shows("draw", c.feature)
              /\ versions' = [versions EXCEPT !.draw = <<<<>>, c.feature.nodes>>]
              /\ mixed' = mixed \ {"draw"} /\ crashed' = crashed
    BY <1>6 DEF DrawReleased
  <2> DEFINE c0 == [do |-> "append", feature |-> [id |-> 0, nodes |-> <<>>],
                    old |-> <<>>, node |-> 0, pt |-> pt]
             c == redo(c0)
             a == <<>>
             b == Applied(c0, a)
  <2>2. pt \in Int /\ a \in Nodes
    BY NodesAssumption, EmptySeq DEF Nodes
  <2>3. c0 \in Command /\ c0.feature.nodes = a /\ c0.feature.id = 0 /\ Applicable(c0, a)
    BY <2>2 DEF Command, Kinds, Feature, Applicable
  <2> HIDE DEF c0
  <2>4. c \in Command /\ c.feature.nodes = b /\ c.feature.id = 0 /\ b \in Nodes /\ Waits(c0, a, b)
    BY <2>2, <2>3, RedoFields, AppliedType DEF Waits
  <2>5. c.feature \in Feature /\ Own("draw", c.feature)
    BY <2>4 DEF Command, Own
  <2>6. /\ <<c>> \in Seq(Command) /\ <<a, b>> \in Seq(Nodes)
        /\ Reversible(<<c>>, 1, <<a, b>>) /\ Chained(<<c>>, 1, <<a, b>>)
    BY <2>2, <2>3, <2>4, FirstCommand
  <2>7. /\ stack' = [stack EXCEPT !["draw"] = <<c>>] /\ index' = [index EXCEPT !["draw"] = 1]
        /\ Shows("draw", c.feature)
        /\ versions' = [versions EXCEPT !["draw"] = <<a, b>>]
        /\ mixed' = mixed \ {"draw"} /\ crashed' = crashed
    BY <2>1, <2>4 DEF c0
  <2> HIDE DEF c, a, b
  <2>8. /\ TableType' /\ ToolType' /\ WidgetType'
        /\ object'["draw"] = c.feature /\ c.feature # NoObject
        /\ \A t \in Stacks \ {"draw"} : object'[t] = object[t]
        /\ CacheIsStored' /\ EditsAreKept' /\ HoldsLatest'
    BY <1>1, <2>5, <2>7, ShowsKeeps DEF Stacks
  <2>9. StackType' /\ StacksOK' /\ EditsAnObject' /\ UndoIsLinear'
    <3>1. <<a, b>>[1 + 1] = b /\ 1 \in Nat
      OBVIOUS
    <3>2. \A j \in 1 .. Len(<<c>>) : Own("draw", <<c>>[j].feature)
      BY <2>5
    <3>3. "draw" \notin mixed' => Chained(<<c>>, 1, <<a, b>>) /\ object'["draw"].nodes = <<a, b>>[1 + 1]
      BY <2>4, <2>6, <2>8, <3>1
    <3>4. /\ mixed' \subseteq Stacks /\ \A t \in Stacks \ {"draw"} : t \in mixed' <=> t \in mixed
          /\ "draw" \in Stacks
      BY <2>7 DEF IInv, Contents, StackType, Stacks
    <3>5. UNCHANGED <<rows, editing, crashed>> /\ object'["draw"] # NoObject
      BY <1>1, <2>7, <2>8
    <3> DEFINE st2 == <<c>>
               vs2 == <<a, b>>
    <3>6. /\ st2 \in Seq(Command) /\ vs2 \in Seq(Nodes) /\ Reversible(st2, 1, vs2)
          /\ \A j \in 1 .. Len(st2) : Own("draw", st2[j].feature)
          /\ "draw" \notin mixed' => Chained(st2, 1, vs2) /\ object'["draw"].nodes = vs2[1 + 1]
          /\ stack' = [stack EXCEPT !["draw"] = st2] /\ versions' = [versions EXCEPT !["draw"] = vs2]
      BY <2>6, <2>7, <3>2, <3>3
    <3> HIDE DEF st2, vs2
    <3> QED
      BY <2>7, <2>8, <3>1, <3>4, <3>5, <3>6, OneStack
  <2>10. Contents' /\ crashed' \in BOOLEAN
    BY <2>7, <2>8, <2>9 DEF IInv, PointerType, Contents
  <2> QED
    BY <1>2, <1>3, <2>10 DEF IInv
<1> QED
  BY <1>4, <1>5, <1>6
LEMMA StepEditHover == ASSUME IInv, EditHover PROVE IInv'
<1>0. /\ TableType /\ ToolType /\ StackType /\ WidgetType /\ StacksOK /\ EditsAnObject
      /\ UndoIsLinear /\ CacheIsStored /\ EditsAreKept /\ HoldsLatest /\ PointerType /\ SavesBehindCache
  BY DEF IInv, Contents
<1>1. /\ UNCHANGED <<rows, tool, active, stack, index, editing, touch, crashed, versions, latest>>
      /\ tool = "edit" /\ ~editing.edit
      /\ mouse' = (IF mouse = "outside" THEN "up" ELSE mouse)
      /\ left' = (IF Unsaved(object.edit) THEN left \cup {object.edit.id} ELSE left)
  BY DEF EditHover, Using, undo, editor
<1>2. PICK o \in Objects \cup {NoObject} :
        /\ object' = [object EXCEPT !.edit = o] /\ setCurrentOverlay(o)
        /\ mixed' = IF stack.edit = <<>> THEN mixed ELSE mixed \cup {"edit"}
  BY DEF EditHover
<1>3. /\ DOMAIN rows = 1 .. Len(rows) /\ DOMAIN latest = 1 .. Len(rows) /\ o \in Feature \cup {NoObject}
      /\ o # NoObject => o.id \in 1 .. Len(rows) /\ o.nodes = rows[o.id]
  BY <1>0, RowFacts
<1>4. WidgetType' /\ CacheIsStored'
  BY <1>0, <1>1, <1>2, <1>3, CurrentLeavesCache
<1>5. object'.edit = o /\ object'.draw = object.draw /\ object' \in [Stacks -> Feature \cup {NoObject}]
  BY <1>0, <1>2, <1>3 DEF ToolType, Stacks
<1>6. TableType' /\ StackType' /\ ToolType'
  <2>1. StackType'
    BY <1>0, <1>1, <1>2 DEF StackType, Stacks
  <2>2. TableType'
    BY <1>0, <1>1 DEF TableType
  <2>3. ToolType'
    BY <1>0, <1>1, <1>3, <1>5 DEF ToolType, Own, Stacks
  <2> QED
    BY <2>1, <2>2, <2>3
<1>7. mixed \subseteq mixed' /\ (stack.edit # <<>> => "edit" \in mixed')
  BY <1>2
<1>8. StacksOK'
  BY <1>0, <1>1, <1>7 DEF StacksOK, Own
<1>9. EditsAnObject' /\ UndoIsLinear'
  <2>1. EditsAnObject'
    BY <1>1, <1>7 DEF EditsAnObject
  <2>2. UndoIsLinear'
    BY <1>0, <1>1, <1>5, <1>7 DEF UndoIsLinear, Stacks
  <2> QED
    BY <2>1, <2>2
(* What the user saw last is stored, was left before, or is left now.      *)
<1>10. ASSUME NEW i \in DOMAIN rows PROVE rows[i] = latest[i] \/ i \in left'
  <2>1. CASE rows[i] = latest[i] \/ i \in left
    BY <1>1, <2>1
  <2>2. CASE object.edit # NoObject /\ object.edit.id = i /\ object.edit.nodes = latest[i]
    <3>1. i # 0
      BY <1>3
    <3>2. rows[i] = latest[i] \/ Unsaved(object.edit)
      BY <2>2, <3>1 DEF Unsaved
    <3> QED
      BY <1>1, <2>2, <3>2
  <2> QED
    BY <1>0, <2>1, <2>2 DEF EditsAreKept
<1>11. EditsAreKept' /\ HoldsLatest'
  <2>1. EditsAreKept'
    BY <1>1, <1>10 DEF EditsAreKept
  <2>2. HoldsLatest'
    BY <1>1, <1>3, <1>5, <1>10 DEF HoldsLatest
  <2> QED
    BY <2>1, <2>2
<1>12. PointerType'
  BY <1>0, <1>1 DEF PointerType
<1>13. SavesBehindCache'
  BY <1>0, <1>1, <1>3, <1>5 DEF SavesBehindCache
<1> QED
  BY <1>4, <1>6, <1>8, <1>9, <1>11, <1>12, <1>13 DEF IInv, Contents

(* A command of the editing tool, while the pointer is on the map.         *)
LEMMA EditPushKeeps ==
    ASSUME IInv, editing.edit, tool = "edit", mouse \in {"up", "clicked", "left", "right", "second"},
           NEW kind \in Kinds, NEW node \in Int, NEW pt \in Int, ~crashed,
           Push("edit", object.edit, kind, node, pt),
           UNCHANGED <<rows, tool, editing, mixed>>, active' # "draw"
    PROVE  Contents' /\ SavesBehindCache' /\ crashed' \in BOOLEAN
<1>1. object["edit"] # NoObject /\ "edit" \in Stacks /\ SavesBehindCache
  BY DEF IInv, Contents, EditsAnObject, Stacks
<1>2. /\ Contents' /\ crashed' \in BOOLEAN
      /\ \/ UNCHANGED <<object, cache, overlay>>
         \/ object'["edit"].id \notin DOMAIN cache' /\ overlay' # NoObject /\ overlay' = object'["edit"]
  BY <1>1, PushKeeps
<1>3. SavesBehindCache'
  <2>1. CASE UNCHANGED <<object, cache, overlay>>
    BY <1>1, <2>1 DEF SavesBehindCache
  <2>2. CASE object'["edit"].id \notin DOMAIN cache' /\ overlay' # NoObject /\ overlay' = object'["edit"]
    BY <2>2 DEF SavesBehindCache
  <2> QED
    BY <1>2, <2>1, <2>2
<1> QED
  BY <1>2, <1>3

LEMMA StepEditDragged == ASSUME IInv, EditDragged PROVE IInv'
<1>1. /\ UNCHANGED <<rows, tool, mouse, active, editing, touch, mixed>>
      /\ tool = "edit" /\ editing.edit /\ mouse \in {"left", "second"} /\ ~crashed
  BY DEF EditDragged, Using
<1>2. touch.node \in Int /\ 1 \in Int /\ "move node" \in Kinds /\ "move edge" \in Kinds
  BY DEF IInv, PointerType, Kinds
<1>3. active' # "draw"
  BY <1>1 DEF IInv, SavesBehindCache
<1>4. Contents' /\ SavesBehindCache' /\ crashed' \in BOOLEAN
  <2>1. CASE OnNode(touch)
    <3>1. Push("edit", object.edit, "move node", touch.node, 1)
      BY <2>1 DEF EditDragged
    <3> QED
      BY <1>1, <1>2, <1>3, <3>1, EditPushKeeps
  <2>2. CASE ~OnNode(touch)
    <3>1. Push("edit", object.edit, "move edge", touch.node, 1)
      BY <2>2 DEF EditDragged
    <3> QED
      BY <1>1, <1>2, <1>3, <3>1, EditPushKeeps
  <2> QED
    BY <2>1, <2>2
<1>5. PointerType'
  BY <1>1, <1>4 DEF IInv, PointerType
<1> QED
  BY <1>4, <1>5 DEF IInv

LEMMA StepEditPressed ==
    ASSUME IInv, NEW b \in {"left", "right"}, NEW key \in {"no", "ctrl", "shift"}, EditPressed(b, key)
    PROVE  IInv'
<1> DEFINE Rest == Idle /\ (editing' = editing \/ editing' = [editing EXCEPT !.edit = FALSE])
<1>0. touch \in [on : {"nothing", "begin", "end", "node", "edge"}, node : Nat]
  BY DEF IInv, PointerType
<1>1. /\ rows' = rows /\ tool' = tool /\ tool = "edit" /\ ~crashed
      /\ mouse \in {"up", "clicked"} /\ mouse' = b /\ active' = "edit"
  BY DEF EditPressed, Using, Up
<1>2. \/ Rest
      \/ /\ editing.edit
         /\ \/ EditPushes("delete", touch.node, 0, touch)
            \/ \E pt \in Points :
                 EditPushes("insert", touch.node, pt, [on |-> "node", node |-> touch.node + 1])
            \/ \E pt \in Points :
                 EditPushes("append", 0, pt, [touch EXCEPT !.node = Len(object.edit.nodes) + 1])
            \/ \E pt \in Points : EditPushes("prepend", 0, pt, [touch EXCEPT !.node = 1])
  BY DEF EditPressed
<1>3. CASE Rest
  <2>1. /\ UNCHANGED <<stack, index, object, overlay, cache, widget, crashed, versions, mixed, latest, left, touch>>
        /\ editing' \in [Stacks -> BOOLEAN] /\ (editing'.edit => editing.edit)
    BY <1>3 DEF Idle, widget, past, IInv, PointerType, Stacks
  <2>2. Contents'
    BY <1>1, <2>1, SameWidget, SameContents DEF IInv
  <2>3. PointerType' /\ SavesBehindCache'
    BY <1>1, <2>1 DEF IInv, PointerType, Stacks, SavesBehindCache
  <2> QED
    BY <2>2, <2>3 DEF IInv
<1>4. ASSUME editing.edit, NEW kind \in Kinds, NEW node \in Int, NEW pt \in Int,
             NEW touched \in [on : {"nothing", "begin", "end", "node", "edge"}, node : Nat],
             EditPushes(kind, node, pt, touched)
      PROVE  IInv'
  <2>1. /\ Push("edit", object.edit, kind, node, pt) /\ touch' = touched
        /\ UNCHANGED <<editing, mixed>>
    BY <1>4 DEF EditPushes
  <2>2. Contents' /\ SavesBehindCache' /\ crashed' \in BOOLEAN
    BY <1>1, <1>4, <2>1, EditPushKeeps
  <2>3. PointerType'
    BY <1>1, <1>4, <2>1, <2>2 DEF IInv, PointerType, Stacks
  <2> QED
    BY <2>2, <2>3 DEF IInv
<1>5. ASSUME editing.edit, EditPushes("delete", touch.node, 0, touch) PROVE IInv'
  <2>1. "delete" \in Kinds /\ touch.node \in Int /\ 0 \in Int
    BY <1>0 DEF Kinds
  <2> QED
    BY <1>0, <1>4, <1>5, <2>1
<1>6. ASSUME editing.edit, NEW pt \in Points,
             EditPushes("insert", touch.node, pt, [on |-> "node", node |-> touch.node + 1])
      PROVE  IInv'
  <2>1. /\ "insert" \in Kinds /\ touch.node \in Int /\ pt \in Int
        /\ [on |-> "node", node |-> touch.node + 1] \in
             [on : {"nothing", "begin", "end", "node", "edge"}, node : Nat]
    BY <1>0, NodesAssumption DEF Kinds
  <2> QED
    BY <1>4, <1>6, <2>1
<1>7. ASSUME editing.edit, NEW pt \in Points,
             EditPushes("append", 0, pt, [touch EXCEPT !.node = Len(object.edit.nodes) + 1])
      PROVE  IInv'
  <2>1. Len(object.edit.nodes) + 1 \in Nat
    <3>1. object.edit \in Feature
      BY <1>7 DEF IInv, Contents, EditsAnObject, ToolType, Stacks
    <3>2. Len(object.edit.nodes) \in Nat
      BY <3>1, ObjectFacts, NodeSeq
    <3> QED
      BY <3>2
  <2>2. /\ "append" \in Kinds /\ 0 \in Int /\ pt \in Int
        /\ [touch EXCEPT !.node = Len(object.edit.nodes) + 1] \in
             [on : {"nothing", "begin", "end", "node", "edge"}, node : Nat]
    BY <1>0, <2>1, NodesAssumption DEF Kinds
  <2> QED
    BY <1>4, <1>7, <2>2
<1>8. ASSUME editing.edit, NEW pt \in Points, EditPushes("prepend", 0, pt, [touch EXCEPT !.node = 1])
      PROVE  IInv'
  <2>1. /\ "prepend" \in Kinds /\ 0 \in Int /\ pt \in Int
        /\ [touch EXCEPT !.node = 1] \in
             [on : {"nothing", "begin", "end", "node", "edge"}, node : Nat]
    BY <1>0, NodesAssumption DEF Kinds
  <2> QED
    BY <1>4, <1>8, <2>1
<1> QED
  BY <1>2, <1>3, <1>5, <1>6, <1>7, <1>8
(* A release while an object is edited changes nothing but the button; one *)
(* without saves the object, and what is saved is what the user saw last.  *)
LEMMA StepEditReleased == ASSUME IInv, EditReleased PROVE IInv'
<1> DEFINE o == object.edit
           saves == o # NoObject
           rowsNow == IF saves THEN Saved(o) ELSE rows
<1>0. /\ TableType /\ ToolType /\ StackType /\ WidgetType /\ StacksOK /\ EditsAnObject
      /\ UndoIsLinear /\ CacheIsStored /\ EditsAreKept /\ HoldsLatest /\ PointerType /\ SavesBehindCache
  BY DEF IInv, Contents
<1>1. /\ UNCHANGED <<tool, touch, crashed>> /\ tool = "edit" /\ mouse \in {"left", "right", "second"}
      /\ mouse' \in {"up", "clicked"}
  BY DEF EditReleased, Using, Down, editor
<1>2. active # "draw"
  BY <1>0, <1>1 DEF SavesBehindCache
<1>3. CASE editing.edit
  <2>1. UNCHANGED <<rows, active, stack, index, editing, object, overlay, cache, widget, versions,
                    mixed, latest, left>>
    BY <1>3 DEF EditReleased, undo, widget, past
  <2>2. Contents'
    BY <1>1, <2>1, SameWidget, SameContents DEF IInv
  <2>3. PointerType' /\ SavesBehindCache'
    BY <1>0, <1>1, <1>2, <2>1 DEF PointerType, SavesBehindCache
  <2> QED
    BY <2>2, <2>3 DEF IInv
<1>4. CASE ~editing.edit
  <2>1. /\ rows' = rowsNow /\ active' = (IF saves THEN "widget" ELSE active)
        /\ IF saves THEN Clear("edit") ELSE UNCHANGED <<stack, index, versions, mixed>>
        /\ latest' = latest /\ left' = left
    BY <1>4 DEF EditReleased
  <2>2. \/ /\ object' = [object EXCEPT !.edit = NoObject]
           /\ overlay' = (IF saves THEN NoObject ELSE overlay)
           /\ cache' = cache /\ editing' = editing
        \/ \E i \in DOMAIN rowsNow :
             LET p == [id |-> i, nodes |-> rowsNow[i]]
             IN  /\ object' = [object EXCEPT !.edit = p] /\ setCurrentOverlay(p)
                 /\ editing' = [editing EXCEPT !.edit = TRUE]
    BY <1>4 DEF EditReleased
  <2>3. /\ Len(rows) \in Nat /\ DOMAIN rows = 1 .. Len(rows) /\ rows \in Seq(Nodes)
        /\ o \in Feature \cup {NoObject}
        /\ saves => o.id \in 1 .. Len(rows) /\ o.nodes \in Nodes
    BY <1>0, RowFacts, ObjectFacts DEF ToolType, Own, Stacks, TableType
  <2>4. /\ rowsNow \in Seq(Nodes) /\ Len(rowsNow) = Len(rows) /\ DOMAIN rowsNow = 1 .. Len(rows)
        /\ \A i \in 1 .. Len(rows) : rowsNow[i] = IF saves /\ i = o.id THEN o.nodes ELSE rows[i]
    <3>1. CASE saves
      <4>1. rowsNow = [rows EXCEPT ![o.id] = o.nodes]
        BY <3>1 DEF Saved
      <4> HIDE DEF rowsNow, o
      <4>2. /\ rowsNow \in Seq(Nodes) /\ Len(rowsNow) = Len(rows)
            /\ \A i \in 1 .. Len(rows) : rowsNow[i] = IF i = o.id THEN o.nodes ELSE rows[i]
        BY <2>3, <3>1, <4>1, ExceptSeq
      <4> QED
        BY <3>1, <4>2, LenProperties
    <3>2. CASE ~saves
      BY <2>3, <3>2
    <3> QED
      BY <3>1, <3>2
  <2>5. TableType'
    BY <1>0, <2>1, <2>4 DEF TableType
  (* What the user saw last is stored now, or was left behind.             *)
  <2>6. ASSUME NEW i \in 1 .. Len(rows) PROVE rowsNow[i] = latest[i] \/ i \in left
    <3>1. CASE saves /\ i = o.id
      BY <1>0, <2>4, <3>1 DEF HoldsLatest
    <3>2. CASE ~(saves /\ i = o.id)
      BY <1>0, <2>3, <2>4, <3>2 DEF EditsAreKept
    <3> QED
      BY <3>1, <3>2
  (* What is in the cache is not what is saved, or is stored as it is.     *)
  <2>7. \A i \in DOMAIN cache : i \in 1 .. Len(rows) /\ cache[i] = rowsNow[i]
    <3>1. saves => o.nodes = rows[o.id] \/ o.id \notin DOMAIN cache
      BY <1>0, <1>1 DEF SavesBehindCache
    <3> QED
      BY <1>0, <2>3, <2>4, <3>1 DEF CacheIsStored, WidgetType
  <2>8. EditsAreKept'
    BY <2>1, <2>4, <2>6 DEF EditsAreKept
  <2>9. /\ StackType' /\ mixed' \subseteq mixed
        /\ stack'["draw"] = stack["draw"] /\ index'["draw"] = index["draw"]
        /\ versions'["draw"] = versions["draw"] /\ ("draw" \in mixed' <=> "draw" \in mixed)
        /\ \/ stack'["edit"] = <<>> /\ index'["edit"] = 0 /\ versions'["edit"] = <<>>
           \/ /\ ~saves /\ stack'["edit"] = stack["edit"] /\ index'["edit"] = index["edit"]
              /\ versions'["edit"] = versions["edit"] /\ ("edit" \in mixed' <=> "edit" \in mixed)
    <3>1. CASE saves
      <4>1. /\ stack' = [stack EXCEPT !["edit"] = <<>>] /\ index' = [index EXCEPT !["edit"] = 0]
            /\ versions' = [versions EXCEPT !["edit"] = <<>>] /\ mixed' = mixed \ {"edit"}
        BY <2>1, <3>1 DEF Clear
      <4>2. <<>> \in Seq(Command) /\ <<>> \in Seq(Nodes) /\ "edit" \in Stacks /\ "draw" \in Stacks
        BY EmptySeq DEF Stacks
      <4>3. StackType'
        BY <1>0, <4>1, <4>2 DEF StackType
      <4> QED
        BY <1>0, <4>1, <4>2, <4>3 DEF StackType
    <3>2. CASE ~saves
      BY <1>0, <2>1, <3>2 DEF StackType
    <3> QED
      BY <3>1, <3>2
  <2>10. stack'["edit"] = <<>> \/ "edit" \in mixed'
    BY <1>0, <2>9 DEF EditsAnObject
  <2>11. StacksOK'
    <3>1. ASSUME NEW s \in Stacks, stack'[s] = stack[s], index'[s] = index[s], versions'[s] = versions[s],
                 s \in mixed' <=> s \in mixed
          PROVE  /\ Reversible(stack'[s], index'[s], versions'[s])
                 /\ \A j \in 1 .. Len(stack'[s]) : Own(s, stack[s][j].feature)'
                 /\ s \notin mixed' => Chained(stack'[s], index'[s], versions'[s])
      BY <1>0, <2>1, <2>4, <3>1 DEF StacksOK, Own
    <3>2. ASSUME NEW s \in Stacks, stack'[s] = <<>>, index'[s] = 0, versions'[s] = <<>>
          PROVE  /\ Reversible(stack'[s], index'[s], versions'[s])
                 /\ \A j \in 1 .. Len(stack'[s]) : Own(s, stack[s][j].feature)'
                 /\ s \notin mixed' => Chained(stack'[s], index'[s], versions'[s])
      BY <3>2 DEF Reversible, Chained
    <3> QED
      BY <2>9, <3>1, <3>2 DEF StacksOK, Stacks
  <2>12. /\ object' \in [Stacks -> Feature \cup {NoObject}] /\ object'["draw"] = object["draw"]
         /\ \/ object'["edit"] = NoObject /\ editing' = editing
            \/ \E i \in 1 .. Len(rows) :
                 /\ object'["edit"] \in Feature /\ object'["edit"].id = i
                 /\ object'["edit"].nodes = rowsNow[i]
                 /\ editing' = [editing EXCEPT !.edit = TRUE]
    <3>1. ASSUME NEW i \in 1 .. Len(rows) PROVE [id |-> i, nodes |-> rowsNow[i]] \in Feature
      BY <2>4, ObjectFacts
    <3>2. "edit" \in Stacks /\ "draw" \in Stacks /\ object \in [Stacks -> Feature \cup {NoObject}]
      BY <1>0 DEF ToolType, Stacks
    <3>3. CASE object' = [object EXCEPT !.edit = NoObject] /\ editing' = editing
      BY <3>2, <3>3
    <3>4. ASSUME NEW i \in DOMAIN rowsNow, object' = [object EXCEPT !.edit = [id |-> i, nodes |-> rowsNow[i]]],
                 editing' = [editing EXCEPT !.edit = TRUE]
          PROVE  /\ object' \in [Stacks -> Feature \cup {NoObject}] /\ object'["draw"] = object["draw"]
                 /\ i \in 1 .. Len(rows) /\ object'["edit"] \in Feature /\ object'["edit"].id = i
                 /\ object'["edit"].nodes = rowsNow[i]
      <4>1. i \in 1 .. Len(rows)
        BY <2>4
      <4> HIDE DEF rowsNow
      <4> QED
        BY <3>1, <3>2, <3>4, <4>1
    <3> QED
      BY <2>2, <3>3, <3>4
  <2>13. WidgetType' /\ CacheIsStored'
    <3>1. CASE cache' = cache /\ overlay' = (IF saves THEN NoObject ELSE overlay)
      BY <1>0, <2>1, <2>4, <2>7, <3>1 DEF WidgetType, CacheIsStored
    <3>2. ASSUME NEW i \in DOMAIN rowsNow, setCurrentOverlay([id |-> i, nodes |-> rowsNow[i]])
          PROVE  WidgetType' /\ CacheIsStored'
      <4> DEFINE p == [id |-> i, nodes |-> rowsNow[i]]
      <4>1. p \in Feature /\ p # NoObject
        BY <2>4, ObjectFacts
      <4> HIDE DEF p
      <4>2. overlay' = p /\ cache' = [q \in DOMAIN cache \ {p.id} |-> cache[q]]
        BY <3>2, <4>1 DEF setCurrentOverlay, p
      <4> QED
        BY <1>0, <2>1, <2>4, <2>7, <4>1, <4>2 DEF WidgetType, CacheIsStored
    <3> QED
      BY <2>2, <3>1, <3>2
  <2>14. ToolType'
    BY <1>0, <2>1, <2>3, <2>4, <2>12 DEF ToolType, Own, Stacks
  <2>15. EditsAnObject'
    BY <1>4, <2>10, <2>12, ObjectFacts DEF EditsAnObject
  <2>16. UndoIsLinear'
    <3>1. ASSUME NEW s \in Stacks, stack'[s] # <<>>, s \notin mixed', object'[s] # NoObject, ~crashed'
          PROVE  object'[s].nodes = versions'[s][index'[s] + 1]
      <4>1. s = "draw"
        BY <2>10, <3>1 DEF Stacks
      <4> QED
        BY <1>0, <1>1, <2>9, <2>12, <3>1, <4>1 DEF UndoIsLinear
    <3> QED
      BY <3>1 DEF UndoIsLinear
  <2>17. HoldsLatest'
    BY <2>1, <2>6, <2>12 DEF HoldsLatest
  <2>18. SavesBehindCache'
    BY <1>1, <1>2, <2>1, <2>12 DEF SavesBehindCache
  <2>19. PointerType'
    BY <1>0, <1>1, <2>1, <2>12 DEF PointerType, Stacks
  <2> QED
    BY <2>5, <2>8, <2>9, <2>11, <2>13, <2>14, <2>15, <2>16, <2>17, <2>18, <2>19 DEF IInv, Contents
<1> QED
  BY <1>3, <1>4

-----------------------------------------------------------------------------
LEMMA Invariant == Spec => []IInv
<1>1. ASSUME IInv, [Next]_vars PROVE IInv'
  <2>1. CASE UNCHANGED vars
    BY <1>1, <2>1, Stutter
  <2>2. CASE Undo
    BY <1>1, <2>2, StepUndo
  <2>3. CASE Redo
    BY <1>1, <2>3, StepRedo
  <2>4. CASE Paint
    BY <1>1, <2>4, StepPaint
  <2>5. CASE PanMove
    BY <1>1, <2>5, StepPanMove
  <2>6. CASE PointReleased
    BY <1>1, <2>6, StepPointReleased
  <2>7. ASSUME NEW t \in {"pan", "point", "draw", "edit"}, setTool(t) PROVE IInv'
    BY <1>1, <2>7, StepSetTool
  <2>8. CASE DrawPressed
    BY <1>1, <2>8, StepDrawPressed
  <2>9. CASE DrawReleased
    BY <1>1, <2>9, StepDrawReleased
  <2>10. ASSUME NEW b \in {"left", "right"}, DrawDoubleClicked(b) PROVE IInv'
    BY <1>1, <2>10, StepDrawDoubleClicked
  <2>11. CASE EditHover
    BY <1>1, <2>11, StepEditHover
  <2>12. CASE EditTouches
    BY <1>1, <2>12, StepEditTouches
  <2>13. CASE EditDragged
    BY <1>1, <2>13, StepEditDragged
  <2>14. ASSUME NEW b \in {"left", "right"}, NEW k \in {"no", "ctrl", "shift"}, EditPressed(b, k)
         PROVE  IInv'
    BY <1>1, <2>14, StepEditPressed
  <2>15. CASE EditReleased
    BY <1>1, <2>15, StepEditReleased
  <2>16. CASE EditDoubleClicked
    BY <1>1, <2>16, StepEditDoubleClicked
  <2> QED
    BY <1>1, <2>1, <2>2, <2>3, <2>4, <2>5, <2>6, <2>7, <2>8, <2>9, <2>10, <2>11, <2>12, <2>13,
       <2>14, <2>15, <2>16 DEF Next
<1> QED
  BY <1>1, InitIInv, PTL DEF Spec

(* Every variable has its type, for any overlays and any number of them.   *)
THEOREM Typing == Spec => []TypeOK
<1>1. IInv => TypeOK
  BY DEF IInv, Contents, TypeOK
<1> QED
  BY <1>1, Invariant, PTL

(* OverlayEditUndoCommand: undo() and redo() lead the object through the   *)
(* contents its commands led through, however many are undone, done again  *)
(* and dropped by a new one in between.                                    *)
THEOREM LinearUndo == Spec => []UndoIsLinear
<1>1. IInv => UndoIsLinear
  BY DEF IInv, Contents
<1> QED
  BY <1>1, Invariant, PTL

(* MapWidget::drawOverlays: what is painted from the cache is stored, also *)
(* after the editing tool saved its object without telling the widget.     *)
THEOREM FreshCache == Spec => []CacheIsStored
<1>1. IInv => CacheIsStored
  BY DEF IInv, Contents
<1> QED
  BY <1>1, Invariant, PTL

(* FeatureEditTool: what the user saw last of an overlay is stored, is     *)
(* still in the tool, or was left by a move of the pointer or an undo.     *)
THEOREM KeptEdits == Spec => []EditsAreKept
<1>1. IInv => EditsAreKept
  BY DEF IInv, Contents
<1> QED
  BY <1>1, Invariant, PTL
=============================================================================
