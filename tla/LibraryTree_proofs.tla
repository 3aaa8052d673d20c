------------------------- MODULE LibraryTree_proofs --------------------------
(***************************************************************************)
(* Proofs about LibraryTree, for any number of folders, collections and    *)
(* commands.                                                               *)
(*                                                                         *)
(* The parts of IInv are predicates of a database, the nodes of the panel  *)
(* and the history, not of the variables, so that what an operation makes  *)
(* of them is stated once and a tree that is added is two such operations. *)
(* Besides the properties of the module they say what the panel needs:     *)
(* its folders hang from root_ without a gap (Hung), a node's folder is    *)
(* shown (Closed), two nodes of a collection are on record (Twice), and    *)
(* the first session has no trigger left.  The tree is reasoned about by   *)
(* Below being the least set closed under children: a set that is closed   *)
(* is named and BelowLeast is cited, where one would want induction.       *)
(***************************************************************************)
EXTENDS LibraryTree, SequenceTheorems, FiniteSetTheorems, TLAPS

(* In the tree: f hangs from the root, or from a folder of L.              *)
Reached(up, L, f) == f \in Below(up, Root) \/ \E g \in L \cap DOMAIN up : f \in Below(up, g)
Rooted(up, L) == \A f \in DOMAIN up : Reached(up, L, f)

-----------------------------------------------------------------------------
(* Below: the least set closed under children.                             *)

LEMMA BelowClosed ==
    ASSUME NEW up, NEW f, NEW g \in DOMAIN up, up[g] \in Below(up, f) \cup {f}
    PROVE  g \in Below(up, f)
BY DEF Below

LEMMA BelowLeast ==
    ASSUME NEW up, NEW f, NEW S, \A g \in DOMAIN up : up[g] \in S \cup {f} => g \in S
    PROVE  Below(up, f) \subseteq S
<1> DEFINE T == S \cap DOMAIN up
<1>1. T \in SUBSET DOMAIN up /\ \A g \in DOMAIN up : up[g] \in T \cup {f} => g \in T
  OBVIOUS
<1>2. \A g \in Below(up, f) : g \in T
  BY <1>1 DEF Below
<1> QED
  BY <1>2

LEMMA BelowDomain == ASSUME NEW up, NEW f PROVE Below(up, f) \subseteq DOMAIN up
BY DEF Below

LEMMA BelowParent ==
    ASSUME NEW up, NEW r, NEW f \in Below(up, r)
    PROVE  up[f] \in Below(up, r) \cup {r}
<1> SUFFICES ASSUME up[f] \notin Below(up, r) \cup {r} PROVE FALSE
  OBVIOUS
<1> DEFINE S == Below(up, r) \ {f}
<1>1. \A g \in DOMAIN up : up[g] \in S \cup {r} => g \in S
  BY BelowClosed
<1>2. Below(up, r) \subseteq S
  BY <1>1, BelowLeast
<1> QED
  BY <1>2

LEMMA BelowTransitive ==
    ASSUME NEW up, NEW r, NEW f \in Below(up, r)
    PROVE  Below(up, f) \subseteq Below(up, r)
<1>1. \A g \in DOMAIN up : up[g] \in Below(up, r) \cup {f} => g \in Below(up, r)
  BY BelowClosed
<1> QED
  BY <1>1, BelowLeast

(* In a part of the tree that holds the parents of its nodes, what is below*)
(* a node is what is below it in the tree.                                 *)
LEMMA BelowInPart ==
    ASSUME NEW up, NEW part, DOMAIN part \subseteq DOMAIN up, Root \notin DOMAIN up,
           \A g \in DOMAIN part : part[g] = up[g] /\ part[g] \in DOMAIN part \cup {Root},
           NEW f \in DOMAIN part \cup {Root}
    PROVE  Below(part, f) = Below(up, f) \cap DOMAIN part
<1>1. Below(part, f) \subseteq Below(up, f)
  <2>1. \A g \in DOMAIN part : part[g] \in Below(up, f) \cup {f} => g \in Below(up, f)
    BY BelowClosed
  <2> QED
    BY <2>1, BelowLeast
<1>2. Below(part, f) \subseteq DOMAIN part
  BY BelowDomain
<1>3. Below(up, f) \cap DOMAIN part \subseteq Below(part, f)
  <2> DEFINE S == Below(part, f) \cup (DOMAIN up \ DOMAIN part)
  <2>1. ASSUME NEW g \in DOMAIN up, up[g] \in S \cup {f} PROVE g \in S
    <3>1. CASE g \in DOMAIN part
      <4>1. part[g] \in Below(part, f) \cup {f}
        BY <2>1, <3>1
      <4> QED
        BY <3>1, <4>1, BelowClosed
    <3> QED
      BY <3>1
  <2> HIDE DEF S
  <2>2. Below(up, f) \subseteq S
    BY <2>1, BelowLeast
  <2> QED
    BY <2>2 DEF S
<1> QED
  BY <1>1, <1>2, <1>3

-----------------------------------------------------------------------------
(* Changes of the tree.                                                    *)

LEMMA RootedParents ==
    ASSUME NEW up, NEW L, Rooted(up, L), NEW f \in DOMAIN up
    PROVE  up[f] \in DOMAIN up \cup {Root}
<1>1. PICK r \in {Root} \cup DOMAIN up : f \in Below(up, r)
  BY DEF Rooted, Reached
<1>2. up[f] \in Below(up, r) \cup {r}
  BY <1>1, BelowParent
<1> QED
  BY <1>1, <1>2, BelowDomain

(* A leaf is added.                                                        *)
LEMMA RootedAdd ==
    ASSUME NEW up, NEW L, Rooted(up, L), NEW n, n \notin DOMAIN up,
           NEW new, DOMAIN new = DOMAIN up \cup {n}, \A g \in DOMAIN up : new[g] = up[g],
           new[n] \in DOMAIN up
    PROVE  Rooted(new, L)
<1>1. ASSUME NEW r PROVE Below(up, r) \subseteq Below(new, r)
  <2>1. \A g \in DOMAIN up : up[g] \in Below(new, r) \cup {r} => g \in Below(new, r)
    BY BelowClosed
  <2> QED
    BY <2>1, BelowLeast
<1>2. ASSUME NEW r, new[n] \in Below(up, r) PROVE n \in Below(new, r)
  BY <1>1, <1>2, BelowClosed
<1>3. ASSUME NEW f \in DOMAIN up PROVE Reached(new, L, f)
  BY <1>1 DEF Rooted, Reached
<1>4. Reached(new, L, n)
  BY <1>2 DEF Rooted, Reached
<1> QED
  BY <1>3, <1>4 DEF Rooted

(* A folder is moved: not into its own subtree, or into it.                *)
LEMMA RootedMove ==
    ASSUME NEW up, NEW L, Rooted(up, L), NEW f \in DOMAIN up, NEW to \in DOMAIN up,
           NEW new, DOMAIN new = DOMAIN up, \A g \in DOMAIN up : new[g] = IF g = f THEN to ELSE up[g]
    PROVE  /\ to \notin Below(up, f) \cup {f} => Rooted(new, L)
           /\ Rooted(new, L \cup {f}) \/ to \notin Below(up, f) \cup {f}
(* What hung from r does still, or is in the subtree that was moved.       *)
<1>1. ASSUME NEW r PROVE Below(up, r) \subseteq Below(new, r) \cup Below(up, f) \cup {f}
  <2> DEFINE S == Below(new, r) \cup Below(up, f) \cup {f}
  <2>1. ASSUME NEW g \in DOMAIN up, up[g] \in S \cup {r} PROVE g \in S
    <3>1. CASE up[g] \in Below(up, f) \cup {f}
      BY <3>1, BelowClosed
    <3>2. CASE g # f /\ up[g] \in Below(new, r) \cup {r}
      BY <3>2, BelowClosed
    <3> QED
      BY <2>1, <3>1, <3>2
  <2> HIDE DEF S
  <2>2. Below(up, r) \subseteq S
    BY <2>1, BelowLeast
  <2> QED
    BY <2>2 DEF S
<1>2. ASSUME NEW r, f \in Below(new, r) PROVE Below(up, f) \subseteq Below(new, r)
  <2>1. ASSUME NEW g \in DOMAIN up, up[g] \in Below(new, r) \cup {f} PROVE g \in Below(new, r)
    <3>1. CASE g # f
      BY <1>2, <2>1, <3>1, BelowClosed
    <3> QED
      BY <1>2, <3>1
  <2> QED
    BY <2>1, BelowLeast
<1>3. ASSUME to \notin Below(up, f) \cup {f} PROVE Rooted(new, L)
  <2>1. PICK r \in {Root} \cup (L \cap DOMAIN up) : to \in Below(up, r)
    BY DEF Rooted, Reached
  <2>2. f \in Below(new, r)
    BY <1>1, <1>3, <2>1, BelowClosed
  <2>3. Below(up, f) \cup {f} \subseteq Below(new, r)
    BY <1>2, <2>2
  <2>4. ASSUME NEW g \in DOMAIN up PROVE Reached(new, L, g)
    <3>1. PICK s \in {Root} \cup (L \cap DOMAIN up) : g \in Below(up, s)
      BY DEF Rooted, Reached
    <3>2. g \in Below(new, s) \/ g \in Below(new, r)
      BY <1>1, <2>3, <3>1
    <3> QED
      BY <2>1, <3>1, <3>2 DEF Reached
  <2> QED
    BY <2>4 DEF Rooted
<1>4. ASSUME to \in Below(up, f) \cup {f} PROVE Rooted(new, L \cup {f})
  <2>1. Below(up, f) \subseteq Below(new, f) \cup {f}
    <3> DEFINE S == Below(new, f) \cup {f}
    <3>1. ASSUME NEW g \in DOMAIN up, up[g] \in S \cup {f} PROVE g \in S
      BY <3>1, BelowClosed
    <3> HIDE DEF S
    <3>2. Below(up, f) \subseteq S
      BY <3>1, BelowLeast
    <3> QED
      BY <3>2 DEF S
  <2>2. f \in Below(new, f)
    BY <1>4, <2>1, BelowClosed
  <2>3. ASSUME NEW g \in DOMAIN up PROVE Reached(new, L \cup {f}, g)
    <3>1. PICK s \in {Root} \cup (L \cap DOMAIN up) : g \in Below(up, s)
      BY DEF Rooted, Reached
    <3>2. g \in Below(new, s) \/ g \in Below(new, f)
      BY <1>1, <2>1, <2>2, <3>1
    <3> QED
      BY <3>1, <3>2 DEF Reached
  <2> QED
    BY <2>3 DEF Rooted
<1> QED
  BY <1>3, <1>4

(* A folder goes with all that is below it.                                *)
LEMMA RootedDelete ==
    ASSUME NEW up, NEW L, Rooted(up, L), NEW f,
           NEW new, DOMAIN new = DOMAIN up \ (Below(up, f) \cup {f}),
           \A g \in DOMAIN new : new[g] = up[g]
    PROVE  Rooted(new, L)
<1> DEFINE gone == Below(up, f) \cup {f}
<1>1. ASSUME NEW r PROVE Below(up, r) \subseteq Below(new, r) \cup gone
  <2> DEFINE S == Below(new, r) \cup gone
  <2>1. ASSUME NEW g \in DOMAIN up, up[g] \in S \cup {r} PROVE g \in S
    <3>1. CASE up[g] \in gone
      BY <3>1, BelowClosed
    <3>2. CASE g \in DOMAIN new /\ up[g] \in Below(new, r) \cup {r}
      BY <3>2, BelowClosed
    <3> QED
      BY <2>1, <3>1, <3>2
  <2> HIDE DEF S
  <2>2. Below(up, r) \subseteq S
    BY <2>1, BelowLeast
  <2> QED
    BY <2>2 DEF S
<1>2. ASSUME NEW g \in DOMAIN new PROVE Reached(new, L, g)
  <2>1. PICK r \in {Root} \cup (L \cap DOMAIN up) : g \in Below(up, r)
    BY DEF Rooted, Reached
  <2>2. g \in Below(new, r)
    BY <1>1, <2>1
  <2>3. r \notin gone \/ r = Root
    BY <2>1, BelowTransitive
  <2> QED
    BY <2>1, <2>2, <2>3 DEF Reached
<1> QED
  BY <1>2 DEF Rooted

(* A database with its five tables, as TypeOK has it.                      *)
DbOK(d) ==
    /\ d = [folder |-> d.folder, collection |-> d.collection, triggers |-> d.triggers,
            lastFolder |-> d.lastFolder, lastCollection |-> d.lastCollection]
    /\ d.lastFolder \in FolderIds /\ d.lastCollection \in 0 .. MaxCollections
    /\ DOMAIN d.folder \subseteq 1 .. d.lastFolder
    /\ \A f \in DOMAIN d.folder : d.folder[f] \in FolderRow
    /\ DOMAIN d.collection \subseteq 1 .. d.lastCollection
    /\ \A c \in DOMAIN d.collection : d.collection[c] \in FolderRow
    /\ d.triggers \subseteq {"folder_visibility", "parent_folder_visibility"}

(* The rows of e are those of d, but for their visibility.                 *)
SameTree(d, e) ==
    /\ DOMAIN e.folder = DOMAIN d.folder /\ DOMAIN e.collection = DOMAIN d.collection
    /\ \A f \in DOMAIN d.folder : e.folder[f].parent = d.folder[f].parent
    /\ \A c \in DOMAIN d.collection : e.collection[c].parent = d.collection[c].parent
    /\ e.lastFolder = d.lastFolder /\ e.lastCollection = d.lastCollection

LEMMA ParentsFacts ==
    ASSUME NEW t
    PROVE  DOMAIN Parents(t) = DOMAIN t /\ \A x \in DOMAIN t : Parents(t)[x] = t[x].parent
BY DEF Parents

LEMMA RowFacts ==
    /\ \A p \in 0 .. MaxFolders, v \in BOOLEAN :
         Row(p, v) \in FolderRow /\ Row(p, v).parent = p /\ Row(p, v).visible = v
    /\ \A r \in FolderRow : r.parent \in 0 .. MaxFolders /\ r.visible \in BOOLEAN
BY DEF Row, FolderRow

(* An UPDATE of visibility: the rows it touches, and no others.            *)
Touched(d, f, state) ==
    LET fires == Fires(d, f, state)
    IN  fires \cup (IF "folder_visibility" \in d.triggers
                    THEN {g \in DOMAIN d.folder : d.folder[g].parent \in fires} ELSE {})
TouchedCollections(d, f, state) ==
    {c \in DOMAIN d.collection : "folder_visibility" \in d.triggers /\ d.collection[c].parent \in Fires(d, f, state)}

LEMMA UpdatedRows ==
    ASSUME NEW d, DbOK(d), NEW f, NEW state \in BOOLEAN
    PROVE  LET e == Updated(d, f, state)
           IN  /\ DbOK(e) /\ SameTree(d, e) /\ e.triggers = d.triggers
               /\ \A g \in DOMAIN d.folder : e.folder[g] =
                    IF g \in Touched(d, f, state) THEN Row(d.folder[g].parent, state) ELSE d.folder[g]
               /\ \A c \in DOMAIN d.collection : e.collection[c] =
                    IF c \in TouchedCollections(d, f, state) THEN Row(d.collection[c].parent, state)
                    ELSE d.collection[c]
<1> DEFINE e == Updated(d, f, state)
           up == Parents(d.folder)
           fires == Fires(d, f, state)
           down == "folder_visibility" \in d.triggers
           spread == IF down THEN UNION {Children(up, g) : g \in fires} ELSE {}
           F == [g \in DOMAIN up |-> IF g \in fires \cup spread THEN Row(up[g], state) ELSE d.folder[g]]
           C == [c \in DOMAIN d.collection |-> IF down /\ d.collection[c].parent \in fires
                                               THEN Row(d.collection[c].parent, state) ELSE d.collection[c]]
<1>1. e = [d EXCEPT !.folder = F, !.collection = C]
  BY DEF Updated
<1>2. DOMAIN up = DOMAIN d.folder /\ \A g \in DOMAIN d.folder : up[g] = d.folder[g].parent
  BY ParentsFacts
<1>3. \A g \in DOMAIN d.folder : g \in fires \cup spread <=> g \in Touched(d, f, state)
  <2>1. \A g \in DOMAIN d.folder : (g \in UNION {Children(up, h) : h \in fires} <=> d.folder[g].parent \in fires)
    BY <1>2 DEF Children
  <2> HIDE DEF fires, up
  <2> QED
    BY <2>1 DEF Touched, fires
<1>4. /\ DOMAIN F = DOMAIN d.folder
      /\ \A g \in DOMAIN d.folder : F[g] =
           IF g \in Touched(d, f, state) THEN Row(d.folder[g].parent, state) ELSE d.folder[g]
  <2> HIDE DEF fires, spread, up
  <2> QED
    BY <1>2, <1>3
<1>5. /\ DOMAIN C = DOMAIN d.collection
      /\ \A c \in DOMAIN d.collection : C[c] =
           IF c \in TouchedCollections(d, f, state) THEN Row(d.collection[c].parent, state)
           ELSE d.collection[c]
  BY DEF TouchedCollections
<1> HIDE DEF e, F, C
<1>6. /\ e.folder = F /\ e.collection = C /\ e.triggers = d.triggers
      /\ e.lastFolder = d.lastFolder /\ e.lastCollection = d.lastCollection
      /\ e = [folder |-> e.folder, collection |-> e.collection, triggers |-> e.triggers,
              lastFolder |-> e.lastFolder, lastCollection |-> e.lastCollection]
  BY <1>1 DEF DbOK
<1>7. \A g \in DOMAIN d.folder : F[g] \in FolderRow /\ F[g].parent = d.folder[g].parent
  BY <1>4, RowFacts DEF DbOK
<1>8. \A c \in DOMAIN d.collection : C[c] \in FolderRow /\ C[c].parent = d.collection[c].parent
  BY <1>5, RowFacts DEF DbOK
<1>9. DbOK(e)
  BY <1>4, <1>5, <1>6, <1>7, <1>8 DEF DbOK
<1>10. SameTree(d, e)
  BY <1>4, <1>5, <1>6, <1>7, <1>8 DEF SameTree
<1> QED
  BY <1>4, <1>5, <1>6, <1>9, <1>10 DEF e

Triggers == {"folder_visibility", "parent_folder_visibility"}

(* What a statement of a change of visibility leaves of the database d.    *)
Good(d, e) == DbOK(e) /\ SameTree(d, e)

LEMMA GoodAgain ==
    ASSUME NEW d, NEW e, Good(d, e), NEW e2, Good(e, e2)
    PROVE  Good(d, e2)
BY DEF Good, SameTree

LEMMA TriggersSet ==
    ASSUME NEW d, DbOK(d), NEW T, T \subseteq Triggers
    PROVE  LET e == [d EXCEPT !.triggers = T]
           IN  Good(d, e) /\ e.triggers = T /\ e.folder = d.folder /\ e.collection = d.collection
<1> DEFINE e == [d EXCEPT !.triggers = T]
<1>1. /\ e.triggers = T /\ e.folder = d.folder /\ e.collection = d.collection
      /\ e.lastFolder = d.lastFolder /\ e.lastCollection = d.lastCollection
      /\ e = [folder |-> e.folder, collection |-> e.collection, triggers |-> e.triggers,
              lastFolder |-> e.lastFolder, lastCollection |-> e.lastCollection]
  BY DEF DbOK
<1> HIDE DEF e
<1>2. DbOK(e) /\ SameTree(d, e)
  BY <1>1 DEF DbOK, SameTree, Triggers
<1> QED
  BY <1>1, <1>2 DEF Good, e

(* CREATE TRIGGER, the UPDATE and DROP TRIGGER.                            *)
LEMMA WithTriggerSteps ==
    ASSUME NEW d, DbOK(d), NEW trigger \in Triggers, NEW f, NEW state \in BOOLEAN
    PROVE  LET steps == WithTrigger(d, trigger, f, state)
               c == [d EXCEPT !.triggers = @ \cup {trigger}]
               u == Updated(c, f, state)
               z == [u EXCEPT !.triggers = @ \ {trigger}]
           IN  /\ trigger \in d.triggers => steps = <<>>
               /\ trigger \notin d.triggers =>
                    /\ steps = <<c, u, z>>
                    /\ Good(d, c) /\ c.triggers = d.triggers \cup {trigger}
                    /\ c.folder = d.folder /\ c.collection = d.collection
                    /\ Good(d, u) /\ Good(d, z) /\ z.triggers = d.triggers
                    /\ z.folder = u.folder /\ z.collection = u.collection
<1> DEFINE c == [d EXCEPT !.triggers = d.triggers \cup {trigger}]
           u == Updated(c, f, state)
           z == [u EXCEPT !.triggers = u.triggers \ {trigger}]
<1>1. Good(d, c) /\ c.triggers = d.triggers \cup {trigger} /\ c.folder = d.folder /\ c.collection = d.collection
  <2>1. d.triggers \cup {trigger} \subseteq Triggers
    BY DEF DbOK, Triggers
  <2> QED
    BY <2>1, TriggersSet
<1> HIDE DEF c
<1>2. Good(c, u) /\ u.triggers = c.triggers
  BY <1>1, UpdatedRows DEF Good
<1> HIDE DEF u
<1>3. Good(u, z) /\ z.triggers = u.triggers \ {trigger} /\ z.folder = u.folder /\ z.collection = u.collection
  <2>1. u.triggers \ {trigger} \subseteq Triggers /\ DbOK(u)
    BY <1>2 DEF Good, DbOK, Triggers
  <2> QED
    BY <2>1, TriggersSet
<1> HIDE DEF z
<1>4. Good(d, u) /\ Good(d, z)
  BY <1>1, <1>2, <1>3, GoodAgain
<1>5. trigger \notin d.triggers => WithTrigger(d, trigger, f, state) = <<c, u, z>>
  BY DEF WithTrigger, c, u, z
<1>6. trigger \in d.triggers => WithTrigger(d, trigger, f, state) = <<>>
  BY DEF WithTrigger
<1> QED
  BY <1>1, <1>2, <1>3, <1>4, <1>5, <1>6 DEF c, u, z

(* All steps are of a set of good databases.                               *)
GoodSteps(d, steps) == \E S : steps \in Seq(S) /\ \A e \in S : Good(d, e)

LEMMA GoodStepsOf ==
    ASSUME NEW d, NEW S, NEW steps \in Seq(S), \A e \in S : Good(d, e)
    PROVE  GoodSteps(d, steps)
<1> SUFFICES \E T : steps \in Seq(T) /\ \A e \in T : Good(d, e)
  BY DEF GoodSteps
<1> WITNESS S
<1> QED
  OBVIOUS

LEMMA GoodSelf == ASSUME NEW d, DbOK(d) PROVE Good(d, d)
BY DEF Good, SameTree

LEMMA GoodEnd ==
    ASSUME NEW d, DbOK(d), NEW steps, GoodSteps(d, steps)
    PROVE  Good(d, EndOf(d, steps)) /\ \A k \in 1 .. Len(steps) : Good(d, steps[k])
<1>1. PICK S : steps \in Seq(S) /\ \A e \in S : Good(d, e)
  BY DEF GoodSteps
<1>2. \A k \in 1 .. Len(steps) : Good(d, steps[k])
  BY <1>1, ElementOfSeq
<1>3. steps # <<>> => Len(steps) \in 1 .. Len(steps)
  BY <1>1, EmptySeq, LenProperties
<1> QED
  BY <1>2, <1>3, GoodSelf DEF EndOf

LEMMA GoodNone == ASSUME NEW d PROVE GoodSteps(d, <<>>)
<1> DEFINE S == {}
<1>1. <<>> \in Seq(S) /\ \A e \in S : Good(d, e)
  BY EmptySeq
<1> HIDE DEF S
<1> QED
  BY <1>1, GoodStepsOf

LEMMA GoodOne == ASSUME NEW d, NEW e, Good(d, e) PROVE GoodSteps(d, <<e>>)
<1> DEFINE S == {e}
           s == <<e>>
<1>1. s \in Seq(S) /\ \A x \in S : Good(d, x)
  OBVIOUS
<1> HIDE DEF S, s
<1>2. GoodSteps(d, s)
  BY <1>1, GoodStepsOf
<1> QED
  BY <1>2 DEF s

LEMMA GoodBoth ==
    ASSUME NEW d, NEW e, Good(d, e), NEW s, GoodSteps(d, s), NEW t, GoodSteps(e, t)
    PROVE  GoodSteps(d, s \o t)
<1>1. PICK S : s \in Seq(S) /\ \A x \in S : Good(d, x)
  BY DEF GoodSteps
<1>2. PICK T : t \in Seq(T) /\ \A x \in T : Good(e, x)
  BY DEF GoodSteps
<1>3. \A x \in S \cup T : Good(d, x)
  BY <1>1, <1>2, GoodAgain
<1>4. s \in Seq(S \cup T) /\ t \in Seq(S \cup T)
  BY <1>1, <1>2, SeqMonotonic
<1>5. s \o t \in Seq(S \cup T)
  BY <1>4, ConcatProperties
<1> QED
  BY <1>3, <1>5, GoodStepsOf

LEMMA WithTriggerGood ==
    ASSUME NEW d, DbOK(d), NEW trigger \in Triggers, NEW f, NEW state \in BOOLEAN
    PROVE  GoodSteps(d, WithTrigger(d, trigger, f, state))
<1> DEFINE c == [d EXCEPT !.triggers = @ \cup {trigger}]
           u == Updated(c, f, state)
           z == [u EXCEPT !.triggers = @ \ {trigger}]
<1>1. CASE trigger \in d.triggers
  BY <1>1, WithTriggerSteps, GoodNone
<1>2. CASE trigger \notin d.triggers
  <2>1. /\ WithTrigger(d, trigger, f, state) = <<c, u, z>>
        /\ Good(d, c) /\ Good(d, u) /\ Good(d, z)
    <3>1. WithTrigger(d, trigger, f, state) = <<c, u, z>>
      BY <1>2 DEF WithTrigger
    <3>2. Good(d, c)
      BY <1>2, WithTriggerSteps
    <3>3. Good(d, u)
      BY <1>2, WithTriggerSteps
    <3>4. Good(d, z)
      BY <1>2, WithTriggerSteps
    <3> QED
      BY <3>1, <3>2, <3>3, <3>4
  <2> HIDE DEF c, u, z
  <2> DEFINE S == {c, u, z}
             s == <<c, u, z>>
  <2>2. s \in Seq(S)
    OBVIOUS
  <2>3. \A x \in S : Good(d, x)
    BY <2>1
  <2> HIDE DEF S, s
  <2>4. GoodSteps(d, s)
    BY <2>2, <2>3, GoodStepsOf
  <2> QED
    BY <2>1, <2>4 DEF s
<1> QED
  BY <1>1, <1>2

LEMMA FolderVisibilityGood ==
    ASSUME NEW d, DbOK(d), NEW f, NEW state \in BOOLEAN
    PROVE  GoodSteps(d, FolderVisibility(d, f, state))
<1> DEFINE s == WithTrigger(d, "folder_visibility", f, state)
           t == WithTrigger(EndOf(d, s), "parent_folder_visibility", f, TRUE)
<1>1. GoodSteps(d, s)
  BY WithTriggerGood DEF Triggers
<1>2. Good(d, EndOf(d, s))
  BY <1>1, GoodEnd
<1>3. GoodSteps(EndOf(d, s), t)
  BY <1>2, WithTriggerGood DEF Triggers, Good
<1>4. GoodSteps(d, s \o t)
  BY <1>1, <1>2, <1>3, GoodBoth
<1> QED
  BY <1>1, <1>4 DEF FolderVisibility

LEMMA CollectionUpdated ==
    ASSUME NEW d, DbOK(d), NEW c, NEW state \in BOOLEAN
    PROVE  LET e == [d EXCEPT !.collection = [x \in DOMAIN @ |->
                       IF x = c THEN Row(@[x].parent, state) ELSE @[x]]]
           IN  Good(d, e) /\ e.folder = d.folder /\ e.triggers = d.triggers
               /\ \A x \in DOMAIN d.collection : e.collection[x] =
                    IF x = c THEN Row(d.collection[x].parent, state) ELSE d.collection[x]
<1> DEFINE C == [x \in DOMAIN d.collection |->
                   IF x = c THEN Row(d.collection[x].parent, state) ELSE d.collection[x]]
           e == [d EXCEPT !.collection = C]
<1>1. /\ e.triggers = d.triggers /\ e.folder = d.folder /\ e.collection = C
      /\ e.lastFolder = d.lastFolder /\ e.lastCollection = d.lastCollection
      /\ e = [folder |-> e.folder, collection |-> e.collection, triggers |-> e.triggers,
              lastFolder |-> e.lastFolder, lastCollection |-> e.lastCollection]
  BY DEF DbOK
<1>2. \A x \in DOMAIN d.collection : C[x] \in FolderRow /\ C[x].parent = d.collection[x].parent
  BY RowFacts DEF DbOK
<1> HIDE DEF e
<1>3. DbOK(e) /\ SameTree(d, e)
  BY <1>1, <1>2 DEF DbOK, SameTree
<1> QED
  BY <1>1, <1>3 DEF Good, e

LEMMA CollectionVisibilityGood ==
    ASSUME NEW d, DbOK(d), NEW c, NEW state \in BOOLEAN
    PROVE  GoodSteps(d, CollectionVisibility(d, c, state))
<1> DEFINE e == [d EXCEPT !.collection = [x \in DOMAIN @ |->
                    IF x = c THEN Row(@[x].parent, state) ELSE @[x]]]
           p == d.collection[c].parent
           t == IF state /\ c \in DOMAIN d.collection
                THEN WithTrigger(e, "parent_folder_visibility", p, TRUE) ELSE <<>>
<1>1. Good(d, e)
  BY CollectionUpdated
<1>2. CollectionVisibility(d, c, state) = <<e>> \o t
  BY DEF CollectionVisibility
<1> HIDE DEF e
<1>3. GoodSteps(d, <<e>>)
  BY <1>1, GoodOne
<1>4. GoodSteps(e, t)
  BY <1>1, WithTriggerGood, GoodNone DEF Triggers, Good
<1> QED
  BY <1>1, <1>2, <1>3, <1>4, GoodBoth

-----------------------------------------------------------------------------
(* The invariant, in parts that are about a database d, the nodes of       *)
(* folders F and of collections I, the pending folders P and the history.  *)

Typed(F, I, P) ==
    /\ DOMAIN F \subseteq FolderIds /\ \A f \in DOMAIN F : F[f] \in PanelNode
    /\ DOMAIN I \subseteq CollectionIds \X Origins /\ \A i \in DOMAIN I : I[i] \in PanelNode
    /\ P \subseteq DOMAIN F

Tree(d, L) ==
    /\ \A c \in DOMAIN d.collection : d.collection[c].parent \in DOMAIN d.folder
    /\ Rooted(Parents(d.folder), L)

FoldersStored(d, F) ==
    \A f \in DOMAIN F : f \in DOMAIN d.folder /\ F[f].parent = d.folder[f].parent

ItemsStored(d, I, T) ==
    \A i \in DOMAIN I : i[1] \notin T =>
      i[1] \in DOMAIN d.collection /\ I[i].parent = d.collection[i[1]].parent

FoldersShown(d, F, L, E, M) ==
    \A f \in DOMAIN d.folder :
      d.folder[f].parent \in DOMAIN F \cup {Root} /\ f \notin L \cup M =>
        f \in DOMAIN F \/ d.folder[f].parent \in E

(* The node of a collection is in the folder that has it.                  *)
ItemsInPlace(d, F, I, X) ==
    \A c \in DOMAIN d.collection :
      d.collection[c].parent \in DOMAIN F \ X =>
        \E i \in DOMAIN I : i[1] = c /\ I[i].parent = d.collection[c].parent

(* Every node of the panel is in a folder of the panel.                    *)
Closed(F, I) ==
    /\ \A f \in DOMAIN F : F[f].parent \in DOMAIN F \cup {Root}
    /\ \A i \in DOMAIN I : I[i].parent \in DOMAIN F

(* Every folder of the panel hangs from root_.                             *)
Hung(F) == Rooted(Parents(F), {})

(* Two nodes of a collection are on record; none is of one to come.        *)
Twice(d, I, T) ==
    /\ \A i, j \in DOMAIN I : i # j /\ i[1] = j[1] => i[1] \in T
    /\ \A i \in DOMAIN I : i[1] <= d.lastCollection

Agree(d, F, I) ==
    /\ \A f \in DOMAIN F : ~F[f].moved => F[f].checked = d.folder[f].visible
    /\ \A i \in DOMAIN I : ~I[i].moved => I[i].checked = d.collection[i[1]].visible

(* All but the check marks.                                                *)
Sound(d, F, I, P, L, T, E, M) ==
    /\ DbOK(d) /\ Typed(F, I, P) /\ Tree(d, L)
    /\ FoldersStored(d, F) /\ ItemsStored(d, I, T)
    /\ FoldersShown(d, F, L, E, M) /\ ItemsInPlace(d, F, I, P \cup E \cup M)
    /\ Closed(F, I) /\ Hung(F) /\ Twice(d, I, T)

IInv ==
    /\ Sound(db, folders, items, pending, looped, twice, emptied, misread)
    /\ recursive \in BOOLEAN /\ commands \in 0 .. MaxCommands
    /\ recursive => db.triggers = {}
    /\ recursive /\ twice = {} => Agree(db, folders, items)

LEMMA NodeFacts ==
    /\ \A p \in 0 .. MaxFolders, v \in BOOLEAN, m \in BOOLEAN :
         /\ Node(p, v, m) \in PanelNode
         /\ Node(p, v, m).parent = p /\ Node(p, v, m).checked = v /\ Node(p, v, m).moved = m
    /\ \A n \in PanelNode : n.parent \in 0 .. MaxFolders /\ n.checked \in BOOLEAN /\ n.moved \in BOOLEAN
BY DEF Node, PanelNode

(* loadPending() of a folder of the panel.                                 *)
LEMMA LoadedNodes ==
    ASSUME NEW f \in FolderIds, DbOK(db), Typed(folders, items, pending)
    PROVE  /\ DOMAIN items \subseteq DOMAIN Loaded(f)
           /\ DOMAIN Loaded(f) \subseteq CollectionIds \X Origins
           /\ \A i \in DOMAIN Loaded(f) :
                \/ i \in DOMAIN items /\ Loaded(f)[i] = items[i]
                \/ /\ f \in pending /\ i[1] \in DOMAIN db.collection /\ db.collection[i[1]].parent = f
                   /\ Loaded(f)[i] \in PanelNode /\ Loaded(f)[i].parent = f
                   /\ Loaded(f)[i].checked = db.collection[i[1]].visible
           /\ \A i \in DOMAIN items :
                f \notin pending \/ (i[1] \in DOMAIN db.collection /\ db.collection[i[1]].parent # f) =>
                  Loaded(f)[i] = items[i]
           /\ f \in pending => \A c \in DOMAIN db.collection : db.collection[c].parent = f =>
                <<c, "loaded">> \in DOMAIN Loaded(f) /\ Loaded(f)[<<c, "loaded">>].parent = f
<1> DEFINE cs == IF f \in pending THEN getFolderCollections(db, f) ELSE {}
           new == cs \X {"loaded"}
<1>1. cs \subseteq CollectionIds /\ \A c : c \in cs <=>
        f \in pending /\ c \in DOMAIN db.collection /\ db.collection[c].parent = f
  <2>1. \A c : c \in cs <=> f \in pending /\ c \in DOMAIN db.collection /\ db.collection[c].parent = f
    BY DEF getFolderCollections
  <2>2. DOMAIN db.collection \subseteq CollectionIds
    BY BoundsAssumption DEF DbOK, CollectionIds
  <2> QED
    BY <2>1, <2>2
<1>2. /\ DOMAIN Loaded(f) = new \cup DOMAIN items
      /\ \A i \in new \cup DOMAIN items : Loaded(f)[i] =
           IF i \in new THEN Node(f, db.collection[i[1]].visible, FALSE) ELSE items[i]
  BY DEF Loaded
<1> HIDE DEF cs
<1>3. new \subseteq CollectionIds \X Origins /\ \A i \in new : i[1] \in cs
  BY <1>1 DEF Origins
<1>4. \A c \in cs : <<c, "loaded">> \in new
  OBVIOUS
<1> HIDE DEF new
<1>5. DOMAIN Loaded(f) \subseteq CollectionIds \X Origins
  BY <1>2, <1>3 DEF Typed
<1>6. \A i \in DOMAIN Loaded(f) :
        \/ i \in DOMAIN items /\ Loaded(f)[i] = items[i]
        \/ /\ f \in pending /\ i[1] \in DOMAIN db.collection /\ db.collection[i[1]].parent = f
           /\ Loaded(f)[i] \in PanelNode /\ Loaded(f)[i].parent = f
           /\ Loaded(f)[i].checked = db.collection[i[1]].visible
  <2> SUFFICES ASSUME NEW i \in new
               PROVE  /\ f \in pending /\ i[1] \in DOMAIN db.collection /\ db.collection[i[1]].parent = f
                      /\ Loaded(f)[i] \in PanelNode /\ Loaded(f)[i].parent = f
                      /\ Loaded(f)[i].checked = db.collection[i[1]].visible
    BY <1>2
  <2>1. i[1] \in cs /\ db.collection[i[1]] \in FolderRow
    BY <1>1, <1>3 DEF DbOK
  <2>2. Loaded(f)[i] = Node(f, db.collection[i[1]].visible, FALSE)
    BY <1>2
  <2>3. f \in 0 .. MaxFolders /\ db.collection[i[1]].visible \in BOOLEAN
    BY <2>1, RowFacts DEF FolderIds
  <2> QED
    BY <1>1, <2>1, <2>2, <2>3 DEF Node, PanelNode
<1>7. \A i \in DOMAIN items :
        f \notin pending \/ (i[1] \in DOMAIN db.collection /\ db.collection[i[1]].parent # f) =>
          Loaded(f)[i] = items[i]
  BY <1>1, <1>2, <1>3
<1>8. f \in pending => \A c \in DOMAIN db.collection : db.collection[c].parent = f =>
        <<c, "loaded">> \in DOMAIN Loaded(f) /\ Loaded(f)[<<c, "loaded">>].parent = f
  <2> SUFFICES ASSUME f \in pending, NEW c \in DOMAIN db.collection, db.collection[c].parent = f
               PROVE  <<c, "loaded">> \in DOMAIN Loaded(f) /\ Loaded(f)[<<c, "loaded">>].parent = f
    OBVIOUS
  <2> DEFINE i == <<c, "loaded">>
  <2>1. i \in new /\ i[1] = c
    BY <1>1, <1>4
  <2> HIDE DEF i
  <2>2. Loaded(f)[i] = Node(f, db.collection[c].visible, FALSE) /\ i \in DOMAIN Loaded(f)
    BY <1>2, <2>1
  <2>3. f \in 0 .. MaxFolders /\ db.collection[c].visible \in BOOLEAN
    BY RowFacts DEF FolderIds, DbOK
  <2> QED
    BY <2>2 DEF i, Node
<1> QED
  BY <1>2, <1>5, <1>6, <1>7, <1>8

LEMMA LoadedTwiceNodes ==
    ASSUME NEW f, NEW i \in DOMAIN Loaded(f), NEW j \in DOMAIN Loaded(f), i # j, i[1] = j[1],
           DOMAIN Loaded(f) \subseteq CollectionIds \X Origins
    PROVE  i[1] \in LoadedTwice(f)
<1> DEFINE c == i[1]
           S == {k \in DOMAIN Loaded(f) : k[1] = c}
<1>1. c \in CollectionIds
  OBVIOUS
<1>2. S = {i, j}
  <2>1. \A k \in S : k = <<c, "added">> \/ k = <<c, "loaded">>
    BY DEF Origins
  <2>2. i \in S /\ j \in S
    OBVIOUS
  <2> QED
    BY <2>1, <2>2
<1>3. Cardinality({i, j}) = 2
  <2>1. IsFiniteSet({i}) /\ Cardinality({i}) = 1
    BY FS_Singleton
  <2>2. {i, j} = {i} \cup {j} /\ j \notin {i}
    OBVIOUS
  <2>3. Cardinality({i} \cup {j}) = Cardinality({i}) + 1
    BY <2>1, <2>2, FS_AddElement
  <2> QED
    BY <2>1, <2>2, <2>3
<1> QED
  BY <1>1, <1>2, <1>3 DEF LoadedTwice

LEMMA LoadedKeeps ==
    ASSUME IInv, NEW f \in DOMAIN folders
    PROVE  LET I == Loaded(f)
               T == twice \cup LoadedTwice(f)
           IN  /\ Typed(folders, I, pending \ {f})
               /\ ItemsStored(db, I, T) /\ Twice(db, I, T) /\ Closed(folders, I)
               /\ ItemsInPlace(db, folders, I, (pending \ {f}) \cup emptied \cup misread)
               /\ recursive /\ T = {} => Agree(db, folders, I)
<1> DEFINE I == Loaded(f)
           T == twice \cup LoadedTwice(f)
<1>1. /\ DOMAIN items \subseteq DOMAIN I
      /\ DOMAIN I \subseteq CollectionIds \X Origins
      /\ \A i \in DOMAIN I :
           \/ i \in DOMAIN items /\ I[i] = items[i]
           \/ /\ f \in pending /\ i[1] \in DOMAIN db.collection /\ db.collection[i[1]].parent = f
              /\ I[i] \in PanelNode /\ I[i].parent = f
              /\ I[i].checked = db.collection[i[1]].visible
      /\ \A i \in DOMAIN items :
           f \notin pending \/ (i[1] \in DOMAIN db.collection /\ db.collection[i[1]].parent # f) =>
             I[i] = items[i]
      /\ f \in pending => \A c \in DOMAIN db.collection : db.collection[c].parent = f =>
           <<c, "loaded">> \in DOMAIN I /\ I[<<c, "loaded">>].parent = f
  BY LoadedNodes DEF IInv, Sound, Typed
<1>2. \A i, j \in DOMAIN I : i # j /\ i[1] = j[1] => i[1] \in T
  BY <1>1, LoadedTwiceNodes
<1>3. twice \subseteq T
  OBVIOUS
<1>4. \A c : <<c, "loaded">>[1] = c
  OBVIOUS
<1> HIDE DEF I, T
<1>5. Typed(folders, I, pending \ {f})
  BY <1>1 DEF IInv, Sound, Typed
<1>6. ItemsStored(db, I, T)
  BY <1>1, <1>3 DEF IInv, Sound, ItemsStored
<1>7. Twice(db, I, T)
  <2>1. \A c \in DOMAIN db.collection : c <= db.lastCollection
    BY DEF IInv, Sound, DbOK
  <2> QED
    BY <1>1, <1>2, <2>1 DEF IInv, Sound, Twice
<1>8. Closed(folders, I)
  BY <1>1 DEF IInv, Sound, Closed
<1>9. ItemsInPlace(db, folders, I, (pending \ {f}) \cup emptied \cup misread)
  <2> SUFFICES ASSUME NEW c \in DOMAIN db.collection,
                      db.collection[c].parent \in DOMAIN folders \ ((pending \ {f}) \cup emptied \cup misread)
               PROVE  \E i \in DOMAIN I : i[1] = c /\ I[i].parent = db.collection[c].parent
    BY DEF ItemsInPlace
  <2>1. CASE db.collection[c].parent = f /\ f \in pending
    BY <1>1, <1>4, <2>1
  <2>2. CASE db.collection[c].parent # f \/ f \notin pending
    <3>1. PICK i \in DOMAIN items : i[1] = c /\ items[i].parent = db.collection[c].parent
      BY <2>2 DEF IInv, Sound, ItemsInPlace
    <3>2. I[i] = items[i]
      BY <1>1, <2>2, <3>1
    <3> QED
      BY <1>1, <3>1, <3>2
  <2> QED
    BY <2>1, <2>2
<1>10. recursive /\ T = {} => Agree(db, folders, I)
  BY <1>1, <1>3 DEF IInv, Sound, Agree
<1> QED
  BY <1>5, <1>6, <1>7, <1>8, <1>9, <1>10 DEF I, T

-----------------------------------------------------------------------------
(* Rows and nodes that are added.                                          *)

LEMMA AddedFolder ==
    ASSUME NEW d, DbOK(d), NEW L, Tree(d, L), d.lastFolder < MaxFolders, NEW p \in DOMAIN d.folder
    PROVE  LET e == addNewFolder(d, p)
               n == d.lastFolder + 1
           IN  /\ DbOK(e) /\ Tree(e, L)
               /\ n \in FolderIds /\ n \notin DOMAIN d.folder /\ n # Root
               /\ DOMAIN e.folder = DOMAIN d.folder \cup {n}
               /\ e.folder[n].parent = p /\ e.folder[n].visible = TRUE
               /\ \A f \in DOMAIN d.folder : e.folder[f] = d.folder[f]
               /\ e.collection = d.collection /\ e.triggers = d.triggers
               /\ e.lastFolder = n /\ e.lastCollection = d.lastCollection
<1> DEFINE n == d.lastFolder + 1
           r == Row(p, TRUE)
           F == With(d.folder, n, r)
           e == [d EXCEPT !.folder = F, !.lastFolder = n]
<1>1. e = addNewFolder(d, p)
  BY DEF addNewFolder
<1>2. n \in FolderIds /\ n \notin DOMAIN d.folder /\ n # Root
  BY BoundsAssumption DEF DbOK, FolderIds, Root
<1> HIDE DEF n
<1>3. /\ DOMAIN F = DOMAIN d.folder \cup {n}
      /\ F[n] = r /\ \A f \in DOMAIN d.folder : F[f] = d.folder[f]
  <2> HIDE DEF r
  <2> QED
    BY <1>2 DEF With
<1> HIDE DEF F
<1> DEFINE X == [d EXCEPT !.folder = F]
<1>9. /\ X.folder = F /\ X.collection = d.collection /\ X.triggers = d.triggers
      /\ X.lastFolder = d.lastFolder /\ X.lastCollection = d.lastCollection
      /\ X = [folder |-> X.folder, collection |-> X.collection, triggers |-> X.triggers,
              lastFolder |-> X.lastFolder, lastCollection |-> X.lastCollection]
      /\ e = [X EXCEPT !.lastFolder = n]
  BY DEF DbOK
<1> HIDE DEF X, e
<1>4. /\ e.folder = F /\ e.collection = d.collection /\ e.triggers = d.triggers
      /\ e.lastFolder = n /\ e.lastCollection = d.lastCollection
      /\ e = [folder |-> e.folder, collection |-> e.collection, triggers |-> e.triggers,
              lastFolder |-> e.lastFolder, lastCollection |-> e.lastCollection]
  BY <1>9
<1>5. p \in 0 .. MaxFolders /\ r \in FolderRow /\ r.parent = p /\ r.visible = TRUE
  <2>1. p \in 0 .. MaxFolders
    BY BoundsAssumption DEF DbOK, FolderIds
  <2> QED
    BY <2>1 DEF Row, FolderRow
<1> HIDE DEF r
<1>6. \A f \in DOMAIN F : F[f] \in FolderRow
  BY <1>3, <1>5 DEF DbOK
<1>7. DbOK(e)
  <2>1. DOMAIN F \subseteq 1 .. n
    BY <1>2, <1>3 DEF DbOK, FolderIds, n
  <2> QED
    BY <1>2, <1>4, <1>6, <2>1 DEF DbOK
<1>8. Tree(e, L)
  <2> DEFINE up == Parents(d.folder)
             new == Parents(e.folder)
  <2>1. DOMAIN up = DOMAIN d.folder /\ DOMAIN new = DOMAIN F
    BY <1>4, ParentsFacts
  <2>2. \A g \in DOMAIN up : new[g] = up[g]
    BY <1>3, <1>4, <2>1, ParentsFacts
  <2>3. new[n] = p
    BY <1>3, <1>4, <1>5, ParentsFacts
  <2> HIDE DEF up, new
  <2>4. Rooted(up, L)
    BY DEF Tree, up
  <2>5. Rooted(new, L)
    BY <1>2, <1>3, <2>1, <2>2, <2>3, <2>4, RootedAdd
  <2> QED
    BY <1>3, <1>4, <2>5 DEF Tree, new
<1>10. addNewFolder(d, p) = e
  BY <1>1 DEF e
<1> QED
  BY <1>2, <1>3, <1>4, <1>5, <1>7, <1>8, <1>10 DEF n

LEMMA AddedCollection ==
    ASSUME NEW d, DbOK(d), NEW L, Tree(d, L), d.lastCollection < MaxCollections, NEW p \in DOMAIN d.folder
    PROVE  LET e == addNewCollection(d, p)
               n == d.lastCollection + 1
           IN  /\ DbOK(e) /\ Tree(e, L)
               /\ n \in CollectionIds /\ n \notin DOMAIN d.collection
               /\ DOMAIN e.collection = DOMAIN d.collection \cup {n}
               /\ e.collection[n].parent = p /\ e.collection[n].visible = TRUE
               /\ \A c \in DOMAIN d.collection : e.collection[c] = d.collection[c]
               /\ e.folder = d.folder /\ e.triggers = d.triggers
               /\ e.lastFolder = d.lastFolder /\ e.lastCollection = n
<1> DEFINE n == d.lastCollection + 1
           r == Row(p, TRUE)
           C == With(d.collection, n, r)
           e == [d EXCEPT !.collection = C, !.lastCollection = n]
<1>1. e = addNewCollection(d, p)
  BY DEF addNewCollection
<1>2. n \in CollectionIds /\ n \notin DOMAIN d.collection
  BY BoundsAssumption DEF DbOK, CollectionIds
<1> HIDE DEF n
<1>3. /\ DOMAIN C = DOMAIN d.collection \cup {n}
      /\ C[n] = r /\ \A c \in DOMAIN d.collection : C[c] = d.collection[c]
  <2> HIDE DEF r
  <2> QED
    BY <1>2 DEF With
<1> HIDE DEF C
<1> DEFINE X == [d EXCEPT !.collection = C]
<1>9. /\ X.folder = d.folder /\ X.collection = C /\ X.triggers = d.triggers
      /\ X.lastFolder = d.lastFolder /\ X.lastCollection = d.lastCollection
      /\ X = [folder |-> X.folder, collection |-> X.collection, triggers |-> X.triggers,
              lastFolder |-> X.lastFolder, lastCollection |-> X.lastCollection]
      /\ e = [X EXCEPT !.lastCollection = n]
  BY DEF DbOK
<1> HIDE DEF X, e
<1>4. /\ e.folder = d.folder /\ e.collection = C /\ e.triggers = d.triggers
      /\ e.lastFolder = d.lastFolder /\ e.lastCollection = n
      /\ e = [folder |-> e.folder, collection |-> e.collection, triggers |-> e.triggers,
              lastFolder |-> e.lastFolder, lastCollection |-> e.lastCollection]
  BY <1>9
<1>5. p \in 0 .. MaxFolders /\ r \in FolderRow /\ r.parent = p /\ r.visible = TRUE
  <2>1. p \in 0 .. MaxFolders
    BY BoundsAssumption DEF DbOK, FolderIds
  <2> QED
    BY <2>1 DEF Row, FolderRow
<1> HIDE DEF r
<1>6. \A c \in DOMAIN C : C[c] \in FolderRow
  BY <1>3, <1>5 DEF DbOK
<1>7. DbOK(e)
  <2>1. DOMAIN C \subseteq 1 .. n
    BY <1>2, <1>3 DEF DbOK, CollectionIds, n
  <2>2. n \in 0 .. MaxCollections
    BY <1>2 DEF CollectionIds
  <2> QED
    BY <1>4, <1>6, <2>1, <2>2 DEF DbOK
<1>8. Tree(e, L)
  BY <1>3, <1>4, <1>5 DEF Tree
<1>10. addNewCollection(d, p) = e
  BY <1>1 DEF e
<1> QED
  BY <1>2, <1>3, <1>4, <1>5, <1>7, <1>8, <1>10 DEF n

(* The nodes that go with them.                                            *)
LEMMA AddedFolderNode ==
    ASSUME NEW d, NEW F, NEW I, NEW P, NEW L, NEW T, NEW E, NEW M,
           Sound(d, F, I, P, L, T, E, M), d.lastFolder < MaxFolders, NEW p \in DOMAIN F
    PROVE  LET e == addNewFolder(d, p)
               G == With(F, e.lastFolder, Node(p, TRUE, FALSE))
           IN  /\ Sound(e, G, I, P, L, T, E, M) /\ e.triggers = d.triggers
               /\ e.lastFolder = d.lastFolder + 1 /\ e.lastFolder \in DOMAIN G
               /\ e.lastCollection = d.lastCollection
               /\ Agree(d, F, I) => Agree(e, G, I)
<1> DEFINE e == addNewFolder(d, p)
           n == d.lastFolder + 1
           m == Node(p, TRUE, FALSE)
           G == With(F, n, m)
<1>1. p \in DOMAIN d.folder /\ p \in 0 .. MaxFolders
  BY DEF Sound, FoldersStored, Typed, FolderIds
<1>2. /\ DbOK(e) /\ Tree(e, L)
      /\ n \in FolderIds /\ n \notin DOMAIN d.folder /\ n # Root
      /\ DOMAIN e.folder = DOMAIN d.folder \cup {n}
      /\ e.folder[n].parent = p /\ e.folder[n].visible = TRUE
      /\ \A f \in DOMAIN d.folder : e.folder[f] = d.folder[f]
      /\ e.collection = d.collection /\ e.triggers = d.triggers
      /\ e.lastFolder = n /\ e.lastCollection = d.lastCollection
  BY <1>1, AddedFolder DEF Sound
<1>3. n \notin DOMAIN F
  BY <1>2 DEF Sound, FoldersStored
<1>4. /\ DOMAIN G = DOMAIN F \cup {n} /\ G[n] = m
      /\ \A f \in DOMAIN F : G[f] = F[f]
  <2> HIDE DEF m, n
  <2> QED
    BY <1>3 DEF With
<1>6. m \in PanelNode /\ m.parent = p /\ m.checked = TRUE
  BY <1>1 DEF Node, PanelNode
<1> HIDE DEF e, G, m, n
<1>7. Typed(G, I, P)
  BY <1>2, <1>4, <1>6 DEF Sound, Typed
<1>8. FoldersStored(e, G)
  BY <1>2, <1>4, <1>6 DEF Sound, FoldersStored
<1>9. ItemsStored(e, I, T)
  BY <1>2 DEF Sound, ItemsStored
<1>10. FoldersShown(e, G, L, E, M)
  <2>1. \A f \in DOMAIN d.folder : d.folder[f].parent \in DOMAIN d.folder \cup {Root}
    BY RootedParents, ParentsFacts DEF Sound, Tree
  <2> QED
    BY <1>2, <1>4, <2>1 DEF Sound, FoldersShown
<1>11. ItemsInPlace(e, G, I, P \cup E \cup M)
  BY <1>2, <1>4 DEF Sound, ItemsInPlace, Tree
<1>12. Closed(G, I)
  BY <1>4, <1>6 DEF Sound, Closed
<1>13. Twice(e, I, T)
  BY <1>2 DEF Sound, Twice
<1>14. Agree(d, F, I) => Agree(e, G, I)
  BY <1>2, <1>4, <1>6 DEF Agree, Sound, FoldersStored
<1>16. Hung(G)
  <2> DEFINE up == Parents(F)
             new == Parents(G)
  <2>1. DOMAIN up = DOMAIN F /\ \A g \in DOMAIN F : up[g] = F[g].parent
    BY ParentsFacts
  <2>2. DOMAIN new = DOMAIN G /\ \A g \in DOMAIN G : new[g] = G[g].parent
    BY ParentsFacts
  <2>3. Rooted(up, {})
    BY DEF Sound, Hung
  <2> HIDE DEF up, new
  <2>4. DOMAIN new = DOMAIN up \cup {n} /\ n \notin DOMAIN up /\ new[n] \in DOMAIN up
    BY <1>3, <1>4, <1>6, <2>1, <2>2
  <2>5. \A g \in DOMAIN up : new[g] = up[g]
    BY <1>4, <2>1, <2>2
  <2>6. Rooted(new, {})
    BY <2>3, <2>4, <2>5, RootedAdd
  <2> QED
    BY <2>6 DEF Hung, new
<1>15. Sound(e, G, I, P, L, T, E, M)
  BY <1>16, <1>2, <1>7, <1>8, <1>9, <1>10, <1>11, <1>12, <1>13 DEF Sound
<1> QED
  BY <1>2, <1>4, <1>14, <1>15 DEF e, G, m, n

LEMMA AddedCollectionNode ==
    ASSUME NEW d, NEW F, NEW I, NEW P, NEW L, NEW T, NEW E, NEW M,
           Sound(d, F, I, P, L, T, E, M), d.lastCollection < MaxCollections, NEW p \in DOMAIN F
    PROVE  LET e == addNewCollection(d, p)
               J == With(I, <<e.lastCollection, "added">>, Node(p, TRUE, FALSE))
           IN  /\ Sound(e, F, J, P, L, T, E, M) /\ e.triggers = d.triggers
               /\ e.lastCollection = d.lastCollection + 1
               /\ Agree(d, F, I) /\ T = {} => Agree(e, F, J)
<1> DEFINE e == addNewCollection(d, p)
           n == d.lastCollection + 1
           i == <<n, "added">>
           m == Node(p, TRUE, FALSE)
           J == With(I, i, m)
<1>1. p \in DOMAIN d.folder /\ p \in 0 .. MaxFolders
  BY DEF Sound, FoldersStored, Typed, FolderIds
<1>2. /\ DbOK(e) /\ Tree(e, L)
      /\ n \in CollectionIds /\ n \notin DOMAIN d.collection
      /\ DOMAIN e.collection = DOMAIN d.collection \cup {n}
      /\ e.collection[n].parent = p /\ e.collection[n].visible = TRUE
      /\ \A c \in DOMAIN d.collection : e.collection[c] = d.collection[c]
      /\ e.folder = d.folder /\ e.triggers = d.triggers
      /\ e.lastFolder = d.lastFolder /\ e.lastCollection = n
  BY <1>1, AddedCollection DEF Sound
<1>3. \A j \in DOMAIN I : j[1] # n
  <2>1. ASSUME NEW j \in DOMAIN I PROVE j[1] # n
    <3>1. j[1] <= d.lastCollection /\ j[1] \in CollectionIds
      BY DEF Sound, Twice, Typed
    <3> QED
      BY <3>1 DEF Sound, DbOK, CollectionIds, n
  <2> QED
    BY <2>1
<1>4. i[1] = n /\ i \in CollectionIds \X Origins
  BY <1>2 DEF Origins
<1>5. /\ DOMAIN J = DOMAIN I \cup {i} /\ J[i] = m
      /\ \A j \in DOMAIN I : J[j] = I[j]
  <2> HIDE DEF m, i, n
  <2> QED
    BY <1>3, <1>4 DEF With
<1>7. m \in PanelNode /\ m.parent = p /\ m.checked = TRUE
  BY <1>1 DEF Node, PanelNode
<1>8. n = d.lastCollection + 1 /\ d.lastCollection \in Nat
  BY BoundsAssumption DEF Sound, DbOK
<1> HIDE DEF e, J, n, i, m
<1>9. Typed(F, J, P)
  BY <1>4, <1>5, <1>7 DEF Sound, Typed
<1>10. FoldersStored(e, F)
  BY <1>2 DEF Sound, FoldersStored
<1>11. ItemsStored(e, J, T)
  BY <1>2, <1>4, <1>5, <1>7 DEF Sound, ItemsStored
<1>12. FoldersShown(e, F, L, E, M)
  BY <1>2 DEF Sound, FoldersShown
<1>13. ItemsInPlace(e, F, J, P \cup E \cup M)
  BY <1>2, <1>4, <1>5, <1>7 DEF Sound, ItemsInPlace
<1>14. Closed(F, J)
  BY <1>5, <1>7 DEF Sound, Closed
<1>15. Twice(e, J, T)
  <2>1. \A j \in DOMAIN I : j[1] \in CollectionIds /\ j[1] <= d.lastCollection
    BY DEF Sound, Typed, Twice
  <2>2. \A j \in DOMAIN J : j[1] <= n
    BY <1>4, <1>5, <1>8, <2>1 DEF CollectionIds
  <2> QED
    BY <1>2, <1>3, <1>4, <1>5, <2>2 DEF Sound, Twice
<1>16. Agree(d, F, I) /\ T = {} => Agree(e, F, J)
  <2>1. T = {} => \A j \in DOMAIN I : j[1] \in DOMAIN d.collection
    BY DEF Sound, ItemsStored
  <2> QED
    BY <1>2, <1>4, <1>5, <1>7, <2>1 DEF Agree
<1>17. Sound(e, F, J, P, L, T, E, M)
  BY <1>2, <1>9, <1>10, <1>11, <1>12, <1>13, <1>14, <1>15 DEF Sound, Hung
<1> QED
  BY <1>2, <1>16, <1>17 DEF e, J, n, i, m

-----------------------------------------------------------------------------
(* The commands.                                                           *)

LEMMA CommandBound ==
    ASSUME IInv, Command
    PROVE  commands' \in 0 .. MaxCommands
BY BoundsAssumption DEF IInv, Command

LEMMA FetchMoreKeeps ==
    ASSUME IInv, NEW f, FetchMore(f)
    PROVE  IInv'
<1> DEFINE J == Loaded(f)
           T == twice \cup LoadedTwice(f)
<1>1. f \in DOMAIN folders
  BY DEF FetchMore, IInv, Sound, Typed
<1>2. /\ Typed(folders, J, pending \ {f})
      /\ ItemsStored(db, J, T) /\ Twice(db, J, T) /\ Closed(folders, J)
      /\ ItemsInPlace(db, folders, J, (pending \ {f}) \cup emptied \cup misread)
      /\ recursive /\ T = {} => Agree(db, folders, J)
  BY <1>1, LoadedKeeps
<1>3. /\ items' = J /\ twice' = T /\ pending' = pending \ {f}
      /\ db' = db /\ recursive' = recursive /\ folders' = folders /\ commands' = commands
      /\ looped' = looped /\ emptied' = emptied /\ misread' = misread
  BY DEF FetchMore
<1> HIDE DEF J, T
<1> QED
  BY <1>2, <1>3 DEF IInv, Sound

LEMMA AddFolderKeeps ==
    ASSUME IInv, NEW p, AddFolder(p)
    PROVE  IInv'
<1> DEFINE e == addNewFolder(db, p)
           G == With(folders, e.lastFolder, Node(p, TRUE, FALSE))
<1>1. /\ db' = e /\ folders' = G /\ items' = items /\ pending' = pending
      /\ recursive' = recursive /\ looped' = looped /\ emptied' = emptied
      /\ twice' = twice /\ misread' = misread
  BY DEF AddFolder, history
<1>2. /\ Sound(e, G, items, pending, looped, twice, emptied, misread)
      /\ e.triggers = db.triggers
      /\ Agree(db, folders, items) => Agree(e, G, items)
  BY AddedFolderNode DEF IInv, AddFolder
<1>3. commands' \in 0 .. MaxCommands
  BY CommandBound DEF AddFolder
<1> HIDE DEF e, G
<1> QED
  BY <1>1, <1>2, <1>3 DEF IInv

LEMMA AddCollectionKeeps ==
    ASSUME IInv, NEW p, AddCollection(p)
    PROVE  IInv'
<1> DEFINE e == addNewCollection(db, p)
           J == With(items, <<e.lastCollection, "added">>, Node(p, TRUE, FALSE))
<1>1. /\ db' = e /\ folders' = folders /\ items' = J /\ pending' = pending
      /\ recursive' = recursive /\ looped' = looped /\ emptied' = emptied
      /\ twice' = twice /\ misread' = misread
  BY DEF AddCollection, history
<1>2. /\ Sound(e, folders, J, pending, looped, twice, emptied, misread)
      /\ e.triggers = db.triggers
      /\ Agree(db, folders, items) /\ twice = {} => Agree(e, folders, J)
  BY AddedCollectionNode DEF IInv, AddCollection
<1>3. commands' \in 0 .. MaxCommands
  BY CommandBound DEF AddCollection
<1> HIDE DEF e, J
<1> QED
  BY <1>1, <1>2, <1>3 DEF IInv

LEMMA AddCollectionTreeKeeps ==
    ASSUME IInv, NEW p, AddCollectionTree(p)
    PROVE  IInv'
<1> DEFINE c == addNewFolder(db, p)
           G == With(folders, c.lastFolder, Node(p, TRUE, FALSE))
           e == addNewCollection(c, c.lastFolder)
           J == With(items, <<e.lastCollection, "added">>, Node(c.lastFolder, TRUE, FALSE))
<1>1. /\ Sound(c, G, items, pending, looped, twice, emptied, misread)
      /\ c.triggers = db.triggers /\ c.lastFolder \in DOMAIN G
      /\ c.lastFolder = db.lastFolder + 1 /\ c.lastCollection = db.lastCollection
      /\ Agree(db, folders, items) => Agree(c, G, items)
  BY AddedFolderNode DEF IInv, AddCollectionTree
<1>2. db' = e
  BY <1>1 DEF AddCollectionTree, addCollectionTree
<1>3. e.lastFolder = c.lastFolder
  <2>1. DbOK(c) /\ Tree(c, looped) /\ c.lastFolder \in DOMAIN c.folder
    BY <1>1 DEF Sound, FoldersStored
  <2>2. c.lastCollection < MaxCollections
    BY <1>1 DEF AddCollectionTree
  <2> HIDE DEF c
  <2> QED
    BY <2>1, <2>2, AddedCollection
<1>7. /\ Sound(c, G, items, pending, looped, twice, emptied, misread)
      /\ c.lastCollection < MaxCollections /\ c.lastFolder \in DOMAIN G
  BY <1>1 DEF AddCollectionTree
<1> HIDE DEF c, G
<1>4. /\ Sound(e, G, J, pending, looped, twice, emptied, misread)
      /\ e.triggers = c.triggers
      /\ Agree(c, G, items) /\ twice = {} => Agree(e, G, J)
  BY <1>7, AddedCollectionNode
<1>5. /\ db' = e /\ folders' = G /\ items' = J /\ pending' = pending
      /\ recursive' = recursive /\ looped' = looped /\ emptied' = emptied
      /\ twice' = twice /\ misread' = misread
  BY <1>2, <1>3 DEF AddCollectionTree, history, G
<1>6. commands' \in 0 .. MaxCommands
  BY CommandBound DEF AddCollectionTree
<1> HIDE DEF e, J
<1> QED
  BY <1>1, <1>4, <1>5, <1>6 DEF IInv

(* A collection goes, row and node.                                        *)
LEMMA DeleteCollectionKeeps ==
    ASSUME IInv, NEW i, DeleteCollection(i)
    PROVE  IInv'
<1> DEFINE J == Without(items, {i})
           C == Without(db.collection, {i[1]})
           e == [db EXCEPT !.collection = C]
<1>1. /\ DOMAIN J = DOMAIN items \ {i} /\ \A j \in DOMAIN J : J[j] = items[j]
      /\ DOMAIN C = DOMAIN db.collection \ {i[1]} /\ \A c \in DOMAIN C : C[c] = db.collection[c]
  BY DEF Without
<1> HIDE DEF J, C
<1>2. /\ e.folder = db.folder /\ e.collection = C /\ e.triggers = db.triggers
      /\ e.lastFolder = db.lastFolder /\ e.lastCollection = db.lastCollection
      /\ e = [folder |-> e.folder, collection |-> e.collection, triggers |-> e.triggers,
              lastFolder |-> e.lastFolder, lastCollection |-> e.lastCollection]
  BY DEF IInv, Sound, DbOK
<1>3. /\ i \in DOMAIN items /\ items' = J /\ folders' = folders /\ pending' = pending
      /\ recursive' = recursive /\ looped' = looped /\ emptied' = emptied /\ twice' = twice
      /\ \/ db' = e /\ misread' = misread
         \/ db' = db /\ misread' = misread \cup {db.collection[c].parent : c \in {i[1]} \cap DOMAIN db.collection}
  BY DEF DeleteCollection, deleteCollection, J, C
<1> HIDE DEF e
<1>4. commands' \in 0 .. MaxCommands
  BY CommandBound DEF DeleteCollection
<1>5. Typed(folders, J, pending) /\ Closed(folders, J)
  BY <1>1 DEF IInv, Sound, Typed, Closed
<1>6. CASE db' = e /\ misread' = misread
  <2>1. DbOK(e) /\ Tree(e, looped)
    BY <1>1, <1>2 DEF IInv, Sound, DbOK, Tree
  <2>2. FoldersStored(e, folders) /\ FoldersShown(e, folders, looped, emptied, misread)
    BY <1>2 DEF IInv, Sound, FoldersStored, FoldersShown
  <2>3. \A j \in DOMAIN J : j[1] \notin twice => j[1] # i[1]
    BY <1>1, <1>3 DEF IInv, Sound, Twice
  <2>4. ItemsStored(e, J, twice)
    BY <1>1, <1>2, <2>3 DEF IInv, Sound, ItemsStored
  <2>5. ItemsInPlace(e, folders, J, pending \cup emptied \cup misread)
    BY <1>1, <1>2 DEF IInv, Sound, ItemsInPlace
  <2>6. Twice(e, J, twice)
    BY <1>1, <1>2 DEF IInv, Sound, Twice
  <2>7. recursive /\ twice = {} => Agree(e, folders, J)
    BY <1>1, <1>2, <2>3, <2>4 DEF IInv, Sound, Agree, ItemsStored
  <2> QED
    BY <1>2, <1>3, <1>4, <1>5, <1>6, <2>1, <2>2, <2>4, <2>5, <2>6, <2>7 DEF IInv, Sound
<1>7. CASE db' = db /\ misread' = misread \cup {db.collection[c].parent : c \in {i[1]} \cap DOMAIN db.collection}
  <2>1. FoldersShown(db, folders, looped, emptied, misread')
    BY <1>7 DEF IInv, Sound, FoldersShown
  <2>2. ItemsStored(db, J, twice) /\ Twice(db, J, twice)
    BY <1>1 DEF IInv, Sound, ItemsStored, Twice
  <2>3. ItemsInPlace(db, folders, J, pending \cup emptied \cup misread')
    <3> SUFFICES ASSUME NEW c \in DOMAIN db.collection,
                        db.collection[c].parent \in DOMAIN folders \ (pending \cup emptied \cup misread')
                 PROVE  \E j \in DOMAIN J : j[1] = c /\ J[j].parent = db.collection[c].parent
      BY DEF ItemsInPlace
    <3>1. c # i[1]
      BY <1>7
    <3>2. PICK j \in DOMAIN items : j[1] = c /\ items[j].parent = db.collection[c].parent
      BY <1>7 DEF IInv, Sound, ItemsInPlace
    <3> QED
      BY <1>1, <3>1, <3>2
  <2>4. recursive /\ twice = {} => Agree(db, folders, J)
    BY <1>1 DEF IInv, Agree
  <2> QED
    BY <1>3, <1>4, <1>5, <1>7, <2>1, <2>2, <2>3, <2>4 DEF IInv, Sound
<1> QED
  BY <1>3, <1>6, <1>7

(* A collection moves: its target is loaded, then its node goes there.     *)
LEMMA MoveCollectionKeeps ==
    ASSUME IInv, NEW i, NEW to, MoveCollection(i, to)
    PROVE  IInv'
<1> DEFINE K == Loaded(to)
           T == twice \cup LoadedTwice(to)
           n == Node(to, TRUE, TRUE)
           J == With(K, i, n)
           C == [x \in DOMAIN db.collection |->
                   IF x = i[1] THEN Row(to, db.collection[x].visible) ELSE db.collection[x]]
           e == [db EXCEPT !.collection = C]
<1>1. /\ Typed(folders, K, pending \ {to})
      /\ ItemsStored(db, K, T) /\ Twice(db, K, T) /\ Closed(folders, K)
      /\ ItemsInPlace(db, folders, K, (pending \ {to}) \cup emptied \cup misread)
      /\ recursive /\ T = {} => Agree(db, folders, K)
  BY LoadedKeeps DEF MoveCollection
<1>2. i \in DOMAIN K /\ to \in DOMAIN folders /\ to \in 0 .. MaxFolders
  BY LoadedNodes DEF MoveCollection, IInv, Sound, Typed, FolderIds
<1>3. /\ db' = e /\ items' = J /\ folders' = folders /\ pending' = pending \ {to}
      /\ twice' = T /\ recursive' = recursive /\ looped' = looped /\ emptied' = emptied
      /\ misread' = misread
  BY DEF MoveCollection, moveCollection
<1>4. n \in PanelNode /\ n.parent = to /\ n.moved = TRUE
  BY <1>2 DEF Node, PanelNode
<1>5. /\ DOMAIN J = DOMAIN K /\ J[i] = n /\ \A j \in DOMAIN K : j # i => J[j] = K[j]
  <2> HIDE DEF K, n
  <2> QED
    BY <1>2 DEF With
<1>6. /\ DOMAIN C = DOMAIN db.collection
      /\ \A c \in DOMAIN C : C[c] \in FolderRow /\ C[c].visible = db.collection[c].visible
      /\ \A c \in DOMAIN C : C[c].parent = IF c = i[1] THEN to ELSE db.collection[c].parent
  <2>1. \A c \in DOMAIN db.collection : db.collection[c] \in FolderRow
    BY DEF IInv, Sound, DbOK
  <2> QED
    BY <1>2, <2>1 DEF Row, FolderRow
<1> HIDE DEF K, T, n, J, C
<1>7. /\ e.folder = db.folder /\ e.collection = C /\ e.triggers = db.triggers
      /\ e.lastFolder = db.lastFolder /\ e.lastCollection = db.lastCollection
      /\ e = [folder |-> e.folder, collection |-> e.collection, triggers |-> e.triggers,
              lastFolder |-> e.lastFolder, lastCollection |-> e.lastCollection]
  BY DEF IInv, Sound, DbOK
<1> HIDE DEF e
<1>8. commands' \in 0 .. MaxCommands
  BY CommandBound DEF MoveCollection
<1>9. to \in DOMAIN db.folder
  BY <1>2 DEF IInv, Sound, FoldersStored
<1>10. DbOK(e) /\ Tree(e, looped)
  BY <1>6, <1>7, <1>9 DEF IInv, Sound, DbOK, Tree
<1>11. Typed(folders, J, pending \ {to}) /\ Closed(folders, J)
  BY <1>1, <1>2, <1>4, <1>5 DEF Typed, Closed
<1>12. FoldersStored(e, folders) /\ FoldersShown(e, folders, looped, emptied, misread)
  BY <1>7 DEF IInv, Sound, FoldersStored, FoldersShown
<1>13. Twice(e, J, T)
  BY <1>1, <1>5, <1>7 DEF Twice
<1>14. ItemsStored(e, J, T)
  <2>1. \A j \in DOMAIN J : j[1] \notin T /\ j # i => j[1] # i[1]
    BY <1>2, <1>5, <1>13 DEF Twice
  <2> QED
    BY <1>1, <1>2, <1>4, <1>5, <1>6, <1>7, <2>1 DEF ItemsStored
<1>15. ItemsInPlace(e, folders, J, (pending \ {to}) \cup emptied \cup misread)
  <2> SUFFICES ASSUME NEW c \in DOMAIN C,
                      C[c].parent \in DOMAIN folders \ ((pending \ {to}) \cup emptied \cup misread)
               PROVE  \E j \in DOMAIN J : j[1] = c /\ J[j].parent = C[c].parent
    BY <1>7 DEF ItemsInPlace
  <2>1. CASE c = i[1]
    BY <1>2, <1>4, <1>5, <1>6, <2>1
  <2>2. CASE c # i[1]
    <3>1. PICK j \in DOMAIN K : j[1] = c /\ K[j].parent = db.collection[c].parent
      BY <1>1, <1>6, <2>2 DEF ItemsInPlace
    <3> QED
      BY <1>5, <1>6, <2>2, <3>1
  <2> QED
    BY <2>1, <2>2
<1>16. recursive /\ T = {} => Agree(e, folders, J)
  <2>1. T = {} => \A j \in DOMAIN J : j[1] \in DOMAIN db.collection
    BY <1>1, <1>5 DEF ItemsStored
  <2> QED
    BY <1>1, <1>4, <1>5, <1>6, <1>7, <2>1 DEF Agree
<1> QED
  BY <1>3, <1>7, <1>8, <1>10, <1>11, <1>12, <1>13, <1>14, <1>15, <1>16 DEF IInv, Sound

(* What is below a folder of the panel is what is below it in the database,*)
(* as far as the panel shows it.                                           *)
LEMMA BelowInPanel ==
    ASSUME IInv, NEW f \in DOMAIN folders
    PROVE  Below(Parents(folders), f) = Below(Parents(db.folder), f) \cap DOMAIN folders
<1> DEFINE part == Parents(folders)
           up == Parents(db.folder)
<1>1. DOMAIN part = DOMAIN folders /\ DOMAIN up = DOMAIN db.folder
  BY ParentsFacts
<1>2. Root \notin DOMAIN up /\ DOMAIN part \subseteq DOMAIN up
  BY <1>1 DEF IInv, Sound, DbOK, FoldersStored, Root
<1>3. \A g \in DOMAIN part : part[g] = up[g] /\ part[g] \in DOMAIN part \cup {Root}
  BY <1>1, <1>2, ParentsFacts DEF IInv, Sound, FoldersStored, Closed
<1> HIDE DEF part, up
<1>4. Below(part, f) = Below(up, f) \cap DOMAIN part
  BY <1>1, <1>2, <1>3, BelowInPart
<1> QED
  BY <1>1, <1>4 DEF part, up

(* The children of what is below a folder of the panel.                    *)
LEMMA BelowPanel ==
    ASSUME IInv, NEW f \in DOMAIN folders
    PROVE  LET below == Below(Parents(folders), f)
           IN  /\ below \subseteq DOMAIN folders /\ Root \notin DOMAIN folders
               /\ \A g \in DOMAIN folders : folders[g].parent \in below \cup {f} => g \in below
               /\ \A g \in below : folders[g].parent \in below \cup {f}
<1> DEFINE part == Parents(folders)
<1>1. DOMAIN part = DOMAIN folders /\ \A g \in DOMAIN folders : part[g] = folders[g].parent
  BY ParentsFacts
<1>2. Root \notin DOMAIN folders
  BY DEF IInv, Sound, Typed, FolderIds, Root
<1> HIDE DEF part
<1>3. \A g \in DOMAIN folders : folders[g].parent \in Below(part, f) \cup {f} => g \in Below(part, f)
  BY <1>1, BelowClosed
<1>4. \A g \in Below(part, f) : folders[g].parent \in Below(part, f) \cup {f}
  BY <1>1, BelowParent, BelowDomain
<1> QED
  BY <1>1, <1>2, <1>3, <1>4, BelowDomain DEF part

LEMMA RootedSame ==
    ASSUME NEW up, NEW L, Rooted(up, L),
           NEW new, DOMAIN new = DOMAIN up, \A g \in DOMAIN up : new[g] = up[g]
    PROVE  Rooted(new, L)
<1>1. ASSUME NEW r PROVE Below(up, r) \subseteq Below(new, r)
  <2>1. \A g \in DOMAIN up : up[g] \in Below(new, r) \cup {r} => g \in Below(new, r)
    BY BelowClosed
  <2> QED
    BY <2>1, BelowLeast
<1>2. ASSUME NEW f \in DOMAIN up PROVE Reached(new, L, f)
  BY <1>1 DEF Rooted, Reached
<1> QED
  BY <1>2 DEF Rooted

(* What hangs from the root is not below itself.                           *)
LEMMA Acyclic ==
    ASSUME NEW up, Root \notin DOMAIN up
    PROVE  \A f \in Below(up, Root) : f \notin Below(up, f)
<1> DEFINE S == {f \in Below(up, Root) : f \notin Below(up, f)}
<1>1. ASSUME NEW g \in DOMAIN up, up[g] \in S \cup {Root} PROVE g \in S
  <2>1. g \in Below(up, Root)
    BY <1>1, BelowClosed
  <2>2. ASSUME g \in Below(up, g) PROVE up[g] \in S => up[g] = g
    <3>1. up[g] \in Below(up, g) \cup {g}
      BY <2>2, BelowParent
    <3>2. g \in Below(up, up[g])
      BY BelowClosed
    <3>3. Below(up, g) \subseteq Below(up, up[g])
      BY <3>2, BelowTransitive
    <3> QED
      BY <3>1, <3>3
  <2>3. ASSUME g \in Below(up, g) PROVE up[g] # Root
    BY <2>3, BelowParent, BelowDomain
  <2> QED
    BY <1>1, <2>1, <2>2, <2>3
<1> HIDE DEF S
<1>2. Below(up, Root) \subseteq S
  BY <1>1, BelowLeast
<1> QED
  BY <1>2 DEF S

LEMMA PanelAcyclic ==
    ASSUME IInv, NEW f \in DOMAIN folders
    PROVE  f \notin Below(Parents(folders), f)
<1> DEFINE up == Parents(folders)
<1>1. DOMAIN up = DOMAIN folders /\ Root \notin DOMAIN up
  BY ParentsFacts DEF IInv, Sound, Typed, FolderIds, Root
<1>2. f \in Below(up, Root)
  BY <1>1 DEF IInv, Sound, Hung, Rooted, Reached
<1> HIDE DEF up
<1>3. f \notin Below(up, f)
  BY <1>1, <1>2, Acyclic
<1> QED
  BY <1>3 DEF up

(* A folder moves.                                                         *)
LEMMA MoveFolderKeeps ==
    ASSUME IInv, NEW f, NEW to, MoveFolder(f, to)
    PROVE  IInv'
<1> DEFINE below == Below(Parents(folders), f)
           loop == to \in below \cup {f}
           gone == IF loop THEN below \cup {f} ELSE below
           n == Node(to, TRUE, TRUE)
           W == With(folders, f, n)
           G == Without(W, gone)
           K == Loaded(to)
           T == twice \cup LoadedTwice(to)
           X == {i \in DOMAIN K : K[i].parent \in below \cup {f}}
           J == Without(K, X)
           r == Row(to, db.folder[f].visible)
           D == [db.folder EXCEPT ![f] = r]
           e == [db EXCEPT !.folder = D]
           P == pending \ (below \cup {f, to})
           L == IF loop THEN looped \cup {f} ELSE looped
           E == emptied \cup {f}
<1>1. /\ Typed(folders, K, pending \ {to})
      /\ ItemsStored(db, K, T) /\ Twice(db, K, T) /\ Closed(folders, K)
      /\ ItemsInPlace(db, folders, K, (pending \ {to}) \cup emptied \cup misread)
      /\ recursive /\ T = {} => Agree(db, folders, K)
  BY LoadedKeeps DEF MoveFolder
<1>2. /\ f \in DOMAIN folders /\ to \in DOMAIN folders /\ to \in 0 .. MaxFolders
      /\ f \in DOMAIN db.folder /\ to \in DOMAIN db.folder
  BY DEF MoveFolder, IInv, Sound, Typed, FolderIds, FoldersStored
<1>3. /\ db' = e /\ folders' = G /\ items' = J /\ pending' = P
      /\ twice' = T /\ looped' = L /\ emptied' = E
      /\ recursive' = recursive /\ misread' = misread
  BY DEF MoveFolder, moveFolder
<1>4. /\ below \subseteq DOMAIN folders /\ Root \notin DOMAIN folders
      /\ \A g \in DOMAIN folders : folders[g].parent \in below \cup {f} => g \in below
      /\ \A g \in below : folders[g].parent \in below \cup {f}
  BY <1>2, BelowPanel
<1>5. n \in PanelNode /\ n.parent = to /\ n.moved = TRUE
  BY <1>2 DEF Node, PanelNode
<1>6. /\ DOMAIN G = DOMAIN folders \ gone
      /\ \A g \in DOMAIN G : G[g] = IF g = f THEN n ELSE folders[g]
  <2> HIDE DEF n, gone
  <2> QED
    BY <1>2 DEF With, Without
<1>7. DOMAIN J = DOMAIN K \ X /\ \A j \in DOMAIN J : J[j] = K[j]
  BY DEF Without
<1>8. \A j \in DOMAIN J : K[j].parent \notin below \cup {f}
  BY <1>7
<1>9. \A j \in DOMAIN K : K[j].parent \notin below \cup {f} => j \in DOMAIN J
  BY <1>7
<1>10. r \in FolderRow /\ r.parent = to /\ r.visible = db.folder[f].visible
  <2>1. db.folder[f] \in FolderRow
    BY <1>2 DEF IInv, Sound, DbOK
  <2> QED
    BY <1>2, <2>1 DEF Row, FolderRow
<1>11. /\ DOMAIN D = DOMAIN db.folder
       /\ \A g \in DOMAIN D : g # f => D[g] = db.folder[g]
       /\ D[f].parent = to /\ D[f].visible = db.folder[f].visible /\ D[f] \in FolderRow
  <2>1. DOMAIN D = DOMAIN db.folder /\ (\A g \in DOMAIN D : g # f => D[g] = db.folder[g]) /\ D[f] = r
    <3> HIDE DEF r
    <3> QED
      BY <1>2
  <2> HIDE DEF D, r
  <2> QED
    BY <1>10, <2>1
<1> HIDE DEF n, W, G, K, T, X, J, r, D
<1>12. /\ e.folder = D /\ e.collection = db.collection /\ e.triggers = db.triggers
       /\ e.lastFolder = db.lastFolder /\ e.lastCollection = db.lastCollection
       /\ e = [folder |-> e.folder, collection |-> e.collection, triggers |-> e.triggers,
               lastFolder |-> e.lastFolder, lastCollection |-> e.lastCollection]
  BY DEF IInv, Sound, DbOK
<1> HIDE DEF e
<1>13. commands' \in 0 .. MaxCommands
  BY CommandBound DEF MoveFolder
<1>14. DbOK(e)
  BY <1>11, <1>12 DEF IInv, Sound, DbOK
<1>15. Tree(e, L)
  <2> DEFINE up == Parents(db.folder)
             new == Parents(D)
  <2>1. DOMAIN up = DOMAIN db.folder /\ DOMAIN new = DOMAIN up
    BY <1>11, ParentsFacts
  <2>2. \A g \in DOMAIN up : new[g] = IF g = f THEN to ELSE up[g]
    BY <1>11, <2>1, ParentsFacts
  <2>3. Rooted(up, looped)
    BY DEF IInv, Sound, Tree
  <2>4. below = Below(up, f) \cap DOMAIN folders
    BY <1>2, BelowInPanel
  <2> HIDE DEF up, new, below
  <2>5. /\ to \notin Below(up, f) \cup {f} => Rooted(new, looped)
        /\ Rooted(new, looped \cup {f}) \/ to \notin Below(up, f) \cup {f}
    BY <1>2, <2>1, <2>2, <2>3, RootedMove
  <2>6. Rooted(new, L)
    BY <1>2, <2>4, <2>5
  <2>7. \A c \in DOMAIN e.collection : e.collection[c].parent \in DOMAIN e.folder
    BY <1>11, <1>12 DEF IInv, Sound, Tree
  <2> QED
    BY <1>12, <2>6, <2>7 DEF Tree, new
<1>26. f \notin below
  BY <1>2, PanelAcyclic
<1>27. Hung(G)
  <2> DEFINE up == Parents(folders)
             rest == Parents(Without(folders, below \cup {f}))
             new == Parents(G)
  <2>1. DOMAIN up = DOMAIN folders /\ Rooted(up, {})
    BY ParentsFacts DEF IInv, Sound, Hung
  <2>2. /\ DOMAIN rest = DOMAIN up \ (Below(up, f) \cup {f})
        /\ \A g \in DOMAIN rest : rest[g] = folders[g].parent
    BY <2>1, ParentsFacts DEF Without, Parents
  <2>3. \A g \in DOMAIN rest : rest[g] = up[g]
    BY <2>2, ParentsFacts
  <2> HIDE DEF up, rest
  <2>4. Rooted(rest, {})
    BY <2>1, <2>2, <2>3, RootedDelete
  <2>5. DOMAIN new = DOMAIN G /\ \A g \in DOMAIN new : new[g] = G[g].parent
    BY ParentsFacts
  <2> HIDE DEF new
  <2>6. DOMAIN rest = DOMAIN folders \ (below \cup {f})
    BY <2>1, <2>2 DEF up
  <2> HIDE DEF below
  <2>7. CASE loop
    <3>1. DOMAIN new = DOMAIN rest /\ \A g \in DOMAIN new : new[g] = rest[g]
      BY <1>6, <2>2, <2>5, <2>6, <2>7
    <3> QED
      BY <2>4, <3>1, RootedSame DEF Hung, new
  <2>8. CASE ~loop
    <3>1. f \notin DOMAIN rest /\ to \in DOMAIN rest /\ DOMAIN new = DOMAIN rest \cup {f}
      BY <1>2, <1>6, <1>26, <2>5, <2>6, <2>8
    <3>2. new[f] = to /\ \A g \in DOMAIN rest : new[g] = rest[g]
      BY <1>5, <1>6, <2>2, <2>5, <3>1
    <3> QED
      BY <2>4, <3>1, <3>2, RootedAdd DEF Hung, new
  <2> QED
    BY <2>7, <2>8
<1> HIDE DEF below
<1>16. Typed(G, J, P)
  BY <1>1, <1>2, <1>4, <1>5, <1>6, <1>7 DEF Typed
<1>17. FoldersStored(e, G)
  BY <1>2, <1>5, <1>6, <1>11, <1>12 DEF IInv, Sound, FoldersStored
<1>18. ItemsStored(e, J, T)
  BY <1>1, <1>7, <1>12 DEF ItemsStored
<1>19. FoldersShown(e, G, L, E, misread)
  <2> SUFFICES ASSUME NEW g \in DOMAIN D, D[g].parent \in DOMAIN G \cup {Root}, g \notin L \cup misread
               PROVE  g \in DOMAIN G \/ D[g].parent \in E
    BY <1>12 DEF FoldersShown
  <2>1. CASE g = f
    BY <1>2, <1>6, <1>26, <2>1
  <2>2. CASE g # f /\ db.folder[g].parent = f
    BY <1>11, <2>2
  <2>3. CASE g # f /\ db.folder[g].parent # f
    <3>1. D[g].parent = db.folder[g].parent /\ g \in DOMAIN db.folder
      BY <1>11, <2>3
    <3>2. g \in DOMAIN folders \/ db.folder[g].parent \in emptied
      BY <1>6, <3>1 DEF IInv, Sound, FoldersShown
    <3>3. g \in DOMAIN folders /\ g \in gone => FALSE
      <4>1. g \in DOMAIN folders => folders[g].parent = db.folder[g].parent
        BY DEF IInv, Sound, FoldersStored
      <4>2. db.folder[g].parent \notin below
        BY <1>4, <1>6, <3>1
      <4> QED
        BY <1>4, <2>3, <4>1, <4>2
    <3> QED
      BY <1>6, <3>1, <3>2, <3>3
  <2> QED
    BY <2>1, <2>2, <2>3
<1>20. ItemsInPlace(e, G, J, P \cup E \cup misread)
  <2> SUFFICES ASSUME NEW c \in DOMAIN db.collection,
                      db.collection[c].parent \in DOMAIN G \ (P \cup E \cup misread)
               PROVE  \E j \in DOMAIN J : j[1] = c /\ J[j].parent = db.collection[c].parent
    BY <1>12 DEF ItemsInPlace
  <2>1. db.collection[c].parent \notin below \cup {f} /\ db.collection[c].parent \in DOMAIN folders
    BY <1>6
  <2>2. db.collection[c].parent \notin (pending \ {to}) \cup emptied \cup misread
    BY <2>1
  <2>3. PICK j \in DOMAIN K : j[1] = c /\ K[j].parent = db.collection[c].parent
    BY <1>1, <2>1, <2>2 DEF ItemsInPlace
  <2> QED
    BY <1>7, <1>9, <2>1, <2>3
<1>21. Closed(G, J)
  <2>1. ASSUME NEW g \in DOMAIN G PROVE G[g].parent \in DOMAIN G \cup {Root}
    <3>1. CASE g = f
      BY <1>2, <1>5, <1>6, <3>1
    <3>2. CASE g # f
      <4>1. folders[g].parent \in DOMAIN folders \cup {Root} /\ g \in DOMAIN folders /\ g \notin below
        BY <1>6, <3>2 DEF IInv, Sound, Closed
      <4>2. folders[g].parent \notin below \cup {f}
        BY <1>4, <4>1
      <4> QED
        BY <1>6, <3>2, <4>1, <4>2
    <3> QED
      BY <3>1, <3>2
  <2>2. \A j \in DOMAIN J : J[j].parent \in DOMAIN G
    BY <1>1, <1>6, <1>7, <1>8 DEF Closed
  <2> QED
    BY <2>1, <2>2 DEF Closed
<1>22. Twice(e, J, T)
  BY <1>1, <1>7, <1>12 DEF Twice
<1>23. recursive /\ T = {} => Agree(e, G, J)
  <2>1. \A g \in DOMAIN G : g \in DOMAIN D
    BY <1>12, <1>17 DEF FoldersStored
  <2>2. ASSUME recursive, T = {}, NEW g \in DOMAIN G, ~G[g].moved
        PROVE  G[g].checked = D[g].visible
    <3>1. g # f /\ G[g] = folders[g]
      BY <1>5, <1>6, <2>2
    <3> QED
      BY <1>1, <1>6, <1>11, <2>1, <2>2, <3>1 DEF Agree
  <2> QED
    BY <1>1, <1>7, <1>12, <2>2 DEF Agree
<1> HIDE DEF P, L, E
<1>24. Sound(e, G, J, P, L, T, E, misread)
  BY <1>14, <1>15, <1>16, <1>17, <1>18, <1>19, <1>20, <1>21, <1>22, <1>27 DEF Sound
<1>25. twice \subseteq T
  BY DEF T
<1> QED
  BY <1>3, <1>12, <1>13, <1>23, <1>24 DEF IInv

(* A folder goes with all that is below it: the nodes, and the rows, or    *)
(* the nodes only.                                                         *)
LEMMA DeleteFolderKeeps ==
    ASSUME IInv, NEW f, DeleteFolder(f)
    PROVE  IInv'
<1> DEFINE below == Below(Parents(folders), f)
           gone == below \cup {f}
           G == Without(folders, gone)
           X == {i \in DOMAIN items : items[i].parent \in gone}
           J == Without(items, X)
           P == pending \ gone
           up == Parents(db.folder)
           rows == Below(up, f) \cup {f}
           D == Without(db.folder, rows)
           Y == {c \in DOMAIN db.collection : db.collection[c].parent \in rows}
           C == Without(db.collection, Y)
           e == [db EXCEPT !.folder = D, !.collection = C]
<1>1. f \in DOMAIN folders
  BY DEF DeleteFolder
<1>2. /\ below \subseteq DOMAIN folders /\ Root \notin DOMAIN folders
      /\ \A g \in DOMAIN folders : folders[g].parent \in below \cup {f} => g \in below
      /\ \A g \in below : folders[g].parent \in below \cup {f}
  BY <1>1, BelowPanel
<1>3. below = Below(up, f) \cap DOMAIN folders
  BY <1>1, BelowInPanel
<1>4. /\ folders' = G /\ items' = J /\ pending' = P
      /\ recursive' = recursive /\ looped' = looped /\ emptied' = emptied /\ twice' = twice
      /\ \/ db' = e /\ misread' = misread
         \/ db' = db /\ misread' = misread \cup {f}
  BY DEF DeleteFolder, DeletedFolder
<1>5. DOMAIN G = DOMAIN folders \ gone /\ \A g \in DOMAIN G : G[g] = folders[g]
  BY DEF Without
<1>6. /\ DOMAIN J = DOMAIN items \ X /\ \A j \in DOMAIN J : J[j] = items[j]
      /\ \A j \in DOMAIN J : items[j].parent \notin gone
  BY DEF Without
<1>7. DOMAIN D = DOMAIN db.folder \ rows /\ \A g \in DOMAIN D : D[g] = db.folder[g]
  BY DEF Without
<1>8. /\ DOMAIN C \subseteq DOMAIN db.collection /\ \A c \in DOMAIN C : C[c] = db.collection[c]
      /\ \A c \in DOMAIN db.collection : c \in DOMAIN C <=> db.collection[c].parent \notin rows
  BY DEF Without
<1>9. commands' \in 0 .. MaxCommands
  BY CommandBound DEF DeleteFolder
<1>10. Rooted(Parents(D), looped)
  <2>1. Rooted(up, looped)
    BY DEF IInv, Sound, Tree
  <2>2. DOMAIN Parents(D) = DOMAIN up \ (Below(up, f) \cup {f})
    BY <1>7, ParentsFacts
  <2>4. \A g \in DOMAIN db.folder : up[g] = db.folder[g].parent
    BY ParentsFacts
  <2> HIDE DEF up, D
  <2>3. \A g \in DOMAIN Parents(D) : Parents(D)[g] = up[g]
    BY <1>7, <2>4, ParentsFacts
  <2> QED
    BY <2>1, <2>2, <2>3, RootedDelete
<1>11. \A g \in DOMAIN folders : g \in rows <=> g \in gone
  BY <1>1, <1>3
<1>17. Hung(G)
  <2> DEFINE old == Parents(folders)
             new == Parents(G)
  <2>1. DOMAIN old = DOMAIN folders /\ Rooted(old, {})
    BY ParentsFacts DEF IInv, Sound, Hung
  <2>2. \A g \in DOMAIN folders : old[g] = folders[g].parent
    BY ParentsFacts
  <2> HIDE DEF G
  <2>3. DOMAIN new = DOMAIN G /\ \A g \in DOMAIN new : new[g] = G[g].parent
    BY ParentsFacts
  <2> HIDE DEF new, old
  <2>4. DOMAIN new = DOMAIN old \ (Below(old, f) \cup {f})
    BY <1>5, <2>1, <2>3 DEF old
  <2>5. \A g \in DOMAIN new : new[g] = old[g]
    BY <1>5, <2>2, <2>3
  <2>6. Rooted(new, {})
    BY <2>1, <2>4, <2>5, RootedDelete
  <2> QED
    BY <2>6 DEF Hung, new
<1> HIDE DEF below, G, X, J, D, C, Y, up, rows
<1> DEFINE Z == [db EXCEPT !.folder = D]
<1>18. /\ Z.folder = D /\ Z.collection = db.collection /\ Z.triggers = db.triggers
       /\ Z.lastFolder = db.lastFolder /\ Z.lastCollection = db.lastCollection
       /\ Z = [folder |-> Z.folder, collection |-> Z.collection, triggers |-> Z.triggers,
               lastFolder |-> Z.lastFolder, lastCollection |-> Z.lastCollection]
       /\ e = [Z EXCEPT !.collection = C]
  BY DEF IInv, Sound, DbOK
<1> HIDE DEF Z, e
<1>12. /\ e.folder = D /\ e.collection = C /\ e.triggers = db.triggers
       /\ e.lastFolder = db.lastFolder /\ e.lastCollection = db.lastCollection
       /\ e = [folder |-> e.folder, collection |-> e.collection, triggers |-> e.triggers,
               lastFolder |-> e.lastFolder, lastCollection |-> e.lastCollection]
  BY <1>18
<1>13. Typed(G, J, P)
  BY <1>5, <1>6 DEF IInv, Sound, Typed
<1>14. Closed(G, J)
  BY <1>2, <1>5, <1>6 DEF IInv, Sound, Closed
<1>15. CASE db' = e /\ misread' = misread
  <2>1. DbOK(e)
    BY <1>7, <1>8, <1>12 DEF IInv, Sound, DbOK
  <2>2. Tree(e, looped)
    <3>1. \A c \in DOMAIN C : C[c].parent \in DOMAIN D
      BY <1>7, <1>8 DEF IInv, Sound, Tree
    <3> QED
      BY <1>10, <1>12, <3>1 DEF Tree
  <2>3. FoldersStored(e, G)
    BY <1>5, <1>7, <1>11, <1>12 DEF IInv, Sound, FoldersStored
  <2>4. ItemsStored(e, J, twice)
    <3>1. ASSUME NEW j \in DOMAIN J, j[1] \notin twice
          PROVE  j[1] \in DOMAIN C /\ J[j].parent = C[j[1]].parent
      <4>1. j[1] \in DOMAIN db.collection /\ items[j].parent = db.collection[j[1]].parent
        BY <1>6, <3>1 DEF IInv, Sound, ItemsStored
      <4>2. items[j].parent \in DOMAIN folders /\ items[j].parent \notin gone
        BY <1>6 DEF IInv, Sound, Closed
      <4> QED
        BY <1>6, <1>8, <1>11, <4>1, <4>2
    <3> QED
      BY <1>12, <3>1 DEF ItemsStored
  <2>5. FoldersShown(e, G, looped, emptied, misread)
    BY <1>5, <1>7, <1>11, <1>12 DEF IInv, Sound, FoldersShown
  <2>6. ItemsInPlace(e, G, J, P \cup emptied \cup misread)
    <3> SUFFICES ASSUME NEW c \in DOMAIN C, C[c].parent \in DOMAIN G \ (P \cup emptied \cup misread)
                 PROVE  \E j \in DOMAIN J : j[1] = c /\ J[j].parent = C[c].parent
      BY <1>12 DEF ItemsInPlace
    <3>1. PICK j \in DOMAIN items : j[1] = c /\ items[j].parent = C[c].parent
      BY <1>5, <1>8 DEF IInv, Sound, ItemsInPlace
    <3> QED
      BY <1>5, <1>6, <3>1 DEF X
  <2>7. Twice(e, J, twice)
    BY <1>6, <1>12 DEF IInv, Sound, Twice
  <2>8. recursive /\ twice = {} => Agree(e, G, J)
    <3>1. \A g \in DOMAIN G : g \in DOMAIN D
      BY <2>3, <1>12 DEF FoldersStored
    <3>2. twice = {} => \A j \in DOMAIN J : j[1] \in DOMAIN C
      BY <2>4, <1>12 DEF ItemsStored
    <3> QED
      BY <1>5, <1>6, <1>7, <1>8, <1>12, <3>1, <3>2 DEF IInv, Agree
  <2> HIDE DEF P
  <2>9. Sound(e, G, J, P, looped, twice, emptied, misread)
    BY <1>13, <1>14, <2>1, <2>2, <2>3, <2>4, <2>5, <2>6, <2>7, <1>17 DEF Sound
  <2> QED
    BY <1>4, <1>9, <1>12, <1>15, <2>8, <2>9 DEF IInv
<1>16. CASE db' = db /\ misread' = misread \cup {f}
  <2> DEFINE M == misread \cup {f}
  <2>1. FoldersStored(db, G)
    BY <1>5 DEF IInv, Sound, FoldersStored
  <2>2. ItemsStored(db, J, twice) /\ Twice(db, J, twice)
    BY <1>6 DEF IInv, Sound, ItemsStored, Twice
  <2>3. FoldersShown(db, G, looped, emptied, M)
    <3> SUFFICES ASSUME NEW g \in DOMAIN db.folder, db.folder[g].parent \in DOMAIN G \cup {Root},
                        g \notin looped \cup M
                 PROVE  g \in DOMAIN G \/ db.folder[g].parent \in emptied
      BY DEF FoldersShown
    <3>1. g \in DOMAIN folders \/ db.folder[g].parent \in emptied
      BY <1>5 DEF IInv, Sound, FoldersShown
    <3>2. g \in DOMAIN folders => folders[g].parent = db.folder[g].parent
      BY DEF IInv, Sound, FoldersStored
    <3> QED
      BY <1>1, <1>2, <1>5, <3>1, <3>2
  <2>4. ItemsInPlace(db, G, J, P \cup emptied \cup M)
    <3> SUFFICES ASSUME NEW c \in DOMAIN db.collection,
                        db.collection[c].parent \in DOMAIN G \ (P \cup emptied \cup M)
                 PROVE  \E j \in DOMAIN J : j[1] = c /\ J[j].parent = db.collection[c].parent
      BY DEF ItemsInPlace
    <3>1. PICK j \in DOMAIN items : j[1] = c /\ items[j].parent = db.collection[c].parent
      BY <1>5 DEF IInv, Sound, ItemsInPlace
    <3> QED
      BY <1>5, <1>6, <3>1 DEF X
  <2>5. recursive /\ twice = {} => Agree(db, G, J)
    BY <1>5, <1>6 DEF IInv, Agree
  <2> HIDE DEF P, M
  <2>6. Sound(db, G, J, P, looped, twice, emptied, M)
    BY <1>13, <1>14, <1>17, <2>1, <2>2, <2>3, <2>4 DEF IInv, Sound
  <2>7. misread' = M
    BY <1>16 DEF M
  <2> QED
    BY <1>4, <1>9, <1>16, <2>5, <2>6, <2>7 DEF IInv
<1> QED
  BY <1>4, <1>15, <1>16

-----------------------------------------------------------------------------
(* What a change of visibility amounts to when no trigger was left behind. *)

LEMMA WithTriggerEnd ==
    ASSUME NEW d, DbOK(d), d.triggers = {}, NEW trigger \in Triggers, NEW f, NEW state \in BOOLEAN
    PROVE  LET s == WithTrigger(d, trigger, f, state)
               z == EndOf(d, s)
               c == [d EXCEPT !.triggers = {trigger}]
           IN  /\ s # <<>> /\ Good(d, z) /\ z.triggers = {}
               /\ c.triggers = {trigger} /\ c.folder = d.folder /\ c.collection = d.collection
               /\ \A g \in DOMAIN d.folder :
                    /\ g \in Touched(c, f, state) => z.folder[g].visible = state
                    /\ g \notin Touched(c, f, state) => z.folder[g] = d.folder[g]
               /\ \A x \in DOMAIN d.collection :
                    /\ x \in TouchedCollections(c, f, state) => z.collection[x].visible = state
                    /\ x \notin TouchedCollections(c, f, state) => z.collection[x] = d.collection[x]
<1> DEFINE c == [d EXCEPT !.triggers = {trigger}]
           u == Updated(c, f, state)
           z == [u EXCEPT !.triggers = @ \ {trigger}]
           s == WithTrigger(d, trigger, f, state)
<1>1. Good(d, c) /\ c.triggers = {trigger} /\ c.folder = d.folder /\ c.collection = d.collection
  <2>1. {trigger} \subseteq Triggers
    OBVIOUS
  <2> QED
    BY <2>1, TriggersSet
<1>2. s = <<c, u, z>>
  <2>1. {} \cup {trigger} = {trigger}
    OBVIOUS
  <2> QED
    BY <2>1 DEF WithTrigger
<1> HIDE DEF c
<1>3. DbOK(c)
  BY <1>1 DEF Good
<1>4. /\ DbOK(u) /\ SameTree(c, u) /\ u.triggers = c.triggers
      /\ \A g \in DOMAIN c.folder : u.folder[g] =
           IF g \in Touched(c, f, state) THEN Row(c.folder[g].parent, state) ELSE c.folder[g]
      /\ \A x \in DOMAIN c.collection : u.collection[x] =
           IF x \in TouchedCollections(c, f, state) THEN Row(c.collection[x].parent, state)
           ELSE c.collection[x]
  BY <1>3, UpdatedRows
<1> HIDE DEF u
<1>5. Good(u, z) /\ z.triggers = {} /\ z.folder = u.folder /\ z.collection = u.collection
  <2>1. u.triggers \ {trigger} = {} /\ {} \subseteq Triggers
    BY <1>1, <1>4
  <2> QED
    BY <1>4, <2>1, TriggersSet
<1> HIDE DEF z
<1>6. s # <<>> /\ EndOf(d, s) = z
  <2> HIDE DEF s
  <2> QED
    BY <1>2 DEF EndOf
<1>7. Good(d, z)
  <2>1. Good(c, u)
    BY <1>4 DEF Good
  <2>2. Good(d, u)
    BY <1>1, <2>1, GoodAgain
  <2> QED
    BY <2>2, <1>5, GoodAgain
<1>8. \A p : Row(p, state).visible = state
  BY DEF Row
<1>9. \A g \in DOMAIN d.folder :
        /\ g \in Touched(c, f, state) => z.folder[g].visible = state
        /\ g \notin Touched(c, f, state) => z.folder[g] = d.folder[g]
  BY <1>1, <1>4, <1>5, <1>8
<1>10. \A x \in DOMAIN d.collection :
        /\ x \in TouchedCollections(c, f, state) => z.collection[x].visible = state
        /\ x \notin TouchedCollections(c, f, state) => z.collection[x] = d.collection[x]
  BY <1>1, <1>4, <1>5, <1>8
<1> HIDE DEF s
<1> QED
  BY <1>1, <1>5, <1>6, <1>7, <1>9, <1>10 DEF c, s

(* Down: the folders that fire are f and, where triggers fire each other,  *)
(* all below it; the rows in them are set.                                 *)
Down(d, f) == IF recursive THEN Below(Parents(d.folder), f) \cup {f} ELSE {f}

LEMMA DownEnd ==
    ASSUME NEW d, DbOK(d), d.triggers = {}, NEW f \in DOMAIN d.folder, NEW state \in BOOLEAN
    PROVE  LET s == WithTrigger(d, "folder_visibility", f, state)
               z == EndOf(d, s)
           IN  /\ s # <<>> /\ Good(d, z) /\ z.triggers = {}
               /\ \A g \in DOMAIN d.folder :
                    IF g \in Down(d, f) \/ d.folder[g].parent \in Down(d, f)
                    THEN z.folder[g].visible = state ELSE z.folder[g] = d.folder[g]
               /\ \A x \in DOMAIN d.collection :
                    IF d.collection[x].parent \in Down(d, f)
                    THEN z.collection[x].visible = state ELSE z.collection[x] = d.collection[x]
<1>0. PICK t \in Triggers : t = "folder_visibility"
  BY DEF Triggers
<1> DEFINE s == WithTrigger(d, t, f, state)
           z == EndOf(d, s)
           c == [d EXCEPT !.triggers = {t}]
<1>6. s # <<>> /\ Good(d, z) /\ z.triggers = {}
  <2>1. s # <<>>
    BY DEF WithTrigger
  <2>2. Good(d, z)
    BY WithTriggerEnd
  <2>3. z.triggers = {}
    BY WithTriggerEnd
  <2> QED
    BY <2>1, <2>2, <2>3
<1>7. c.triggers = {t} /\ c.folder = d.folder /\ c.collection = d.collection
  BY WithTriggerEnd
<1>8. \A g \in DOMAIN d.folder :
        /\ g \in Touched(c, f, state) => z.folder[g].visible = state
        /\ g \notin Touched(c, f, state) => z.folder[g] = d.folder[g]
  BY WithTriggerEnd
<1>9. \A x \in DOMAIN d.collection :
        /\ x \in TouchedCollections(c, f, state) => z.collection[x].visible = state
        /\ x \notin TouchedCollections(c, f, state) => z.collection[x] = d.collection[x]
  BY WithTriggerEnd
<1> HIDE DEF s, z, c
<1>2. f \in DOMAIN Parents(c.folder)
  BY <1>0, <1>7, ParentsFacts
<1>3. Fires(c, f, state) = Down(d, f)
  BY <1>0, <1>7, <1>2 DEF Fires, Down
<1>4. \A g \in DOMAIN d.folder :
        g \in Touched(c, f, state) <=> g \in Down(d, f) \/ d.folder[g].parent \in Down(d, f)
  BY <1>0, <1>7, <1>3 DEF Touched
<1>5. \A x \in DOMAIN d.collection :
        x \in TouchedCollections(c, f, state) <=> d.collection[x].parent \in Down(d, f)
  BY <1>0, <1>7, <1>3 DEF TouchedCollections
<1> QED
  BY <1>4, <1>5, <1>6, <1>8, <1>9, <1>0 DEF s, z

(* Up: f and the folders above it, or, where triggers do not fire each     *)
(* other, the one it is in; no collection.                                 *)
Up(d, f) ==
    LET up == Parents(d.folder)
    IN  IF recursive THEN Above(up, f) \cup {f} ELSE ({up[f]} \cap DOMAIN up) \cup {f}

LEMMA UpEnd ==
    ASSUME NEW d, DbOK(d), d.triggers = {}, NEW f \in DOMAIN d.folder
    PROVE  LET s == WithTrigger(d, "parent_folder_visibility", f, TRUE)
               z == EndOf(d, s)
           IN  /\ s # <<>> /\ Good(d, z) /\ z.triggers = {}
               /\ \A g \in DOMAIN d.folder :
                    IF g \in Up(d, f) THEN z.folder[g].visible = TRUE ELSE z.folder[g] = d.folder[g]
               /\ \A x \in DOMAIN d.collection : z.collection[x] = d.collection[x]
<1>0. PICK t \in Triggers : t = "parent_folder_visibility"
  BY DEF Triggers
<1>1. PICK b \in BOOLEAN : b = TRUE
  OBVIOUS
<1> DEFINE s == WithTrigger(d, t, f, b)
           z == EndOf(d, s)
           c == [d EXCEPT !.triggers = {t}]
<1>6. s # <<>> /\ Good(d, z) /\ z.triggers = {}
  <2>1. s # <<>>
    BY DEF WithTrigger
  <2>2. Good(d, z)
    BY WithTriggerEnd
  <2>3. z.triggers = {}
    BY WithTriggerEnd
  <2> QED
    BY <2>1, <2>2, <2>3
<1>7. c.triggers = {t} /\ c.folder = d.folder /\ c.collection = d.collection
  BY WithTriggerEnd
<1>8. \A g \in DOMAIN d.folder :
        /\ g \in Touched(c, f, b) => z.folder[g].visible = b
        /\ g \notin Touched(c, f, b) => z.folder[g] = d.folder[g]
  BY WithTriggerEnd
<1>9. \A x \in DOMAIN d.collection :
        /\ x \in TouchedCollections(c, f, b) => z.collection[x].visible = b
        /\ x \notin TouchedCollections(c, f, b) => z.collection[x] = d.collection[x]
  BY WithTriggerEnd
<1> HIDE DEF s, z, c
<1>2. f \in DOMAIN Parents(c.folder)
  BY <1>1, <1>0, <1>7, ParentsFacts
<1>3. Fires(c, f, b) = Up(d, f)
  <2> DEFINE up == Parents(c.folder)
  <2>1. {f} \cap DOMAIN up = {f}
    BY <1>2
  <2>2. {up[g] : g \in {f}} = {up[f]}
    OBVIOUS
  <2> QED
    BY <1>1, <1>0, <1>7, <2>1, <2>2 DEF Fires, Up
<1>4. \A g \in DOMAIN d.folder : g \in Touched(c, f, b) <=> g \in Up(d, f)
  BY <1>1, <1>0, <1>7, <1>3 DEF Touched
<1>5. TouchedCollections(c, f, b) = {}
  BY <1>1, <1>0, <1>7 DEF TouchedCollections
<1> QED
  BY <1>4, <1>5, <1>6, <1>8, <1>9, <1>0, <1>1 DEF s, z

LEMMA EndOfBoth ==
    ASSUME NEW d, NEW s, GoodSteps(d, s), NEW e, NEW t, GoodSteps(e, t), t # <<>>
    PROVE  EndOf(d, s \o t) = EndOf(e, t)
<1>1. PICK S : s \in Seq(S) /\ \A x \in S : Good(d, x)
  BY DEF GoodSteps
<1>2. PICK T : t \in Seq(T) /\ \A x \in T : Good(e, x)
  BY DEF GoodSteps
<1>3. s \in Seq(S \cup T) /\ t \in Seq(S \cup T)
  BY <1>1, <1>2, SeqMonotonic
<1>4. Len(s) \in Nat /\ Len(t) \in Nat /\ Len(t) # 0
  BY <1>3, EmptySeq, LenProperties
<1> DEFINE u == s \o t
<1>5. u \in Seq(S \cup T) /\ Len(u) = Len(s) + Len(t) /\ u[Len(s) + Len(t)] = t[Len(t)]
  <2>1. Len(s) + Len(t) \in 1 .. Len(s) + Len(t) /\ ~(Len(s) + Len(t) <= Len(s))
    BY <1>4
  <2>2. (Len(s) + Len(t)) - Len(s) = Len(t)
    BY <1>4
  <2> QED
    BY <1>3, <2>1, <2>2, ConcatProperties
<1> HIDE DEF u
<1>6. u # <<>>
  BY <1>4, <1>5, EmptySeq
<1> QED
  BY <1>5, <1>6 DEF EndOf, u

LEMMA SameParents ==
    ASSUME NEW d, NEW e, Good(d, e)
    PROVE  Parents(e.folder) = Parents(d.folder)
BY DEF Good, SameTree, Parents

LEMMA FolderEnd ==
    ASSUME NEW d, DbOK(d), d.triggers = {}, NEW f \in DOMAIN d.folder, NEW state \in BOOLEAN
    PROVE  LET z == EndOf(d, FolderVisibility(d, f, state))
           IN  /\ Good(d, z) /\ z.triggers = {}
               /\ \A g \in DOMAIN d.folder :
                    IF g \in Down(d, f) \/ d.folder[g].parent \in Down(d, f)
                    THEN z.folder[g].visible = state
                    ELSE IF state /\ g \in Up(d, f) THEN z.folder[g].visible = TRUE
                    ELSE z.folder[g] = d.folder[g]
               /\ \A x \in DOMAIN d.collection :
                    IF d.collection[x].parent \in Down(d, f)
                    THEN z.collection[x].visible = state ELSE z.collection[x] = d.collection[x]
<1> DEFINE s == WithTrigger(d, "folder_visibility", f, state)
           e == EndOf(d, s)
           t == WithTrigger(e, "parent_folder_visibility", f, TRUE)
           y == EndOf(e, t)
           z == EndOf(d, FolderVisibility(d, f, state))
<1>1. s # <<>> /\ Good(d, e) /\ e.triggers = {}
  <2>1. s # <<>>
    BY DownEnd
  <2> QED
    BY <2>1, DownEnd
<1>2. \A g \in DOMAIN d.folder :
        IF g \in Down(d, f) \/ d.folder[g].parent \in Down(d, f)
        THEN e.folder[g].visible = state ELSE e.folder[g] = d.folder[g]
  BY DownEnd
<1>3. \A x \in DOMAIN d.collection :
        IF d.collection[x].parent \in Down(d, f)
        THEN e.collection[x].visible = state ELSE e.collection[x] = d.collection[x]
  BY DownEnd
<1>4. GoodSteps(d, s)
  BY WithTriggerGood DEF Triggers
<1>5. CASE ~state
  <2>1. FolderVisibility(d, f, state) = s
    BY <1>5 DEF FolderVisibility
  <2>2. z = e
    BY <2>1
  <2> HIDE DEF s, e, z, t, y
  <2>3. /\ Good(d, z) /\ z.triggers = {}
        /\ \A g \in DOMAIN d.folder :
             IF g \in Down(d, f) \/ d.folder[g].parent \in Down(d, f)
             THEN z.folder[g].visible = state
             ELSE IF state /\ g \in Up(d, f) THEN z.folder[g].visible = TRUE
             ELSE z.folder[g] = d.folder[g]
        /\ \A x \in DOMAIN d.collection :
             IF d.collection[x].parent \in Down(d, f)
             THEN z.collection[x].visible = state ELSE z.collection[x] = d.collection[x]
    BY <1>1, <1>2, <1>3, <1>5, <2>2
  <2> QED
    BY <2>3 DEF z
<1>6. CASE state
  <2>1. FolderVisibility(d, f, state) = s \o t
    BY <1>1, <1>6 DEF FolderVisibility
  <2> HIDE DEF s, e
  <2>2. DbOK(e) /\ DOMAIN e.folder = DOMAIN d.folder /\ DOMAIN e.collection = DOMAIN d.collection
    BY <1>1 DEF Good, SameTree
  <2>3. GoodSteps(e, t)
    BY <2>2, WithTriggerGood DEF Triggers
  <2>4. t # <<>> /\ Good(e, y) /\ y.triggers = {}
    <3>1. t # <<>>
      BY <1>1, <2>2, UpEnd
    <3> QED
      BY <1>1, <2>2, <3>1, UpEnd
  <2>5. \A g \in DOMAIN e.folder :
          IF g \in Up(e, f) THEN y.folder[g].visible = TRUE ELSE y.folder[g] = e.folder[g]
    BY <1>1, <2>2, UpEnd
  <2>6. \A x \in DOMAIN e.collection : y.collection[x] = e.collection[x]
    BY <1>1, <2>2, UpEnd
  <2> HIDE DEF t
  <2>7. EndOf(d, s \o t) = y
    BY <1>4, <2>3, <2>4, EndOfBoth
  <2>8. z = y
    BY <2>1, <2>7
  <2> HIDE DEF y, z
  <2>9. Good(d, y)
    BY <1>1, <2>4, GoodAgain
  <2>10. Up(e, f) = Up(d, f)
    BY <1>1, SameParents DEF Up
  <2>11. /\ Good(d, z) /\ z.triggers = {}
         /\ \A g \in DOMAIN d.folder :
              IF g \in Down(d, f) \/ d.folder[g].parent \in Down(d, f)
              THEN z.folder[g].visible = state
              ELSE IF state /\ g \in Up(d, f) THEN z.folder[g].visible = TRUE
              ELSE z.folder[g] = d.folder[g]
         /\ \A x \in DOMAIN d.collection :
              IF d.collection[x].parent \in Down(d, f)
              THEN z.collection[x].visible = state ELSE z.collection[x] = d.collection[x]
    BY <1>2, <1>3, <1>6, <2>2, <2>4, <2>5, <2>6, <2>8, <2>9, <2>10
  <2> QED
    BY <2>11 DEF z
<1> QED
  BY <1>5, <1>6

(* The change of visibility of a collection in folder p.                   *)
CollectionSet(d, c, p, state, z) ==
    /\ Good(d, z) /\ z.triggers = {}
    /\ \A g \in DOMAIN d.folder :
         IF state /\ g \in Up(d, p) THEN z.folder[g].visible = TRUE ELSE z.folder[g] = d.folder[g]
    /\ \A x \in DOMAIN d.collection :
         IF x = c THEN z.collection[x].visible = state ELSE z.collection[x] = d.collection[x]

LEMMA CollectionEnd ==
    ASSUME NEW d, DbOK(d), d.triggers = {}, NEW c \in DOMAIN d.collection, NEW state \in BOOLEAN,
           NEW p \in DOMAIN d.folder, p = d.collection[c].parent
    PROVE  CollectionSet(d, c, p, state, EndOf(d, CollectionVisibility(d, c, state)))
<1> DEFINE e == [d EXCEPT !.collection = [x \in DOMAIN @ |->
                    IF x = c THEN Row(@[x].parent, state) ELSE @[x]]]
           t == WithTrigger(e, "parent_folder_visibility", p, TRUE)
           y == EndOf(e, t)
           z == EndOf(d, CollectionVisibility(d, c, state))
<1>1. /\ Good(d, e) /\ e.folder = d.folder /\ e.triggers = {}
      /\ \A x \in DOMAIN d.collection : e.collection[x] =
           IF x = c THEN Row(d.collection[x].parent, state) ELSE d.collection[x]
  BY CollectionUpdated
<1>2. CollectionVisibility(d, c, state) = IF state THEN <<e>> \o t ELSE <<e>> \o <<>>
  BY DEF CollectionVisibility
<1> HIDE DEF e
<1>3. \A x \in DOMAIN d.collection :
        IF x = c THEN e.collection[x].visible = state ELSE e.collection[x] = d.collection[x]
  <2>1. \A q : Row(q, state).visible = state
    BY DEF Row
  <2> QED
    BY <1>1, <2>1
<1>4. GoodSteps(d, <<e>>) /\ EndOf(d, <<e>>) = e
  BY <1>1, GoodOne DEF EndOf
<1>5. CASE ~state
  <2>1. z = e
    <3>1. <<e>> \o <<>> = <<e>>
      OBVIOUS
    <3> QED
      BY <1>2, <1>4, <1>5, <3>1
  <2> HIDE DEF z, t, y
  <2>2. CollectionSet(d, c, p, state, z)
    BY <1>1, <1>3, <1>5, <2>1 DEF CollectionSet
  <2> QED
    BY <2>2 DEF z
<1>6. CASE state
  <2>1. CollectionVisibility(d, c, state) = <<e>> \o t
    BY <1>2, <1>6
  <2>2. DbOK(e) /\ DOMAIN e.folder = DOMAIN d.folder /\ DOMAIN e.collection = DOMAIN d.collection
    BY <1>1 DEF Good, SameTree
  <2>3. GoodSteps(e, t)
    BY <2>2, WithTriggerGood DEF Triggers
  <2>12. p \in DOMAIN e.folder
    BY <2>2
  <2>4. t # <<>> /\ Good(e, y) /\ y.triggers = {}
    <3>1. t # <<>>
      BY <1>1, <2>2, <2>12, UpEnd
    <3> QED
      BY <1>1, <2>2, <2>12, <3>1, UpEnd
  <2>5. \A g \in DOMAIN e.folder :
          IF g \in Up(e, p) THEN y.folder[g].visible = TRUE ELSE y.folder[g] = e.folder[g]
    BY <1>1, <2>2, <2>12, UpEnd
  <2>6. \A x \in DOMAIN e.collection : y.collection[x] = e.collection[x]
    BY <1>1, <2>2, <2>12, UpEnd
  <2> HIDE DEF t
  <2>7. EndOf(d, <<e>> \o t) = y
    BY <1>4, <2>3, <2>4, EndOfBoth
  <2>8. z = y
    BY <2>1, <2>7
  <2> HIDE DEF y, z
  <2>9. Good(d, y)
    BY <1>1, <2>4, GoodAgain
  <2>10. Up(e, p) = Up(d, p)
    BY <1>1 DEF Up
  <2>11. CollectionSet(d, c, p, state, z)
    BY <1>1, <1>3, <1>6, <2>2, <2>4, <2>5, <2>6, <2>8, <2>9, <2>10 DEF CollectionSet
  <2> QED
    BY <2>11 DEF z
<1> QED
  BY <1>5, <1>6

(* A collection without a row.                                             *)
LEMMA CollectionNone ==
    ASSUME NEW d, DbOK(d), NEW c, c \notin DOMAIN d.collection, NEW state \in BOOLEAN
    PROVE  LET z == EndOf(d, CollectionVisibility(d, c, state))
           IN  z.triggers = d.triggers /\ \A x \in DOMAIN d.collection : z.collection[x] = d.collection[x]
<1> DEFINE e == [d EXCEPT !.collection = [x \in DOMAIN @ |->
                    IF x = c THEN Row(@[x].parent, state) ELSE @[x]]]
<1>1. e.triggers = d.triggers /\ \A x \in DOMAIN d.collection : e.collection[x] = d.collection[x]
  <2>1. e.triggers = d.triggers
    BY CollectionUpdated
  <2>2. \A x \in DOMAIN d.collection : e.collection[x] =
          IF x = c THEN Row(d.collection[x].parent, state) ELSE d.collection[x]
    BY CollectionUpdated
  <2> QED
    BY <2>1, <2>2
<1>2. CollectionVisibility(d, c, state) = <<e>> \o <<>>
  BY DEF CollectionVisibility
<1> HIDE DEF e
<1>3. <<e>> \o <<>> = <<e>> /\ EndOf(d, <<e>>) = e
  BY DEF EndOf
<1> QED
  BY <1>1, <1>2, <1>3

(* Only visibility and check marks change.                                 *)
LEMMA SoundSame ==
    ASSUME NEW d, NEW F, NEW I, NEW P, NEW L, NEW T, NEW E, NEW M,
           Sound(d, F, I, P, L, T, E, M), NEW e, Good(d, e),
           NEW G, DOMAIN G = DOMAIN F, \A g \in DOMAIN F : G[g] \in PanelNode /\ G[g].parent = F[g].parent,
           NEW J, DOMAIN J = DOMAIN I, \A i \in DOMAIN I : J[i] \in PanelNode /\ J[i].parent = I[i].parent
    PROVE  Sound(e, G, J, P, L, T, E, M)
<1>1. Typed(G, J, P)
  BY DEF Sound, Typed
<1>2. DbOK(e) /\ Parents(e.folder) = Parents(d.folder)
  BY SameParents DEF Good
<1>3. Tree(e, L)
  BY <1>2 DEF Sound, Tree, Good, SameTree
<1>4. FoldersStored(e, G)
  BY DEF Sound, FoldersStored, Good, SameTree
<1>5. ItemsStored(e, J, T)
  BY DEF Sound, ItemsStored, Good, SameTree
<1>6. FoldersShown(e, G, L, E, M)
  BY DEF Sound, FoldersShown, Good, SameTree
<1>7. ItemsInPlace(e, G, J, P \cup E \cup M)
  BY DEF Sound, ItemsInPlace, Good, SameTree
<1>8. Closed(G, J)
  BY DEF Sound, Closed
<1>9. Hung(G)
  <2>1. Parents(G) = Parents(F)
    BY DEF Parents
  <2> QED
    BY <2>1 DEF Sound, Hung
<1>10. Twice(e, J, T)
  BY DEF Sound, Twice, Good, SameTree
<1> QED
  BY <1>1, <1>2, <1>3, <1>4, <1>5, <1>6, <1>7, <1>8, <1>9, <1>10 DEF Sound

LEMMA CheckedNodes ==
    ASSUME IInv, NEW state \in BOOLEAN, NEW hf, NEW hi, NEW ab, Checked(state, hf, hi, ab)
    PROVE  /\ DOMAIN folders' = DOMAIN folders /\ DOMAIN items' = DOMAIN items /\ pending' = pending
           /\ \A g \in DOMAIN folders :
                /\ folders'[g] \in PanelNode /\ folders'[g].parent = folders[g].parent
                /\ IF g \in hf THEN folders'[g].checked = state
                   ELSE IF state /\ g \in ab THEN folders'[g].checked = TRUE
                   ELSE folders'[g] = folders[g]
           /\ \A i \in DOMAIN items :
                /\ items'[i] \in PanelNode /\ items'[i].parent = items[i].parent
                /\ IF i \in hi THEN items'[i].checked = state ELSE items'[i] = items[i]
<1>1. /\ \A g \in DOMAIN folders : folders[g] \in PanelNode /\ folders[g].parent \in 0 .. MaxFolders
      /\ \A i \in DOMAIN items : items[i] \in PanelNode /\ items[i].parent \in 0 .. MaxFolders
  BY NodeFacts DEF IInv, Sound, Typed
<1>2. \A p \in 0 .. MaxFolders :
        /\ Node(p, TRUE, FALSE) \in PanelNode /\ Node(p, TRUE, FALSE).parent = p
        /\ Node(p, TRUE, FALSE).checked = TRUE
  BY DEF Node, PanelNode
<1>3. /\ DOMAIN folders' = DOMAIN folders /\ DOMAIN items' = DOMAIN items /\ pending' = pending
      /\ \A g \in DOMAIN folders : folders'[g] =
           IF g \in hf THEN Node(folders[g].parent, state, FALSE)
           ELSE IF state /\ g \in ab THEN Node(folders[g].parent, TRUE, FALSE) ELSE folders[g]
      /\ \A i \in DOMAIN items : items'[i] =
           IF i \in hi THEN Node(items[i].parent, state, FALSE) ELSE items[i]
  BY DEF Checked
<1>4. ASSUME NEW g \in DOMAIN folders
      PROVE  /\ folders'[g] \in PanelNode /\ folders'[g].parent = folders[g].parent
             /\ IF g \in hf THEN folders'[g].checked = state
                ELSE IF state /\ g \in ab THEN folders'[g].checked = TRUE
                ELSE folders'[g] = folders[g]
  <2>1. CASE g \in hf
    <3> DEFINE m == Node(folders[g].parent, state, FALSE)
    <3>1. folders'[g] = m
      BY <1>3, <2>1
    <3>2. m \in PanelNode /\ m.parent = folders[g].parent /\ m.checked = state
      BY <1>1 DEF Node, PanelNode
    <3> HIDE DEF m
    <3> QED
      BY <2>1, <3>1, <3>2
  <2>2. CASE g \notin hf /\ state /\ g \in ab
    BY <1>1, <1>2, <1>3, <2>2
  <2>3. CASE g \notin hf /\ ~(state /\ g \in ab)
    BY <1>1, <1>3, <2>3
  <2> QED
    BY <2>1, <2>2, <2>3
<1>5. ASSUME NEW i \in DOMAIN items
      PROVE  /\ items'[i] \in PanelNode /\ items'[i].parent = items[i].parent
             /\ IF i \in hi THEN items'[i].checked = state ELSE items'[i] = items[i]
  <2>1. CASE i \in hi
    <3> DEFINE m == Node(items[i].parent, state, FALSE)
    <3>1. items'[i] = m
      BY <1>3, <2>1
    <3>2. m \in PanelNode /\ m.parent = items[i].parent /\ m.checked = state
      BY <1>1 DEF Node, PanelNode
    <3> HIDE DEF m
    <3> QED
      BY <2>1, <3>1, <3>2
  <2>2. CASE i \notin hi
    BY <1>1, <1>3, <2>2
  <2> QED
    BY <2>1, <2>2
<1> QED
  BY <1>3, <1>4, <1>5

LEMMA AboveInPanel ==
    ASSUME IInv, NEW f \in DOMAIN folders, NEW g \in DOMAIN folders
    PROVE  g \in Above(Parents(folders), f) <=> g \in Above(Parents(db.folder), f)
<1>1. Below(Parents(folders), g) = Below(Parents(db.folder), g) \cap DOMAIN folders
  BY BelowInPanel
<1>2. DOMAIN Parents(folders) = DOMAIN folders /\ g \in DOMAIN Parents(db.folder)
  BY ParentsFacts DEF IInv, Sound, FoldersStored
<1> QED
  BY <1>1, <1>2 DEF Above

LEMMA CheckFolderKeeps ==
    ASSUME IInv, NEW f, NEW state \in BOOLEAN, CheckFolder(f, state)
    PROVE  IInv'
<1> DEFINE hit == Below(Parents(folders), f) \cup {f}
           hi == {i \in DOMAIN items : items[i].parent \in hit}
           ab == Above(Parents(folders), f)
           z == EndOf(db, FolderVisibility(db, f, state))
<1>1. /\ f \in DOMAIN folders /\ f \in DOMAIN db.folder /\ DbOK(db)
      /\ db' = z /\ recursive' = recursive
      /\ looped' = looped /\ emptied' = emptied /\ twice' = twice /\ misread' = misread
  BY DEF CheckFolder, history, IInv, Sound, FoldersStored
<1>2. Checked(state, hit, hi, ab)
  BY DEF CheckFolder
<1>3. commands' \in 0 .. MaxCommands
  BY CommandBound DEF CheckFolder
<1>4. Good(db, z)
  BY <1>1, FolderVisibilityGood, GoodEnd
<1> HIDE DEF hit, hi, ab, z
<1>5. /\ DOMAIN folders' = DOMAIN folders /\ DOMAIN items' = DOMAIN items /\ pending' = pending
      /\ \A g \in DOMAIN folders :
           /\ folders'[g] \in PanelNode /\ folders'[g].parent = folders[g].parent
           /\ IF g \in hit THEN folders'[g].checked = state
              ELSE IF state /\ g \in ab THEN folders'[g].checked = TRUE
              ELSE folders'[g] = folders[g]
      /\ \A i \in DOMAIN items :
           /\ items'[i] \in PanelNode /\ items'[i].parent = items[i].parent
           /\ IF i \in hi THEN items'[i].checked = state ELSE items'[i] = items[i]
  BY <1>2, CheckedNodes
<1>6. Sound(z, folders', items', pending, looped, twice, emptied, misread)
  BY <1>4, <1>5, SoundSame DEF IInv
<1>7. recursive => z.triggers = {}
  BY <1>1, FolderEnd DEF IInv, z
<1>8. ASSUME recursive, twice = {} PROVE Agree(z, folders', items')
  <2>1. db.triggers = {} /\ Agree(db, folders, items)
    BY <1>8 DEF IInv
  <2>2. \A g \in DOMAIN db.folder :
          IF g \in Down(db, f) \/ db.folder[g].parent \in Down(db, f)
          THEN z.folder[g].visible = state
          ELSE IF state /\ g \in Up(db, f) THEN z.folder[g].visible = TRUE
          ELSE z.folder[g] = db.folder[g]
    BY <1>1, <2>1, FolderEnd DEF z
  <2>3. \A x \in DOMAIN db.collection :
          IF db.collection[x].parent \in Down(db, f)
          THEN z.collection[x].visible = state ELSE z.collection[x] = db.collection[x]
    BY <1>1, <2>1, FolderEnd DEF z
  <2>4. \A g \in DOMAIN folders : g \in DOMAIN db.folder /\ (g \in hit <=> g \in Down(db, f))
    BY <1>1, <1>8, BelowInPanel DEF Down, hit, IInv, Sound, FoldersStored
  <2>5. \A g \in DOMAIN db.folder : db.folder[g].parent \in Down(db, f) => g \in Down(db, f)
    <3>1. DOMAIN Parents(db.folder) = DOMAIN db.folder
          /\ \A g \in DOMAIN db.folder : Parents(db.folder)[g] = db.folder[g].parent
      BY ParentsFacts
    <3> QED
      BY <1>8, <3>1, BelowClosed DEF Down
  <2>6. \A g \in DOMAIN folders : g \in ab \cup {f} <=> g \in Up(db, f)
    BY <1>1, <1>8, AboveInPanel DEF Up, ab
  <2>7. f \in hit
    BY DEF hit
  <2>8. ASSUME NEW g \in DOMAIN folders, ~folders'[g].moved
        PROVE  folders'[g].checked = z.folder[g].visible
    <3>1. CASE g \in hit
      BY <1>5, <2>2, <2>4, <3>1
    <3>2. CASE g \notin hit /\ state /\ g \in ab
      BY <1>5, <2>2, <2>4, <2>5, <2>6, <3>2
    <3>3. CASE g \notin hit /\ ~(state /\ g \in ab)
      <4>1. z.folder[g] = db.folder[g]
        BY <2>2, <2>4, <2>5, <2>6, <2>7, <3>3
      <4>2. folders'[g] = folders[g]
        BY <1>5, <3>3
      <4> QED
        BY <2>1, <2>8, <4>1, <4>2 DEF Agree
    <3> QED
      BY <3>1, <3>2, <3>3
  <2>9. ASSUME NEW i \in DOMAIN items, ~items'[i].moved
        PROVE  items'[i].checked = z.collection[i[1]].visible
    <3>1. /\ i[1] \in DOMAIN db.collection /\ items[i].parent = db.collection[i[1]].parent
          /\ items[i].parent \in DOMAIN folders
      BY <1>8 DEF IInv, Sound, ItemsStored, Closed
    <3>2. i \in hi <=> db.collection[i[1]].parent \in Down(db, f)
      BY <2>4, <3>1 DEF hi
    <3>3. CASE i \in hi
      BY <1>5, <2>3, <3>1, <3>2, <3>3
    <3>4. CASE i \notin hi
      <4>1. z.collection[i[1]] = db.collection[i[1]] /\ items'[i] = items[i]
        BY <1>5, <2>3, <3>1, <3>2, <3>4
      <4> QED
        BY <2>1, <2>9, <4>1 DEF Agree
    <3> QED
      BY <3>3, <3>4
  <2> QED
    BY <1>5, <2>8, <2>9 DEF Agree
<1> QED
  BY <1>1, <1>3, <1>5, <1>6, <1>7, <1>8 DEF IInv

LEMMA CheckCollectionKeeps ==
    ASSUME IInv, NEW i, NEW state \in BOOLEAN, CheckCollection(i, state)
    PROVE  IInv'
<1> DEFINE p == items[i].parent
           ab == {p} \cup Above(Parents(folders), p)
           z == EndOf(db, CollectionVisibility(db, i[1], state))
           none == {}
           one == {i}
<1>1. /\ i \in DOMAIN items /\ DbOK(db) /\ p \in DOMAIN folders
      /\ db' = z /\ recursive' = recursive
      /\ looped' = looped /\ emptied' = emptied /\ twice' = twice /\ misread' = misread
  BY DEF CheckCollection, history, IInv, Sound, Closed
<1>2. Checked(state, none, one, ab)
  BY DEF CheckCollection
<1>3. commands' \in 0 .. MaxCommands
  BY CommandBound DEF CheckCollection
<1>4. Good(db, z)
  BY <1>1, CollectionVisibilityGood, GoodEnd
<1> HIDE DEF ab, z, none, one
<1>10. /\ DOMAIN folders' = DOMAIN folders /\ DOMAIN items' = DOMAIN items /\ pending' = pending
       /\ \A g \in DOMAIN folders :
            /\ folders'[g] \in PanelNode /\ folders'[g].parent = folders[g].parent
            /\ IF g \in none THEN folders'[g].checked = state
               ELSE IF state /\ g \in ab THEN folders'[g].checked = TRUE ELSE folders'[g] = folders[g]
       /\ \A j \in DOMAIN items :
            /\ items'[j] \in PanelNode /\ items'[j].parent = items[j].parent
            /\ IF j \in one THEN items'[j].checked = state ELSE items'[j] = items[j]
  BY <1>2, CheckedNodes
<1>5. /\ DOMAIN folders' = DOMAIN folders /\ DOMAIN items' = DOMAIN items /\ pending' = pending
      /\ \A g \in DOMAIN folders :
           /\ folders'[g] \in PanelNode /\ folders'[g].parent = folders[g].parent
           /\ IF state /\ g \in ab THEN folders'[g].checked = TRUE ELSE folders'[g] = folders[g]
      /\ \A j \in DOMAIN items :
           /\ items'[j] \in PanelNode /\ items'[j].parent = items[j].parent
           /\ IF j = i THEN items'[j].checked = state ELSE items'[j] = items[j]
  <2>1. (\A g : g \notin none) /\ (\A j : j \in one <=> j = i)
    BY DEF none, one
  <2> QED
    BY <1>10, <2>1
<1>6. Sound(z, folders', items', pending, looped, twice, emptied, misread)
  BY <1>4, <1>5, SoundSame DEF IInv
<1>7. i[1] \in DOMAIN db.collection => db.collection[i[1]].parent \in DOMAIN db.folder
  BY DEF IInv, Sound, Tree
<1>8. recursive => z.triggers = {}
  <2>1. CASE i[1] \in DOMAIN db.collection
    <3>1. PICK c \in DOMAIN db.collection : c = i[1]
      BY <2>1
    <3>2. PICK q \in DOMAIN db.folder : q = db.collection[c].parent
      BY <1>7, <3>1
    <3>3. recursive => CollectionSet(db, c, q, state, EndOf(db, CollectionVisibility(db, c, state)))
      BY <1>1, <3>2, CollectionEnd DEF IInv
    <3> QED
      BY <3>1, <3>3 DEF CollectionSet, z
  <2>2. CASE i[1] \notin DOMAIN db.collection
    BY <1>1, <2>2, CollectionNone DEF IInv, z
  <2> QED
    BY <2>1, <2>2
<1>9. ASSUME recursive, twice = {} PROVE Agree(z, folders', items')
  <2>1. db.triggers = {} /\ Agree(db, folders, items)
    BY <1>9 DEF IInv
  <2>2. \A j \in DOMAIN items :
          j[1] \in DOMAIN db.collection /\ items[j].parent = db.collection[j[1]].parent
    BY <1>9 DEF IInv, Sound, ItemsStored
  <2>3. i[1] \in DOMAIN db.collection /\ p = db.collection[i[1]].parent
    BY <1>1, <2>2
  <2> HIDE DEF p
  <2>9. db.collection[i[1]].parent \in DOMAIN db.folder
    BY <1>7, <2>3
  <2>11. PICK c \in DOMAIN db.collection : c = i[1]
    BY <2>3
  <2>15. DbOK(db) /\ db.triggers = {} /\ p \in DOMAIN db.folder /\ p = db.collection[c].parent
    BY <1>1, <2>1, <2>3, <2>9, <2>11
  <2> DEFINE y == EndOf(db, CollectionVisibility(db, c, state))
  <2>12. CollectionSet(db, c, p, state, y)
    BY <2>15, CollectionEnd
  <2>14. y = z
    BY <2>11 DEF z
  <2> HIDE DEF y
  <2>4. \A g \in DOMAIN db.folder :
          IF state /\ g \in Up(db, p) THEN z.folder[g].visible = TRUE ELSE z.folder[g] = db.folder[g]
    BY <2>12, <2>14 DEF CollectionSet
  <2>5. \A x \in DOMAIN db.collection :
          IF x = i[1] THEN z.collection[x].visible = state ELSE z.collection[x] = db.collection[x]
    BY <2>11, <2>12, <2>14 DEF CollectionSet
  <2>6. \A g \in DOMAIN folders : g \in DOMAIN db.folder /\ (g \in ab <=> g \in Up(db, p))
    BY <1>1, <1>9, AboveInPanel DEF Up, ab, IInv, Sound, FoldersStored
  <2>7. ASSUME NEW g \in DOMAIN folders, ~folders'[g].moved
        PROVE  folders'[g].checked = z.folder[g].visible
    <3>1. CASE state /\ g \in ab
      BY <1>5, <2>4, <2>6, <3>1
    <3>2. CASE ~(state /\ g \in ab)
      <4>1. z.folder[g] = db.folder[g] /\ folders'[g] = folders[g]
        BY <1>5, <2>4, <2>6, <3>2
      <4> QED
        BY <2>1, <2>7, <4>1 DEF Agree
    <3> QED
      BY <3>1, <3>2
  <2>8. ASSUME NEW j \in DOMAIN items, ~items'[j].moved
        PROVE  items'[j].checked = z.collection[j[1]].visible
    <3>1. CASE j = i
      BY <1>5, <2>3, <2>5, <3>1
    <3>2. CASE j # i
      <4>1. j[1] # i[1]
        BY <1>1, <1>9, <3>2 DEF IInv, Sound, Twice
      <4>2. z.collection[j[1]] = db.collection[j[1]] /\ items'[j] = items[j]
        BY <1>5, <2>2, <2>5, <3>2, <4>1
      <4> QED
        BY <2>1, <2>8, <4>2 DEF Agree
    <3> QED
      BY <3>1, <3>2
  <2> QED
    BY <1>5, <2>7, <2>8 DEF Agree
<1> QED
  BY <1>1, <1>3, <1>5, <1>6, <1>8, <1>9 DEF IInv

(* The next session.                                                       *)
LEMMA ReopenKeeps ==
    ASSUME IInv, NEW e, Good(db, e), Reopen(e), commands' \in 0 .. MaxCommands
    PROVE  IInv'
<1> DEFINE up == Parents(e.folder)
           reached == Below(up, Root)
           F == [f \in reached |-> Node(e.folder[f].parent, e.folder[f].visible, FALSE)]
           P == {f \in reached : getFolderCollections(e, f) # {}}
<1>1. /\ db' = e /\ folders' = F /\ items' = <<>> /\ pending' = P /\ recursive' = FALSE
      /\ emptied' = {} /\ twice' = {} /\ misread' = {} /\ looped' = looped
  BY DEF Reopen, Populate
<1>2. DbOK(e) /\ up = Parents(db.folder)
  BY SameParents DEF Good
<1>3. DOMAIN up = DOMAIN e.folder /\ \A f \in DOMAIN e.folder : up[f] = e.folder[f].parent
  BY ParentsFacts
<1>4. Tree(e, looped)
  BY <1>2 DEF IInv, Sound, Tree, Good, SameTree
<1> HIDE DEF up
<1>5. reached \subseteq DOMAIN e.folder
  BY <1>3, BelowDomain
<1>6. \A f \in DOMAIN e.folder : e.folder[f].parent \in reached \cup {Root} => f \in reached
  BY <1>3, BelowClosed
<1>7. \A f \in reached : e.folder[f].parent \in reached \cup {Root}
  BY <1>3, <1>5, BelowParent
<1> HIDE DEF reached
<1>8. DOMAIN F = reached /\ \A f \in reached : F[f] \in PanelNode /\ F[f].parent = e.folder[f].parent
  <2>1. \A f \in reached : e.folder[f].parent \in 0 .. MaxFolders /\ e.folder[f].visible \in BOOLEAN
    BY <1>2, <1>5, RowFacts DEF DbOK
  <2>2. ASSUME NEW f \in reached
        PROVE  /\ Node(e.folder[f].parent, e.folder[f].visible, FALSE) \in PanelNode
               /\ Node(e.folder[f].parent, e.folder[f].visible, FALSE).parent = e.folder[f].parent
    BY <2>1 DEF Node, PanelNode
  <2> QED
    BY <2>2
<1> HIDE DEF F
<1>9. DOMAIN <<>> = {}
  OBVIOUS
<1> DEFINE I == <<>>
<1>10. DOMAIN I = {}
  BY <1>9
<1> HIDE DEF I
<1>11. Typed(F, I, P)
  <2>1. reached \subseteq FolderIds
    BY <1>2, <1>5, BoundsAssumption DEF DbOK, FolderIds
  <2> QED
    BY <1>8, <1>10, <2>1 DEF Typed
<1>12. FoldersStored(e, F) /\ ItemsStored(e, I, {})
  BY <1>5, <1>8, <1>10 DEF FoldersStored, ItemsStored
<1>13. FoldersShown(e, F, looped, {}, {})
  BY <1>6, <1>8 DEF FoldersShown
<1>14. ItemsInPlace(e, F, I, P \cup {} \cup {})
  BY <1>8 DEF ItemsInPlace, getFolderCollections
<1>15. Closed(F, I) /\ Twice(e, I, {})
  BY <1>7, <1>8, <1>10 DEF Closed, Twice
<1>16. Hung(F)
  <2> DEFINE part == Parents(F)
  <2>1. DOMAIN part = reached /\ \A g \in reached : part[g] = up[g] /\ part[g] \in reached \cup {Root}
    BY <1>3, <1>5, <1>7, <1>8, ParentsFacts
  <2>2. Root \notin DOMAIN up /\ DOMAIN part \subseteq DOMAIN up
    BY <1>2, <1>3, <1>5, <2>1 DEF DbOK, Root
  <2> HIDE DEF part
  <2>3. Below(part, Root) = Below(up, Root) \cap DOMAIN part
    BY <2>1, <2>2, BelowInPart
  <2>4. Rooted(part, {})
    BY <2>1, <2>3 DEF Rooted, Reached, reached
  <2> QED
    BY <2>4 DEF Hung, part
<1> HIDE DEF P
<1>17. Sound(e, F, I, P, looped, {}, {}, {})
  BY <1>2, <1>4, <1>11, <1>12, <1>13, <1>14, <1>15, <1>16 DEF Sound
<1> QED
  BY <1>1, <1>17 DEF IInv, I

LEMMA RestartKeeps == ASSUME IInv, Restart PROVE IInv'
<1>1. Good(db, db) /\ Reopen(db)
  BY GoodSelf DEF IInv, Sound, Restart
<1>2. commands' \in 0 .. MaxCommands
  BY CommandBound DEF Restart
<1> QED
  BY <1>1, <1>2, ReopenKeeps

LEMMA KilledKeeps == ASSUME IInv, Killed PROVE IInv'
<1>8. PICK state \in BOOLEAN :
        \E steps \in {FolderVisibility(db, f, state) : f \in DOMAIN folders}
                 \cup {CollectionVisibility(db, i[1], state) : i \in DOMAIN items} :
          \E k \in 1 .. Len(steps) - 1 : Reopen(steps[k])
  BY DEF Killed
<1>1. PICK steps \in {FolderVisibility(db, f, state) : f \in DOMAIN folders}
                \cup {CollectionVisibility(db, i[1], state) : i \in DOMAIN items} :
             \E k \in 1 .. Len(steps) - 1 : Reopen(steps[k])
  BY <1>8
<1>2. PICK k \in 1 .. Len(steps) - 1 : Reopen(steps[k])
  BY <1>1
<1>3. DbOK(db)
  BY DEF IInv, Sound
<1>4. GoodSteps(db, steps)
  BY <1>3, FolderVisibilityGood, CollectionVisibilityGood
<1>5. Len(steps) \in Nat
  <2>1. PICK S : steps \in Seq(S) /\ \A x \in S : Good(db, x)
    BY <1>4 DEF GoodSteps
  <2> QED
    BY <2>1, LenProperties
<1>6. Good(db, steps[k])
  <2>1. k \in 1 .. Len(steps)
    BY <1>5
  <2> QED
    BY <1>3, <1>4, <2>1, GoodEnd
<1>7. commands' \in 0 .. MaxCommands
  BY CommandBound DEF Killed
<1> QED
  BY <1>2, <1>6, <1>7, ReopenKeeps

-----------------------------------------------------------------------------
(* The theorems.                                                           *)

LEMMA InitIInv == Init => IInv
<1> SUFFICES ASSUME Init PROVE IInv
  OBVIOUS
<1> DEFINE F == [f \in {Library} |-> Row(Root, TRUE)]
           G == [f \in {Library} |-> Node(Root, TRUE, FALSE)]
           I == <<>>
           C == <<>>
<1>1. /\ db = [folder |-> F, collection |-> C, triggers |-> {}, lastFolder |-> Library, lastCollection |-> 0]
      /\ recursive = TRUE /\ folders = G /\ items = I /\ pending = {} /\ commands = 0
      /\ looped = {} /\ emptied = {} /\ twice = {} /\ misread = {}
  BY DEF Init
<1>2. DOMAIN F = {1} /\ F[1].parent = 0 /\ F[1].visible = TRUE /\ F[1] \in FolderRow
  BY BoundsAssumption DEF Row, FolderRow, Library, Root
<1>3. /\ DOMAIN G = {1} /\ G[1].parent = 0 /\ G[1].checked = TRUE /\ G[1].moved = FALSE
      /\ G[1] \in PanelNode
  BY BoundsAssumption DEF Node, PanelNode, Library, Root
<1>4. DOMAIN I = {} /\ DOMAIN C = {}
  OBVIOUS
<1> HIDE DEF F, G, I, C
<1>5. /\ db.folder = F /\ db.collection = C /\ db.triggers = {} /\ db.lastFolder = 1 /\ db.lastCollection = 0
      /\ db = [folder |-> db.folder, collection |-> db.collection, triggers |-> db.triggers,
               lastFolder |-> db.lastFolder, lastCollection |-> db.lastCollection]
  BY <1>1 DEF Library
<1>6. DbOK(db)
  BY <1>2, <1>4, <1>5, BoundsAssumption DEF DbOK, FolderIds
<1>7. ASSUME NEW t, DOMAIN t = {1}, t[1].parent = 0 PROVE Rooted(Parents(t), {})
  <2>1. DOMAIN Parents(t) = {1} /\ Parents(t)[1] = Root
    BY <1>7, ParentsFacts DEF Root
  <2>2. 1 \in Below(Parents(t), Root)
    BY <2>1, BelowClosed
  <2> QED
    BY <2>1, <2>2 DEF Rooted, Reached
<1>8. Tree(db, looped) /\ Hung(folders)
  BY <1>1, <1>2, <1>3, <1>4, <1>5, <1>7 DEF Tree, Hung
<1>9. Typed(folders, items, pending)
  BY <1>1, <1>3, <1>4, BoundsAssumption DEF Typed, FolderIds
<1>10. FoldersStored(db, folders) /\ ItemsStored(db, items, twice)
  BY <1>1, <1>2, <1>3, <1>4, <1>5 DEF FoldersStored, ItemsStored
<1>11. /\ FoldersShown(db, folders, looped, emptied, misread)
       /\ ItemsInPlace(db, folders, items, pending \cup emptied \cup misread)
  BY <1>1, <1>2, <1>3, <1>4, <1>5 DEF FoldersShown, ItemsInPlace
<1>12. Closed(folders, items) /\ Twice(db, items, twice)
  BY <1>1, <1>3, <1>4 DEF Closed, Twice, Root
<1>13. Agree(db, folders, items)
  BY <1>1, <1>2, <1>3, <1>4, <1>5 DEF Agree
<1>14. commands \in 0 .. MaxCommands
  BY <1>1, BoundsAssumption
<1> QED
  BY <1>1, <1>5, <1>6, <1>8, <1>9, <1>10, <1>11, <1>12, <1>13, <1>14 DEF IInv, Sound

LEMMA StepKeeps == IInv /\ [Next]_vars => IInv'
<1> SUFFICES ASSUME IInv, [Next]_vars PROVE IInv'
  OBVIOUS
<1>1. CASE \E f \in FolderIds :
             \/ FetchMore(f) \/ AddFolder(f) \/ AddCollection(f) \/ AddCollectionTree(f)
             \/ DeleteFolder(f)
             \/ \E to \in FolderIds : MoveFolder(f, to)
             \/ \E state \in BOOLEAN : CheckFolder(f, state)
  BY <1>1, FetchMoreKeeps, AddFolderKeeps, AddCollectionKeeps, AddCollectionTreeKeeps,
     DeleteFolderKeeps, MoveFolderKeeps, CheckFolderKeeps
<1>2. CASE \E i \in CollectionIds \X Origins :
             \/ DeleteCollection(i)
             \/ \E to \in FolderIds : MoveCollection(i, to)
             \/ \E state \in BOOLEAN : CheckCollection(i, state)
  BY <1>2, DeleteCollectionKeeps, MoveCollectionKeeps, CheckCollectionKeeps
<1>3. CASE Restart \/ Killed
  BY <1>3, RestartKeeps, KilledKeeps
<1>4. CASE UNCHANGED vars
  BY <1>4 DEF vars, panel, history, IInv
<1> QED
  BY <1>1, <1>2, <1>3, <1>4 DEF Next

(* The strengthening of the properties below that every step preserves.    *)
LEMMA Invariant == Spec => []IInv
BY InitIInv, StepKeeps, PTL DEF Spec

(* No row and no node has an id that was not given out, and the parents of *)
(* rows and nodes are folders or the root.                                 *)
THEOREM Typing == Spec => []TypeOK
<1>1. IInv => TypeOK
  BY DEF IInv, Sound, DbOK, Typed, TypeOK
<1> QED
  BY <1>1, Invariant, PTL

(* Whatever is added, moved, deleted or lost with the process, the         *)
(* database stays a tree: every collection is in a folder, and every folder*)
(* hangs from the root or from a folder moved into its own subtree.        *)
THEOREM TreeIsWhole == Spec => []NoOrphans
<1>1. IInv => NoOrphans
  <2> SUFFICES ASSUME IInv PROVE NoOrphans
    OBVIOUS
  <2>1. DOMAIN Parents(db.folder) = DOMAIN db.folder
    BY ParentsFacts
  <2> QED
    BY <2>1 DEF IInv, Sound, Tree, Rooted, Reached, NoOrphans
<1> QED
  BY <1>1, Invariant, PTL

(* A node of the panel stands for the row with its id, in the same folder. *)
THEOREM NodesStandForRows == Spec => []ShownIsStored
<1>1. IInv => ShownIsStored
  BY DEF IInv, Sound, FoldersStored, ItemsStored, ShownIsStored
<1> QED
  BY <1>1, Invariant, PTL

(* What is in the database below a folder that is shown and expanded is    *)
(* shown.                                                                  *)
THEOREM RowsAreShown == Spec => []StoredIsShown
<1>1. IInv => StoredIsShown
  <2> SUFFICES ASSUME IInv PROVE StoredIsShown
    OBVIOUS
  <2>1. ASSUME NEW c \in DOMAIN db.collection,
               db.collection[c].parent \in DOMAIN folders \ (pending \cup emptied \cup misread)
        PROVE  Shown(c) # {}
    BY <2>1 DEF IInv, Sound, ItemsInPlace, Shown
  <2> QED
    BY <2>1 DEF IInv, Sound, FoldersShown, StoredIsShown
<1> QED
  BY <1>1, Invariant, PTL

(* In the session that created the database the marks of the panel are the *)
(* visibility the triggers wrote.                                          *)
THEOREM MarksAgree == Spec => []ChecksAgree
<1>1. IInv => ChecksAgree
  BY DEF IInv, Agree, ChecksAgree
<1> QED
  BY <1>1, Invariant, PTL

LEMMA FolderToggle ==
    ASSUME IInv, NEW f, NEW state \in BOOLEAN, CheckFolder(f, state), recursive \/ db.triggers = {}
    PROVE  /\ db'.folder[f].visible = state
           /\ \A c \in DOMAIN db.collection : db.collection[c].parent = f =>
                db'.collection[c].visible = state
           /\ LET up == Parents(db.folder)
                  near == Below(up, f) \cup Above(up, f) \cup {f}
              IN  /\ \A g \in DOMAIN up \ near : db'.folder[g] = db.folder[g]
                  /\ \A c \in DOMAIN db.collection :
                       db.collection[c].parent \notin near => db'.collection[c] = db.collection[c]
<1> DEFINE z == EndOf(db, FolderVisibility(db, f, state))
           up == Parents(db.folder)
           near == Below(up, f) \cup Above(up, f) \cup {f}
<1>1. DbOK(db) /\ db.triggers = {} /\ f \in DOMAIN db.folder
  BY DEF CheckFolder, IInv, Sound, FoldersStored
<1>2. \A g \in DOMAIN db.folder :
        IF g \in Down(db, f) \/ db.folder[g].parent \in Down(db, f)
        THEN z.folder[g].visible = state
        ELSE IF state /\ g \in Up(db, f) THEN z.folder[g].visible = TRUE
        ELSE z.folder[g] = db.folder[g]
  BY <1>1, FolderEnd
<1>3. \A x \in DOMAIN db.collection :
        IF db.collection[x].parent \in Down(db, f)
        THEN z.collection[x].visible = state ELSE z.collection[x] = db.collection[x]
  BY <1>1, FolderEnd
<1>4. db' = z
  BY DEF CheckFolder
<1>5. DOMAIN up = DOMAIN db.folder /\ \A g \in DOMAIN db.folder : up[g] = db.folder[g].parent
  BY ParentsFacts
<1> HIDE DEF z
<1>6. f \in Down(db, f) /\ Down(db, f) \subseteq near
  BY DEF Down
<1>7. \A g \in DOMAIN db.folder : db.folder[g].parent \in Down(db, f) => g \in near
  BY <1>5, BelowClosed DEF Down
<1>8. Up(db, f) \subseteq near
  <2>1. up[f] \in DOMAIN up => f \in Below(up, up[f])
    BY <1>1, <1>5, BelowClosed
  <2> QED
    BY <2>1 DEF Up, Above
<1> HIDE DEF up, near
<1>9. \A g \in DOMAIN up \ near : z.folder[g] = db.folder[g]
  BY <1>2, <1>5, <1>6, <1>7, <1>8
<1>10. \A c \in DOMAIN db.collection :
         db.collection[c].parent \notin near => z.collection[c] = db.collection[c]
  BY <1>3, <1>6
<1> QED
  BY <1>1, <1>2, <1>3, <1>4, <1>6, <1>9, <1>10 DEF up, near

LEMMA CollectionToggle ==
    ASSUME IInv, NEW i, NEW state \in BOOLEAN, CheckCollection(i, state), recursive \/ db.triggers = {}
    PROVE  \A c \in DOMAIN db.collection \ {i[1]} : db'.collection[c] = db.collection[c]
<1> DEFINE z == EndOf(db, CollectionVisibility(db, i[1], state))
<1>1. DbOK(db) /\ db.triggers = {} /\ db' = z
  BY DEF CheckCollection, IInv, Sound
<1>2. CASE i[1] \in DOMAIN db.collection
  <2>1. PICK c \in DOMAIN db.collection : c = i[1]
    BY <1>2
  <2>2. PICK q \in DOMAIN db.folder : q = db.collection[c].parent
    BY DEF IInv, Sound, Tree
  <2>3. CollectionSet(db, c, q, state, EndOf(db, CollectionVisibility(db, c, state)))
    BY <1>1, <2>2, CollectionEnd
  <2> QED
    BY <1>1, <2>1, <2>3 DEF CollectionSet
<1>3. CASE i[1] \notin DOMAIN db.collection
  BY <1>1, <1>3, CollectionNone
<1> QED
  BY <1>2, <1>3

(* A mark that is set or cleared changes the rows it is about, all of them *)
(* with the folder, and none that is neither below nor above: with and     *)
(* without recursive triggers.                                             *)
THEOREM ExactToggles == Spec => TogglesAreExact
<1> DEFINE Folder(f, state) ==
      CheckFolder(f, state) /\ (recursive \/ db.triggers = {}) =>
        /\ db'.folder[f].visible = state
        /\ \A c \in DOMAIN db.collection : db.collection[c].parent = f =>
             db'.collection[c].visible = state
        /\ LET up == Parents(db.folder)
               near == Below(up, f) \cup Above(up, f) \cup {f}
           IN  /\ \A g \in DOMAIN up \ near : db'.folder[g] = db.folder[g]
               /\ \A c \in DOMAIN db.collection :
                    db.collection[c].parent \notin near =>
                      db'.collection[c] = db.collection[c]
    Collection(i, state) ==
      CheckCollection(i, state) /\ (recursive \/ db.triggers = {}) =>
        \A c \in DOMAIN db.collection \ {i[1]} : db'.collection[c] = db.collection[c]
    Exact ==
      /\ \A f \in FolderIds, state \in BOOLEAN : Folder(f, state)
      /\ \A i \in DOMAIN items, state \in BOOLEAN : Collection(i, state)
<1>1. IInv => Exact
  <2> SUFFICES ASSUME IInv PROVE Exact
    OBVIOUS
  <2>1. ASSUME NEW f, NEW state \in BOOLEAN PROVE Folder(f, state)
    BY <2>1, FolderToggle
  <2>2. ASSUME NEW i, NEW state \in BOOLEAN PROVE Collection(i, state)
    BY <2>2, CollectionToggle
  <2> HIDE DEF Folder, Collection
  <2> QED
    BY <2>1, <2>2
<1>2. [][Exact]_vars => TogglesAreExact
  BY DEF TogglesAreExact
<1> HIDE DEF Exact
<1>3. []IInv => [][Exact]_vars
  BY <1>1, PTL
<1> QED
  BY <1>2, <1>3, Invariant
=============================================================================
