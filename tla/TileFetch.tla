----------------------------- MODULE TileFetch ------------------------------
(***************************************************************************)
(* How the viewer's MapWidget gets the tiles it draws: map_widget.cpp with *)
(* the tile providers.                                                     *)
(*                                                                         *)
(* The GUI thread paints what tile_cache_ holds and asks for the rest.  A  *)
(* map file is read by a TileFetcher on the thread pool, which looks into  *)
(* the persistent cache first, renders, saves, and posts the tile to the   *)
(* GUI thread; a network map answers the GUI thread itself.  pending_      *)
(* keeps a tile from being asked for twice.  A fetcher carries only its    *)
(* coordinates: it asks base_map_ for the key and the image, and the GUI   *)
(* thread may have changed base_map_ since, and between its reads.         *)
(*                                                                         *)
(* The unlocked reads of base_map_ find the old or the new provider, and   *)
(* the list of maps keeps both alive.  An image is the pair of the map and *)
(* the tile it shows, which is also the key it belongs under.              *)
(***************************************************************************)
EXTENDS Integers, FiniteSets

CONSTANTS Tiles,     \* tiles of all zoom levels
          Views,     \* the sets of tiles a window can show
          Maps,      \* the base maps to choose from
          Async,     \* those that answer over the network
          Slots,     \* bound: fetchers, requests and answers at a time
          MaxCommands,  \* bound: what the user does and the caches forget
          None,      \* a null image, no entry
          Red        \* the pixmap that marks a failed tile

ASSUME ViewsAssumption == /\ Views \subseteq SUBSET Tiles
                          /\ \A v \in Views : \E w \in Views : v \cap w = {}
ASSUME AsyncAssumption == Async \subseteq Maps
ASSUME MaxCommandsAssumption == MaxCommands \in Nat
ASSUME ImagesAssumption == /\ None # Red
                           /\ {None, Red} \cap (Maps \X Tiles) = {}

VARIABLES base_map_, 
          visible,          \* the tiles under the window
          dirty,            \* update() was called and the paint not begun
          missing,          \* the rest of the list fetchMissing works on
          gui,              \* what the GUI thread does
          fetch_canceled_,
          tile_cache_,      \* pixmap for each key
          saved,            \* the persistent cache
          pending_,
          fetch,            \* the fetchers, requests and posted answers
          commands,         \* counts towards MaxCommands
          crossed,          \* history: slots begun before base_map_ changed
          tainted,          \* history: keys saved or cached by a crossed one
          lost              \* history: pending keys answered under another

view == <<base_map_, visible, dirty, missing, gui, fetch_canceled_>>
caches == <<tile_cache_, saved>>
history == <<crossed, tainted, lost>>
vars == <<view, caches, pending_, fetch, commands, history>>

(* tileKey: the id of the map and the coordinates. *)
BugTileKey(m, t) == <<CHOOSE any \in Maps : TRUE, t>>
TileKey(m, t) == <<m, t>>
Keys == Maps \X Tiles

(* A slot: where the fetch is, its tile, the key it was asked for, the key *)
(* and the image it has so far.                                            *)
Slot(pc, t, want, key, image) ==
  [pc |-> pc, tile |-> t, want |-> want, key |-> key, image |-> image]
Free == Slot("free", None, None, None, None)
FreeSlots == {s \in Slots : fetch[s].pc = "free"}
WorkerPcs == {"queued", "load", "get", "save"}
Drawn(t) == tile_cache_[TileKey(base_map_, t)]

Init == /\ base_map_ \in Maps
        /\ visible \in Views
        /\ dirty = TRUE
        /\ missing = {}
        /\ gui = "loop"
        /\ fetch_canceled_ = FALSE
        /\ tile_cache_ = [k \in Keys |-> None]
        /\ saved = [k \in Keys |-> None]
        /\ pending_ = {}
        /\ fetch = [s \in Slots |-> Free]
        /\ commands = 0
        /\ crossed = {}
        /\ tainted = {}
        /\ lost = {}
-----------------------------------------------------------------------------
(* What the history notes of slot s: a wrong image that it left under k    *)
(* after base_map_ changed under it, and its end.                          *)
Tainted(s, k, image) == IF s \in crossed /\ image \notin {None, k}
                        THEN tainted \cup {k} ELSE tainted
Ended(s) == fetch' = [fetch EXCEPT ![s] = Free] /\ crossed' = crossed \ {s}

(* onFetchFinished(key, image).  An answer that arrives while a network    *)
(* map is shown is also saved, under the key of that map.                  *)
BugFinished(key, image) ==
  /\ tile_cache_' = [tile_cache_ EXCEPT ![key] = IF image = None THEN Red ELSE image]
  /\ saved' = IF image # None
              THEN [saved EXCEPT ![TileKey(base_map_, key[2])] = image] ELSE saved
  /\ pending_' = pending_ \ {key}
  /\ dirty' = TRUE
Finished(key, image) ==
  /\ tile_cache_' = [tile_cache_ EXCEPT ![key] = IF image = None THEN Red ELSE image]
  /\ saved' = IF image # None /\ base_map_ \in Async
              THEN [saved EXCEPT ![TileKey(base_map_, key[2])] = image] ELSE saved
  /\ pending_' = pending_ \ {key}
  /\ dirty' = TRUE

(* The answer of slot s reaches onFetchFinished.                           *)
Answer(s, image) ==
  LET k == fetch[s].key IN
  /\ gui = "loop"
  /\ Finished(k, image)
  /\ Ended(s)
  /\ tainted' = Tainted(s, k, image) \cup
                (IF base_map_ \in Async THEN Tainted(s, TileKey(base_map_, k[2]), image) ELSE {})
  /\ lost' = (lost \cup ({fetch[s].want} \ {k})) \cap pending_'
  /\ UNCHANGED <<base_map_, visible, missing, gui, fetch_canceled_, commands>>
-----------------------------------------------------------------------------
(* paintEvent: drawBaseMap draws what there is and lists the rest.  Bound: *)
(* it waits until there is a slot for each tile that it may ask for, and   *)
(* GetTile takes none of those.                                            *)
Paint ==
  LET rest == {t \in visible : Drawn(t) = None}
      ask == {t \in rest : TileKey(base_map_, t) \notin pending_}
  IN /\ gui = "loop"
     /\ dirty
     /\ Cardinality(ask) <= Cardinality(FreeSlots)
     /\ dirty' = FALSE
     /\ missing' = rest
     /\ gui' = IF rest = {} THEN "loop" ELSE "painting"
     /\ UNCHANGED <<base_map_, visible, fetch_canceled_, caches, pending_, fetch, commands, history>>

(* One round of the loop of fetchMissing, for tile t.                      *)
NextMissing(t) ==
  /\ gui = "painting"
  /\ t \in missing
  /\ missing' = missing \ {t}
  /\ gui' = IF missing = {t} THEN "loop" ELSE "painting"
  /\ UNCHANGED <<base_map_, visible, fetch_canceled_, commands, crossed, tainted>>

SkipPending(t) ==
  /\ NextMissing(t)
  /\ TileKey(base_map_, t) \in pending_
  /\ UNCHANGED <<dirty, caches, pending_, fetch, lost>>

FetchSaved(t) ==
  LET k == TileKey(base_map_, t) IN
  /\ NextMissing(t)
  /\ k \notin pending_
  /\ base_map_ \in Async
  /\ saved[k] # None
  /\ Finished(k, saved[k])
  /\ UNCHANGED <<fetch, lost>>

Ask(t, pc) ==
  LET k == TileKey(base_map_, t) IN
  /\ NextMissing(t)
  /\ k \notin pending_
  /\ pending_' = pending_ \cup {k}
  /\ \E s \in FreeSlots : fetch' = [fetch EXCEPT ![s] = Slot(pc, t, k, k, None)]
  /\ UNCHANGED <<dirty, caches, lost>>

RequestTile(t) == /\ base_map_ \in Async
                  /\ saved[TileKey(base_map_, t)] = None
                  /\ Ask(t, "net")

StartFetcher(t) == base_map_ \notin Async /\ Ask(t, "queued")
-----------------------------------------------------------------------------
(* TileFetcher::run on a thread of the pool, cut where it reads base_map_. *)
Goes(s, pc) == fetch[s].pc = pc /\ UNCHANGED <<view, tile_cache_, pending_, commands, lost>>

(* Its pending_ entry stays when it is cancelled: see ZoomEnd.             *)
Cancelled(s) == /\ Goes(s, "queued")
                /\ fetch_canceled_
                /\ Ended(s)
                /\ UNCHANGED <<saved, tainted>>

At(s, pc, key, image) == Slot(pc, fetch[s].tile, fetch[s].want, key, image)

Begin(s) == /\ Goes(s, "queued")
            /\ ~fetch_canceled_
            /\ fetch' = [fetch EXCEPT ![s] = At(s, "load", TileKey(base_map_, fetch[s].tile), None)]
            /\ UNCHANGED <<saved, crossed, tainted>>

LoadSaved(s) ==
  LET image == saved[TileKey(base_map_, fetch[s].tile)]
      next == IF image = None THEN "get" ELSE "posted"
  IN /\ Goes(s, "load")
     /\ fetch' = [fetch EXCEPT ![s] = At(s, next, fetch[s].key, image)]
     /\ UNCHANGED <<saved, crossed, tainted>>

(* A map file renders; a network map, asked here on the wrong thread,      *)
(* returns a null image, and its request may or may not be sent.           *)
GetTile(s) ==
  LET k == TileKey(base_map_, fetch[s].tile)
      got(image) == [fetch EXCEPT ![s] = At(s, "save", fetch[s].key, image)]
  IN /\ Goes(s, "get")
     /\ \/ base_map_ \notin Async /\ fetch' = got(<<base_map_, fetch[s].tile>>)
        \/ base_map_ \in Async /\ fetch' = got(None)
        \/ /\ base_map_ \in Async
           /\ Cardinality(FreeSlots) > Cardinality(missing)
           /\ \E r \in FreeSlots :
                fetch' = [got(None) EXCEPT ![r] = Slot("net", fetch[s].tile, k, k, None)]
     /\ UNCHANGED <<saved, crossed, tainted>>

SaveTile(s) ==
  LET k == TileKey(base_map_, fetch[s].tile) IN
  /\ Goes(s, "save")
  /\ saved' = [saved EXCEPT ![k] = fetch[s].image]
  /\ fetch' = [fetch EXCEPT ![s] = At(s, "posted", fetch[s].key, fetch[s].image)]
  /\ tainted' = Tainted(s, k, fetch[s].image)
  /\ UNCHANGED crossed

(* The GUI thread handles the answer a fetcher posted, in any order.       *)
TakePosted(s) == fetch[s].pc = "posted" /\ Answer(s, fetch[s].image)

(* NetworkTileProvider::finished, and a request that failed.               *)
NetworkReply(s) ==
  /\ fetch[s].pc = "net"
  /\ \/ Answer(s, fetch[s].key)
     \/ Answer(s, None)
-----------------------------------------------------------------------------
Command == commands < MaxCommands /\ commands' = commands + 1

(* What the user does.  zoom(int) stops all fetchers before it repaints.   *)
ZoomBegin == /\ Command
             /\ gui = "loop"
             /\ gui' = "zooming"
             /\ fetch_canceled_' = TRUE
             /\ UNCHANGED <<base_map_, visible, dirty, missing, caches, pending_, fetch, history>>

PoolIsDone == \A s \in Slots : fetch[s].pc \notin WorkerPcs

BugKeepsPending == /\ gui = "zooming"
                   /\ PoolIsDone
                   /\ gui' = "loop"
                   /\ fetch_canceled_' = FALSE
                   /\ pending_' = pending_
                   /\ lost' = {}
                   /\ visible' \in {v \in Views : v \cap visible = {}}
                   /\ dirty' = TRUE
                   /\ UNCHANGED <<base_map_, missing, caches, fetch, commands, crossed, tainted>>

BugStaysCanceled == /\ gui = "zooming"
                    /\ PoolIsDone
                    /\ gui' = "loop"
                    /\ fetch_canceled_' = fetch_canceled_
                    /\ pending_' = {}
                    /\ lost' = {}
                    /\ visible' \in {v \in Views : v \cap visible = {}}
                    /\ dirty' = TRUE
                    /\ UNCHANGED <<base_map_, missing, caches, fetch, commands, crossed, tainted>>

ZoomEnd == /\ gui = "zooming"
           /\ PoolIsDone
           /\ gui' = "loop"
           /\ fetch_canceled_' = FALSE
           /\ pending_' = {}
           /\ lost' = {}
           /\ visible' \in {v \in Views : v \cap visible = {}}
           /\ dirty' = TRUE
           /\ UNCHANGED <<base_map_, missing, caches, fetch, commands, crossed, tainted>>

(* scroll, zoomIn, zoomOut, zoom(QRect): only the view changes.            *)
Move == /\ Command
        /\ gui = "loop"
        /\ visible' \in Views \ {visible}
        /\ dirty' = TRUE
        /\ UNCHANGED <<base_map_, missing, gui, fetch_canceled_, caches, pending_, fetch, history>>

(* baseMapChanged: nobody waits for the fetchers.                          *)
SetBasemap(m) ==
  /\ Command
  /\ gui = "loop"
  /\ m # base_map_
  /\ base_map_' = m
  /\ dirty' = TRUE
  /\ crossed' = Slots \ FreeSlots
  /\ UNCHANGED <<visible, missing, gui, fetch_canceled_, caches, pending_, fetch, tainted, lost>>

BugNoUpdate ==
  /\ Command
  /\ gui = "loop"
  /\ tile_cache_' = [k \in Keys |-> None]
  /\ dirty' = dirty
  /\ UNCHANGED <<base_map_, visible, missing, gui, fetch_canceled_, saved, pending_, fetch, history>>

InvalidateMap ==
  /\ Command
  /\ gui = "loop"
  /\ tile_cache_' = [k \in Keys |-> None]
  /\ dirty' = TRUE
  /\ UNCHANGED <<base_map_, visible, missing, gui, fetch_canceled_, saved, pending_, fetch, history>>

(* The pixmap cache drops a tile that is not in the window.                *)
Evict(k) ==
  /\ Command
  /\ tile_cache_[k] # None
  /\ \A t \in visible : k # TileKey(base_map_, t)
  /\ tile_cache_' = [tile_cache_ EXCEPT ![k] = None]
  /\ UNCHANGED <<view, saved, pending_, fetch, history>>

(* closeEvent: cleanup, after which the widget goes away.                  *)
CloseBegin == /\ Command
              /\ gui = "loop"
              /\ gui' = "closing"
              /\ fetch_canceled_' = TRUE
              /\ UNCHANGED <<base_map_, visible, dirty, missing, caches, pending_, fetch, history>>

CloseEnd == /\ gui = "closing"
            /\ PoolIsDone
            /\ gui' = "closed"
            /\ pending_' = {}
            /\ lost' = {}
            /\ UNCHANGED <<base_map_, visible, dirty, missing, fetch_canceled_,
                           caches, fetch, commands, crossed, tainted>>
-----------------------------------------------------------------------------
Worker(s) == Cancelled(s) \/ Begin(s) \/ LoadSaved(s) \/ GetTile(s) \/ SaveTile(s)
FetchMissing(t) == SkipPending(t) \/ FetchSaved(t) \/ RequestTile(t) \/ StartFetcher(t)

Next ==
  \/ Paint
  \/ \E t \in Tiles : FetchMissing(t)
  \/ \E s \in Slots : Worker(s)
  \/ \E s \in Slots : TakePosted(s)
  \/ \E s \in Slots : NetworkReply(s)
  \/ ZoomBegin
  \/ ZoomEnd
  \/ Move
  \/ \E m \in Maps : SetBasemap(m)
  \/ InvalidateMap
  \/ \E k \in Keys : Evict(k)
  \/ CloseBegin
  \/ CloseEnd

Spec == Init /\ [][Next]_vars

(* The event loop of the GUI thread comes to every paint and posted call,  *)
(* the pool runs what is queued, and a request is answered or fails.  The  *)
(* user need not do anything.                                              *)
FairSpec ==
  /\ Spec
  /\ WF_vars(Paint)
  /\ WF_vars(ZoomEnd)
  /\ WF_vars(CloseEnd)
  /\ \A t \in Tiles : WF_vars(FetchMissing(t))
  /\ \A s \in Slots : WF_vars(Worker(s)) /\ WF_vars(TakePosted(s)) /\ WF_vars(NetworkReply(s))
-----------------------------------------------------------------------------
Images == Keys \cup {None}

Fetch == [pc : {"free", "net", "posted"} \cup WorkerPcs, tile : Tiles \cup {None},
          want : Keys \cup {None}, key : Keys \cup {None}, image : Images]

(* TYPE INVARIANT: every variable has its type, a slot is blank exactly     *)
(* when it is free, fetchMissing has tiles left exactly while the GUI       *)
(* thread is in it, and fetching is cancelled only while it zooms or closes.*)
TypeOK ==
  /\ base_map_ \in Maps
  /\ visible \in Views
  /\ dirty \in BOOLEAN
  /\ missing \subseteq visible
  /\ gui \in {"loop", "painting", "zooming", "closing", "closed"}
  /\ (gui = "painting") <=> (missing # {})
  /\ fetch_canceled_ \in BOOLEAN
  /\ fetch_canceled_ <=> gui \in {"zooming", "closing", "closed"}
  /\ tile_cache_ \in [Keys -> Images \cup {Red}]
  /\ saved \in [Keys -> Images]
  /\ pending_ \subseteq Keys
  /\ fetch \in [Slots -> Fetch]
  /\ \A s \in Slots : IF fetch[s].pc = "free" THEN fetch[s] = Free /\ s \notin crossed
                      ELSE {fetch[s].want, fetch[s].key} \subseteq Keys /\ fetch[s].tile \in Tiles
  /\ commands \in 0 .. MaxCommands
  /\ crossed \subseteq Slots
  /\ tainted \subseteq Keys
  /\ lost \subseteq pending_

(* SAFETY: what is drawn for a tile of a map is that tile of that map, or   *)
(* the mark of a failure.  The exception is a tile whose fetcher was        *)
(* overtaken by a change of base_map_: run() asks base_map_ for the key     *)
(* first and for the image later.                                           *)
CachedIsOwn == \A k \in Keys \ tainted : tile_cache_[k] \in {None, Red, k}

(* SAFETY: the persistent cache keeps a tile of a map under its own key,    *)
(* with the same exception, and a late answer of a network map, which       *)
(* onFetchFinished saves under the key of whatever network map is shown.    *)
(* A late answer is not saved at all while a map file is shown.             *)
SavedIsOwn == \A k \in Keys \ tainted : saved[k] \in {None, k}

(* SAFETY: a tile is pending only while something will answer for it: else  *)
(* fetchMissing would skip it until the next zoom(int).  The exception is   *)
(* again a fetcher that took its key from another map than it was asked     *)
(* for.                                                                     *)
PendingIsLive ==
  fetch_canceled_ \/ \A k \in pending_ \ lost : \E s \in Slots : fetch[s].want = k

(* SAFETY: a tile in the window is drawn, or the next paint will ask for    *)
(* it, or it was asked for: no answer, zoom, change of map or theme leaves  *)
(* a hole in the window that nothing is going to fill.                      *)
DrawnOrOnTheWay ==
  gui # "closed" => \A t \in visible :
    \/ Drawn(t) # None \/ dirty \/ t \in missing
    \/ TileKey(base_map_, t) \in pending_

Wanted(k) == k[1] = base_map_ /\ k[2] \in visible /\ gui \notin {"closing", "closed"}

(* LIVENESS: a tile in the window gets its pixmap, at the latest the mark   *)
(* of a failure, unless it leaves the window, or the fetcher asked for it   *)
(* answered under the key of another map.                                   *)
VisibleIsDrawn ==
  \A k \in Keys : Wanted(k) ~> (tile_cache_[k] # None \/ ~Wanted(k) \/ k \in lost)
=============================================================================
