-------------------------- MODULE TileFetch_proofs --------------------------
(***************************************************************************)
(* Proofs about TileFetch for any maps, tiles, views and number of slots:  *)
(* its types, that nothing is pending that nobody fetches, and that images *)
(* are cached under the key of what they show.                             *)
(***************************************************************************)
EXTENDS TileFetch, TLAPS

(* A key is made of its map and its tile, and is neither None nor Red. *)
LEMMA KeyFacts ==
  /\ \A m \in Maps, t \in Tiles : TileKey(m, t) \in Keys
  /\ \A k \in Keys : /\ k[2] \in Tiles
                     /\ TileKey(k[1], k[2]) = k
  /\ None \notin Keys
  /\ Red \notin Keys
  /\ None # Red
BY ImagesAssumption DEF Keys, TileKey

(* What a slot holds. *)
LEMMA SlotFacts ==
  /\ Free \in Fetch
  /\ Free.pc = "free" /\ Free.want = None
  /\ \A pc \in {"net", "posted"} \cup WorkerPcs, t \in Tiles, w \in Keys, k \in Keys, i \in Images :
       /\ Slot(pc, t, w, k, i) \in Fetch
       /\ Slot(pc, t, w, k, i).pc = pc
       /\ Slot(pc, t, w, k, i).tile = t
       /\ Slot(pc, t, w, k, i).want = w
       /\ Slot(pc, t, w, k, i).key = k
       /\ Slot(pc, t, w, k, i).image = i
BY DEF Free, Slot, Fetch, Images, WorkerPcs

(* TypeOK in three parts: what the GUI thread works with, what is kept for  *)
(* the keys, and the slots.                                                 *)
ScreenOK ==
  /\ base_map_ \in Maps
  /\ visible \in Views
  /\ dirty \in BOOLEAN
  /\ missing \subseteq visible
  /\ gui \in {"loop", "painting", "zooming", "closing", "closed"}
  /\ (gui = "painting") <=> (missing # {})
  /\ fetch_canceled_ \in BOOLEAN
  /\ fetch_canceled_ <=> gui \in {"zooming", "closing", "closed"}
  /\ commands \in 0 .. MaxCommands

KeysOK ==
  /\ tile_cache_ \in [Keys -> Images \cup {Red}]
  /\ saved \in [Keys -> Images]
  /\ pending_ \subseteq Keys
  /\ tainted \subseteq Keys
  /\ lost \subseteq pending_

SlotsOK ==
  \A s \in Slots : IF fetch[s].pc = "free" THEN fetch[s] = Free /\ s \notin crossed
                   ELSE {fetch[s].want, fetch[s].key} \subseteq Keys /\ fetch[s].tile \in Tiles

FetchOK == fetch \in [Slots -> Fetch] /\ crossed \subseteq Slots /\ SlotsOK

(* The parts make up TypeOK, before a step and after it. *)
LEMMA TypeParts ==
  /\ TypeOK <=> (ScreenOK /\ KeysOK /\ FetchOK)
  /\ TypeOK' <=> (ScreenOK' /\ KeysOK' /\ FetchOK')
<1>1. TypeOK <=> (ScreenOK /\ KeysOK /\ FetchOK)
  BY DEF TypeOK, ScreenOK, KeysOK, FetchOK, SlotsOK
<1>2. TypeOK' <=> (ScreenOK' /\ KeysOK' /\ FetchOK')
  BY DEF TypeOK, ScreenOK, KeysOK, FetchOK, SlotsOK
<1> QED
  BY <1>1, <1>2

(* The widget starts in a typed state. *)
LEMMA InitType == Init => TypeOK
<1> SUFFICES ASSUME Init PROVE TypeOK
  OBVIOUS
<1>1. fetch \in [Slots -> Fetch] /\ \A s \in Slots : fetch[s] = Free
  BY SlotFacts DEF Init
<1>2. KeysOK
  BY DEF Init, Images, KeysOK
<1>3. FetchOK
  BY <1>1, SlotFacts DEF Init, FetchOK, SlotsOK
<1>4. ScreenOK
  <2>1. (gui = "painting") <=> (missing # {})
    BY DEF Init
  <2>2. fetch_canceled_ <=> gui \in {"zooming", "closing", "closed"}
    BY DEF Init
  <2>3. commands \in 0 .. MaxCommands
    BY MaxCommandsAssumption DEF Init
  <2> QED
    BY <2>1, <2>2, <2>3 DEF Init, ScreenOK
<1> QED
  BY <1>2, <1>3, <1>4, TypeParts

(* A slot that changes to what a slot may be keeps the types of all slots. *)
LEMMA SlotStep ==
  ASSUME TypeOK, NEW s \in Slots, NEW f \in Fetch,
         fetch' = [fetch EXCEPT ![s] = f],
         f.pc = "free" => f = Free /\ s \notin crossed',
         f.pc # "free" => {f.want, f.key} \subseteq Keys /\ f.tile \in Tiles,
         crossed' \subseteq crossed
  PROVE  fetch' \in [Slots -> Fetch] /\ SlotsOK'
BY DEF TypeOK, SlotsOK

(* The end of a slot keeps the types of all slots. *)
LEMMA EndedType ==
  ASSUME TypeOK, NEW s \in Slots, Ended(s)
  PROVE  fetch' \in [Slots -> Fetch] /\ SlotsOK' /\ crossed' \subseteq crossed
<1>1. fetch' = [fetch EXCEPT ![s] = Free] /\ crossed' = crossed \ {s}
  BY DEF Ended
<1> QED
  BY <1>1, SlotStep, SlotFacts

(* So does an answer. *)
LEMMA FinishedType ==
  ASSUME TypeOK, NEW k \in Keys, NEW image \in Images, Finished(k, image)
  PROVE  /\ tile_cache_' \in [Keys -> Images \cup {Red}]
         /\ saved' \in [Keys -> Images]
         /\ pending_' \subseteq Keys
         /\ dirty' \in BOOLEAN
<1>1. TileKey(base_map_, k[2]) \in Keys
  BY KeyFacts DEF TypeOK
<1>2. tile_cache_' \in [Keys -> Images \cup {Red}]
  BY DEF Finished, TypeOK
<1>3. saved' \in [Keys -> Images]
  BY <1>1 DEF Finished, TypeOK
<1> QED
  BY <1>2, <1>3 DEF Finished, TypeOK

(* The answer of a slot keeps all types. *)
LEMMA AnswerType ==
  ASSUME TypeOK, NEW s \in Slots, NEW image \in Images, fetch[s].pc # "free", Answer(s, image)
  PROVE  TypeOK'
<1> DEFINE k == fetch[s].key
<1>1. k \in Keys /\ TileKey(base_map_, k[2]) \in Keys
  BY KeyFacts DEF TypeOK
<1>2. Finished(k, image) /\ Ended(s)
  BY DEF Answer
<1>3. /\ tile_cache_' \in [Keys -> Images \cup {Red}] /\ saved' \in [Keys -> Images]
      /\ pending_' \subseteq Keys /\ dirty' \in BOOLEAN
  BY <1>1, <1>2, FinishedType
<1>4. fetch' \in [Slots -> Fetch] /\ SlotsOK' /\ crossed' \subseteq crossed
  BY <1>2, EndedType
<1>5. tainted' \subseteq Keys
  BY <1>1 DEF Answer, Tainted, TypeOK
<1>6. lost' \subseteq pending_'
  BY DEF Answer
<1> QED
  BY <1>3, <1>4, <1>5, <1>6 DEF Answer, TypeOK, SlotsOK

(* The rounds of fetchMissing. *)
LEMMA NextMissingType ==
  ASSUME TypeOK, NEW t \in Tiles, NextMissing(t), dirty' \in BOOLEAN
  PROVE  ScreenOK'
<1>1. /\ gui = "painting" /\ t \in missing /\ missing' = missing \ {t}
      /\ UNCHANGED <<base_map_, visible, fetch_canceled_, commands>>
  BY DEF NextMissing
<1>2. ~fetch_canceled_
  BY <1>1 DEF TypeOK
<1>3. (missing = {t}) <=> (missing' = {})
  BY <1>1
<1>4. gui' = IF missing = {t} THEN "loop" ELSE "painting"
  BY DEF NextMissing
<1>5. (gui' = "painting") <=> (missing' # {})
  BY <1>3, <1>4
<1>6. gui' \in {"loop", "painting"}
  BY <1>4
<1>7. fetch_canceled_' <=> gui' \in {"zooming", "closing", "closed"}
  BY <1>1, <1>2, <1>6
<1>8. missing' \subseteq visible'
  BY <1>1 DEF TypeOK
<1> QED
  BY <1>1, <1>5, <1>6, <1>7, <1>8 DEF TypeOK, ScreenOK

(* A round of fetchMissing that asks for a tile. *)
LEMMA AskType ==
  ASSUME TypeOK, NEW t \in Tiles, NEW pc \in {"net", "queued"}, Ask(t, pc)
  PROVE  TypeOK'
<1> DEFINE k == TileKey(base_map_, t)
<1>1. k \in Keys
  BY KeyFacts DEF TypeOK
<1>2. NextMissing(t)
  BY DEF Ask
<1>3. ScreenOK'
  BY <1>2, NextMissingType DEF Ask, TypeOK
<1>4. PICK s \in FreeSlots : fetch' = [fetch EXCEPT ![s] = Slot(pc, t, k, k, None)]
  BY DEF Ask
<1>5. /\ Slot(pc, t, k, k, None) \in Fetch
      /\ Slot(pc, t, k, k, None).pc = pc /\ Slot(pc, t, k, k, None).tile = t
      /\ Slot(pc, t, k, k, None).want = k /\ Slot(pc, t, k, k, None).key = k
  BY <1>1, SlotFacts DEF WorkerPcs, Images
<1>6. s \in Slots /\ crossed' \subseteq crossed
  BY <1>2 DEF FreeSlots, NextMissing
<1>7. fetch' \in [Slots -> Fetch] /\ SlotsOK'
  BY <1>1, <1>4, <1>5, <1>6, SlotStep
<1>8. UNCHANGED <<base_map_, visible, commands, crossed, tainted, dirty, tile_cache_, saved, lost>>
  BY <1>2 DEF Ask, NextMissing, caches
<1>9. pending_' = pending_ \cup {k}
  BY DEF Ask
<1>10. KeysOK'
  BY <1>1, <1>8, <1>9 DEF TypeOK, KeysOK
<1>11. FetchOK'
  BY <1>7, <1>8 DEF TypeOK, FetchOK
<1> QED
  BY <1>3, <1>10, <1>11, TypeParts

(* The steps of a fetcher. *)
LEMMA WorkerType ==
  ASSUME TypeOK, NEW s \in Slots, Worker(s)
  PROVE  TypeOK'
<1> DEFINE b == TileKey(base_map_, fetch[s].tile)
<1>1. /\ UNCHANGED <<base_map_, visible, dirty, missing, gui, fetch_canceled_, tile_cache_,
                     pending_, commands, lost>>
      /\ fetch[s].pc \in WorkerPcs
  BY DEF Worker, Cancelled, Begin, LoadSaved, GetTile, SaveTile, Goes, view, WorkerPcs
<1>2. /\ fetch[s].pc # "free" /\ fetch[s].tile \in Tiles
      /\ fetch[s].want \in Keys /\ fetch[s].key \in Keys /\ fetch[s].image \in Images
      /\ b \in Keys
  BY <1>1, KeyFacts DEF TypeOK, WorkerPcs, Fetch
<1>3. \A pc \in WorkerPcs \cup {"posted"}, k \in Keys, i \in Images :
        LET f == At(s, pc, k, i) IN
        /\ f \in Fetch /\ f.pc = pc /\ f.pc # "free"
        /\ {f.want, f.key} \subseteq Keys /\ f.tile \in Tiles
  BY <1>2, SlotFacts DEF At, WorkerPcs
<1>4. ASSUME NEW pc \in WorkerPcs \cup {"posted"}, NEW k \in Keys, NEW i \in Images,
             fetch' = [fetch EXCEPT ![s] = At(s, pc, k, i)], crossed' = crossed
      PROVE  fetch' \in [Slots -> Fetch] /\ SlotsOK'
  BY <1>3, <1>4, SlotStep
<1>5. None \in Images
  BY DEF Images
<1>6. CASE Cancelled(s)
  <2>1. fetch' \in [Slots -> Fetch] /\ SlotsOK' /\ crossed' \subseteq crossed
    BY <1>6, EndedType DEF Cancelled
  <2> QED
    BY <1>1, <2>1, <1>6 DEF TypeOK, SlotsOK, Cancelled
<1>7. CASE Begin(s)
  <2>1. fetch' \in [Slots -> Fetch] /\ SlotsOK'
    BY <1>2, <1>4, <1>5, <1>7 DEF Begin, WorkerPcs
  <2> QED
    BY <1>1, <2>1, <1>7 DEF TypeOK, SlotsOK, Begin
<1>8. CASE LoadSaved(s)
  <2>1. saved[b] \in Images
    BY <1>2 DEF TypeOK
  <2>2. fetch' \in [Slots -> Fetch] /\ SlotsOK'
    BY <1>2, <1>4, <1>8, <2>1 DEF LoadSaved, WorkerPcs
  <2> QED
    BY <1>1, <2>2, <1>8 DEF TypeOK, SlotsOK, LoadSaved
<1>9. CASE GetTile(s)
  <2> DEFINE got(image) == [fetch EXCEPT ![s] = At(s, "save", fetch[s].key, image)]
  <2>1. <<base_map_, fetch[s].tile>> \in Images
    BY <1>2 DEF TypeOK, Images, Keys
  <2>2. UNCHANGED <<saved, crossed, tainted>>
    BY <1>9 DEF GetTile
  <2>3. ASSUME NEW image \in Images, fetch' = got(image)
        PROVE  fetch' \in [Slots -> Fetch] /\ SlotsOK'
    BY <1>2, <1>4, <2>2, <2>3 DEF WorkerPcs
  <2>4. ASSUME NEW r \in FreeSlots, fetch' = [got(None) EXCEPT ![r] = Slot("net", fetch[s].tile, b, b, None)]
        PROVE  fetch' \in [Slots -> Fetch] /\ SlotsOK'
    <3> DEFINE n == Slot("net", fetch[s].tile, b, b, None)
               g == At(s, "save", fetch[s].key, None)
    <3>1. /\ n \in Fetch /\ n.pc = "net" /\ n.want = b /\ n.key = b /\ n.tile = fetch[s].tile
      BY <1>2, <1>5, SlotFacts
    <3>2. /\ g \in Fetch /\ g.pc = "save" /\ {g.want, g.key} \subseteq Keys /\ g.tile \in Tiles
      BY <1>2, <1>3, <1>5 DEF WorkerPcs
    <3>3. /\ fetch' \in [Slots -> Fetch] /\ fetch'[r] = n /\ r \in Slots /\ r # s
          /\ fetch'[s] = g /\ \A q \in Slots \ {r, s} : fetch'[q] = fetch[q]
      BY <1>2, <2>4, <3>1, <3>2 DEF TypeOK, FreeSlots
    <3>4. ASSUME NEW q \in Slots
          PROVE  IF fetch'[q].pc = "free" THEN fetch'[q] = Free /\ q \notin crossed'
                 ELSE {fetch'[q].want, fetch'[q].key} \subseteq Keys /\ fetch'[q].tile \in Tiles
      <4>1. CASE q = r
        BY <4>1, <3>1, <3>3, <1>2
      <4>2. CASE q = s
        BY <4>2, <3>2, <3>3
      <4>3. CASE q \notin {r, s}
        BY <4>3, <3>3, <2>2 DEF TypeOK
      <4> QED
        BY <4>1, <4>2, <4>3
    <3> QED
      BY <3>3, <3>4 DEF SlotsOK
  <2>5. fetch' \in [Slots -> Fetch] /\ SlotsOK'
    BY <1>9, <1>5, <2>1, <2>3, <2>4 DEF GetTile
  <2> QED
    BY <1>1, <2>2, <2>5 DEF TypeOK, SlotsOK
<1>10. CASE SaveTile(s)
  <2>1. fetch' \in [Slots -> Fetch] /\ SlotsOK'
    BY <1>2, <1>4, <1>10 DEF SaveTile
  <2>2. saved' \in [Keys -> Images] /\ tainted' \subseteq Keys
    BY <1>2, <1>10 DEF SaveTile, Tainted, TypeOK
  <2> QED
    BY <1>1, <2>1, <2>2, <1>10 DEF TypeOK, SlotsOK, SaveTile
<1> QED
  BY <1>6, <1>7, <1>8, <1>9, <1>10 DEF Worker

(* The rounds of fetchMissing keep all types. *)
LEMMA FetchMissingType ==
  ASSUME TypeOK, NEW t \in Tiles, FetchMissing(t)
  PROVE  TypeOK'
<1>1. CASE SkipPending(t)
  <2>1. NextMissing(t) /\ UNCHANGED <<dirty, tile_cache_, saved, pending_, fetch, lost, crossed, tainted>>
    BY <1>1 DEF SkipPending, NextMissing, caches
  <2>2. ScreenOK'
    BY <2>1, NextMissingType DEF TypeOK
  <2>3. KeysOK' /\ FetchOK'
    BY <2>1 DEF TypeOK, KeysOK, FetchOK, SlotsOK
  <2> QED
    BY <2>2, <2>3, TypeParts
<1>2. CASE FetchSaved(t)
  <2> DEFINE k == TileKey(base_map_, t)
  <2>1. k \in Keys
    BY KeyFacts DEF TypeOK
  <2>2. saved[k] \in Images /\ Finished(k, saved[k]) /\ NextMissing(t)
    BY <1>2, <2>1 DEF FetchSaved, TypeOK
  <2>3. /\ tile_cache_' \in [Keys -> Images \cup {Red}] /\ saved' \in [Keys -> Images]
        /\ pending_' \subseteq Keys /\ dirty' \in BOOLEAN
    BY <2>1, <2>2, FinishedType
  <2>4. ScreenOK'
    BY <2>2, <2>3, NextMissingType
  <2>5. UNCHANGED <<fetch, lost, crossed, tainted>> /\ pending_' = pending_ \ {k} /\ k \notin pending_
    BY <1>2, <2>2 DEF FetchSaved, NextMissing, Finished
  <2>6. KeysOK' /\ FetchOK'
    BY <2>3, <2>5 DEF TypeOK, KeysOK, FetchOK, SlotsOK
  <2> QED
    BY <2>4, <2>6, TypeParts
<1>3. CASE RequestTile(t)
  BY <1>3, AskType DEF RequestTile
<1>4. CASE StartFetcher(t)
  BY <1>4, AskType DEF StartFetcher
<1> QED
  BY <1>1, <1>2, <1>3, <1>4 DEF FetchMissing

(* A paint and the commands of the user keep all types. *)
LEMMA CommandType ==
  ASSUME TypeOK,
         \/ Paint \/ ZoomBegin \/ ZoomEnd \/ Move \/ InvalidateMap \/ CloseBegin \/ CloseEnd
         \/ (\E m \in Maps : SetBasemap(m)) \/ (\E k \in Keys : Evict(k))
  PROVE  TypeOK'
<1>1. CASE Paint
  <2> DEFINE rest == {t \in visible : Drawn(t) = None}
  <2>1. /\ gui = "loop" /\ dirty' = FALSE /\ missing' = rest
        /\ gui' = IF rest = {} THEN "loop" ELSE "painting"
        /\ UNCHANGED <<base_map_, visible, fetch_canceled_, tile_cache_, saved, pending_, fetch,
                       commands, crossed, tainted, lost>>
    BY <1>1 DEF Paint, caches, history
  <2>2. gui' \in {"loop", "painting"}
    BY <2>1
  <2>3. (gui' = "painting") <=> (missing' # {})
    BY <2>1
  <2>4. ~fetch_canceled_
    BY <2>1 DEF TypeOK
  <2>5. fetch_canceled_' <=> gui' \in {"zooming", "closing", "closed"}
    BY <2>1, <2>2, <2>4
  <2>6. ScreenOK'
    BY <2>1, <2>2, <2>3, <2>5 DEF TypeOK, ScreenOK
  <2>7. KeysOK' /\ FetchOK'
    BY <2>1 DEF TypeOK, KeysOK, FetchOK, SlotsOK
  <2> QED
    BY <2>6, <2>7, TypeParts
<1>2. Command => commands' \in 0 .. MaxCommands
  BY MaxCommandsAssumption DEF Command, TypeOK
<1>3. CASE ZoomBegin
  BY <1>2, <1>3 DEF ZoomBegin, TypeOK, caches, history
<1>4. CASE ZoomEnd
  <2>1. KeysOK' /\ FetchOK'
    BY <1>4 DEF ZoomEnd, TypeOK, KeysOK, FetchOK, SlotsOK, caches
  <2>2. ScreenOK'
    BY <1>4 DEF ZoomEnd, TypeOK, ScreenOK
  <2> QED
    BY <2>1, <2>2, TypeParts
<1>5. CASE Move
  <2>1. KeysOK' /\ FetchOK'
    BY <1>5 DEF Move, TypeOK, KeysOK, FetchOK, SlotsOK, caches, history
  <2>2. ScreenOK'
    BY <1>2, <1>5 DEF Move, TypeOK, ScreenOK
  <2> QED
    BY <2>1, <2>2, TypeParts
<1>6. CASE InvalidateMap
  <2>1. KeysOK'
    BY <1>6 DEF InvalidateMap, TypeOK, KeysOK, Images, history
  <2>2. ScreenOK' /\ FetchOK'
    BY <1>2, <1>6 DEF InvalidateMap, TypeOK, ScreenOK, FetchOK, SlotsOK, history
  <2> QED
    BY <2>1, <2>2, TypeParts
<1>7. CASE CloseBegin
  <2>1. KeysOK' /\ FetchOK'
    BY <1>7 DEF CloseBegin, TypeOK, KeysOK, FetchOK, SlotsOK, caches, history
  <2>2. ScreenOK'
    BY <1>2, <1>7 DEF CloseBegin, TypeOK, ScreenOK
  <2> QED
    BY <2>1, <2>2, TypeParts
<1>8. CASE CloseEnd
  <2>1. KeysOK' /\ FetchOK'
    BY <1>8 DEF CloseEnd, TypeOK, KeysOK, FetchOK, SlotsOK, caches
  <2>2. ScreenOK'
    BY <1>8 DEF CloseEnd, TypeOK, ScreenOK
  <2> QED
    BY <2>1, <2>2, TypeParts
<1>9. ASSUME NEW m \in Maps, SetBasemap(m) PROVE TypeOK'
  <2>1. ScreenOK' /\ KeysOK'
    BY <1>2, <1>9 DEF SetBasemap, TypeOK, ScreenOK, KeysOK, caches
  <2>2. FetchOK'
    BY <1>9 DEF SetBasemap, FreeSlots, TypeOK, FetchOK, SlotsOK
  <2> QED
    BY <2>1, <2>2, TypeParts
<1>10. ASSUME NEW k \in Keys, Evict(k) PROVE TypeOK'
  <2>1. KeysOK'
    BY <1>10 DEF Evict, TypeOK, KeysOK, Images, history
  <2>2. ScreenOK'
    BY <1>2, <1>10 DEF Evict, TypeOK, ScreenOK, view
  <2>3. FetchOK'
    BY <1>10 DEF Evict, TypeOK, FetchOK, SlotsOK, history
  <2> QED
    BY <2>1, <2>2, <2>3, TypeParts
<1> QED
  BY <1>1, <1>3, <1>4, <1>5, <1>6, <1>7, <1>8, <1>9, <1>10

(* Every step keeps all types. *)
LEMMA TypeStep == TypeOK /\ [Next]_vars => TypeOK'
<1> SUFFICES ASSUME TypeOK, [Next]_vars PROVE TypeOK'
  OBVIOUS
<1>1. ASSUME NEW s \in Slots, TakePosted(s) PROVE TypeOK'
  <2>1. fetch[s].image \in Images
    BY DEF TypeOK, Fetch
  <2> QED
    BY <1>1, <2>1, AnswerType DEF TakePosted
<1>2. ASSUME NEW s \in Slots, NetworkReply(s) PROVE TypeOK'
  <2>1. fetch[s].key \in Images /\ None \in Images
    BY DEF TypeOK, Fetch, Images
  <2> QED
    BY <1>2, <2>1, AnswerType DEF NetworkReply
<1>3. CASE UNCHANGED vars
  <2>1. ScreenOK' /\ KeysOK' /\ FetchOK'
    BY <1>3 DEF TypeOK, ScreenOK, KeysOK, FetchOK, SlotsOK, vars, view, caches, history
  <2> QED
    BY <2>1, TypeParts
<1> QED
  BY <1>1, <1>2, <1>3, FetchMissingType, WorkerType, CommandType DEF Next

(* The type invariant holds of every behaviour of the widget. *)
THEOREM Typing == Spec => []TypeOK
BY InitType, TypeStep, PTL DEF Spec
-----------------------------------------------------------------------------
(* A step at which no new key is pending, and each key that a slot was      *)
(* asked for stays with a slot, leaves no pending key without one.          *)
LEMMA WantsKept ==
  ASSUME TypeOK, PendingIsLive, fetch_canceled_' = fetch_canceled_,
         pending_' \ lost' \subseteq pending_ \ lost,
         \A s \in Slots : fetch[s].want \in pending_' \ lost' => fetch'[s].want = fetch[s].want
  PROVE  PendingIsLive'
<1> SUFFICES ASSUME ~fetch_canceled_', NEW k \in pending_' \ lost'
             PROVE  \E s \in Slots : fetch'[s].want = k
  BY DEF PendingIsLive
<1>1. PICK s \in Slots : fetch[s].want = k
  BY DEF PendingIsLive
<1> QED
  BY <1>1

(* A fetcher leaves no pending key without a slot: only a cancelled one     *)
(* ends, and then everything is cancelled.                                  *)
LEMMA WorkerLive ==
  ASSUME TypeOK, PendingIsLive, NEW s \in Slots, Worker(s)
  PROVE  PendingIsLive'
<1>1. fetch_canceled_' = fetch_canceled_ /\ pending_' = pending_ /\ lost' = lost
  BY DEF Worker, Cancelled, Begin, LoadSaved, GetTile, SaveTile, Goes, view
<1>2. CASE Cancelled(s)
  BY <1>1, <1>2 DEF Cancelled, PendingIsLive
<1>3. ASSUME NEW pc, NEW key, NEW image, fetch' = [fetch EXCEPT ![s] = At(s, pc, key, image)]
      PROVE  PendingIsLive'
  <2>1. \A q \in Slots : fetch'[q].want = fetch[q].want
    BY <1>3 DEF At, Slot, TypeOK
  <2> QED
    BY <1>1, <2>1, WantsKept
<1>4. CASE GetTile(s)
  <2> DEFINE k == TileKey(base_map_, fetch[s].tile)
             got(image) == [fetch EXCEPT ![s] = At(s, "save", fetch[s].key, image)]
  <2>1. ASSUME NEW r \in FreeSlots,
               fetch' = [got(None) EXCEPT ![r] = Slot("net", fetch[s].tile, k, k, None)]
        PROVE  PendingIsLive'
    <3>1. fetch[r].want = None
      BY SlotFacts DEF TypeOK, FreeSlots
    <3>2. \A q \in Slots \ {r} : fetch'[q].want = fetch[q].want
      BY <2>1 DEF At, Slot, TypeOK, FreeSlots
    <3>3. None \notin pending_
      BY KeyFacts DEF TypeOK
    <3> QED
      BY <1>1, <3>1, <3>2, <3>3, WantsKept
  <2>2. ASSUME NEW image, fetch' = got(image) PROVE PendingIsLive'
    BY <1>3, <2>2
  <2> QED
    BY <1>4, <2>1, <2>2 DEF GetTile
<1>5. CASE Begin(s)
  BY <1>3, <1>5 DEF Begin
<1>6. CASE LoadSaved(s)
  BY <1>3, <1>6 DEF LoadSaved
<1>7. CASE SaveTile(s)
  BY <1>3, <1>7 DEF SaveTile
<1> QED
  BY <1>2, <1>4, <1>5, <1>6, <1>7 DEF Worker

(* An answer ends the slot that was asked for its key, which is no longer   *)
(* pending then, or counts as lost.                                         *)
LEMMA AnswerLive ==
  ASSUME TypeOK, PendingIsLive, NEW s \in Slots, NEW image, Answer(s, image)
  PROVE  PendingIsLive'
<1> DEFINE k == fetch[s].key
<1>1. /\ fetch_canceled_' = fetch_canceled_
      /\ pending_' = pending_ \ {k}
      /\ lost' = (lost \cup ({fetch[s].want} \ {k})) \cap pending_'
      /\ fetch' = [fetch EXCEPT ![s] = Free]
  BY DEF Answer, Finished, Ended
<1>2. fetch[s].want \notin pending_' \ lost' /\ pending_' \ lost' \subseteq pending_ \ lost
  BY <1>1
<1>3. \A q \in Slots \ {s} : fetch'[q] = fetch[q]
  BY <1>1 DEF TypeOK
<1> QED
  BY <1>1, <1>2, <1>3, WantsKept

(* A tile that fetchMissing asks for has the slot that it was given.        *)
LEMMA AskLive ==
  ASSUME TypeOK, PendingIsLive, NEW t \in Tiles, NEW pc, Ask(t, pc)
  PROVE  PendingIsLive'
<1> DEFINE k == TileKey(base_map_, t)
<1>1. /\ fetch_canceled_' = fetch_canceled_ /\ lost' = lost
      /\ pending_' = pending_ \cup {k}
  BY DEF Ask, NextMissing
<1>2. PICK r \in FreeSlots : fetch' = [fetch EXCEPT ![r] = Slot(pc, t, k, k, None)]
  BY DEF Ask
<1>3. /\ r \in Slots /\ fetch'[r].want = k /\ fetch[r].want = None
      /\ \A q \in Slots \ {r} : fetch'[q] = fetch[q]
  BY <1>2, SlotFacts DEF TypeOK, FreeSlots, Slot
<1>4. None \notin pending_
  BY KeyFacts DEF TypeOK
<1>5. ASSUME ~fetch_canceled_', NEW q \in pending_' \ lost'
      PROVE  \E s \in Slots : fetch'[s].want = q
  <2>1. CASE q = k
    BY <1>3, <2>1
  <2>2. CASE q # k
    <3>1. q \in pending_ \ lost /\ ~fetch_canceled_
      BY <1>1, <1>5, <2>2
    <3>2. PICK s \in Slots : fetch[s].want = q
      BY <3>1 DEF PendingIsLive
    <3>3. s # r
      BY <1>3, <1>4, <3>1, <3>2
    <3> QED
      BY <1>3, <3>2, <3>3
  <2> QED
    BY <2>1, <2>2
<1> QED
  BY <1>5 DEF PendingIsLive

(* No step leaves a pending key without a slot.                             *)
LEMMA LiveStep == TypeOK /\ PendingIsLive /\ [Next]_vars => PendingIsLive'
<1> SUFFICES ASSUME TypeOK, PendingIsLive, [Next]_vars PROVE PendingIsLive'
  OBVIOUS
<1>1. ASSUME NEW t \in Tiles, FetchMissing(t) PROVE PendingIsLive'
  <2>1. CASE SkipPending(t)
    BY <2>1, WantsKept DEF SkipPending, NextMissing
  <2>2. CASE FetchSaved(t)
    <3>1. /\ fetch_canceled_' = fetch_canceled_ /\ lost' = lost /\ fetch' = fetch
          /\ pending_' = pending_ \ {TileKey(base_map_, t)}
      BY <2>2 DEF FetchSaved, NextMissing, Finished
    <3> QED
      BY <3>1, WantsKept
  <2>3. CASE RequestTile(t)
    BY <2>3, AskLive DEF RequestTile
  <2>4. CASE StartFetcher(t)
    BY <2>4, AskLive DEF StartFetcher
  <2> QED
    BY <1>1, <2>1, <2>2, <2>3, <2>4 DEF FetchMissing
<1>2. ASSUME NEW s \in Slots, TakePosted(s) \/ NetworkReply(s) PROVE PendingIsLive'
  BY <1>2, AnswerLive DEF TakePosted, NetworkReply
<1>3. CASE ZoomBegin \/ CloseBegin
  BY <1>3 DEF ZoomBegin, CloseBegin, PendingIsLive
<1>4. CASE ZoomEnd \/ CloseEnd
  BY <1>4 DEF ZoomEnd, CloseEnd, PendingIsLive
<1>5. CASE Paint \/ Move \/ InvalidateMap \/ (\E m \in Maps : SetBasemap(m))
           \/ (\E k \in Keys : Evict(k)) \/ UNCHANGED vars
  <2>1. UNCHANGED <<fetch_canceled_, pending_, fetch, lost>>
    BY <1>5 DEF Paint, Move, InvalidateMap, SetBasemap, Evict, vars, view, history
  <2> QED
    BY <2>1, WantsKept
<1> QED
  BY <1>1, <1>2, <1>3, <1>4, <1>5, WorkerLive DEF Next

(* Nothing stays pending that nobody is going to answer.                    *)
THEOREM PendingLive == Spec => []PendingIsLive
<1>1. Init => PendingIsLive
  BY DEF Init, PendingIsLive
<1> QED
  BY <1>1, Typing, LiveStep, PTL DEF Spec
-----------------------------------------------------------------------------
(* What makes CachedIsOwn and SavedIsOwn inductive: a fetch that base_map_  *)
(* did not change under has the key of its tile in base_map_, and an image  *)
(* that belongs to that key or that it found under a tainted one.           *)
FetchesOwn ==
  \A s \in Slots \ crossed :
    /\ fetch[s].pc \in {"load", "get", "save", "posted"} =>
         /\ fetch[s].key = TileKey(base_map_, fetch[s].tile)
         /\ fetch[s].image \in {None, fetch[s].key} \/ fetch[s].key \in tainted
    /\ fetch[s].pc = "net" => TileKey(base_map_, fetch[s].key[2]) = fetch[s].key

Own == CachedIsOwn /\ SavedIsOwn /\ FetchesOwn

(* Own is kept by a step that changes neither the caches nor base_map_, if  *)
(* each slot it changes is again as FetchesOwn wants it.                    *)
LEMMA OwnKept ==
  ASSUME TypeOK, Own, UNCHANGED <<tile_cache_, saved, tainted>>, FetchesOwn'
  PROVE  Own'
BY DEF Own, CachedIsOwn, SavedIsOwn

(* onFetchFinished keeps the images where they belong, if the image belongs *)
(* to the key, and to the key that it is saved under, or they are tainted.  *)
LEMMA FinishedOwn ==
  ASSUME TypeOK, Own, NEW k \in Keys, NEW image \in Images, Finished(k, image),
         tainted \subseteq tainted',
         image \in {None, k} \/ k \in tainted',
         base_map_ \in Async => \/ image \in {None, TileKey(base_map_, k[2])}
                                \/ TileKey(base_map_, k[2]) \in tainted'
  PROVE  CachedIsOwn' /\ SavedIsOwn'
<1>1. CachedIsOwn'
  BY DEF Finished, TypeOK, Own, CachedIsOwn
<1>2. TileKey(base_map_, k[2]) \in Keys
  BY KeyFacts DEF TypeOK
<1>3. SavedIsOwn'
  BY <1>2 DEF Finished, TypeOK, Own, SavedIsOwn
<1> QED
  BY <1>1, <1>3

(* An answer keeps the images where they belong.                            *)
LEMMA AnswerOwn ==
  ASSUME TypeOK, Own, NEW s \in Slots,
         TakePosted(s) \/ NetworkReply(s)
  PROVE  Own'
<1> DEFINE k == fetch[s].key
           b == TileKey(base_map_, k[2])
<1>1. k \in Keys /\ b \in Keys /\ fetch[s].image \in Images /\ fetch[s].tile \in Tiles
  BY KeyFacts DEF TypeOK, TakePosted, NetworkReply, Fetch
<1>2. PICK image \in Images :
        /\ Answer(s, image)
        /\ \/ fetch[s].pc = "posted" /\ image = fetch[s].image
           \/ fetch[s].pc = "net" /\ image \in {None, k}
  <2>1. k \in Images /\ None \in Images
    BY <1>1 DEF Images
  <2> QED
    BY <1>1, <2>1 DEF TakePosted, NetworkReply
<1>3. s \notin crossed => b = k /\ (image \in {None, k} \/ k \in tainted)
  <2>1. CASE fetch[s].pc = "posted"
    <3>1. s \notin crossed => /\ k = TileKey(base_map_, fetch[s].tile)
                              /\ image \in {None, k} \/ k \in tainted
      BY <1>2, <2>1 DEF Own, FetchesOwn
    <3>2. s \notin crossed => b = k
      BY <3>1 DEF TileKey
    <3> QED
      BY <3>1, <3>2
  <2>2. CASE fetch[s].pc = "net"
    BY <1>2, <2>2 DEF Own, FetchesOwn
  <2> QED
    BY <1>2, <2>1, <2>2
<1>4. tainted' = Tainted(s, k, image) \cup (IF base_map_ \in Async THEN Tainted(s, b, image) ELSE {})
  BY <1>2 DEF Answer
<1>5. tainted \subseteq tainted'
  BY <1>4 DEF Tainted
<1>6. image \in {None, k} \/ k \in tainted'
  <2>1. CASE s \in crossed
    BY <2>1, <1>4 DEF Tainted
  <2>2. CASE s \notin crossed
    BY <2>2, <1>3, <1>5
  <2> QED
    BY <2>1, <2>2
<1>7. base_map_ \in Async => image \in {None, b} \/ b \in tainted'
  <2>1. CASE s \in crossed
    BY <2>1, <1>4 DEF Tainted
  <2>2. CASE s \notin crossed
    BY <2>2, <1>3, <1>5
  <2> QED
    BY <2>1, <2>2
<1>8. CachedIsOwn' /\ SavedIsOwn'
  BY <1>1, <1>2, <1>5, <1>6, <1>7, FinishedOwn DEF Answer
<1>9. FetchesOwn'
  <2>1. /\ fetch' = [fetch EXCEPT ![s] = Free] /\ crossed' = crossed \ {s} /\ base_map_' = base_map_
    BY <1>2 DEF Answer, Ended
  <2>2. fetch'[s].pc = "free" /\ \A q \in Slots \ {s} : fetch'[q] = fetch[q]
    BY <2>1, SlotFacts DEF TypeOK
  <2> QED
    BY <2>1, <2>2, <1>5 DEF Own, FetchesOwn
<1> QED
  BY <1>8, <1>9 DEF Own

(* So does a fetcher: what it reads and writes under base_map_ is under its *)
(* own key, unless base_map_ changed.                                       *)
LEMMA WorkerOwn ==
  ASSUME TypeOK, Own, NEW s \in Slots, Worker(s)
  PROVE  Own'
<1> DEFINE f == fetch[s]
           b == TileKey(base_map_, f.tile)
<1>1. UNCHANGED <<base_map_, tile_cache_>> /\ f.pc \in WorkerPcs
  BY DEF Worker, Cancelled, Begin, LoadSaved, GetTile, SaveTile, Goes, view, WorkerPcs
<1>2. f.tile \in Tiles /\ f.key \in Keys /\ f.image \in Images /\ b \in Keys
  BY <1>1, KeyFacts DEF TypeOK, WorkerPcs, Fetch
<1>3. \A pc, key, image : LET g == At(s, pc, key, image) IN
        g.pc = pc /\ g.tile = f.tile /\ g.key = key /\ g.image = image
  BY DEF At, Slot
<1>4. ASSUME NEW pc \in {"load", "get", "save", "posted"}, NEW key, NEW image,
             fetch' = [fetch EXCEPT ![s] = At(s, pc, key, image)],
             crossed' = crossed, tainted \subseteq tainted',
             s \notin crossed => key = b /\ (image \in {None, key} \/ key \in tainted')
      PROVE  FetchesOwn'
  <2>1. /\ fetch'[s].pc = pc /\ fetch'[s].tile = f.tile
        /\ fetch'[s].key = key /\ fetch'[s].image = image
    BY <1>3, <1>4 DEF TypeOK
  <2>2. \A q \in Slots \ {s} : fetch'[q] = fetch[q]
    BY <1>4 DEF TypeOK
  <2> QED
    BY <1>1, <1>4, <2>1, <2>2 DEF Own, FetchesOwn
<1>5. CASE Cancelled(s)
  <2>1. /\ fetch' = [fetch EXCEPT ![s] = Free] /\ crossed' = crossed \ {s}
        /\ saved' = saved /\ tainted' = tainted
    BY <1>5 DEF Cancelled, Ended
  <2>2. fetch'[s].pc = "free" /\ \A q \in Slots \ {s} : fetch'[q] = fetch[q]
    BY <2>1, SlotFacts DEF TypeOK
  <2>3. FetchesOwn'
    BY <1>1, <2>1, <2>2 DEF Own, FetchesOwn
  <2> QED
    BY <1>1, <2>1, <2>3, OwnKept
<1>6. CASE Begin(s)
  <2>1. fetch' = [fetch EXCEPT ![s] = At(s, "load", b, None)] /\ UNCHANGED <<saved, crossed, tainted>>
    BY <1>6 DEF Begin
  <2> QED
    BY <1>1, <1>4, <2>1, OwnKept
<1>7. CASE LoadSaved(s)
  <2> DEFINE next == IF saved[b] = None THEN "get" ELSE "posted"
  <2>1. fetch' = [fetch EXCEPT ![s] = At(s, next, f.key, saved[b])] /\ UNCHANGED <<saved, crossed, tainted>>
    BY <1>7 DEF LoadSaved
  <2>2. s \notin crossed => f.key = b
    BY <1>7 DEF LoadSaved, Goes, Own, FetchesOwn
  <2>3. saved[b] \in {None, b} \/ b \in tainted
    BY <1>2 DEF Own, SavedIsOwn
  <2>4. next \in {"load", "get", "save", "posted"}
    OBVIOUS
  <2>5. s \notin crossed => f.key = b /\ (saved[b] \in {None, f.key} \/ f.key \in tainted')
    BY <2>1, <2>2, <2>3
  <2> QED
    BY <1>1, <1>4, <2>1, <2>4, <2>5, OwnKept
<1>8. CASE GetTile(s)
  <2> DEFINE got(image) == [fetch EXCEPT ![s] = At(s, "save", f.key, image)]
  <2>1. UNCHANGED <<saved, crossed, tainted>>
    BY <1>8 DEF GetTile
  <2>2. s \notin crossed => f.key = b
    BY <1>8 DEF GetTile, Goes, Own, FetchesOwn
  <2>3. ASSUME NEW image \in {None, b}, fetch' = got(image) PROVE FetchesOwn'
    BY <1>4, <2>1, <2>2, <2>3
  <2>4. ASSUME NEW r \in FreeSlots, fetch' = [got(None) EXCEPT ![r] = Slot("net", f.tile, b, b, None)]
        PROVE  FetchesOwn'
    <3>1. /\ r \in Slots /\ r # s
          /\ fetch'[r] = Slot("net", f.tile, b, b, None)
          /\ fetch'[s] = At(s, "save", f.key, None)
          /\ \A q \in Slots \ {r, s} : fetch'[q] = fetch[q]
      BY <1>1, <2>4 DEF TypeOK, FreeSlots, WorkerPcs
    <3>2. fetch'[r].pc = "net" /\ TileKey(base_map_, fetch'[r].key[2]) = fetch'[r].key
      BY <3>1 DEF Slot, TileKey
    <3>3. /\ fetch'[s].pc = "save" /\ fetch'[s].key = f.key /\ fetch'[s].image = None
          /\ fetch'[s].tile = f.tile
      BY <3>1, <1>3
    <3> QED
      BY <1>1, <2>1, <2>2, <3>1, <3>2, <3>3 DEF Own, FetchesOwn
  <2>5. <<base_map_, f.tile>> = b
    BY DEF TileKey
  <2>6. FetchesOwn'
    BY <1>8, <2>3, <2>4, <2>5 DEF GetTile
  <2> QED
    BY <1>1, <2>1, <2>6, OwnKept
<1>9. CASE SaveTile(s)
  <2>1. /\ f.pc = "save"
        /\ saved' = [saved EXCEPT ![b] = f.image]
        /\ fetch' = [fetch EXCEPT ![s] = At(s, "posted", f.key, f.image)]
        /\ tainted' = Tainted(s, b, f.image) /\ crossed' = crossed
    BY <1>9 DEF SaveTile, Goes
  <2>2. s \notin crossed => f.key = b /\ (f.image \in {None, f.key} \/ f.key \in tainted)
    BY <2>1 DEF Own, FetchesOwn
  <2>3. tainted \subseteq tainted' /\ (f.image \in {None, b} \/ b \in tainted')
    BY <2>1, <2>2 DEF Tainted
  <2>4. FetchesOwn'
    BY <1>4, <2>1, <2>2, <2>3
  <2>5. SavedIsOwn'
    BY <1>2, <2>1, <2>3 DEF Own, SavedIsOwn, TypeOK
  <2>6. CachedIsOwn'
    BY <1>1, <2>3 DEF Own, CachedIsOwn
  <2> QED
    BY <2>4, <2>5, <2>6 DEF Own
<1> QED
  BY <1>5, <1>6, <1>7, <1>8, <1>9 DEF Worker

(* So does a round of fetchMissing.                                         *)
LEMMA FetchMissingOwn ==
  ASSUME TypeOK, Own, NEW t \in Tiles, FetchMissing(t)
  PROVE  Own'
<1> DEFINE k == TileKey(base_map_, t)
<1>1. k \in Keys /\ TileKey(base_map_, k[2]) = k
  BY KeyFacts DEF TypeOK, TileKey
<1>2. UNCHANGED <<base_map_, crossed, tainted>>
  BY DEF FetchMissing, SkipPending, FetchSaved, RequestTile, StartFetcher, Ask, NextMissing
<1>3. CASE SkipPending(t)
  <2>1. UNCHANGED <<tile_cache_, saved, fetch>>
    BY <1>3 DEF SkipPending, caches
  <2> QED
    BY <1>2, <2>1 DEF Own, CachedIsOwn, SavedIsOwn, FetchesOwn
<1>4. CASE FetchSaved(t)
  <2>1. /\ Finished(k, saved[k]) /\ fetch' = fetch
        /\ saved[k] \in Images /\ (saved[k] \in {None, k} \/ k \in tainted)
    BY <1>1, <1>4 DEF FetchSaved, TypeOK, Own, SavedIsOwn
  <2>2. CachedIsOwn' /\ SavedIsOwn'
    BY <1>1, <1>2, <2>1, FinishedOwn
  <2> QED
    BY <1>2, <2>1, <2>2 DEF Own, FetchesOwn
<1>5. ASSUME NEW pc \in {"net", "queued"}, Ask(t, pc) PROVE Own'
  <2>1. PICK r \in FreeSlots : fetch' = [fetch EXCEPT ![r] = Slot(pc, t, k, k, None)]
    BY <1>5 DEF Ask
  <2>2. /\ fetch'[r].pc = pc /\ fetch'[r].key = k
        /\ \A q \in Slots \ {r} : fetch'[q] = fetch[q]
    BY <2>1 DEF TypeOK, FreeSlots, Slot
  <2>3. FetchesOwn'
    BY <1>1, <1>2, <2>2 DEF Own, FetchesOwn
  <2>4. UNCHANGED <<tile_cache_, saved>>
    BY <1>5 DEF Ask, caches
  <2> QED
    BY <1>2, <2>3, <2>4, OwnKept
<1> QED
  BY <1>3, <1>4, <1>5 DEF FetchMissing, RequestTile, StartFetcher

(* Every step keeps the images where they belong.  A change of base_map_    *)
(* makes every fetch under way an exception.                                *)
LEMMA OwnStep == TypeOK /\ Own /\ [Next]_vars => Own'
<1> SUFFICES ASSUME TypeOK, Own, [Next]_vars PROVE Own'
  OBVIOUS
<1>1. ASSUME NEW m \in Maps, SetBasemap(m) PROVE Own'
  <2>1. /\ UNCHANGED <<tile_cache_, saved, fetch, tainted>>
        /\ \A s \in Slots \ crossed' : fetch[s].pc = "free"
    BY <1>1 DEF SetBasemap, FreeSlots, caches
  <2>2. FetchesOwn'
    BY <2>1 DEF FetchesOwn
  <2> QED
    BY <2>1, <2>2, OwnKept
<1>2. CASE InvalidateMap \/ (\E k \in Keys : Evict(k))
  <2>1. UNCHANGED <<base_map_, saved, fetch, crossed, tainted>>
    BY <1>2 DEF InvalidateMap, Evict, view, history
  <2>2. \A k \in Keys : tile_cache_'[k] \in {None, tile_cache_[k]}
    BY <1>2 DEF InvalidateMap, Evict, TypeOK
  <2> QED
    BY <2>1, <2>2 DEF Own, CachedIsOwn, SavedIsOwn, FetchesOwn
<1>3. CASE Paint \/ ZoomBegin \/ ZoomEnd \/ Move \/ CloseBegin \/ CloseEnd \/ UNCHANGED vars
  <2>1. UNCHANGED <<base_map_, tile_cache_, saved, fetch, crossed, tainted>>
    BY <1>3 DEF Paint, ZoomBegin, ZoomEnd, Move, CloseBegin, CloseEnd, vars, view, caches, history
  <2> QED
    BY <2>1 DEF Own, CachedIsOwn, SavedIsOwn, FetchesOwn
<1> QED
  BY <1>1, <1>2, <1>3, AnswerOwn, WorkerOwn, FetchMissingOwn DEF Next

(* At the start nothing is cached, saved or fetched.                        *)
LEMMA InitOwn == Init => Own
BY SlotFacts DEF Init, Own, CachedIsOwn, SavedIsOwn, FetchesOwn

(* What is drawn for a tile of a map is that tile of that map, but for the  *)
(* fetches that a change of the map overtakes.                              *)
THEOREM Cached == Spec => []CachedIsOwn
<1>1. Own => CachedIsOwn
  BY DEF Own
<1> QED
  BY <1>1, InitOwn, OwnStep, Typing, PTL DEF Spec

(* And so it is in the persistent cache.                                    *)
THEOREM Saved == Spec => []SavedIsOwn
<1>1. Own => SavedIsOwn
  BY DEF Own
<1> QED
  BY <1>1, InitOwn, OwnStep, Typing, PTL DEF Spec
-----------------------------------------------------------------------------
(* Whatever takes a pixmap or a pending_ entry away from a tile in the      *)
(* window, or puts the tile there, calls update() or closes the widget.     *)
LEMMA DrawnStep == TypeOK /\ DrawnOrOnTheWay /\ [Next]_vars => DrawnOrOnTheWay'
<1> SUFFICES ASSUME TypeOK, DrawnOrOnTheWay, [Next]_vars PROVE DrawnOrOnTheWay'
  OBVIOUS
<1>1. CASE Paint
  BY <1>1 DEF Paint, DrawnOrOnTheWay, Drawn, caches
<1>2. ASSUME NEW t \in Tiles, FetchMissing(t) PROVE DrawnOrOnTheWay'
  <2>1. /\ UNCHANGED <<base_map_, visible>> /\ missing' = missing \ {t}
        /\ gui # "closed"
    BY <1>2 DEF FetchMissing, SkipPending, FetchSaved, RequestTile, StartFetcher, Ask, NextMissing
  <2>2. CASE FetchSaved(t)
    BY <2>2 DEF FetchSaved, Finished, DrawnOrOnTheWay
  <2>3. CASE SkipPending(t) \/ Ask(t, "net") \/ Ask(t, "queued")
    <3>1. /\ UNCHANGED <<dirty, tile_cache_>>
          /\ pending_ \subseteq pending_' /\ TileKey(base_map_, t) \in pending_'
      BY <2>3 DEF SkipPending, Ask, caches
    <3> QED
      BY <2>1, <3>1 DEF DrawnOrOnTheWay, Drawn
  <2> QED
    BY <1>2, <2>2, <2>3 DEF FetchMissing, RequestTile, StartFetcher
<1>3. ASSUME NEW s \in Slots, Worker(s) PROVE DrawnOrOnTheWay'
  <2>1. UNCHANGED <<view, tile_cache_, pending_>>
    BY <1>3 DEF Worker, Cancelled, Begin, LoadSaved, GetTile, SaveTile, Goes
  <2> QED
    BY <2>1 DEF DrawnOrOnTheWay, Drawn, view
<1>4. ASSUME NEW s \in Slots, TakePosted(s) \/ NetworkReply(s) PROVE DrawnOrOnTheWay'
  BY <1>4 DEF TakePosted, NetworkReply, Answer, Finished, DrawnOrOnTheWay
<1>5. CASE ZoomEnd \/ Move \/ InvalidateMap \/ (\E m \in Maps : SetBasemap(m))
  BY <1>5 DEF ZoomEnd, Move, InvalidateMap, SetBasemap, DrawnOrOnTheWay
<1>6. ASSUME NEW k \in Keys, Evict(k) PROVE DrawnOrOnTheWay'
  <2>1. /\ UNCHANGED <<view, pending_>>
        /\ \A t \in visible : k # TileKey(base_map_, t)
        /\ tile_cache_' = [tile_cache_ EXCEPT ![k] = None]
    BY <1>6 DEF Evict
  <2>2. \A t \in visible : Drawn(t)' = Drawn(t)
    BY <2>1 DEF Drawn, view, TypeOK
  <2> QED
    BY <2>1, <2>2 DEF DrawnOrOnTheWay, view
<1>7. CASE ZoomBegin \/ CloseBegin \/ UNCHANGED vars
  <2>1. /\ UNCHANGED <<base_map_, visible, dirty, missing, tile_cache_, pending_>>
        /\ gui' = "closed" => gui = "closed"
        /\ gui = "closed" => gui' = "closed"
    BY <1>7 DEF ZoomBegin, CloseBegin, vars, view, caches
  <2> QED
    BY <2>1 DEF DrawnOrOnTheWay, Drawn
<1>8. CASE CloseEnd
  BY <1>8 DEF CloseEnd, DrawnOrOnTheWay
<1> QED
  BY <1>1, <1>2, <1>3, <1>4, <1>5, <1>6, <1>7, <1>8 DEF Next

(* Every tile in the window is drawn or on the way.                         *)
THEOREM DrawnOrComing == Spec => []DrawnOrOnTheWay
<1>1. Init => DrawnOrOnTheWay
  BY DEF Init, DrawnOrOnTheWay
<1> QED
  BY <1>1, Typing, DrawnStep, PTL DEF Spec
=============================================================================
