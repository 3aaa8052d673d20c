----------------------------- MODULE FsTileCache -----------------------------
(***************************************************************************)
(* Tiles of one mapsforge tile set and their files in the tile cache:      *)
(* MapsforgeTileRequestHandler and FileSystemTileCache.                    *)
(*                                                                         *)
(* The server opens the map file once, when it starts, and keeps it open;  *)
(* each request looks at the modification time of the file that has its    *)
(* name now, and tiles are dated by it.  Requests are served one at a time *)
(* (see TileServer), but between two calls of a request the map may be     *)
(* replaced by a rename, by a file of any age and of the same second too,  *)
(* and the clock moves on.  save() tests neither whether the file could be *)
(* opened nor whether the bytes were written; the other calls of the file  *)
(* system throw.                                                           *)
(*                                                                         *)
(* The contents of a tile are the version of the map they were rendered    *)
(* from and how much of it is there.  Not modelled: a disabled cache (no   *)
(* root), several processes on one cache, loss of data that the system had *)
(* not written to disk.                                                    *)
(***************************************************************************)
EXTENDS Integers, Sequences

CONSTANTS Tiles,       \* tiles that are requested
          NoTile,      \* "no request"
          MaxTime,     \* bound of the clock
          MaxVersions, \* bound: versions of the map
          Faults       \* what may go wrong

ASSUME NoTileAssumption == NoTile \notin Tiles
ASSUME MaxTimeAssumption == MaxTime \in Nat
ASSUME MaxVersionsAssumption == MaxVersions \in Nat

(* kill: the process is killed at any point; full: a write stores only a   *)
(* part; file: a file of the cache cannot be opened or dated, or its       *)
(* directories cannot be made.                                             *)
ASSUME FaultsAssumption == Faults \subseteq {"kill", "full", "file"}

VARIABLES now,      \* the clock, in seconds, as modification times
          mtimes,   \* the modification times of the versions of the map file
          opened,   \* the version the server has open, 0 if it does not run
          pc,       \* where handle_request is
          tile,     \* the tile that is requested
          mod_time, \* the local variable of handle_request
          content,  \* the local variable content
          strm,     \* the stream of save() is open
          file,     \* the files of the cache
          resp,     \* the last response
          (* history *)
          asked,    \* version of the map file when mod_time was read
          own,      \* content was rendered from that version, or found in a
                    \* file that is not astray
          astray,   \* tiles whose file has not got the time it has as the
                    \* time of the map it was rendered from
          cut       \* a write was cut short

outside == <<now, mtimes, opened>>
request == <<tile, mod_time, asked>>
vars == <<outside, pc, request, content, strm, file, resp, own, astray, cut>>

map == Len(mtimes)    \* the version that has the name of the map file

Contents == [part: {"absent", "empty", "partial", "whole"}, version: Nat]
Nothing == [part |-> "absent", version |-> 0]
Whole(v) == [part |-> "whole", version |-> v]
Written(part) == [content |-> [part |-> part, version |-> content.version], mtime |-> now]
NoResponse == [content |-> Nothing, mod_time |-> 0, own |-> TRUE]

Times ==
  /\ now \in Nat
  /\ mtimes \in Seq(Nat) /\ map >= 1
  /\ \A v \in 1 .. map: mtimes[v] <= now

(* Type invariant: every variable has its type, no time lies in the future,*)
(* a tile is worked on exactly while a request is, and a file is open only *)
(* in save().                                                              *)
TypeOK ==
  /\ Times
  /\ opened \in 0 .. map
  /\ pc \in {"idle", "load", "render", "save", "write", "stamp", "reply"}
  /\ pc # "idle" => opened # 0
  /\ tile \in Tiles \cup {NoTile}
  /\ (tile = NoTile) <=> (pc = "idle")
  /\ mod_time \in 0 .. now
  /\ asked \in 0 .. map
  /\ content \in Contents
  /\ strm \in BOOLEAN
  /\ strm => pc \in {"write", "stamp"}
  /\ file \in [Tiles -> [content: Contents, mtime: 0 .. now]]
  /\ resp \in [content: Contents, mod_time: Nat, own: BOOLEAN]
  /\ own \in BOOLEAN
  /\ astray \subseteq Tiles
  /\ cut \in BOOLEAN

Init ==
  /\ now = 1
  /\ mtimes = <<1>>
  /\ opened = 0
  /\ pc = "idle"
  /\ tile = NoTile
  /\ mod_time = 0
  /\ asked = 0
  /\ content = Nothing
  /\ strm = FALSE
  /\ file = [t \in Tiles |-> [content |-> Nothing, mtime |-> 0]]
  /\ resp = NoResponse
  /\ own = TRUE
  /\ astray = {}
  /\ cut = FALSE

-----------------------------------------------------------------------------
(* The outside. *)

Tick ==
  /\ now < MaxTime
  /\ now' = now + 1
  /\ UNCHANGED <<mtimes, opened, pc, request, content, strm, file, resp, own, astray, cut>>

(* A file that was made some time ago takes the name of the map file. *)
ReplaceMap ==
  /\ map < MaxVersions
  /\ \E m \in 1 .. now: mtimes' = Append(mtimes, m)
  /\ UNCHANGED <<now, opened, pc, request, content, strm, file, resp, own, astray, cut>>

(* The constructor of the handler opens the map. *)
Start ==
  /\ opened = 0
  /\ opened' = map
  /\ UNCHANGED <<now, mtimes, pc, request, content, strm, file, resp, own, astray, cut>>

EndRequest ==
  /\ pc' = "idle"
  /\ tile' = NoTile
  /\ content' = Nothing
  /\ strm' = FALSE
  /\ UNCHANGED <<now, mtimes, mod_time, asked, own>>

(* A signal lets the handler that runs finish (see TileServer). *)
Stop ==
  /\ opened # 0 /\ pc = "idle"
  /\ opened' = 0
  /\ EndRequest
  /\ UNCHANGED <<file, resp, astray, cut>>

(* A process that is killed in save() leaves what it has written so far,   *)
(* with the time it was written at.                                        *)
Crash ==
  /\ "kill" \in Faults /\ opened # 0
  /\ opened' = 0
  /\ EndRequest
  /\ astray' = IF strm THEN astray \cup {tile} ELSE astray
  /\ \/ ~(strm /\ pc = "write") /\ UNCHANGED <<file, cut>>
     \/ /\ strm /\ pc = "write"
        /\ cut' = TRUE
        /\ \E part \in {"empty", "partial"}: file' = [file EXCEPT ![tile] = Written(part)]
  /\ UNCHANGED resp

-----------------------------------------------------------------------------
(* MapsforgeTileRequestHandler::handle_request.                            *)

(* last_write_time(tileset_), of the file there is now *)
Receive(t) ==
  /\ pc = "idle" /\ opened # 0
  /\ tile' = t
  /\ mod_time' = mtimes[map]
  /\ asked' = map
  /\ pc' = "load"
  /\ UNCHANGED <<outside, content, strm, file, resp, own, astray, cut>>

(* The file does not exist, or is older than the time given. *)
TileIsNewer(f, time) == f.content.part = "absent" \/ time > f.mtime

(* mutant: whatever the file holds is taken for the tile *)
BugTrustsFile ==
  /\ pc = "load"
  /\ IF TileIsNewer(file[tile], mod_time)
     THEN pc' = "render" /\ UNCHANGED <<content, own>>
     ELSE pc' = "reply" /\ content' = file[tile].content /\ own' = (tile \notin astray)
  /\ UNCHANGED <<outside, request, strm, file, resp, astray, cut>>

(* load() returns nothing for a tile that is missing or old, or cannot be  *)
(* read; the handler takes a tile that is empty for a missing one.         *)
Load ==
  /\ pc = "load"
  /\ \/ /\ \/ TileIsNewer(file[tile], mod_time)
           \/ file[tile].content.part = "empty"
           \/ "file" \in Faults
        /\ pc' = "render"
        /\ UNCHANGED <<content, own>>
     \/ /\ ~TileIsNewer(file[tile], mod_time)
        /\ file[tile].content.part # "empty"
        /\ pc' = "reply"
        /\ content' = file[tile].content
        /\ own' = (tile \notin astray)
  /\ UNCHANGED <<outside, request, strm, file, resp, astray, cut>>

Render ==
  /\ pc = "render"
  /\ content' = Whole(opened)
  /\ own' = (opened = asked)
  /\ pc' = "save"
  /\ UNCHANGED <<outside, request, strm, file, resp, astray, cut>>

(* readTile() or the renderer throws, or a call of the file system in      *)
(* load() or save(): the client gets a stock reply.                        *)
Throws ==
  /\ pc = "render" \/ (pc \in {"load", "save"} /\ "file" \in Faults)
  /\ EndRequest
  /\ UNCHANGED <<opened, file, resp, astray, cut>>

(* save() tests again and opens the file, which truncates it, if it can.   *)
Save ==
  /\ pc = "save"
  /\ \/ /\ ~TileIsNewer(file[tile], mod_time)
        /\ pc' = "reply"
        /\ UNCHANGED <<strm, file>>
     \/ /\ TileIsNewer(file[tile], mod_time)
        /\ pc' = "write"
        /\ strm' = TRUE
        /\ file' = [file EXCEPT ![tile] = Written("empty")]
     \/ /\ TileIsNewer(file[tile], mod_time) /\ "file" \in Faults
        /\ pc' = "write"
        /\ strm' = FALSE
        /\ UNCHANGED file
  /\ UNCHANGED <<outside, request, content, resp, own, astray, cut>>

(* mutant: one write may not take all the bytes *)
BugShortWrite ==
  /\ pc = "write"
  /\ IF strm THEN \E part \in {"whole", "partial"}: file' = [file EXCEPT ![tile] = Written(part)]
             ELSE UNCHANGED file
  /\ pc' = "stamp"
  /\ UNCHANGED <<outside, request, content, strm, resp, own, astray, cut>>

(* The bytes reach the file at the latest when the stream is closed; a     *)
(* failure is not noticed, and with no file open nothing is done.          *)
Write ==
  /\ pc = "write"
  /\ \/ ~strm /\ UNCHANGED <<file, cut>>
     \/ /\ strm
        /\ \E part \in {"whole"} \cup IF "full" \in Faults THEN {"empty", "partial"} ELSE {}:
             /\ file' = [file EXCEPT ![tile] = Written(part)]
             /\ cut' = (cut \/ part # "whole")
  /\ pc' = "stamp"
  /\ UNCHANGED <<outside, request, content, strm, resp, own, astray>>

Stamped(time) ==
  /\ file' = [file EXCEPT ![tile] = [content |-> @.content, mtime |-> time]]
  /\ astray' = IF strm /\ own THEN astray \ {tile} ELSE astray \cup {tile}
  /\ pc' = "reply"
  /\ strm' = FALSE
  /\ UNCHANGED <<outside, request, content, resp, own, cut>>

(* mutants: the file keeps the time it was written at, or gets the time the *)
(* map has by now                                                           *)
BugNoStamp == pc = "stamp" /\ Stamped(file[tile].mtime)
BugStampsAgain == pc = "stamp" /\ Stamped(mtimes[map])

(* last_write_time(fp, t): the file gets the time of the map it is to show, *)
(* whether it was written or not.                                           *)
Stamp == pc = "stamp" /\ file[tile].content.part # "absent" /\ Stamped(mod_time)

(* It throws when there is no file; what was written keeps the time of the *)
(* write.                                                                  *)
StampThrows ==
  /\ pc = "stamp"
  /\ file[tile].content.part = "absent" \/ "file" \in Faults
  /\ EndRequest
  /\ astray' = IF strm THEN astray \cup {tile} ELSE astray
  /\ UNCHANGED <<opened, file, resp, cut>>

Reply ==
  /\ pc = "reply"
  /\ resp' = [content |-> content, mod_time |-> mod_time, own |-> own]
  /\ EndRequest
  /\ UNCHANGED <<opened, file, astray, cut>>

-----------------------------------------------------------------------------
HandleRequest == Load \/ Render \/ Throws \/ Save \/ Write \/ Stamp \/ StampThrows \/ Reply

Next ==
  \/ Tick \/ ReplaceMap \/ Start \/ Stop \/ Crash
  \/ \E t \in Tiles: Receive(t)
  \/ HandleRequest

Spec == Init /\ [][Next]_vars

-----------------------------------------------------------------------------
BeingSaved(t) == tile = t /\ strm

(* Replacing the map hides the tiles made from maps of an earlier time,    *)
(* also those that a request is still saving when the map is replaced,     *)
(* because save() gives them the time the map had when the request came: a *)
(* file that is not older than the map shows the map, or one whose time is *)
(* not earlier either (times tell no more; they count whole seconds).  The *)
(* exceptions are the files known to be astray: rendered from a map that   *)
(* was replaced while the server had it open, dated although they could    *)
(* not be opened, or not dated because the process was killed or           *)
(* last_write_time threw.  Each is so until the file is saved again.       *)
OldTilesHidden ==
  \A t \in Tiles:
    /\ ~BeingSaved(t) /\ t \notin astray
    /\ ~TileIsNewer(file[t], mtimes[map])
    => mtimes[file[t].content.version] >= mtimes[map]

(* A response shows a map that is not of an earlier time than the one it   *)
(* carries, that of the map when the request came, whether it comes from   *)
(* the cache or from the renderer and whatever becomes of the map          *)
(* meanwhile: "since we do not store timestamps per tile we use the        *)
(* modification time of the tileset" (mapsforge_tile_request_handler.cpp). *)
(* It does not if it was found in a file that is astray, or rendered by a  *)
(* server that had another version open.                                   *)
ServesCurrent ==
  resp # NoResponse /\ resp.own => mtimes[resp.content.version] >= resp.mod_time

(* Unless a write was cut short, the cache holds and serves whole tiles,   *)
(* whatever happens to the map and wherever else the process ends: "Tile   *)
(* cache stores tile images" (fs_tile_cache.hpp).                          *)
WholeUnlessCut ==
  ~cut => /\ resp # NoResponse => resp.content.part = "whole"
          /\ \A t \in Tiles: ~BeingSaved(t) => file[t].content.part \in {"absent", "whole"}

(* Whatever is cut short or full, a client never gets an empty tile:       *)
(* handle_request renders a tile again whose file is empty.                *)
NeverServesEmpty == resp.content.part # "empty"

(* "since we do not store timestamps per tile we use the modification time *)
(* of the tileset" (mapsforge_tile_request_handler.cpp:74): the time a     *)
(* response carries is that of the map it shows.                           *)
DatedByItsMap ==
  resp # NoResponse => mtimes[resp.content.version] = resp.mod_time
=============================================================================
