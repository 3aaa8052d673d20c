# Verification of maplite

maplite is a set of C++ programs that make, serve and view offline maps in the
mapsforge format.  This directory holds TLA+ models of the parts of it that have
state shared by threads, callbacks, processes or files, the TLC configurations
that check them, and TLAPS proofs of their central properties.  All source paths
below are relative to the repository.

`PROJECT.json` lists the components, the runs, the code each definition
translates, the mutants that show each property can fail, the findings, the
hazards and the theorems.

| Model | Component | Proofs |
|---|---|---|
| `LruCache`, `MemoTable` | LRU cache | `LruCache_proofs` |
| `TileServer` | HTTP server core | `TileServer_proofs` |
| `FsTileCache` | tile cache of the server | `FsTileCache_proofs` |
| `RequestParser` | request parser | `RequestParser_proofs` |
| `TileFetch` | tile fetching of the viewer | `TileFetch_proofs` |
| `LibraryTree` | overlay library: folders, collections, panel | `LibraryTree_proofs` |
| `OverlayStore` | overlay library: overlays, transactions, spatial index | `OverlayStore_proofs` |
| `MapTools` | map tools, undo, overlay cache | `MapTools_proofs` |
| `MapFile` | map file writer and reader | |

The modules `MC...` give values to constants that a configuration cannot hold.

## 1. The system

| Component | State it keeps | Operations | Interacts with |
|---|---|---|---|
| LRU cache (`src/util/cache.hpp`) | usage list, map, byte count, under a mutex | `fetch`, `insert`, `remove`, `clear`, `evict` | map file reader (decoded base tiles, shared by worker threads), map widget (overlays) |
| HTTP server core (`src/server/server.cpp`, `connection*.cpp`, `io_service_pool.cpp`) | acceptor, sockets, set of connections, one io_service and thread each | accept, read, reply, stop, signal | clients, request handlers |
| Server tile cache and mapsforge handler (`src/server/fs_tile_cache.cpp`, `mapsforge_tile_request_handler.cpp`) | files and their modification times, an open map | `handle_request`, `load`, `save` | map file, file system, renderer |
| Request parser, request, reply (`src/server/request_parser.cpp`, `http_parser.c`, `reply.cpp`) | parser state of one connection | `parse`, callbacks, `decode_message`, `encode_file_data` | connection |
| Handler factory, assets, dispatcher (`src/server/map_server_handler_factory.cpp`, ...) | tables of handlers | configuration, `create`, `matches` | connection |
| Viewer tile fetching (`src/viewer/map_widget.cpp`, tile providers) | current map, pixmap cache, pending keys, thread pool, cancel flag | paint, fetch, answer, zoom, scroll, change of map, close | thread pool, network, persistent cache |
| Persistent tile cache (`src/viewer/tile_cache.cpp`) | SQLite table, byte count | `load`, `save`, `evict` | tile fetching |
| Overlay library (`src/viewer/map_overlay_manager.cpp`, `overlay_library_panel.cpp`) | folders, collections, memberships, overlays, triggers; a spatial index beside the database; a tree in memory | add, move, delete, check, copy, write, update | map widget, import |
| Map tools (`src/viewer/map_tool.cpp`) | the object being drawn or edited, what the pointer touches, an undo stack for each tool | mouse and key handlers, undo, redo | map widget, overlay library |
| Map file reader and writer (`src/io/`) | file layout: sub-files, index of base tiles, sea flag | `readTile`, `write` | LRU cache, converter |
| OSM converter (`src/convert/`) | node, way and relation stores; tag filter rules | passes over the input, ring assembly, rule evaluation | map file writer |
| Renderer (`src/renderer/`) | none between calls but resource caches | `render`, collision check | tile handlers |
| GL rendering loop, raster tiles (`src/util/queue.hpp`, `src/server/gl_*`, `raster_*`) | job queue | `push`, `pop`, `stop` | their request handlers are not in the build |

How they meet: a client connects to the *server core*; its *parser* yields a
request; the *factory* picks a handler; the *mapsforge handler* asks the *tile
cache*, else reads the map through the *LRU cache* and renders.  In the viewer
the *map widget* paints from its pixmap cache; what is missing goes to the
thread pool or the network, with the *persistent cache* in between; overlays
come through another LRU cache from the *overlay library*.

What makes this hard to test, by kind (each with its line under "hazards"):

- *threads without locks*: the set of connections, `base_map_` of the widget;
- *answers out of date*: tiles fetched for a map or zoom that has changed;
- *time stamps*: a map replaced between the test of a file and its use;
- *partial writes*: a full disk, a killed process, a database half written;
- *bookkeeping*: the LRU list against its map, `pending_` against the fetchers,
  the database against the spatial index and against the tree on the screen, the
  copies of an object in its undo commands, byte offsets in a map file;
- *cuts*: a request that arrives in reads cut anywhere;
- *shutdown*: connections accepted, and fetchers queued, while it goes on.

## 2. The models

### LruCache, MemoTable

`LruCache` is `Cache<key, value>` with the names of its members.  Each public
call is one action, except a `fetch` that misses: `FetchMiss` takes the mutex and
starts the loader, `FetchInsert` or `LoaderThrows` ends it, because the object
behind the cache may change meanwhile (`Edit`).  A value is the version of that
object.  `evict` drops one record only, `clear` does not reset `size_`, and
`remove` reads an iterator out of an erased node: it works if the allocator
leaves the memory alone (`RemoveKey`) or faults (`RemoveFaults`).  `Asserts` says
whether the build has assertions.

`MemoTable` is the abstract promise: a table that may forget entries at any time,
takes an entry only at the version the object has had since the last
invalidation, and loses an invalidated key.  `LruCache` implements it with
`table <- Table`.

### TileServer

One io_service per thread; the signal set is on service 0, the acceptor on the
next, all sockets on the one after (`Services`, `SignalService`, ...).  The
handlers of a service are serial, those of different services overlap.  A handler
is cut at each access to something shared: `pc[s]` says where the handler of
service `s` is.  Accesses to the set `connections_` are intervals (`Enter`,
`Leave`), since no lock protects it; when two overlap the set becomes arbitrary
and the process may crash (`raced`, `RaceCrashes`).  `Complete`, `Connect`,
`AcceptFails` and `Signal` are the outside.  A request parses, needs more,
fails, finds a handler, none, or makes `create` throw (`TileRequestHandler::matches`
reads past a short path).

### RequestParser

`http_parser_execute` for requests, state by state with the names of http_parser.c
(`StartReq`, `Method`, `Url`, `Version`, `Field`, `Value`, `ChunkSize`, ...), with
the callbacks of `RequestParser` and `parse()` around it.  The input is a sequence
of atoms: a delimiter, a digit, a letter, or half of a word the parser compares
with, so that reads may cut a word.  `HandleRead` takes a read of any length up to
`MaxRead`, or all that is left; `Feed` is one turn of the loop of the automaton and
`Execute` the loop over a read.  The C code marks where a name, a value, the URL or
the body begins and hands over what it has at the end of a read; the model hands
over each atom, which the callbacks append to the same members.
`MaxHeader` counts atoms in place of bytes, `MaxLength` stands for `ULLONG_MAX`.
Some messages are also sent with any one atom replaced (`Garbled`).  What
`is_complete_` holds before the first parse is a choice, as nothing sets it.

The client is outside the code: a message is a record of its parts, `Serialized`
lays it out, and `WellFormed` says which records are requests (of `Atoms`, any
set): a url that `parse_url_char` takes, a version of up to three digits and a
dot and digits, names and values without the delimiters that end them, `chunked`
as the only transfer encoding, a body framed as its headers say, and no header
that takes the place of an earlier one (the code stores one value for a name).
Four digits stand for all, and a chunk holds one or two atoms, so that its size is
one digit.  `WithinLimits` says when a request must be taken: the head and the
trailers fit into `MaxHeader`, and the length is one digit, which no
`MaxLength` refuses.  TLC evaluates `WellFormed` on the messages of the run.

### FsTileCache

Times and versions: `mtimes` has the modification times of the versions of the map
file, the last of which has its name; `opened` is the version the server opened at
start.  `handle_request` is cut at each call that reads or changes a file: reading
the time, `load`, rendering, the test in `save` with the opening of the file, the
write, `last_write_time`, the reply.  The operator may replace the map at any moment
by a file of any time up to now, of the same second or earlier too, whether the
server runs on or is restarted.  `Faults` says what else may happen: `kill`, the
process is killed anywhere; `full`, a write stores a part; `file`, a file cannot be
opened, read or dated, or its directories cannot be made.  `save()` tests neither
the opening nor the write: with no stream open (`~strm`) `Write` does nothing and
`Stamp` dates the file that is there, or throws if there is none (`StampThrows`).
The other calls throw, and the client gets a stock reply (`Throws`).

Three histories: `own`, the content in hand was rendered from the version whose time
the request read, or found in a file that is not astray; `astray`, the files that do
not carry, as the time of their map, the time of the map they show; `cut`, a write
was cut short.

### TileFetch

The widget with its caches and fetchers.  A slot of `fetch` is a fetcher from
`start` to the handling of its answer, or a network request.  `TileFetcher::run`
is cut at each read of `base_map_`: key, saved tile, image, key to save under.
The GUI thread is in its event loop, in the loop of `fetchMissing`, or waiting
for the pool in `zoom(int)` or `cleanup`.  `Evict` is the pixmap cache dropping a
tile out of the window.  `SetBasemap` does not wait for anything, as in the code;
the history variables `crossed`, `tainted` and `lost` record which fetches it
overtook, so that the properties can say exactly what that costs.

The unsynchronised reads of the shared pointer find the old or the new provider;
both are kept alive by the list of maps, so no other outcome is modelled.  A
network provider connects its signal once for each time it is chosen, so an
answer may be handled twice in a row; the second time changes nothing.

### LibraryTree

`db` has the rows of folders and collections, the ids given out
(AUTOINCREMENT) and the triggers that exist; `folders`, `items` and `pending` are
the nodes of the panel: the model loads collections when a folder is expanded
(`FetchMore`), makes a moved node anew (`MoveFolder`, `MoveCollection`), and
checks nodes by walking what is loaded (`Checked`).  `FolderVisibility` is the
list of states the database goes through in `setFolderVisibility`, one for each
statement; a process may be killed between any two (`Killed`).  `Updated` applies
the triggers, which fire each other only while `recursive` is set: in the session
that created the database.  `looped`, `emptied`, `twice` and `misread` record what
the known weak spots have touched: a folder moved below itself, nodes emptied by a
move, collections shown twice, and rows that `deleteItem` missed because it reads
a node it has just freed.

GUI handlers are atomic with respect to each other (one thread); names, icons and
the order of rows are left out; a second view of the tree is not modelled.

### OverlayStore

The overlays themselves: `db` is what the connection sees, `disk` what is
committed, `tx` whether a transaction is open, `index` the R-tree in memory and
`saved` its file.  `SQLite::Transaction` has no destructor, so one left by an
exception stays open: `DeleteOverlays` always ends so, because its second
statement is malformed.  `Write` and `WriteFails` are `write()` with all rows, or
with an INSERT that throws and the commit of what came before.
`DeleteCollections` is `deleteItem` for one collection or all those of a folder;
`KilledInDelete` stops after one of its statements.  `Close` writes the index and
loses an open transaction; after `Killed` the index file is what it was, or has
been written since, or is unreadable and replaced by an empty one.  The R-tree is
a set of pairs: an entry stored twice counts once.

### MapTools

`tool`, `mouse` and `active` are the current tool, the button that is down and
the undo stack of the group that Ctrl-Z goes to.  `object`, `editing`, `stack`,
`index`, `touch` and `extending` belong to the drawing and the editing tool.  Each
undo command has a copy of the object, as the code makes one
(`OverlayEditUndoCommand`), and `Applied`/`Undone` are its `redo` and `undo` by
node number.  The pointer has no coordinates: what it touches, and what
`findNearest` returns, is any possibility.  `overlay` and `cache` are
`current_overlay_` and `overlay_cache_` of the widget, `rows` the stored overlays.
`crashed` says that a command addressed a node that does not exist; the model
stops there.

Open lines stand for all shapes; a press is followed by its release before
another button; `object_modified_`, which is never initialised, is taken as true;
the edit tool gets a move of the pointer before its first press.  `setTool` resets
the flags of the tool that is left as well, which nobody reads before `init` of that
tool resets them.

### MapFile

The file is a sequence of cells: one for a fixed-width number, a string, a flag
byte or a signature, and as many as the encoding takes for a variable-length
number, so that every offset matters.  `Write` computes the whole file from a
data base: header, tag tables by frequency, the table of sub-files, for each
sub-file the space for the index, then the tiles (`WriteTileData`: counts per zoom
level, points, ways in the shorter of the two encodings), then the index written
back.  `Open` and `ReadTile` walk over the cells as `MapFileReader` does: clamp the
zoom level, choose the sub-file, compute the range of base tiles from the tile and
its neighbours, and decode each.  An elevation (`ele`) is a text in the data base, a
variable-length number in the file and the text of that number in the tile; layers
are converted too.  `Number` is `safe_stoi`: the whole number the text begins with
(`Stoi`), 0 if there is none; `std::out_of_range`, for the texts in `TooLarge`, is not
caught and ends `write()` (`WriteThrows`).  `Half`, `SeaBit`, `IntRange` and `TagRange`
are the widths of the format, small in the instance.  The layer of a point without
one is uninitialised (`layer`), and the property says nothing of it.

The data base answers by bounding box and zoom (`InZoom`, `Enlarged`); its geometry
comes back clipped and simplified, so places are just integers on a grid.

## 3. What is checked

Safety unless said otherwise; every property has a mutant of the code that breaks it.
The questions about one module that fit one instance share a run.

| Run | Question | Bounds |
|---|---|---|
| `LruCache` | list and map agree, bytes are accounted for, the least recently used record goes, no stale value after `remove`/`clear`, `MemoTable` is implemented | 2 threads, 3 keys, costs 0 to 2, capacity 3 (values that are free, that fit, that fit after one eviction), one change of each object, `size_` up to 4 |
| `TileServer` | no connection forgotten, registry exact, one reply, only a shutdown cuts replies, at most one connection escapes it; *liveness*: failed connections are released, a signal ends all threads | the pool of 4 that the program uses, 2 connections (one in a handler or waiting, one being accepted) and a signal |
| `TileServer_stop` | finding, see section 5: a connection is left open by a server that has stopped | the pool of 4, 1 connection |
| `FsTileCache` | old tiles hidden and responses current, but for files astray; never an empty tile, damage only after a cut write | 2 tiles, 3 ticks, 3 versions: a map made before, during and after a request, all faults |
| `FsTileCache_dated` | finding, see section 5: an old tile with the time of the new map | the same without faults |
| `TileFetch` | images under their own keys, nothing pending without a fetch, nothing in the window forgotten; *liveness*: what stays in the window gets drawn | 2 tiles in 2 views, a map file and a network map, 2 slots, 3 commands of the user or the pixmap cache |
| `LibraryTree` | nothing stored is out of reach, the panel shows what is stored and all of it, check marks agree with visibility, a check mark changes exactly what it should | 3 folders (a parent, a child and a grandchild or sibling of the root folder's), 2 collections, 5 commands, restarts and kills among them |
| `LibraryTree_cascade` | finding, see below | 3 folders, 1 collection, 5 commands |
| `OverlayStore` | the index agrees with the rows, every overlay is reachable, ids are not used twice | 2 boxes, 3 overlays, 2 collections, 5 commands: write, copy, paste, delete and a session end in one behaviour |
| `MapTools` | undo is linear, the overlay cache follows the table, edits survive a click elsewhere | an overlay of two nodes and a second one drawn, 2 commands on the undo stacks, any number of mouse events |
| `RequestParser` | what is accepted is what was sent; the cut of the reads never matters | 17 requests (folded, empty and repeated headers, chunks with trailers, upgrade, CONNECT, pipelined, header limit, overflowing length), 3 of them with any one atom replaced by any of 7; reads of 1 to 6 atoms or all |
| `MapFile` | the reader returns for every tile what the data base has there | one and two sub-files, debug signatures or not, 3 data bases with elevations whole, cut, no number and out of range, points, lines, a polygon with a hole, labels and odd tags; all tiles of 5 zoom levels, with and without neighbours |

Why the bounds are enough: in each concurrent model actors interact in pairs (two
threads on the mutex; a handler with the stop or the accept handler; a request
with one replacement of the map and the next; a fetcher with the GUI thread), and
the bounds give every pair with one more to interfere.  In `LibraryTree` and
`OverlayStore` a fault needs a command that makes something, one that copies or
moves it, one that goes wrong, an end of the session, and one that meets what was
left; 5 commands hold all of these.  In `MapTools` one command lets a stack be
undone and redone, a second one makes order matter.  In `RequestParser` a read of 6
atoms and the cuts of shorter reads before it put a cut, or several, at every
place.  In `MapFile` the smaller widths make numbers take one, two and three
cells, offsets included.  `MaxSize`, `MaxVersion`, `MaxTime`, `MaxVersions`, `MaxCommands`,
`MaxFolders`, `MaxCollections`, `MaxOverlays`, `MaxEdits`, `MaxRows`, `MaxRead` and
`Slots` are the named bounds in guards.

Fairness.  In `TileServer`, a running handler continues, and the signal set and the
acceptor, each alone on its service, get their handlers run (weak fairness); a
completed operation of a connection is handled in the end (strong fairness: the
queue of an io_service is first in, first out, but its thread may be busy with
another connection whenever one looks).
Nothing is assumed of clients, of the network or of signals.  In `TileFetch`, the
GUI thread comes to a paint and to each posted call, the pool runs what is
queued, and a request is answered or fails: weak fairness, which is enough as the
bound `MaxCommands` lets the user be busy for a while only.  `FairSpec` asks
nothing of the user.  The other models have no liveness: what they do next is up
to a user or a client.

Deadlock is checked in the models of the cache and the server; the viewer's end when the
user stops or the bounds are reached, the parser's at the end of the input, and
`MapFile` after one tile (`readTile` seeks before it reads and leaves nothing for
the next call but the cache, which is `LruCache`).

## 4. What is proved

Every theorem holds for all values of the constants.

**LruCache** (`LruCache_proofs`). The inductive invariant `IInv` says: types
without the byte count; the list has no duplicates and has the elements of the
map; it is ordered by `usedAfter`; whoever loads holds the mutex, and the key it
loads is missing; versions lie between the last invalidation and now. The mutex
conjunct is what makes the rest inductive: `FetchInsert` appends a key, and
without it the key might have been recorded since the miss. Lemmas on sequences
(`EraseNode`, `PushBack`, `PopFront`) state what `splice`, `insert` and
`pop_front` do to a duplicate-free ordered list. Results: `TrackerMatches`,
`Recency`, `EvictsLRU`, `Fresh`, and `Implements` (refinement of `MemoTable`).

`Accounting` adds what `size_` is: never less than the costs of what is retained,
and exactly that until `clear` is called. The sum is a fold over the set of keys
in an arbitrary order, so the lemmas before it show that the order does not
matter: a function on the subsets of the keys that adds element by element exists
(`SumsUpToExist`, by induction on the number of elements), taking any element
first gives the same (`SumsAnyOrder`), so recording a key adds its cost and
erasing one subtracts it (`TotalOfLess`, `RetainedIsTotal`). Both inductions name
the set of the numbers, or of the finite sets, for which the claim holds and show
that nothing is outside it (`Counting`, `Shrinking`).

**FsTileCache** (`FsTileCache_proofs`). `Typing`, `NeverEmpty` and `WholeTiles`;
the last one holds because, as long as no write was cut, only the
file that is being saved may hold a part of a tile (`WholeInv`). `OldHidden` and
`Current` hold with all faults, for maps of any times, however often they are
replaced and whether the server is restarted or not. Their invariant adds to the
types: a file that is not astray and not being saved has the time of the map it
shows (`FilesDated`); a request carries the time of the version it found
(`RequestDated`); what is its own is of a map of no earlier time
(`ContentOfRequest`), also in the response (`ResponseDated`). Files astray and
servers with another version open cannot be left out of the claims: see section 5.

**TileFetch** (`TileFetch_proofs`). All four safety properties and the types.
`PendingIsLive` and `DrawnOrOnTheWay` are inductive beside `TypeOK`, which is
therefore stated with what they need: a blank slot is asked for nothing, and
fetching is cancelled only while the widget zooms or closes. `CachedIsOwn` and
`SavedIsOwn` need each other (a saved image is drawn, a fetched one is saved) and
`FetchesOwn`: a fetch that no change of map overtook carries the key of its tile
in `base_map_` and an image of that key, or one found under a tainted key.

**TileServer** (`TileServer_proofs`), for any number of connections and any pool
size; the three services coincide or not. `Served` follows one connection: fresh,
then with a handler and an outstanding operation by turns; a handler has its
connection to itself. It holds whatever a data race does to `connections_`, and
gives `OpenIsServed`, `OneReply` and `OnlyStopCutsReplies`. `Registry` is about
the executions without a data race: at most one handler is inside `connections_`;
what is open is registered, but for what is going in or was just taken out; what
is registered is open, but for what `stop_all` has closed and not yet forgotten;
after `stop_all` at most the connection being accepted is left. It gives
`RegistryExact` and `AtMostOneEscapes`. `StoppedCleanly` is false for pools of
more than one, the program's among them (section 5).

**OverlayStore** (`OverlayStore_proofs`). All four properties: `Typing`,
`IndexInStep`, `StaysReachable`, `FreshIds`. The inductive invariant has five
parts. `Shape` is the type invariant. `Ids`: no id above the last one given out is
on the clipboard or, unless the index has diverged, in the index (the types say it
of rows and memberships); from it follow fresh ids, and it keeps an overlay that
is written from meeting an entry left by another. `IndexAgrees` is inductive with
these. Reachability is stated of `db` and of `disk`: the end of a session makes
the committed tables the visible ones, so what holds of the tables on the screen
must hold of those on the disk as well; `WriteFails` and the deletions extend the
exceptions before they break it. The lemmas state what the three statements of
`deleteCollection` leave (`CollectionSteps`) and what `Inserted` adds.

**LibraryTree** (`LibraryTree_proofs`). All properties of the run, for any number
of folders, collections and commands: `Typing`, `TreeIsWhole` (`NoOrphans`),
`NodesStandForRows` (`ShownIsStored`), `RowsAreShown` (`StoredIsShown`),
`MarksAgree` and the action property `ExactToggles`. `NoOrphans` speaks of all
that is below the root: the least set closed under children. Instead of an
induction the lemmas name a closed set and use that `Below` is contained in it
(`BelowLeast`). The properties are not inductive by themselves. A panel that shows
what is stored may still hold a node whose parent is gone, which the next deletion
would then miss: `Closed` (a node's folder is shown) and `Hung` (the folders shown
hang from `root_` without a gap) exclude that. `Twice` says that only collections
on record have two nodes, else a deletion would leave the other one behind. And in
the session that created the database no trigger is left, which is when the check
marks agree. The conjuncts are predicates of a database and a set of nodes, so
that `AddCollectionTree`, which is two insertions, cites the lemma of each.

**MapTools** (`MapTools_proofs`), for overlays of any number of nodes:
`LinearUndo`, `FreshCache` (`CacheIsStored`), `KeptEdits` and `Typing`.
`UndoIsLinear` becomes inductive when each command on a stack leads from one
content to the next, done or undone, whatever was undone since (`Leads`,
`Chained`), and when it can be undone whatever the tool holds (`Reversible`). That
rests on lemmas about sequences: each of the six commands is undone by its inverse
(`FrontOfAppend` and those that follow it). `CacheIsStored` needs
`SavesBehindCache`: the object in the editing tool is as stored, or is the current
overlay and not in the cache, whenever the tool may save it; this in turn holds
because the pointer enters the map before it is pressed and Ctrl-Z cannot reach
the stack of the drawing tool any more.

**RequestParser** (`RequestParser_proofs`). `CutsAreImmaterial`, for any messages,
any atom in place of another, any limits and any reads. Both sides are folds, over
the atoms of a read and over the stream read one by one; `RunStep` states, once
for both, that a fold over one more atom is one more turn. `Outcome` says what an
atom makes of a parser inside a message, handler by handler: it goes on, fails,
pauses behind the message, or pauses behind the headers, the last one never once
the body has begun. The proof then follows a read atom by atom. `First` relates
the fold and the stream read one by one up to where the automaton stops, `Second`
does so for the second run of `parse()` over what is left. The invariant is
`Agreed`: between reads both have the same parser and verdict, but for two cases
that `First` and `Second` bring up: an error behind the headers, which both
parsers hold and one may not have told yet, and nothing but ends of line read so
far, where `is_complete_` may differ. The guards of each CASE of the model exclude
each other: where they overlap, TLA+ leaves the value open, whatever TLC makes of
it, and nothing can be proved.

`WhatWasSentIsParsed`: `ParsesWhatWasSent` for any set of well-formed messages,
of any number of headers, chunks and trailers, with bodies of any length.  By
`CutsAreImmaterial`'s invariant it is enough to follow the stream read one atom at
a time (`ReadAtomwise`), and that is followed along what was sent, section by
section.  `Reads(sure, q, data, r)` says that reading `data` takes the parser from
`q` to `r`, or that it is refused where nothing promises the contrary (`sure` is
`WithinLimits`); `ReadsOn` joins two sections.  One lemma takes each section:
`LeadRead`, `MethodRead`, `UrlRead` (the automaton is where `parse_url_char`, folded
over the url, says it is), `VersionRead`, `NameRead`, `ValueRead`, `HeaderRead`,
`LinesRead`, `HeadersEnd`, `BodyRead`, `ChunksRead`, `TrailersRead`.  The headers
need an invariant of their own along the lines, `Between`: the pair of the last line
is not stored before the next one starts; a header without a value leaves its name to
be glued to the next; and every pair that is to be delivered is stored or held,
because no later one takes its place (`NoneReplaced`; with glued names this is what
`Glued` is about).  The flags and the length that the lines leave decide how the
body is read, and `FramedAs` shows that this is how it was sent.  `HeadRead` and
`MessageRead` put the sections together, and `PrefixRead` goes from the whole
message to any part of the stream: what is not all there is not accepted
(`Ends` says that the verdict comes with the last atom), and what stands behind the
message changes nothing.

The inductions are over the number of atoms, headers or chunks.  What is sent is
built by `FlattenSeq`, a fold; `FlattensExists` and `FoldsExists` name its beginnings
as functions of their number, so that each induction is over naturals (`Counting`).

Assumptions. Each constant is assumed to be of its kind only (sets of numbers,
positive capacities, values that stand for nothing outside the sets they stand
beside); `WellFormedAssumption` and `MessagesAssumption` say that what a client sends
is a well-formed request and a sequence of atoms. TLC evaluates all of them.

Model-checked only: the liveness properties (fairness and ENABLED are out of the
prover's reach), and `ReadsWhatIsStored` of `MapFile`. Its writer and reader are
built from operators that take operators (`Each(Cells(_), seq)`, `ReadEach(Read(_), n,
at)`), nested four deep. A lemma that each is the inverse of the other would have to
take an operator as a parameter, which the provers cannot instantiate; without it
the induction would have to be repeated for every use.
The runs `TileServer_stop`, `FsTileCache_dated` and `LibraryTree_cascade` are expected to
fail.

The type invariants of `TileServer`, `FsTileCache` and `TileFetch` are in no run;
they are theorems.

## 5. Findings and observations

`TileServer_stop`: the connection manager is there so that connections "may be cleanly
stopped when the server needs to shut down" (`connection_manager.hpp:19-20`).  The
accept handler tests `is_open()` (`server.cpp:61`) on the thread of the second
io_service; `handle_stop`, on the first, may close the acceptor, stop all
connections and stop the pool between that test and the start of the connection,
which is then registered and still open when every thread has returned.  No data race
is needed for it.  More than one connection cannot escape (`AtMostOneEscapes`).

`FsTileCache_dated`: "since we do not store timestamps per tile we use the
modification time of the tileset" (`mapsforge_tile_request_handler.cpp:74`).  The time
is that of the file that has the name now, the tile is rendered from the file opened
at start.  When the map is replaced under the running server, tiles of the old map are
sent and saved with the time of the new one, and the cache takes them for current
also when the server has been restarted.

`LibraryTree_cascade`: `setFolderVisibility` is to "update recursively child
folders and collections" (`map_overlay_manager.cpp:1097`), which takes
`PRAGMA recursive_triggers`.  The pragma is a property of the connection and is
set only when the database is created (line 44), so after a restart hiding a folder
changes its subfolders and its own collections, and nothing below.  The property
asks for no more than a database without triggers; the trace makes a collection in a
subfolder, restarts, and hides the root: the subfolder is hidden, its collection is
not.

Seen while modelling; the models have these behaviours, and the properties are
stated with them as named exceptions:

- LRU cache: `evict` asserts that it is never called when the cache is empty, but
  a first value above the capacity calls it so; `evict` drops one record only, so
  the cache exceeds its "Maximum bytes to retain".
- Server: "once all operations have finished" (`server.cpp:91`) does not hold, since the
  io_services are stopped with handlers queued.
- Server tile cache: when `save` cannot open the file, the tile that is there gets the
  time of the new map and is served, or `last_write_time` throws and the tile that was
  rendered is not sent; a process killed between the write and `last_write_time`
  leaves the time of the write; times count whole seconds, so a tile of a map replaced
  within the second, or by an older file, counts as current.
- Request parser: `is_complete_` is read before it is set if a read ends in the
  empty lines before a request; the name of a header with an empty value is glued
  to the next name; the last trailer is not delivered; an error behind the headers
  in the read that ends them is reported by the next read.
- Viewer: a change of map under running fetchers mixes up tiles until the caches
  are cleared and leaves keys pending until the next zoom.
- Overlay library: the DELETE of `deleteOverlaysFromCollection` is malformed and
  leaves its transaction open, so that what follows is lost at the end of the
  session, and the next BEGIN throws; `moveFolder` lets a folder vanish below
  itself; `deleteItem` reads a freed node.
- Map tools: deleting the last node and then dragging or undoing before the pointer
  moves addresses a node that is gone (`crashed`); a move of the pointer between the
  press that leaves an overlay and its release loses its edits (`left`); a double
  click of the right button with nothing drawn dereferences a null pointer; an
  undone and redone drawing is stored a second time.
- Map file: the loop of `readTile` compares an `int` with an unsigned number, so a
  tile of the first row or column of the world read with its neighbours is empty
  (`Around`); the sea flag of the index is truncated to zero by an `int`, and the
  writer inverts it, so no tile is ever read as sea; a tag with an empty value or a
  "=" in it is lost; more than 15 tags overflow a four-bit count; a zoom level in
  none of the intervals falls back to the first sub-file; a layer outside -5 to 10
  wraps; an elevation loses what follows its whole number ("951.5" is read as "951"),
  one that is no number is read as "0", and one out of range ends the conversion
  (`WriteThrows`).

## 6. Not modelled, and assumptions

- Rendering, geometry, text, parsing of OSM, KML, GPX and XML: pure computation
  over real numbers and strings, abstracted to its result or left out.  It is most
  of the code outside vendored libraries.
- The OSM converter: a sequential program whose passes are SQL of SpatiaLite and
  rules in Lua or generated parsers; what it leaves is the input of `MapFile`.
- The persistent tile cache is a plain table in `TileFetch`: `evict` never deletes
  anything (its statement is malformed), so sizes have no effect; creation times
  are left out.
- The GL loop and the raster tiles: their request handlers are not in the build.
- One server process per cache directory; maps are replaced by rename;
  once a file is open, reading it does not fail halfway.  Loss of data that the system had not flushed is out.
- Network answers are images, failures or null; redirects only delay them.
- Theme and style changes of a map: `onThemeChanged` leaves the key unchanged, so
  saved tiles of the old theme are shown; the model's image has no theme.
- `RequestParser`: responses, upper and lower case, the Connection headers (the
  server never consults them), a second message on one parser (the server closes
  the connection), decoding of URLs, cookies and multipart bodies.
- `MapFile`: `readTiles`, subtile masks, `exportTileDataOSM`, rounding of floats,
  clipping and simplification; a crash during writing, which nothing detects, and what
  a reader makes of the half file that `WriteThrows` leaves; a map
  whose west or south edge is the very edge of the world, which would get a tile
  column of -1.
- `MapTools`: popups, styles, closed shapes, the zoom tool, two buttons at once.
- Vendored code: `3rdparty`, `spatialindex` (a set of entries in `OverlayStore`),
  `minizip`, SVG; only the request automaton of `http_parser.c` is translated, as
  the server depends on what its callbacks see.

## 7. What is left

All eight models with state shared by threads, callbacks or reads have their proofs,
and every safety property of their runs is a theorem.  In order of weight:

1. Index arithmetic of `MapFile` (`TileAt` inverts the index of a tile; `Grown`
   contains what it should), stated without the recursive encoding.
2. An abstract specification of the overlay library as a forest with visibility, and
   `LibraryTree` shown to implement it while none of its exceptions has occurred.
3. `RequestParser` with a second message on one parser, should the server ever keep
   its connections open.
