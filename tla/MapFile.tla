------------------------------ MODULE MapFile ------------------------------
(***************************************************************************)
(* The map file: MapFileWriter lays the points and the ways of a data base *)
(* out in sub-files, tiles and zoom levels, and MapFileReader must find    *)
(* them again from the key of a tile (io/mapsforge_map_writer.cpp,         *)
(* mapsforge_map_reader.cpp, serializer.cpp).                              *)
(*                                                                         *)
(* The file is a sequence of cells: one for a fixed number, a string, a    *)
(* flag byte (as the set of its flags) or a signature, and as many as the  *)
(* encoding takes for a variable length number, so that every offset has   *)
(* to be right.  Places are in units, Unit of them to a tile of MaxZoom;   *)
(* y grows to the north, and rows of tiles count from the north.  Clipping *)
(* and simplification are left to the data base; the rounding of floats    *)
(* is left out.                                                            *)
(***************************************************************************)
EXTENDS Integers, Sequences, FiniteSets, SequencesExt, FiniteSetsExt

CONSTANTS
  Databases,   \* records of pois and ways (two sequences)
  Layouts,     \* records of box, conf (zoom_interval_conf_), options, debug_
  OddTags,     \* the tags whose value is empty or holds a "="
  Stoi,        \* what std::stoi makes of the texts it finds a number in
  TooLarge,    \* the texts it throws out_of_range for
  Layers,      \* what `layer' of writePOIData may hold before it is set
  MaxZoom, Unit,
  Buffer,      \* bbox_enlargement_
  Half,        \* 0x40, half of what one byte of a variable length number holds
  TagRange,    \* 16, what the four bits of the number of tags hold
  SeaBit,      \* 0x8000000000, the sea flag of an index entry
  IntRange,    \* 2^32, what an int keeps of an index entry
  Offsets      \* the widths of the border readTile() is asked for

ASSUME StoiAssumption == DOMAIN Stoi \intersect TooLarge = {}
ASSUME WidthAssumption ==
  Half \in Nat \ {0} /\ SeaBit \in Nat /\ IntRange \in Nat \ {0} /\ SeaBit % IntRange = 0

VARIABLES
  db, layout, layer,   \* what is written, and the uninitialised layer
  file,                \* the cells of the map file
  aborted,             \* an exception has left write()
  reader,              \* what open() made of it
  query, result        \* the last tile asked for, and what was read

vars == <<db, layout, layer, file, aborted, reader, query, result>>
written == <<db, layout, layer>>

None == [none |-> TRUE]
Radix == 2 * Half

(* A value that what follows refers to: what is read next starts where it  *)
(* ended.                                                                  *)
With(x, Result(_)) == Result(x)

-----------------------------------------------------------------------------
(* The tile pyramid (tms.cpp, TileKey).                                    *)
Span(z) == Unit * 2 ^ (MaxZoom - z)
Flip(z, y) == 2 ^ z - y - 1
Bounds(x, y, z) ==
  [w |-> x * Span(z), e |-> (x + 1) * Span(z),
   s |-> Flip(z, y) * Span(z), n |-> (Flip(z, y) + 1) * Span(z)]
Origin(x, y, z) == LET b == Bounds(x, y, z) IN <<b.n, b.w>>
Intersects(a, b) == a.w < b.e /\ a.e > b.w /\ a.s < b.n /\ a.n > b.s
Enlarged(b) == [w |-> b.w - Buffer, e |-> b.e + Buffer, s |-> b.s - Buffer, n |-> b.n + Buffer]

(* The tile of a coordinate; one on a border belongs to the tile before it. *)
TileIndex(c, z) == -((-c) \div Span(z)) - 1
(* tilesWithinBounds(), converted to rows from the north                   *)
TileRange(box, z) ==
  [minx |-> TileIndex(box.w, z), maxx |-> TileIndex(box.e, z),
   miny |-> Flip(z, TileIndex(box.n, z)), maxy |-> Flip(z, TileIndex(box.s, z))]
Columns(r) == r.maxx - r.minx + 1
TileCount(r) == Columns(r) * (r.maxy - r.miny + 1)
TileAt(r, k) == <<r.minx + (k % Columns(r)), r.miny + (k \div Columns(r))>>

-----------------------------------------------------------------------------
(* MapFileOSerializer                                                      *)
VarUint[v \in Nat] ==
  IF v < Radix THEN <<v>> ELSE <<Radix + (v % Radix)>> \o VarUint[v \div Radix]
Magnitude[v \in Nat, sign \in {0, Half}] ==
  IF v < Half THEN <<v + sign>> ELSE <<Radix + (v % Radix)>> \o Magnitude[v \div Radix, sign]
VarInt(v) == IF v < 0 THEN Magnitude[-v, Half] ELSE Magnitude[v, 0]
Each(Cells(_), seq) == FlattenSeq([i \in DOMAIN seq |-> Cells(seq[i])])
Counted(Cells(_), seq) == VarUint[Len(seq)] \o Each(Cells, seq)

(* A stream of cells written at a position, which may lie beyond its end.  *)
Put(f, at, cells) ==
  [i \in 1..Max({Len(f), at + Len(cells)}) |->
     IF i \in (at + 1)..(at + Len(cells)) THEN cells[i - at]
     ELSE IF i <= Len(f) THEN f[i] ELSE 0]

(* The tables of tags: position in them is what is written for a tag.      *)
TagTable(objects) == SetToSeq(UNION {ToSet(o.tags) : o \in ToSet(objects)})
TagIndex(table, tag) == CHOOSE i \in DOMAIN table : table[i] = tag
PoiTags == TagTable(db.pois)
WayTags == TagTable(db.ways)

Signature == IF layout.debug THEN <<"signature">> ELSE <<>>
TagFlag(o, l) == <<<<Len(o.tags) % TagRange, (l + 5) % 16>>>>
Tags(o, table) == Each(LAMBDA t : VarUint[TagIndex(table, t) - 1], o.tags)
Texts(o, kinds) == Each(LAMBDA k : IF k \in DOMAIN o.texts THEN <<o.texts[k]>> ELSE <<>>, kinds)
PoiTexts == <<"name", "addr:housenumber">>
WayTexts == <<"name", "addr:housenumber", "ref">>
(* safe_stoi() takes what is no number for 0, see WriteThrows for the rest. *)
Number(text) == IF text \in DOMAIN Stoi THEN Stoi[text] ELSE 0
Layer(o, unset) == IF o.layer = {} THEN unset ELSE Number(CHOOSE l \in o.layer : TRUE)
Delta(place, orig) == VarInt(place[1] - orig[1]) \o VarInt(place[2] - orig[2])

WritePOI(p, orig) ==
  Signature \o Delta(p.place, orig) \o
  TagFlag(p, Layer(p, layer)) \o
  Tags(p, PoiTags) \o <<DOMAIN p.texts>> \o Texts(p, PoiTexts) \o
  (IF "ele" \in DOMAIN p.texts THEN VarInt(Number(p.texts["ele"])) ELSE <<>>)

(* The nodes of a line as differences to the one before, and as the        *)
(* differences of these.                                                   *)
Minus(a, b) == <<a[1] - b[1], a[2] - b[2]>>
SingleDelta(line, orig) ==
  [i \in DOMAIN line |-> Minus(line[i], IF i = 1 THEN orig ELSE line[i - 1])]
DoubleDelta(line, orig) ==
  LET d == SingleDelta(line, orig)
  IN  [i \in DOMAIN d |-> IF i <= 2 THEN d[i] ELSE Minus(d[i], d[i - 1])]
(* The blocks of a way with the deltas that encoding makes of their lines. *)
EncodedBlocks(blocks, deltas) ==
  Each(LAMBDA b : Counted(LAMBDA line :
         Counted(LAMBDA d : VarInt(d[1]) \o VarInt(d[2]), deltas[line]), b), blocks)
(* encode_data(): the shorter of the two                                   *)
EncodedData(blocks, orig) ==
  LET lines == UNION {ToSet(b) : b \in ToSet(blocks)}
      single == EncodedBlocks(blocks, [l \in lines |-> SingleDelta(l, orig)])
      double == EncodedBlocks(blocks, [l \in lines |-> DoubleDelta(l, orig)])
  IN  IF Len(single) < Len(double) THEN [double |-> FALSE, bytes |-> single]
      ELSE [double |-> TRUE, bytes |-> double]

(* the length of what follows, and then that                               *)
Sized(bytes) == VarUint[Len(bytes)] \o bytes

WayFlags(way, data) ==
  DOMAIN way.texts \union (IF way.label = <<>> THEN {} ELSE {"label"})
    \union (IF Len(way.blocks) > 1 THEN {"blocks"} ELSE {})
    \union (IF data.double THEN {"double"} ELSE {})
WayBytes(way, orig, cflag, data) ==
  <<"subtile_mask">> \o
  TagFlag(way, Layer(way, 0)) \o
  Tags(way, WayTags) \o <<cflag>> \o Texts(way, WayTexts) \o
  (IF "label" \in cflag THEN Delta(way.label, orig) ELSE <<>>) \o
  (IF "blocks" \in cflag THEN VarUint[Len(way.blocks)] ELSE <<>>) \o
  data.bytes
WriteWay(way, orig) ==
  With(EncodedData(way.blocks, orig), LAMBDA data :
    Signature \o Sized(WayBytes(way, orig, WayFlags(way, data), data)))

(* fetchTileData(): what the data base finds in the tile, per zoom level   *)
InZoom(o, sub) == o.minz <= sub.max /\ o.maxz >= sub.min
Level(o, sub) == Max({o.minz, sub.min}) - sub.min + 1
PerLevel(objects, box, sub) ==
  [i \in 1..(sub.max - sub.min + 1) |->
     SelectSeq(objects, LAMBDA o : Intersects(o.mbr, box) /\ InZoom(o, sub) /\ Level(o, sub) = i)]

WriteTileData(t, sub) ==
  LET box == Bounds(t[1], t[2], sub.base)
      orig == Origin(t[1], t[2], sub.base)
      pois == PerLevel(db.pois, box, sub)
      ways == PerLevel(db.ways, Enlarged(box), sub)
  IN  Signature \o
      FlattenSeq([i \in DOMAIN pois |-> VarUint[Len(pois[i])] \o VarUint[Len(ways[i])]]) \o
      Sized(Each(LAMBDA os : Each(LAMBDA o : WritePOI(o, orig), os), pois)) \o
      Each(LAMBDA os : Each(LAMBDA o : WriteWay(o, orig), os), ways)

IsSea(t, sub) ==
  LET box == Bounds(t[1], t[2], sub.base)
      ways == FlattenSeq(PerLevel(db.ways, Enlarged(box), sub))
  IN  FlattenSeq(PerLevel(db.pois, box, sub)) = <<>> /\ Len(ways) = 1 /\
      "natural=sea" \in ToSet(ways[1].tags)

(* The header.  Offsets and sizes of the sub-files are filled in later.    *)
OptionCells == <<<<"start", "start_lat">>, <<"start", "start_lon">>, <<"zoom", "start_zoom">>,
                 <<"lang", "language">>, <<"comment", "comment">>, <<"creator", "created_by">>>>
Flags == layout.options \union (IF layout.debug THEN {"debug"} ELSE {})
MapInfo ==
  LET b == layout.box
  IN  <<0, b.s, b.w, b.n, b.e, Flags>> \o
      Each(LAMBDA o : IF o[1] \in Flags THEN <<o[2]>> ELSE <<>>, OptionCells)
TagList(table) == <<Len(table)>> \o table
SubFileInfo == <<Len(layout.conf)>> \o
               Each(LAMBDA sub : <<sub.base, sub.min, sub.max, 0, 0>>, layout.conf)
Header ==
  LET h == <<"mapsforge binary OSM", 0>> \o MapInfo \o TagList(PoiTags) \o TagList(WayTags) \o
           SubFileInfo
  IN  Put(h, 1, <<Len(h) - 1>>)

(* writeSubFiles(): room for the index, the tiles, then the index and the  *)
(* entry of the sub-file in the table.  The flag says that a tile is not   *)
(* sea.                                                                    *)
WriteSubFile(f, n, table) ==
  LET sub == layout.conf[n]
      r == TileRange(layout.box, sub.base)
      tiles == [k \in 1..TileCount(r) |-> TileAt(r, k - 1)]
      start == Len(Signature) + TileCount(r)
  IN  With([k \in DOMAIN tiles |-> WriteTileData(tiles[k], sub)], LAMBDA data :
        LET place[k \in 0..Len(data)] ==
              IF k = 0 THEN start ELSE place[k - 1] + Len(data[k])
            index == [k \in DOMAIN tiles |->
                        place[k - 1] + IF IsSea(tiles[k], sub) THEN 0 ELSE SeaBit]
            body == Put(f, Len(f), Signature \o [k \in DOMAIN tiles |-> 0] \o FlattenSeq(data))
            entry == Put(body, table + 3 + 5 * (n - 1), <<Len(f), place[Len(data)]>>)
        IN  Put(entry, Len(f) + Len(Signature), index))

Written ==
  LET table == Len(Header) - 5 * Len(layout.conf)
  IN  With(FoldLeft(LAMBDA g, n : WriteSubFile(g, n, table), Header,
                    [n \in DOMAIN layout.conf |-> n]), LAMBDA f :
        Put(f, 2, <<Len(f)>>))

-----------------------------------------------------------------------------
(* MapFileISerializer: what is read at a position, and the position after. *)
Cell(at) == file[at + 1]
ReadVarUint[at \in Nat] ==
  IF Cell(at) < Radix THEN [v |-> Cell(at), at |-> at + 1]
  ELSE LET r == ReadVarUint[at + 1] IN [v |-> Cell(at) - Radix + Radix * r.v, at |-> r.at]
ReadMagnitude[at \in Nat] ==
  IF Cell(at) < Radix
  THEN [v |-> Cell(at) % Half, neg |-> Cell(at) >= Half, at |-> at + 1]
  ELSE LET r == ReadMagnitude[at + 1]
       IN  [v |-> Cell(at) - Radix + Radix * r.v, neg |-> r.neg, at |-> r.at]
ReadVarInt(at) ==
  With(ReadMagnitude[at], LAMBDA r : [v |-> IF r.neg THEN -r.v ELSE r.v, at |-> r.at])
ReadEach(Read(_), n, at) ==
  FoldLeft(LAMBDA acc, i : With(Read(acc.at), LAMBDA r : [v |-> Append(acc.v, r.v), at |-> r.at]),
           [v |-> <<>>, at |-> at], [i \in 1..n |-> i])
ReadCounted(Read(_), at) ==
  With(ReadVarUint[at], LAMBDA n : ReadEach(Read, n.v, n.at))
ReadCell(at) == [v |-> Cell(at), at |-> at + 1]
ReadPair(at) ==
  With(ReadVarInt(at), LAMBDA a :
    With(ReadVarInt(a.at), LAMBDA b : [v |-> <<a.v, b.v>>, at |-> b.at]))

Plus(a, b) == <<a[1] + b[1], a[2] + b[2]>>
SumUp(deltas, orig) ==
  [i \in DOMAIN deltas |->
     FoldLeft(LAMBDA acc, d : Plus(acc, d), orig, SubSeq(deltas, 1, i))]
(* A second difference that starts from the first one, as it looks it should. *)
BugUndouble(deltas) ==
  [i \in DOMAIN deltas |-> FoldLeft(LAMBDA acc, d : Plus(acc, d), <<0, 0>>, SubSeq(deltas, 1, i))]
(* readWayNodesDoubleDelta(): the first difference stands for itself       *)
Undouble(deltas) ==
  [i \in DOMAIN deltas |->
     IF i = 1 THEN deltas[1]
     ELSE FoldLeft(LAMBDA acc, d : Plus(acc, d), <<0, 0>>, SubSeq(deltas, 2, i))]

Skip(r) == IF r.debug THEN 1 ELSE 0
(* decode_key_value(): a value that is empty or holds a "=" loses the tag  *)
Decoded(tag) == IF tag \in OddTags THEN "" ELSE tag
ReadTags(table, n, at) ==
  ReadEach(LAMBDA a : LET i == ReadVarUint[a] IN [v |-> Decoded(table[i.v + 1]), at |-> i.at], n, at)
ReadTexts(kinds, cflag, at) ==
  With(SelectSeq(kinds, LAMBDA k : k \in cflag), LAMBDA present :
    With(ReadEach(ReadCell, Len(present), at), LAMBDA cells :
      [v |-> [k \in ToSet(present) |-> cells.v[CHOOSE i \in DOMAIN present : present[i] = k]],
       at |-> cells.at]))

(* an elevation is a number in the file and the text of it in the tile     *)
ReadEle(cflag, at) ==
  IF "ele" \notin cflag THEN [v |-> <<>>, at |-> at]
  ELSE With(ReadVarInt(at), LAMBDA n : [v |-> "ele" :> ToString(n.v), at |-> n.at])

ReadPOI(r, orig, at) ==
  With(ReadPair(at + Skip(r)), LAMBDA place :
  With(Cell(place.at), LAMBDA tflag :
  With(ReadTags(r.poi_tags, tflag[1], place.at + 1), LAMBDA tags :
  With(ReadTexts(PoiTexts, Cell(tags.at), tags.at + 1), LAMBDA texts :
  With(ReadEle(Cell(tags.at), texts.at), LAMBDA ele :
    [v |-> [place |-> Plus(orig, place.v), tags |-> tags.v, texts |-> ele.v @@ texts.v,
            layer |-> tflag[2] - 5],
     at |-> ele.at])))))

ReadBlocks(n, cflag, orig, at) ==
  With(ReadEach(LAMBDA a : ReadCounted(LAMBDA b : ReadCounted(ReadPair, b), a), n, at), LAMBDA lines :
    [v |-> [i \in DOMAIN lines.v |->
              [j \in DOMAIN lines.v[i] |->
                 SumUp(IF "double" \in cflag THEN Undouble(lines.v[i][j]) ELSE lines.v[i][j], orig)]],
     at |-> lines.at])

(* readWays(): one way for every block, with the tags of all.              *)
ReadWays(r, orig, at) ==
  With(ReadVarUint[at + Skip(r)], LAMBDA size :
  With(Cell(size.at + 1), LAMBDA tflag :
  With(ReadTags(r.way_tags, tflag[1], size.at + 2), LAMBDA tags :
  With(Cell(tags.at), LAMBDA cflag :
  With(ReadTexts(WayTexts, cflag, tags.at + 1), LAMBDA texts :
  With(IF "label" \in cflag THEN ReadPair(texts.at) ELSE [v |-> <<>>, at |-> texts.at], LAMBDA label :
  With(IF "blocks" \in cflag THEN ReadVarUint[label.at] ELSE [v |-> 1, at |-> label.at], LAMBDA count :
  With(ReadBlocks(count.v, cflag, orig, count.at), LAMBDA blocks :
    [v |-> [i \in DOMAIN blocks.v |->
              [tags |-> tags.v, texts |-> texts.v, layer |-> tflag[2] - 5, block |-> blocks.v[i],
               label |-> IF label.v = <<>> THEN <<>> ELSE Plus(orig, label.v)]],
     at |-> blocks.at]))))))))

ReadCounts(at) ==
  With(ReadVarUint[at], LAMBDA p :
    With(ReadVarUint[p.at], LAMBDA w : [v |-> <<p.v, w.v>>, at |-> w.at]))
(* as many objects for every level as were counted: k is 1 for the points, *)
(* 2 for the ways                                                          *)
ReadLevels(Read(_), counts, k, at) ==
  FoldLeft(LAMBDA acc, n : With(ReadEach(Read, n[k], acc.at), LAMBDA o :
                             [v |-> Append(acc.v, o.v), at |-> o.at]),
           [v |-> <<>>, at |-> at], counts)
ReadTileData(r, sub, t, offset) ==
  With(Origin(t[1], t[2], sub.base), LAMBDA orig :
  With(ReadEach(ReadCounts, sub.max - sub.min + 1, sub.offset + offset + Skip(r)), LAMBDA counts :
  With(ReadVarUint[counts.at], LAMBDA way_offset :
    [pois |-> ReadLevels(LAMBDA a : ReadPOI(r, orig, a), counts.v, 1, way_offset.at).v,
     ways |-> ReadLevels(LAMBDA a : ReadWays(r, orig, a), counts.v, 2,
                         way_offset.at + way_offset.v).v])))

-----------------------------------------------------------------------------
(* MapFileReader::open()                                                   *)
OpenedSubFile(at, box, debug) ==
  LET base == Cell(at)
      range == TileRange(box, base)
      start == Cell(at + 3) + IF debug THEN 1 ELSE 0
  IN  [base |-> base, min |-> Cell(at + 1), max |-> Cell(at + 2), offset |-> Cell(at + 3),
       range |-> range, index |-> [k \in 1..TileCount(range) |-> Cell(start + k - 1)]]

Opened ==
  LET box == [s |-> Cell(3), w |-> Cell(4), n |-> Cell(5), e |-> Cell(6)]
      flags == Cell(7)
      options == ReadEach(ReadCell, Len(SelectSeq(OptionCells, LAMBDA o : o[1] \in flags)), 8)
      pois == ReadEach(ReadCell, Cell(options.at), options.at + 1)
      ways == ReadEach(ReadCell, Cell(pois.at), pois.at + 1)
      subs == [i \in 1..Cell(ways.at) |->
                 OpenedSubFile(ways.at + 1 + 5 * (i - 1), box, "debug" \in flags)]
  IN  [size |-> Cell(2), box |-> box, debug |-> "debug" \in flags, options |-> options.v,
       poi_tags |-> pois.v, way_tags |-> ways.v, subs |-> subs]

(* The loops of readTile() compare an int with an unsigned number: a loop  *)
(* that starts below zero does nothing, and so does one around or in it.   *)
Around(c, other, off) == IF c < off \/ other < off THEN {} ELSE (c - off)..(c + off)
Blocks(tiles, z, base) ==
  IF z < base THEN UNION {(t * 2 ^ (base - z))..((t + 1) * 2 ^ (base - z) - 1) : t \in tiles}
  ELSE {t \div 2 ^ (z - base) : t \in tiles}
(* the range grows from the far edges of the map                           *)
Grown(lo, hi, blocks) == Min({hi} \union blocks)..Max({lo} \union blocks)

Zoom(r, z) == Max({Min({z, Max({s.max : s \in ToSet(r.subs)})}),
                   Min({s.min : s \in ToSet(r.subs)})})
SubFile(r, zoom) ==
  LET fits == {i \in DOMAIN r.subs : r.subs[i].min <= zoom /\ zoom <= r.subs[i].max}
  IN  r.subs[IF fits = {} THEN 1 ELSE Min(fits)]

(* The sea flag of the index entry goes through an int.                    *)
SeaFlag(entry) == (entry - (entry % SeaBit)) % IntRange # 0

BaseTile(r, sub, zoom, t, box) ==
  LET entry == sub.index[Columns(sub.range) * (t[2] - sub.range.miny) + t[1] - sub.range.minx + 1]
      n == zoom - sub.min + 1
      near == Intersects(Bounds(t[1], t[2], sub.base), box)
  IN  With(ReadTileData(r, sub, t, entry % SeaBit), LAMBDA data :
        [sea |-> SeaFlag(entry),
         pois |-> FlattenSeq(SubSeq(data.pois, 1, n)),
         ways |-> IF near THEN FlattenSeq(FlattenSeq(SubSeq(data.ways, 1, n))) ELSE <<>>])

BaseTiles(sub, x, y, z, off) ==
  LET xs == Grown(sub.range.minx, sub.range.maxx, Blocks(Around(x, y, off), z, sub.base))
      ys == Grown(sub.range.miny, sub.range.maxy, Blocks(Around(y, x, off), z, sub.base))
  IN  (xs \intersect (sub.range.minx..sub.range.maxx)) \X
      (ys \intersect (sub.range.miny..sub.range.maxy))
VectorTile(r, x, y, z, off) ==
  With(Zoom(r, z), LAMBDA zoom :
    With(SubFile(r, zoom), LAMBDA sub :
      [t \in BaseTiles(sub, x, y, z, off) |-> BaseTile(r, sub, zoom, t, Bounds(x, y, z))]))

-----------------------------------------------------------------------------
Init ==
  /\ db \in Databases /\ layout \in Layouts /\ layer \in Layers
  /\ file = <<>> /\ aborted = FALSE /\ reader = None /\ query = None /\ result = None

(* Some object that is to be written has an elevation or a layer that is   *)
(* out of range.                                                           *)
Converted(o) == o.layer \union {o.texts[k] : k \in DOMAIN o.texts \intersect {"ele"}}
OutOfRange ==
  \E sub \in ToSet(layout.conf) :
    LET r == TileRange(layout.box, sub.base) IN
    \E k \in 0..(TileCount(r) - 1) :
      LET t == TileAt(r, k)
          box == Bounds(t[1], t[2], sub.base)
          objects == FlattenSeq(PerLevel(db.pois, box, sub) \o PerLevel(db.ways, Enlarged(box), sub))
      IN  \E o \in ToSet(objects) : Converted(o) \intersect TooLarge # {}

Write ==
  /\ file = <<>> /\ ~OutOfRange
  /\ file' = Written
  /\ UNCHANGED <<written, aborted, reader, query, result>>

(* safe_stoi() lets out_of_range pass, and it ends the conversion; what is *)
(* left of the file is nothing to read.                                    *)
WriteThrows ==
  /\ file = <<>> /\ OutOfRange /\ ~aborted
  /\ aborted' = TRUE
  /\ UNCHANGED <<written, file, reader, query, result>>

Open ==
  /\ file # <<>> /\ reader = None
  /\ reader' = Opened
  /\ UNCHANGED <<written, file, aborted, query, result>>

(* The bound is one tile for each reader: readTile() seeks before it reads *)
(* and leaves nothing behind for the next (but the cache, see LruCache).   *)
ReadTile(x, y, z, off) ==
  /\ reader # None /\ query = None
  /\ query' = [x |-> x, y |-> y, z |-> z, off |-> off]
  /\ result' = VectorTile(reader, x, y, z, off)
  /\ UNCHANGED <<written, file, aborted, reader>>

Next == \/ Write
        \/ WriteThrows
        \/ Open
        \/ \E z \in 0..MaxZoom, off \in Offsets : \E x, y \in 0..(2 ^ z - 1) : ReadTile(x, y, z, off)
Spec == Init /\ [][Next]_vars

-----------------------------------------------------------------------------
(* What a reader should get, from the data base alone.  The base tiles     *)
(* that a tile and its neighbours touch, of those of the map:              *)
QueryZoom == Max({Min({query.z, Max({s.max : s \in ToSet(layout.conf)})}),
                  Min({s.min : s \in ToSet(layout.conf)})})
QuerySub == CHOOSE s \in ToSet(layout.conf) : s.min <= QueryZoom /\ QueryZoom <= s.max
Touches(c, b) == IF query.z < QuerySub.base THEN c = b \div 2 ^ (QuerySub.base - query.z)
                 ELSE b = c \div 2 ^ (query.z - QuerySub.base)
Close(c) == (c - query.off)..(c + query.off)
Needed ==
  LET r == TileRange(layout.box, QuerySub.base)
  IN  {t \in (r.minx..r.maxx) \X (r.miny..r.maxy) :
         /\ \E c \in Close(query.x) : Touches(c, t[1])
         /\ \E c \in Close(query.y) : Touches(c, t[2])}

PlainTags(tags) == {t \in ToSet(tags) : t \notin OddTags /\ t # ""}
InTile(objects, box) ==
  SelectSeq(objects, LAMBDA o : /\ Intersects(o.mbr, box) /\ InZoom(o, QuerySub)
                                /\ o.minz <= QueryZoom)

(* What a text comes back as: an elevation as the whole number it begins   *)
(* with, or 0, as it is cut and rendered by the conversions.               *)
Returned(texts) ==
  [k \in DOMAIN texts |-> IF k = "ele" THEN ToString(Number(texts[k])) ELSE texts[k]]

HoldsPois(t) ==
  LET stored == InTile(db.pois, Bounds(t[1], t[2], QuerySub.base))
      read == result[t].pois
      Seen(p, texts) == <<p.place, PlainTags(p.tags), texts>>
  IN  /\ Len(read) = Len(stored)
      /\ {Seen(p, p.texts) : p \in ToSet(read)} = {Seen(p, Returned(p.texts)) : p \in ToSet(stored)}
      /\ \A p \in ToSet(stored) : \A l \in p.layer :
           \E q \in ToSet(read) : Seen(q, q.texts) = Seen(p, Returned(p.texts)) /\ q.layer = Number(l)

HoldsWays(t) ==
  LET box == Bounds(t[1], t[2], QuerySub.base)
      near == Intersects(box, Bounds(query.x, query.y, query.z))
      stored == IF near THEN InTile(db.ways, Enlarged(box)) ELSE <<>>
  IN  /\ {<<w.block, PlainTags(w.tags), w.texts, w.label, w.layer>> : w \in ToSet(result[t].ways)} =
          UNION {{<<b, PlainTags(w.tags), w.texts, w.label, Layer(w, 0)>> : b \in ToSet(w.blocks)} :
                   w \in ToSet(stored)}
      /\ Len(result[t].ways) =
          FoldLeft(LAMBDA n, w : n + Len(w.blocks), 0, stored)

(* A tile that is read holds, for every base tile it returns, the points   *)
(* and ways the data base has there for its zoom level, each once, and no  *)
(* sea that is not in the data; and when the map covers any of what was    *)
(* asked for, the tiles returned are those; except for a tile with its     *)
(* neighbours in the first row or column of the world, see Around.  Texts  *)
(* and layers come back as they were, but an elevation as the number that  *)
(* safe_stoi() makes of it.  Nothing is said of the layer of a point that  *)
(* has none, which writePOIData leaves unset; that of a way is 0.          *)
ReadsWhatIsStored ==
  result # None =>
    /\ \A t \in DOMAIN result : HoldsPois(t) /\ HoldsWays(t) /\ ~result[t].sea
    /\ Needed # {} /\ query.off <= query.x /\ query.off <= query.y => DOMAIN result = Needed
=============================================================================
