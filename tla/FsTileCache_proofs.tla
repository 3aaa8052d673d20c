-------------------------- MODULE FsTileCache_proofs --------------------------
(***************************************************************************)
(* The tile cache, for any number of tiles, any bounds and with all the    *)
(* faults: files that are not known to be astray are dated by the map they *)
(* show, so no older map is visible or served; and what is stored is whole *)
(* unless a write was cut short.                                           *)
(***************************************************************************)
EXTENDS FsTileCache, TLAPS

(* A new version of the map leaves the times of the others alone. *)
LEMMA Replaced ==
  ASSUME Times, ReplaceMap
  PROVE  /\ map' = map + 1 /\ map \in Nat /\ mtimes' \in Seq(Nat)
         /\ \A v \in 1 .. map: mtimes'[v] = mtimes[v]
         /\ \A v \in 1 .. map': mtimes'[v] <= now
<1>1. PICK m \in 1 .. now: mtimes' = Append(mtimes, m)
  BY DEF ReplaceMap
<1>2. mtimes \in Seq(Nat) /\ map \in Nat /\ now \in Nat /\ m \in Nat /\ m <= now
      /\ \A v \in 1 .. map: mtimes[v] <= now
  BY <1>1 DEF Times, map
<1>3. mtimes' \in Seq(Nat) /\ map' = map + 1
  BY <1>1, <1>2 DEF map
<1>4. \A v \in 1 .. map: mtimes'[v] = mtimes[v]
  BY <1>1, <1>2 DEF map
<1>5. mtimes'[map + 1] = m
  BY <1>1, <1>2 DEF map
<1>6. ASSUME NEW v \in 1 .. map + 1 PROVE mtimes'[v] <= now
  <2>1. CASE v = map + 1
    BY <1>2, <1>5, <2>1
  <2>2. CASE v # map + 1
    <3>1. v \in 1 .. map
      BY <1>2, <2>2
    <3> QED
      BY <1>2, <1>4, <3>1
  <2> QED
    BY <2>1, <2>2
<1> QED
  BY <1>2, <1>3, <1>4, <1>6

(* Unless the map is replaced, all versions keep their times. *)
LEMMA MapStays == ASSUME UNCHANGED mtimes PROVE map' = map
BY DEF map

(* Only two actions concern the map and the clock. *)
LEMMA OutsideSteps == [Next]_vars => Tick \/ ReplaceMap \/ UNCHANGED <<now, mtimes>>
BY DEF Next, HandleRequest, vars, outside, Start, Stop, Crash, EndRequest, Receive,
       Load, Render, Throws, Save, Write, Stamp, Stamped, StampThrows, Reply

(* The time of the map is never in the future. *)
LEMMA TimeOfMap == Times => map \in Nat \ {0} /\ mtimes[map] \in 0 .. now
<1> SUFFICES ASSUME Times PROVE map \in Nat \ {0} /\ mtimes[map] \in 0 .. now
  OBVIOUS
<1>1. map \in Nat /\ map >= 1
  BY DEF Times, map
<1>2. map \in 1 .. map
  BY <1>1
<1>3. mtimes[map] \in Nat
  BY <1>2 DEF Times, map
<1> QED
  BY <1>1, <1>2, <1>3 DEF Times

(* The times keep their types, and the clock does not go back. *)
LEMMA TimesStep ==
  ASSUME Times, [Next]_vars PROVE Times' /\ now' \in Nat /\ now \in Nat /\ now <= now'
<1>1. CASE ReplaceMap
  <2>1. /\ map' = map + 1 /\ map \in Nat /\ mtimes' \in Seq(Nat) /\ now' = now
        /\ \A v \in 1 .. map': mtimes'[v] <= now
    BY <1>1, Replaced DEF ReplaceMap
  <2>2. map' >= 1 /\ now \in Nat
    BY <2>1 DEF Times
  <2> QED
    BY <2>1, <2>2 DEF Times
<1>2. CASE UNCHANGED mtimes /\ now' \in {now, now + 1}
  <2>1. map' = map /\ now \in Nat /\ now' \in Nat /\ now <= now'
    BY <1>2, MapStays DEF Times
  <2>2. \A v \in 1 .. map: mtimes[v] \in Nat /\ mtimes[v] <= now'
    BY <1>2 DEF Times, map
  <2> QED
    BY <1>2, <2>1, <2>2 DEF Times
<1> QED
  BY <1>1, <1>2, OutsideSteps DEF Tick

(* The server starts in a typed state. *)
LEMMA InitType == Init => TypeOK
<1> SUFFICES ASSUME Init PROVE TypeOK
  OBVIOUS
<1>1. mtimes = <<1>> /\ now = 1 /\ opened = 0 /\ mod_time = 0 /\ asked = 0
  BY DEF Init
<1>2. mtimes \in Seq(Nat) /\ map = 1 /\ mtimes[1] = 1
  BY <1>1 DEF map
<1>3. Times
  BY <1>1, <1>2 DEF Times
<1>4. file \in [Tiles -> [content: Contents, mtime: 0 .. now]]
  BY <1>1 DEF Init, Contents, Nothing
<1>5. content \in Contents /\ resp \in [content: Contents, mod_time: Nat, own: BOOLEAN]
  BY DEF Init, Contents, Nothing, NoResponse
<1>6. /\ opened \in 0 .. map /\ mod_time \in 0 .. now /\ asked \in 0 .. map
      /\ tile \in Tiles \cup {NoTile} /\ ((tile = NoTile) <=> (pc = "idle")) /\ astray \subseteq Tiles
  BY <1>1, <1>2 DEF Init
<1>7. pc = "idle" /\ strm = FALSE /\ own = TRUE /\ cut = FALSE
  BY DEF Init
<1> QED
  BY <1>3, <1>4, <1>5, <1>6, <1>7 DEF TypeOK

(* Every variable keeps its type: in particular no file of the cache is    *)
(* newer than the clock, and a request is worked on only while the server  *)
(* has a map open.                                                         *)
THEOREM Typing == Spec => []TypeOK
<1>1. Init => TypeOK
  BY InitType
<1>2. TypeOK /\ [Next]_vars => TypeOK'
  <2> SUFFICES ASSUME TypeOK, [Next]_vars PROVE TypeOK'
    OBVIOUS
  <2>1. /\ Times /\ Times' /\ now' \in Nat /\ now \in Nat /\ now <= now'
        /\ map \in Nat \ {0} /\ mtimes[map] \in 0 .. now
    BY TimesStep, TimeOfMap DEF TypeOK
  <2>2. CASE ReplaceMap
    <3>1. map' = map + 1
      BY <2>1, <2>2, Replaced
    <3> QED
      BY <2>1, <2>2, <3>1 DEF TypeOK, ReplaceMap, request, Contents
  <2>3. ASSUME UNCHANGED mtimes PROVE TypeOK'
    <3>1. map' = map
      BY <2>3, MapStays
    <3>0. /\ Nothing \in Contents /\ 0 \in 0 .. map /\ NoTile \notin Tiles
          /\ 0 .. now \subseteq 0 .. now'
      BY <2>1, NoTileAssumption DEF Nothing, Contents
    <3> USE NoTileAssumption DEF TypeOK, Contents, outside, request
    <3>2. CASE Tick
      BY <2>1, <3>1, <3>2 DEF Tick
    <3>4. CASE Start
      BY <2>1, <3>1, <3>4 DEF Start
    <3>5. CASE Stop
      BY <2>1, <3>0, <3>1, <3>5 DEF Stop, EndRequest
    <3>6. CASE Crash
      <4>1. astray' \subseteq Tiles
        BY <3>6 DEF Crash
      <4>2. /\ pc' = "idle" /\ tile' = NoTile /\ content' = Nothing /\ strm' = FALSE /\ opened' = 0
            /\ UNCHANGED <<now, mtimes, mod_time, asked, own, resp>>
        BY <3>6 DEF Crash, EndRequest
      <4>3. file' \in [Tiles -> [content: Contents, mtime: 0 .. now]] /\ cut' \in BOOLEAN
        <5>1. CASE ~(strm /\ pc = "write")
          BY <3>6, <5>1 DEF Crash
        <5>2. CASE strm /\ pc = "write"
          <6>1. PICK part \in {"empty", "partial"}: file' = [file EXCEPT ![tile] = Written(part)]
            BY <3>6, <5>2 DEF Crash
          <6>2. Written(part) \in [content: Contents, mtime: 0 .. now]
            BY <2>1 DEF Written
          <6> QED
            BY <3>6, <5>2, <6>1, <6>2 DEF Crash
        <5> QED
          BY <5>1, <5>2
      <4> QED
        BY <2>1, <3>0, <3>1, <4>1, <4>2, <4>3
    <3>7. ASSUME NEW t \in Tiles, Receive(t) PROVE TypeOK'
      BY <2>1, <3>1, <3>7 DEF Receive
    <3>8. CASE Load
      BY <2>1, <3>1, <3>8 DEF Load
    <3>9. CASE Render
      BY <2>1, <3>1, <3>9 DEF Render, Whole
    <3>10. CASE Throws
      BY <2>1, <3>1, <3>10 DEF Throws, EndRequest, Nothing
    <3>11. CASE Save
      <4>1. Written("empty") \in [content: Contents, mtime: 0 .. now]
        BY <2>1 DEF Written
      <4>2. file' \in [Tiles -> [content: Contents, mtime: 0 .. now]]
        BY <3>11, <4>1 DEF Save
      <4>3. pc = "save" /\ strm = FALSE
        BY <2>1, <3>11 DEF Save
      <4>4. /\ strm' \in BOOLEAN /\ (strm' => pc' = "write") /\ pc' \in {"write", "reply"}
            /\ UNCHANGED <<opened, tile, mod_time, asked, content, resp, own, astray, cut>>
        <5>1. UNCHANGED <<opened, tile, mod_time, asked, content, resp, own, astray, cut>>
          BY <3>11 DEF Save, outside, request
        <5>2. \/ pc' = "reply" /\ strm' = strm
              \/ pc' = "write" /\ strm' \in BOOLEAN
          BY <3>11 DEF Save
        <5> QED
          BY <4>3, <5>1, <5>2
      <4> QED
        BY <2>1, <3>1, <4>2, <4>3, <4>4, <2>3
    <3>12. CASE Write
      <4>1. \A part \in {"whole", "empty", "partial"}:
              Written(part) \in [content: Contents, mtime: 0 .. now]
        BY <2>1 DEF Written
      <4>2. file' \in [Tiles -> [content: Contents, mtime: 0 .. now]] /\ cut' \in BOOLEAN
        BY <3>12, <4>1 DEF Write
      <4> QED
        BY <2>1, <3>1, <3>12, <4>2 DEF Write
    <3>13. CASE Stamp
      BY <2>1, <3>1, <3>13 DEF Stamp, Stamped
    <3>14. CASE StampThrows
      BY <2>1, <3>1, <3>14 DEF StampThrows, EndRequest, Nothing
    <3>15. CASE Reply
      <4>1. resp' \in [content: Contents, mod_time: Nat, own: BOOLEAN]
        BY <2>1, <3>15 DEF Reply
      <4> QED
        BY <2>1, <3>1, <3>15, <4>1 DEF Reply, EndRequest, Nothing
    <3>16. CASE UNCHANGED vars
      BY <2>1, <3>1, <3>16 DEF vars
    <3> QED
      BY <2>2, <3>2, <3>4, <3>5, <3>6, <3>7, <3>8, <3>9, <3>10, <3>11, <3>12, <3>13, <3>14,
         <3>15, <3>16 DEF Next, HandleRequest
  <2> QED
    BY <2>2, <2>3, OutsideSteps DEF Tick
<1> QED
  BY <1>1, <1>2, PTL DEF Spec

-----------------------------------------------------------------------------
(* The inductive invariant.  OldTilesHidden alone is not inductive: it     *)
(* must be known that files at rest have the time of the version they      *)
(* show, that a request has the time of the version it found, and what the *)
(* file that is being saved holds.                                         *)

FilesDated ==
  \A t \in Tiles: ~BeingSaved(t) /\ t \notin astray /\ file[t].content.part # "absent" =>
    /\ file[t].content.version \in 1 .. map
    /\ file[t].mtime = mtimes[file[t].content.version]

RequestDated == pc # "idle" => asked \in 1 .. map /\ mod_time = mtimes[asked]

ContentOfRequest ==
  /\ pc \in {"save", "write", "stamp"} /\ own => content.version = asked
  /\ pc = "reply" /\ own => /\ content.version \in 1 .. map
                            /\ mtimes[content.version] >= mod_time
  /\ strm => /\ pc \in {"write", "stamp"}
             /\ file[tile].content.part # "absent"
             /\ file[tile].content.version = content.version

ResponseDated ==
  resp # NoResponse /\ resp.own => /\ resp.content.version \in 1 .. map
                                   /\ mtimes[resp.content.version] >= resp.mod_time

IInv == TypeOK /\ FilesDated /\ RequestDated /\ ContentOfRequest /\ ResponseDated

(* The invariant holds when the server has not started yet. *)
LEMMA InitIInv == Init => IInv
BY InitType DEF Init, IInv, Nothing, FilesDated, RequestDated, ContentOfRequest, ResponseDated

(* A new version of the map has no part in what was dated before. *)
LEMMA ReplaceKeepsDates ==
  ASSUME IInv, TypeOK', ReplaceMap PROVE IInv'
<1>1. /\ map' = map + 1 /\ map \in Nat /\ \A v \in 1 .. map: mtimes'[v] = mtimes[v]
      /\ UNCHANGED <<pc, tile, mod_time, asked, content, strm, file, resp, own, astray>>
  BY Replaced DEF IInv, TypeOK, ReplaceMap, request
<1>2. \A v \in 1 .. map: v \in 1 .. map' /\ mtimes'[v] = mtimes[v]
  BY <1>1
<1>3. FilesDated'
  BY <1>1, <1>2 DEF IInv, FilesDated, BeingSaved
<1>4. RequestDated' /\ ContentOfRequest' /\ ResponseDated'
  BY <1>1, <1>2 DEF IInv, RequestDated, ContentOfRequest, ResponseDated
<1> QED
  BY <1>3, <1>4 DEF IInv

(* Every other step of the server and of the clock keeps the invariant.    *)
LEMMA StepIInv ==
  ASSUME IInv, TypeOK', [Next]_vars
  PROVE  IInv'
<1>1. CASE ReplaceMap
  BY <1>1, ReplaceKeepsDates
<1>2. ASSUME UNCHANGED mtimes PROVE IInv'
  <2>1. map' = map /\ map \in Nat \ {0}
    BY <1>2, MapStays, TimeOfMap DEF IInv, TypeOK
  <2>2. \A v \in 1 .. map: mtimes[v] \in Nat
    <3>1. mtimes \in Seq(Nat)
      BY DEF IInv, TypeOK, Times
    <3> QED
      BY <3>1 DEF map
  <2> USE NoTileAssumption DEF IInv, TypeOK, Contents, FilesDated, RequestDated, ContentOfRequest,
        ResponseDated, BeingSaved, outside, request
  <2>3. CASE Tick
    BY <1>2, <2>1, <2>3 DEF Tick
  <2>4. CASE Start
    BY <1>2, <2>1, <2>4 DEF Start
  <2>5. CASE Stop
    BY <1>2, <2>1, <2>5 DEF Stop, EndRequest
  <2>6. CASE Crash
    BY <1>2, <2>1, <2>6 DEF Crash, EndRequest
  <2>7. ASSUME NEW t \in Tiles, Receive(t) PROVE IInv'
    BY <1>2, <2>1, <2>7 DEF Receive
  <2>8. CASE Load
    <3>1. ~strm
      BY <2>8 DEF Load
    <3> QED
      BY <1>2, <2>1, <2>2, <2>8, <3>1 DEF Load, TileIsNewer
  <2>9. CASE Render
    BY <1>2, <2>1, <2>9 DEF Render, Whole
  <2>10. CASE Throws
    BY <1>2, <2>1, <2>10 DEF Throws, EndRequest
  <2>11. CASE Save
    <3>0. pc = "save" /\ ~strm /\ tile \in Tiles /\ file \in [Tiles -> [content: Contents, mtime: 0 .. now]]
          /\ UNCHANGED <<mtimes, tile, mod_time, asked, content, resp, own, astray>>
      BY <2>11 DEF Save
    <3>1. CASE pc' = "reply" /\ UNCHANGED <<strm, file>>
      BY <1>2, <2>1, <2>2, <3>0, <3>1
    <3>2. CASE pc' = "write" /\ strm' = FALSE /\ UNCHANGED file
      BY <1>2, <2>1, <3>0, <3>2
    <3>3. CASE pc' = "write" /\ strm' = TRUE /\ file' = [file EXCEPT ![tile] = Written("empty")]
      <4>1. \A t \in Tiles \ {tile}: file'[t] = file[t]
        BY <3>0, <3>3
      <4>2. file'[tile].content.part # "absent" /\ file'[tile].content.version = content.version
        BY <3>0, <3>3 DEF Written
      <4>3. FilesDated'
        BY <2>1, <3>0, <3>3, <4>1
      <4>4. RequestDated' /\ ContentOfRequest' /\ ResponseDated'
        BY <2>1, <3>0, <3>3, <4>2
      <4> QED
        BY <4>3, <4>4
    <3> QED
      BY <2>11, <3>1, <3>2, <3>3 DEF Save
  <2>12. CASE Write
    BY <1>2, <2>1, <2>12 DEF Write, Written
  <2>13. CASE Stamp
    BY <1>2, <2>1, <2>13 DEF Stamp, Stamped
  <2>14. CASE StampThrows
    BY <1>2, <2>1, <2>14 DEF StampThrows, EndRequest
  <2>15. CASE Reply
    BY <1>2, <2>1, <2>15 DEF Reply, EndRequest
  <2>16. CASE UNCHANGED vars
    BY <1>2, <2>1, <2>16 DEF vars
  <2> QED
    BY <1>1, <2>3, <2>4, <2>5, <2>6, <2>7, <2>8, <2>9, <2>10, <2>11, <2>12, <2>13, <2>14, <2>15,
       <2>16 DEF Next, HandleRequest
<1> QED
  BY <1>1, <1>2, OutsideSteps DEF Tick

(* So it holds throughout. *)
LEMMA Invariance == Spec => []IInv
<1>1. IInv /\ TypeOK' /\ [Next]_vars => IInv'
  BY StepIInv
<1> QED
  BY <1>1, InitIInv, Typing, PTL DEF Spec

-----------------------------------------------------------------------------
(* A file that is not astray and not older than the map shows a map of no  *)
(* earlier time: the test of times in tile_is_newer hides all others.      *)
THEOREM OldHidden == Spec => []OldTilesHidden
<1>1. IInv => OldTilesHidden
  <2> SUFFICES ASSUME IInv, NEW t \in Tiles, ~BeingSaved(t), t \notin astray,
                      ~TileIsNewer(file[t], mtimes[map])
               PROVE  mtimes[file[t].content.version] >= mtimes[map]
    BY DEF OldTilesHidden
  <2>1. file[t].content.part # "absent" /\ ~(mtimes[map] > file[t].mtime)
    BY DEF TileIsNewer
  <2>2. file[t].mtime = mtimes[file[t].content.version]
    BY <2>1 DEF IInv, FilesDated
  <2>3. file[t].mtime \in Int /\ mtimes[map] \in Int
    BY TimeOfMap DEF IInv, TypeOK
  <2> QED
    BY ONLY <2>1, <2>2, <2>3
<1> QED
  BY <1>1, Invariance, PTL

(* A response that does not come from a file astray or from a server with  *)
(* another version open shows a map of no earlier time than the one its    *)
(* request found.                                                          *)
THEOREM Current == Spec => []ServesCurrent
<1>1. IInv => ServesCurrent
  BY DEF IInv, ResponseDated, ServesCurrent
<1> QED
  BY <1>1, Invariance, PTL

(* No client ever gets an empty tile, also when writes are cut short, the  *)
(* process is killed and the map is replaced under the server.             *)
THEOREM NeverEmpty == Spec => []NeverServesEmpty
<1> DEFINE NotEmpty == content.part # "empty" /\ NeverServesEmpty
<1>1. Init => NotEmpty
  BY DEF Init, Nothing, NoResponse, NeverServesEmpty
<1>2. NotEmpty /\ [Next]_vars => NotEmpty'
  BY DEF NeverServesEmpty, Next, HandleRequest, vars, outside, request, Tick, ReplaceMap, Start,
         Stop, Crash, EndRequest, Nothing, Receive, Load, Render, Throws, Whole, Save, Write,
         Stamp, Stamped, StampThrows, Reply
<1> QED
  BY <1>1, <1>2, PTL DEF Spec

-----------------------------------------------------------------------------
(* What WholeUnlessCut rests on: while no write was cut short, only the    *)
(* file that is being saved may hold a part of a tile, and it is whole     *)
(* again before it gets its time; what a request is about to store or to   *)
(* send is whole.                                                          *)
WholeInv ==
  /\ strm => pc \in {"write", "stamp"}
  /\ ~cut => /\ resp # NoResponse => resp.content.part = "whole"
             /\ \A t \in Tiles: ~BeingSaved(t) => file[t].content.part \in {"absent", "whole"}
             /\ pc \in {"save", "write", "stamp", "reply"} => content.part = "whole"
             /\ pc = "stamp" => file[tile].content.part \in {"absent", "whole"}

(* Every step of the server, of the operator and of the clock keeps it.    *)
LEMMA StepWhole == TypeOK /\ WholeInv /\ [Next]_vars => WholeInv'
<1> SUFFICES ASSUME TypeOK, WholeInv, [Next]_vars PROVE WholeInv'
  OBVIOUS
<1> USE NoTileAssumption DEF TypeOK, Contents, WholeInv, BeingSaved, outside, request
<1>1. CASE Tick \/ ReplaceMap \/ Start
  BY <1>1 DEF Tick, ReplaceMap, Start
<1>2. CASE Stop
  BY <1>2 DEF Stop, EndRequest
<1>3. CASE Crash
  BY <1>3 DEF Crash, EndRequest
<1>4. ASSUME NEW t \in Tiles, Receive(t) PROVE WholeInv'
  BY <1>4 DEF Receive
<1>5. CASE Load
  BY <1>5 DEF Load, TileIsNewer
<1>6. CASE Render
  BY <1>6 DEF Render, Whole
<1>7. CASE Throws
  BY <1>7 DEF Throws, EndRequest
<1>8. CASE Save
  BY <1>8 DEF Save, Written
<1>9. CASE Write
  <2>1. CASE ~strm
    BY <1>9, <2>1 DEF Write
  <2>2. CASE strm
    <3>1. PICK part \in {"whole", "empty", "partial"}:
            file' = [file EXCEPT ![tile] = Written(part)] /\ cut' = (cut \/ part # "whole")
      BY <1>9, <2>2 DEF Write
    <3>2. ~cut' => ~cut /\ part = "whole"
      BY <3>1
    <3>3. Written(part).content.part = part
      BY DEF Written
    <3> QED
      BY <1>9, <2>2, <3>1, <3>2, <3>3 DEF Write
  <2> QED
    BY <2>1, <2>2
<1>10. CASE Stamp
  BY <1>10 DEF Stamp, Stamped
<1>11. CASE StampThrows
  BY <1>11 DEF StampThrows, EndRequest
<1>12. CASE Reply
  BY <1>12 DEF Reply, EndRequest
<1>13. CASE UNCHANGED vars
  BY <1>13 DEF vars
<1> QED
  BY <1>1, <1>2, <1>3, <1>4, <1>5, <1>6, <1>7, <1>8, <1>9, <1>10, <1>11, <1>12, <1>13
     DEF Next, HandleRequest

(* Unless a write was cut short by a full disk or a kill, clients and the  *)
(* cache get whole tiles only, wherever else the process ends.             *)
THEOREM WholeTiles == Spec => []WholeUnlessCut
<1>1. Init => WholeInv
  BY DEF Init, WholeInv, Nothing
<1>2. WholeInv => WholeUnlessCut
  BY DEF WholeInv, WholeUnlessCut
<1> QED
  BY <1>1, <1>2, StepWhole, Typing, PTL DEF Spec
=============================================================================
