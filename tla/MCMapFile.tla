------------------------------ MODULE MCMapFile ------------------------------
(* Maps of two sub-files (base levels 1 and 2, or 2 alone), with the points *)
(* and ways of three small regions.                                         *)
EXTENDS MapFile

Box(w, s, e, n) == [w |-> w, s |-> s, e |-> e, n |-> n]
Poi(lat, lon, minz, tags, texts, l) ==
  [place |-> <<lat, lon>>, mbr |-> Box(lon, lat, lon + 1, lat + 1), minz |-> minz, maxz |-> 4,
   tags |-> tags, texts |-> texts, layer |-> l]
Way(box, minz, maxz, tags, texts, l, label, blocks) ==
  [mbr |-> box, minz |-> minz, maxz |-> maxz, tags |-> tags, texts |-> texts, layer |-> l,
   label |-> label, blocks |-> blocks]
NoText == [k \in {} |-> ""]

Sea == Way(Box(17, 9, 47, 40), 0, 4, <<"natural=sea", "area=yes">>, NoText, {"-5"}, <<>>,
           <<<<<<<<9, 17>>, <<9, 47>>, <<40, 47>>, <<9, 17>>>>>>>>)
River == Way(Box(18, 10, 46, 20), 1, 3, <<"waterway=river">>, [name |-> "Axios"], {}, <<>>,
             <<<<<<<<10, 18>>, <<12, 20>>, <<14, 22>>, <<16, 24>>, <<20, 46>>>>>>>>)
Woods == Way(Box(34, 21, 46, 39), 3, 3, <<"area=yes", "natural=wood">>,
             [name |-> "Grove", ref |-> "7"], {"1"}, <<30, 40>>,
             <<<<<<<<21, 34>>, <<39, 34>>, <<38, 46>>, <<21, 34>>>>, <<<<30, 36>>, <<31, 37>>, <<30, 36>>>>>>,
               <<<<<<22, 45>>, <<23, 46>>>>>>>>)
Peak == Poi(30, 38, 0, <<"natural=peak">>, [name |-> "Peak", ele |-> "951.5"], {"2"})
Hut == Poi(19, 21, 2, <<"tourism=hut", "url=a=b", "natural=peak">>, [k \in {"ele"} |-> "abc"],
          {"abc"})
Marsh == Poi(12, 30, 1, <<"natural=peak">>, [name |-> "Marsh", ele |-> "-12"], {})
Summit == Poi(37, 18, 3, <<>>, [k \in {"ele"} |-> "9999999999"], {})
MCStoi == "951.5" :> 951 @@ "-12" :> -12 @@ "-5" :> -5 @@ "1" :> 1 @@ "2" :> 2
House == Poi(37, 18, 3, <<>>, [k \in {"addr:housenumber"} |-> "12"], {})

MCDatabases == {[pois |-> <<>>, ways |-> <<Sea>>],
                [pois |-> <<Summit>>, ways |-> <<Sea>>],
                [pois |-> <<Hut, Peak, House, Marsh>>, ways |-> <<River, Sea, Woods>>]}
TwoLevels == <<[base |-> 1, min |-> 0, max |-> 1], [base |-> 2, min |-> 2, max |-> 3]>>
MCLayouts ==
  {[box |-> Box(17, 9, 47, 40), conf |-> TwoLevels, options |-> {"start", "creator"}, debug |-> d] :
     d \in BOOLEAN} \union
  {[box |-> Box(1, 20, 32, 64), conf |-> <<[base |-> 2, min |-> 1, max |-> 3]>>,
    options |-> {"lang"}, debug |-> FALSE]}
=============================================================================
