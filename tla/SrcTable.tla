------------------------------- MODULE SrcTable -------------------------------
(***************************************************************************)
(* The table src_lookup of src/program.c: 625 permutations of 0..7, each   *)
(* row written as one number of eight digits.  Instruction i of a program  *)
(* reads the destination of instruction src_lookup[select][i]; column 0 is *)
(* not used.                                                               *)
(***************************************************************************)
EXTENDS Naturals, Sequences

SrcRows ==
    <<
        3145672,  3146752,  3147652,  3415672,  3416752,  3417652,  3451672,  3456172,  3456712,
        3457612,  3461752,  3465172,  3465712,  3467152,  3471652,  3475612,  3476152,  3541672,
        3546172,  3546712,  3547612,  3641752,  3645172,  3645712,  3647152,  3741652,  3745612,
        3746152,  4153672,  4156372,  4156732,  4157632,  4163752,  4165372,  4165732,  4167352,
        4173652,  4175632,  4176352,  4315672,  4316752,  4317652,  4351672,  4356172,  4356712,
        4357612,  4361752,  4365172,  4365712,  4367152,  4371652,  4375612,  4376152,  4513672,
        4516372,  4516732,  4517632,  4561372,  4561732,  4563172,  4563712,  4567132,  4567312,
        4571632,  4573612,  4576132,  4576312,  4613752,  4615372,  4615732,  4617352,  4651372,
        4651732,  4653172,  4653712,  4657132,  4657312,  4671352,  4673152,  4675132,  4675312,
        4713652,  4715632,  4716352,  4751632,  4753612,  4756132,  4756312,  4761352,  4763152,
        4765132,  4765312,  5143672,  5146372,  5146732,  5147632,  5341672,  5346172,  5346712,
        5347612,  5413672,  5416372,  5416732,  5417632,  5461372,  5461732,  5463172,  5463712,
        5467132,  5467312,  5471632,  5473612,  5476132,  5476312,  5641372,  5641732,  5643172,
        5643712,  5647132,  5647312,  5741632,  5743612,  5746132,  5746312,  6143752,  6145372,
        6145732,  6147352,  6341752,  6345172,  6345712,  6347152,  6413752,  6415372,  6415732,
        6417352,  6451372,  6451732,  6453172,  6453712,  6457132,  6457312,  6471352,  6473152,
        6475132,  6475312,  6541372,  6541732,  6543172,  6543712,  6547132,  6547312,  6741352,
        6743152,  6745132,  6745312,  7143652,  7145632,  7146352,  7341652,  7345612,  7346152,
        7413652,  7415632,  7416352,  7451632,  7453612,  7456132,  7456312,  7461352,  7463152,
        7465132,  7465312,  7541632,  7543612,  7546132,  7546312,  7641352,  7643152,  7645132,
        7645312, 23145670, 23146750, 23147650, 23415670, 23416750, 23417650, 23451670, 23456170,
       23456710, 23457610, 23461750, 23465170, 23465710, 23467150, 23471650, 23475610, 23476150,
       23541670, 23546170, 23546710, 23547610, 23641750, 23645170, 23645710, 23647150, 23741650,
       23745610, 23746150, 24153670, 24156370, 24156730, 24157630, 24163750, 24165370, 24165730,
       24167350, 24173650, 24175630, 24176350, 24315670, 24316750, 24317650, 24351670, 24356170,
       24356710, 24357610, 24361750, 24365170, 24365710, 24367150, 24371650, 24375610, 24376150,
       24513670, 24516370, 24516730, 24517630, 24561370, 24561730, 24563170, 24563710, 24567130,
       24567310, 24571630, 24573610, 24576130, 24576310, 24613750, 24615370, 24615730, 24617350,
       24651370, 24651730, 24653170, 24653710, 24657130, 24657310, 24671350, 24673150, 24675130,
       24675310, 24713650, 24715630, 24716350, 24751630, 24753610, 24756130, 24756310, 24761350,
       24763150, 24765130, 24765310, 25143670, 25146370, 25146730, 25147630, 25341670, 25346170,
       25346710, 25347610, 25413670, 25416370, 25416730, 25417630, 25461370, 25461730, 25463170,
       25463710, 25467130, 25467310, 25471630, 25473610, 25476130, 25476310, 25641370, 25641730,
       25643170, 25643710, 25647130, 25647310, 25741630, 25743610, 25746130, 25746310, 26143750,
       26145370, 26145730, 26147350, 26341750, 26345170, 26345710, 26347150, 26413750, 26415370,
       26415730, 26417350, 26451370, 26451730, 26453170, 26453710, 26457130, 26457310, 26471350,
       26473150, 26475130, 26475310, 26541370, 26541730, 26543170, 26543710, 26547130, 26547310,
       26741350, 26743150, 26745130, 26745310, 27143650, 27145630, 27146350, 27341650, 27345610,
       27346150, 27413650, 27415630, 27416350, 27451630, 27453610, 27456130, 27456310, 27461350,
       27463150, 27465130, 27465310, 27541630, 27543610, 27546130, 27546310, 27641350, 27643150,
       27645130, 27645310, 42153670, 42156370, 42156730, 42157630, 42163750, 42165370, 42165730,
       42167350, 42173650, 42175630, 42176350, 42315670, 42316750, 42317650, 42351670, 42356170,
       42356710, 42357610, 42361750, 42365170, 42365710, 42367150, 42371650, 42375610, 42376150,
       42513670, 42516370, 42516730, 42517630, 42561370, 42561730, 42563170, 42563710, 42567130,
       42567310, 42571630, 42573610, 42576130, 42576310, 42613750, 42615370, 42615730, 42617350,
       42651370, 42651730, 42653170, 42653710, 42657130, 42657310, 42671350, 42673150, 42675130,
       42675310, 42713650, 42715630, 42716350, 42751630, 42753610, 42756130, 42756310, 42761350,
       42763150, 42765130, 42765310, 43156702, 43157602, 43165702, 43175602, 43516702, 43517602,
       43561702, 43567102, 43571602, 43576102, 43615702, 43651702, 43657102, 43675102, 43715602,
       43751602, 43756102, 43765102, 45163702, 45167302, 45173602, 45176302, 45316702, 45317602,
       45361702, 45367102, 45371602, 45376102, 45613702, 45617302, 45671302, 45673102, 45713602,
       45716302, 45761302, 45763102, 46153702, 46157302, 46175302, 46315702, 46351702, 46357102,
       46375102, 46513702, 46517302, 46571302, 46573102, 46715302, 46751302, 46753102, 47153602,
       47156302, 47165302, 47315602, 47351602, 47356102, 47365102, 47513602, 47516302, 47561302,
       47563102, 47615302, 47651302, 47653102, 62143750, 62145370, 62145730, 62147350, 62341750,
       62345170, 62345710, 62347150, 62413750, 62415370, 62415730, 62417350, 62451370, 62451730,
       62453170, 62453710, 62457130, 62457310, 62471350, 62473150, 62475130, 62475310, 62541370,
       62541730, 62543170, 62543710, 62547130, 62547310, 62741350, 62743150, 62745130, 62745310,
       63145702, 63415702, 63451702, 63457102, 63475102, 63541702, 63547102, 63745102, 64153702,
       64157302, 64175302, 64315702, 64351702, 64357102, 64375102, 64513702, 64517302, 64571302,
       64573102, 64715302, 64751302, 64753102, 65143702, 65147302, 65341702, 65347102, 65413702,
       65417302, 65471302, 65473102, 65741302, 65743102, 67145302, 67345102, 67415302, 67451302,
       67453102, 67541302, 67543102, 72143650, 72145630, 72146350, 72341650, 72345610, 72346150,
       72413650, 72415630, 72416350, 72451630, 72453610, 72456130, 72456310, 72461350, 72463150,
       72465130, 72465310, 72541630, 72543610, 72546130, 72546310, 72641350, 72643150, 72645130,
       72645310, 73145602, 73415602, 73451602, 73456102, 73465102, 73541602, 73546102, 73645102,
       74153602, 74156302, 74165302, 74315602, 74351602, 74356102, 74365102, 74513602, 74516302,
       74561302, 74563102, 74615302, 74651302, 74653102, 75143602, 75146302, 75341602, 75346102,
       75413602, 75416302, 75461302, 75463102, 75641302, 75643102, 76145302, 76345102, 76415302,
       76451302, 76453102, 76541302, 76543102
    >>

src_lookup == [row \in 0 .. Len(SrcRows) - 1 |->
                  [i \in 0 .. 7 |-> (SrcRows[row + 1] \div 10 ^ (7 - i)) % 10]]
=============================================================================
