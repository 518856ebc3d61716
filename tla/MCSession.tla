----------------------------- MODULE MCSession -----------------------------
(* Instances of Session for TLC.  The messages are made from the layouts   *)
(* that the server reads: every number is its position in the struct, so   *)
(* that two fields in the wrong order are noticed.                         *)
EXTENDS Session, TLC

CONSTANTS c1, c2

\* What Op makes of each value of f, in a form that TLC computes once.
Each(f, Op(_)) == <<>> @@ [s \in DOMAIN f |-> [x \in {f[s]} |-> Op(x)][f[s]]]

RECURSIVE Fill(_, _, _, _), FillAll(_, _, _, _)

\* How many there are of what is optional: if two, then no items.
Amount(f, n) == IF n = 2 /\ f.n = "items" THEN 0 ELSE n

\* A struct with the text t everywhere and n of whatever is optional.
FillField(f, i, t, n) ==
  CASE f.k = "num" -> <<Num(f.w, i)>>
    [] f.k = "bool" -> <<Flag(1)>>
    [] f.k = "none" -> <<Num(2, 0)>>
    [] f.k \in {"raw", "checked"} -> <<t>>
    [] f.k \in {"mark", "optional"} -> <<Mark(f.n)>>
    [] f.k = "flagged" -> IF n = 0 THEN <<Flag(0)>> ELSE <<Flag(1)>> \o Fill(f.l, 1, t, n)
    [] f.k = "counted" -> <<Num(f.w, Amount(f, n))>> \o FillAll(f.l, t, n, Amount(f, n))

\* The fields from the i-th on; m structs.
Fill(l, i, t, n) ==
  IF i > Len(l) \/ (l[i].k = "optional" /\ n = 0) THEN <<>>
  ELSE FillField(l[i], i, t, n) \o Fill(l, i + 1, t, n)
FillAll(l, t, n, m) ==
  IF m = 0 THEN <<>> ELSE Fill(l, 1, t, n) \o FillAll(l, t, n, m - 1)

Short == Txt(5, 0)      Long == Txt(10000, 0)      TooLongText == Txt(10001, 0)
Odd == Txt(5, 1)        Grows == Txt(9999, 1)

\* A message of type ty with d more fields than its layout has, or fewer.
Described(ty, t, n, d) == [ty |-> ty, t |-> t, n |-> n, d |-> d]

Descriptions ==
  [place |-> Described("Place", Short, 1, 0), place0 |-> Described("Place", Odd, 0, 0),
   place2 |-> Described("Place", Long, 2, 0), placeCut |-> Described("Place", Short, 1, -1),
   placeMore |-> Described("Place", Short, 1, 1), delete |-> Described("Delete", Odd, 1, 0),
   terrain |-> Described("Delete", Grows, 1, 0), skin |-> Described("SetSkin", Long, 1, 0),
   skinGrows |-> Described("SetSkin", Grows, 0, 0),
   skinLong |-> Described("SetSkin", TooLongText, 0, 0),
   waypoint |-> Described("SetWaypoint", Grows, 0, 0),
   chat |-> Described("ChatMsg", Odd, 0, 0), chatGrows |-> Described("ChatMsg", Grows, 0, 0),
   cursor |-> Described("PlayerCamCursor", Short, 0, 0),
   car |-> Described("VehiclePos", Short, 0, 0), test |-> Described("PlayerTestMode", Odd, 0, 0),
   limit |-> Described("SetActionLimit", Short, 0, 0),
   variable |-> Described("SetVariable", Odd, 0, 1),
   places |-> Described("SetRoomPlayerLimit", Short, 0, 0),
   stats |-> Described("ServerStats", Short, 0, 0),
   cursorMore |-> Described("PlayerCamCursor", Odd, 0, 1)]

Made(m) ==
  LET whole == Fill(ReadLayout[m.ty], 1, m.t, m.n)
  IN  Framed(m.ty, IF m.d > 0 THEN whole \o <<Num(1, 0)>> ELSE SubSeq(whole, 1, Len(whole) + m.d))

Others ==
  [name |-> <<Type("SetMapName"), Long>>, nameOdd |-> <<Type("SetMapName"), Odd>>,
   sample |-> Framed("VehicleSample", <<Bytes(64, 1)>>),
   sampleBig |-> Framed("VehicleSample", <<Bytes(513, 1)>>),
   ping |-> <<Type("Ping")>>, resync |-> <<Type("Resync")>>,
   placeNone |-> Framed("Place", Fill(MacroblockDecode, 1, Short, 0) \o <<Mark("TRNs"), Num(2, 0)>>),
   unknown |-> <<Type("unknown"), Num(4, 0)>>]

TheSamples == Others @@ Each(Descriptions, Made)

TheReadOf == Each(TheSamples, ReadMapMsg)

\* The number of players is module Lobby's.
TheActions ==
  [leave |-> Act("PlayerLeave", One("name", Short)),
   pong |-> Act("ServerStats", One("players", Num(4, 0)))]
  @@ Each([s \in {t \in DOMAIN TheReadOf : TheReadOf[t] # Bad} |-> TheReadOf[s]], Head)

TheWrittenOf == Each(TheActions, WriteAction)

TheCleanOf == Each(TheSamples, Clean)

\* What stands for a constant is evaluated at each use, a definition once.
MCSamples == TheSamples
MCReadOf == TheReadOf
MCActions == TheActions
MCWrittenOf == TheWrittenOf
MCCleanOf == TheCleanOf

\* The second player may be of version 5.
MCVersions == {[c \in Conn |-> IF c = c1 THEN 6 ELSE v] : v \in {5, 6}}

=============================================================================
