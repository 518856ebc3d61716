------------------------------ MODULE Messages ------------------------------
(***************************************************************************)
(* The map messages: the fields they are made of, the layouts of their     *)
(* structs, and the actions.  A buffer is a sequence of data, each with    *)
(* its kind, its width in bytes and a value: numbers (three or nine        *)
(* floats are one), flags, texts with their length prefix, whose value is  *)
(* the number of bytes that are no UTF-8, opaque bytes, four-letter marks. *)
(***************************************************************************)
EXTENDS Integers, Sequences

Num(w, v) == [k |-> "num", w |-> w, v |-> v]
Flag(v) == [k |-> "flag", w |-> 1, v |-> v]
Bytes(n, v) == [k |-> "bytes", w |-> n, v |-> v]
Txt(n, bad) == [k |-> "txt", w |-> n + 2, v |-> bad]
Mark(m) == [k |-> m, w |-> 4, v |-> 0]
Type(ty) == [k |-> ty, w |-> 1, v |-> 0]

Marks == {"BLKs", "SKNs", "ITMs", "TRNs"}
Data ==
  [k : {"num", "txt", "bytes"}, w : Nat, v : Nat]
  \cup [k : {"flag"}, w : {1}, v : Nat] \cup [k : Marks, w : {4}, v : {0}]

MaxText == 10000       \* check_len_lt_er
MaxMsg == 7000000      \* read_checked_msg_u32_len
MaxSample == 512       \* VEHICLE_SAMPLE_MAX_LEN

TextLen(t) == t.w - 2
TooLong(t) == TextLen(t) % 65536 > MaxText

\* Slip: the reader trusts the prefix.
AcceptableAny(t) == TRUE

\* Texts that the reader takes.
Acceptable(t) == ~TooLong(t)

\* from_utf8_lossy: a byte that is no UTF-8 becomes the three of U+FFFD.
Lossy(t) == Txt(TextLen(t) + 2 * t.v, 0)

-----------------------------------------------------------------------------
(* Layouts.  The fields of a struct in the order in which they are read or *)
(* written: numbers, booleans, texts written by write_lp_string_to_buf     *)
(* (checked) or with a bare prefix (raw), opaque bytes, optional structs   *)
(* behind a flag, counted structs, marks, an empty count, and a mark that  *)
(* may be missing with what comes after it.                                *)

Field(n, k, w, l) == [n |-> n, k |-> k, w |-> w, l |-> l]
N(n, w) == Field(n, "num", w, <<>>)
Bool(n) == Field(n, "bool", 1, <<>>)
Checked(n) == Field(n, "checked", 0, <<>>)
Raw(n) == Field(n, "raw", 0, <<>>)
Flagged(n, l) == Field(n, "flagged", 1, l)
Counted(n, w, l) == Field(n, "counted", w, l)
Marked(m) == Field(m, "mark", 4, <<>>)
Opaque(n) == Field(n, "opaque", 0, <<>>)
NoneOf(n) == Field(n, "none", 2, <<>>)
Optional(m) == Field(m, "optional", 4, <<>>)

WaypointDecode == <<Raw("tag"), N("order", 4)>>
WaypointEncode == <<Raw("tag"), N("order", 4)>>

BlockDecode ==
  <<Raw("name"), N("collection", 4), Raw("author"), N("coord", 12), N("dir", 1),
    N("dir2", 1), N("pos", 12), N("pyr", 12), N("color", 1), N("lm_qual", 1),
    N("mobil_ix", 4), N("mobil_variant", 4), N("variant", 4), N("flags", 1),
    Flagged("waypoint", WaypointDecode)>>

\* Slip: pos and pyr are written in the wrong order.
BlockEncodeSwapped ==
  <<Raw("name"), N("collection", 4), Raw("author"), N("coord", 12), N("dir", 1),
    N("dir2", 1), N("pyr", 12), N("pos", 12), N("color", 1), N("lm_qual", 1),
    N("mobil_ix", 4), N("mobil_variant", 4), N("variant", 4), N("flags", 1),
    Flagged("waypoint", WaypointEncode)>>

BlockEncode ==
  <<Raw("name"), N("collection", 4), Raw("author"), N("coord", 12), N("dir", 1),
    N("dir2", 1), N("pos", 12), N("pyr", 12), N("color", 1), N("lm_qual", 1),
    N("mobil_ix", 4), N("mobil_variant", 4), N("variant", 4), N("flags", 1),
    Flagged("waypoint", WaypointEncode)>>

ItemDecode ==
  <<Raw("name"), N("collection", 4), Raw("author"), N("coord", 12), N("dir", 1),
    N("pos", 12), N("pyr", 12), N("scale", 4), N("color", 1), N("lm_qual", 1),
    N("phase", 1), N("visual_rot", 36), N("pivot_pos", 12), N("is_flying", 1),
    N("variant_ix", 2), N("associated_block_ix", 4), N("item_group_on_block", 4),
    Flagged("waypoint", WaypointDecode)>>

ItemEncode ==
  <<Raw("name"), N("collection", 4), Raw("author"), N("coord", 12), N("dir", 1),
    N("pos", 12), N("pyr", 12), N("scale", 4), N("color", 1), N("lm_qual", 1),
    N("phase", 1), N("visual_rot", 36), N("pivot_pos", 12), N("is_flying", 1),
    N("variant_ix", 2), N("associated_block_ix", 4), N("item_group_on_block", 4),
    Flagged("waypoint", WaypointEncode)>>

ZoneLayout == <<Checked("name"), N("height", 4)>>

TerrainDecode ==
  <<N("offset", 12), Counted("zones", 1, ZoneLayout), N("current_index", 4), N("dir", 4),
    N("base_height", 4), N("bottom_height", 4), N("top_height", 4)>>

TerrainEncode ==
  <<N("offset", 12), Counted("zones", 1, ZoneLayout), N("current_index", 4), N("dir", 4),
    N("base_height", 4), N("bottom_height", 4), N("top_height", 4)>>

MacroblockDecode ==
  <<Marked("BLKs"), Counted("blocks", 2, BlockDecode), Marked("SKNs"), NoneOf("skins"),
    Marked("ITMs"), Counted("items", 2, ItemDecode), Optional("TRNs"),
    Counted("terrains", 2, TerrainDecode)>>

MacroblockEncode ==
  <<Marked("BLKs"), Counted("blocks", 2, BlockEncode), Marked("SKNs"), NoneOf("skins"),
    Marked("ITMs"), Counted("items", 2, ItemEncode), Optional("TRNs"),
    Counted("terrains", 2, TerrainEncode)>>

SetSkinDecode ==
  <<Checked("fg_skin"), Checked("bg_skin"), Flagged("block", BlockDecode),
    Flagged("item", ItemDecode)>>

SetSkinEncode ==
  <<Checked("fg_skin"), Checked("bg_skin"), Flagged("block", BlockEncode),
    Flagged("item", ItemEncode)>>

CamCursorDecode ==
  <<N("cam_matrix", 48), N("target", 12), N("edit_mode", 1), N("place_mode", 1),
    Checked("cur_obj"), N("coords", 12), N("pos", 12)>>

CamCursorEncode ==
  <<N("cam_matrix", 48), N("target", 12), N("edit_mode", 1), N("place_mode", 1),
    Checked("cur_obj"), N("coords", 12), N("pos", 12)>>

VehiclePosLayout == <<N("mat", 48), N("vel", 12)>>
TestModeLayout == <<Bool("entering"), Checked("skin_url")>>

-----------------------------------------------------------------------------
(* Messages.  An action has the type of its message and the struct in it.  *)

Bare == {"Resync", "Ping"}

\* What read_map_msg makes of a buffer, by type.
ReadLayout ==
  [Place |-> MacroblockDecode, Delete |-> MacroblockDecode, SetSkin |-> SetSkinDecode,
   SetWaypoint |-> WaypointDecode, PlayerCamCursor |-> CamCursorDecode,
   VehiclePos |-> VehiclePosLayout, PlayerTestMode |-> TestModeLayout,
   VehicleSample |-> <<Opaque("bytes")>>, SetActionLimit |-> <<N("limit", 4)>>,
   SetVariable |-> <<N("unused", 4), Raw("key"), Raw("value")>>,
   SetRoomPlayerLimit |-> <<N("limit", 4)>>, ChatMsg |-> <<N("ty", 1), Raw("msg")>>,
   ServerStats |-> <<N("players", 4)>>]

\* What write_action writes, by type.
WriteLayout ==
  [Place |-> MacroblockEncode, Delete |-> MacroblockEncode, SetSkin |-> SetSkinEncode,
   SetWaypoint |-> WaypointEncode, PlayerCamCursor |-> CamCursorEncode,
   VehiclePos |-> VehiclePosLayout, PlayerTestMode |-> TestModeLayout,
   VehicleSample |-> <<Opaque("bytes")>>, SetActionLimit |-> <<N("limit", 4)>>,
   SetVariable |-> <<Checked("key"), Checked("value")>>,
   ChatMsg |-> <<N("ty", 1), Checked("msg")>>,
   ServerStats |-> <<N("players", 4)>>, PlayerLeave |-> <<Checked("name")>>]

Act(ty, v) == [ty |-> ty, v |-> v]

\* MapAction::is_ephemeral.
IsEphemeral(a) == a.ty \in {"PlayerCamCursor", "VehiclePos", "PlayerTestMode", "VehicleSample"}

\* Slip: a type added after version 5 has no arm.
MinProtoVersionOld(a) == IF a.ty = "PlayerTestMode" THEN 6 ELSE 0

\* MapAction::min_proto_version.
MinProtoVersion(a) == IF a.ty \in {"PlayerTestMode", "VehicleSample"} THEN 6 ELSE 0

\* Where the writer panics in a buffer: .expect("string lt b'ER'").
Panic == Mark("panic")
Panics(frame) == \E i \in 1..Len(frame) : frame[i] = Panic

=============================================================================
