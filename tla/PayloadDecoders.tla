---------------------------- MODULE PayloadDecoders ----------------------------
(***************************************************************************)
(* The decoders of TopicPayloadTracker: what a taken sample becomes, a     *)
(* JSON text and, for images and point clouds, a block of bytes.           *)
(*                                                                         *)
(* A JSON text is the record of the fields the properties tell apart.      *)
(* Bytes are never modelled: a value decoded from the data of a message is *)
(* the Cell it was read from, so that what a decoder reads, and from       *)
(* where, stays visible.  Numbers are integers or NonFinite (NaN and the   *)
(* infinities); that oss << v keeps six significant digits is left out.    *)
(*                                                                         *)
(* An operator named Op_Suffix is a deliberately wrong variant of Op.      *)
(***************************************************************************)
EXTENDS Integers, Sequences, FiniteSetsExt

CONSTANTS
  Word,        \* one more than the largest uint32_t
  NonFinite    \* a double that is not finite

ASSUME WordAssumption == Word \in Nat \ {0}
ASSUME NonFiniteAssumption == NonFinite \notin Int

-----------------------------------------------------------------------------
(* json_util.                                                               *)

\* What the text of a message is made of, as far as JSON is concerned.
Char == {"plain", "quote", "backslash", "control"}

Escaped_QuoteOnly(c) ==
  CASE c = "control" -> <<>>
    [] c = "quote"   -> <<"backslash", c>>
    [] OTHER         -> <<c>>

\* A backslash before quotes and backslashes; controls are dropped.
Escaped(c) ==
  CASE c = "control"               -> <<>>
    [] c \in {"quote", "backslash"} -> <<"backslash", c>>
    [] OTHER                       -> <<c>>

\* escape(), character by character.
Escape[text \in Seq(Char)] ==
  IF text = <<>> THEN <<>> ELSE Escaped(Head(text)) \o Escape[Tail(text)]

\* number(): JSON has no NaN and no infinity.
Number(v) == IF v = NonFinite THEN 0 ELSE v

-----------------------------------------------------------------------------
(* sensor_msgs/PointCloud2.  m.length is data._length; the buffer is null   *)
(* when there is no data.                                                   *)

UInt32 == 0..(Word - 1)

PointField == [name : STRING, offset : UInt32, datatype : 0..255]

CloudMessage ==
  [type : {"PointCloud2"}, width : UInt32, height : UInt32, point_step : UInt32,
   length : UInt32, fields : Seq(PointField)]

ImageMessage ==
  [type : {"Image"}, width : UInt32, height : UInt32, step : UInt32, length : UInt32]

\* std_msgs/String, and the texts of rcl_interfaces/Log.
TextMessage == [type : {"Text"}, text : Seq(Char)]

Axis == {"x", "y", "z"}

\* pointFieldDatatypeSize(): 0 for a datatype it does not know.
DatatypeSize(d) ==
  CASE d \in {1, 2}    -> 1
    [] d \in {3, 4}    -> 2
    [] d \in {5, 6, 7} -> 4
    [] d = 8           -> 8
    [] OTHER           -> 0

\* readPointFieldNumeric(): the bytes it copies, none for an unknown datatype.
NumericWidth(d) ==
  CASE d \in {1, 2} -> 1
    [] d \in {3, 4} -> 2
    [] d \in {5, 6} -> 4
    [] d = 7        -> 4
    [] d = 8        -> 8
    [] OTHER        -> 0

Index(m) == DOMAIN m.fields

\* xField, yField, zField: the last field of that name, if there is one.
AxisField(m, a) ==
  {i \in Index(m) : /\ m.fields[i].name = a
                    /\ \A j \in Index(m) : m.fields[j].name = a => j <= i}

IsColor(m, i) == m.fields[i].name \in {"rgb", "rgba"}

FieldFits_Wraps(m, i, size) ==
  m.point_step > 0 /\ (m.fields[i].offset + size) % Word <= m.point_step

\* fieldFits: the sum is made in 64 bits.
FieldFits(m, i, size) ==
  m.point_step > 0 /\ m.fields[i].offset + size <= m.point_step

\* Without all three coordinates in the point there is no cloud.
AxesFit(m) ==
  \A a \in Axis : \E i \in AxisField(m, a) :
    FieldFits(m, i, DatatypeSize(m.fields[i].datatype))

\* colorField: the first field of either name, if its four bytes fit.
ColorField(m) ==
  {i \in Index(m) : /\ IsColor(m, i)
                    /\ \A j \in Index(m) : IsColor(m, j) => i <= j
                    /\ FieldFits(m, i, 4)}

\* The product wraps, the quotient does not.
PointCount(m) ==
  LET declared == (m.width * m.height) % Word
      held     == m.length \div m.point_step
  IN  IF m.point_step = 0 \/ ~AxesFit(m) \/ m.length = 0 THEN 0
      ELSE IF held < declared THEN held ELSE declared

Cell(m, p, i, width) == [at |-> p * m.point_step + m.fields[i].offset, width |-> width]

\* Point p of the blob: where its coordinates and its color come from (an
\* empty set of cells is the NaN color).
Point(m, p) ==
  [axes  |-> [a \in Axis |-> {Cell(m, p, i, NumericWidth(m.fields[i].datatype)) :
                              i \in AxisField(m, a)}],
   color |-> {Cell(m, p, i, 4) : i \in ColorField(m)}]

Points(m) == [p \in 0..(PointCount(m) - 1) |-> Point(m, p)]

\* Four floats of four bytes for a point.
PointBytes == 16

CloudJson(m) ==
  [kind |-> "pointCloud", width |-> m.width, height |-> m.height,
   pointCount |-> PointCount(m),
   colorMode |-> IF ColorField(m) = {} THEN "none" ELSE "rgb"]

CloudBlob(m) == [bytes |-> PointCount(m) * PointBytes, points |-> Points(m)]

-----------------------------------------------------------------------------
(* The other types.                                                         *)

NoBlob == [bytes |-> 0, points |-> <<>>]
NoJson == [kind |-> "none"]

ImageJson(m) ==
  [kind |-> "image", width |-> m.width, height |-> m.height, step |-> m.step]

ImageBlob_NotCleared(m, blob) ==
  IF m.length > 0 THEN [bytes |-> m.length, points |-> <<>>] ELSE blob

\* blob.assign or, without data, blob.clear: nothing stays of the last image.
ImageBlob(m, blob) ==
  IF m.length > 0 THEN [bytes |-> m.length, points |-> <<>>] ELSE NoBlob

\* The numbers of a message, each on its own and in order.
Numbers(values) == [i \in DOMAIN values |-> Number(values[i])]

LaserScanJson(m) ==
  [kind |-> "laserScan",
   rangeMin |-> Number(m.range_min), rangeMax |-> Number(m.range_max),
   ranges |-> Numbers(m.ranges)]

\* decodeString and decodeLog: the text of a message, escaped.
TextJson(m) == [kind |-> "text", text |-> Escape[m.text]]

ImuJson(m)      == [kind |-> "imu", values |-> Numbers(m.values)]
OdometryJson(m) == [kind |-> "odometry", values |-> Numbers(m.values)]
FloatJson(m)    == [kind |-> "float", values |-> Numbers(m.values)]

\* One object per transform.
TfJson(m) ==
  [kind |-> "tf", transforms |-> [i \in DOMAIN m.transforms |-> Numbers(m.transforms[i])]]

\* The types with an entry in decoderTable().
Decodable ==
  {"Imu", "Image", "LaserScan", "PointCloud2", "Odometry", "TFMessage", "Text", "Float"}

\* tracked.decode(sample, latestJson, latestBlob): a decoder of a type without
\* bytes does not touch the blob.
Decode(m, blob) ==
  CASE m.type = "PointCloud2" -> [json |-> CloudJson(m), blob |-> CloudBlob(m)]
    [] m.type = "Image"       -> [json |-> ImageJson(m), blob |-> ImageBlob(m, blob)]
    [] m.type = "LaserScan"   -> [json |-> LaserScanJson(m), blob |-> blob]
    [] m.type = "Text"        -> [json |-> TextJson(m), blob |-> blob]
    [] m.type = "Imu"         -> [json |-> ImuJson(m), blob |-> blob]
    [] m.type = "Odometry"    -> [json |-> OdometryJson(m), blob |-> blob]
    [] m.type = "TFMessage"   -> [json |-> TfJson(m), blob |-> blob]
    [] m.type = "Float"       -> [json |-> FloatJson(m), blob |-> blob]
=============================================================================
