------------------------------ MODULE MCNativeApi ------------------------------
(* Instance of NativeApi for TLC: a 32-bit word of 64 values, and messages    *)
(* at the edges of the decoders.                                              *)
EXTENDS NativeApi

MCWord == 64

Field(name, offset, datatype) == [name |-> name, offset |-> offset, datatype |-> datatype]

Cloud(width, height, step, length, fields) ==
  [type |-> "PointCloud2", width |-> width, height |-> height, point_step |-> step,
   length |-> length, fields |-> fields]

XYZ(zAt, zType) == <<Field("x", 0, 7), Field("y", 4, 7), Field("z", zAt, zType)>>

\* Organized, with colors; truncated; a product that wraps to 0; a field past
\* the end of the point; one so far out that a sum in 32 bits would wrap; two
\* fields of one name; no z.
Clouds ==
  {Cloud(1, 2, 16, 32, Append(XYZ(8, 7), Field("rgb", 12, 7))),
   Cloud(2, 2, 12, 30, Append(XYZ(8, 7), Field("rgba", 12, 7))),
   Cloud(8, 8, 12, 24, XYZ(8, 7)),
   Cloud(1, 1, 12, 12, XYZ(8, 8)),
   Cloud(1, 1, 12, 12, XYZ(62, 7)),
   Cloud(1, 1, 16, 16, Append(XYZ(12, 7), Field("z", 8, 3))),
   Cloud(1, 1, 16, 16, <<Field("x", 0, 7), Field("y", 4, 7)>>)}

Image(length) == [type |-> "Image", width |-> 2, height |-> 1, step |-> 2, length |-> length]

Values(type, values) == [type |-> type, values |-> values]

MCMessage ==
  Clouds \cup {Image(2), Image(0)}
    \cup {[type |-> "Text", text |-> t] :
          t \in {<<"plain", "backslash">>, <<"quote", "control", "plain">>}}
    \cup {Values("Imu", <<1, NonFinite>>), Values("Odometry", <<2>>), Values("Float", <<NonFinite>>)}
    \cup {[type |-> "LaserScan", range_min |-> 0, range_max |-> NonFinite, ranges |-> <<1, NonFinite>>],
          [type |-> "TFMessage", transforms |-> <<<<1>>, <<NonFinite>>>>]}

Texts(n) == UNION {[1..k -> Char] : k \in 0..n}

\* Printed is the selection of the characters that are no control.
ASSUME PrintedSelects ==
  \A text \in Texts(4) : Printed[text] = SelectSeq(text, LAMBDA c : c # "control")

MCKnownTypes == {m.type : m \in MCMessage} \ {"TFMessage"}
=============================================================================
