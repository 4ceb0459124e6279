------------------------- MODULE MC_V4L2DeviceFactory -------------------------
(* The device configurations the runs enumerate.                           *)
EXTENDS V4L2DeviceFactory

CONSTANTS n1

MCNodes1 == {n1}

D30  == [type |-> "DISCRETE", num |-> 1, den |-> 30]
D15  == [type |-> "DISCRETE", num |-> 1, den |-> 15]
Zero == [type |-> "DISCRETE", num |-> 0, den |-> 30]
Cont == [type |-> "CONTINUOUS"]

\* Interval lists: none (Kinect), one rate, a zero numerator before a rate,
\* a continuous entry before a rate, two rates.
IntervalLists == {<<>>, <<D30>>, <<Zero, D30>>, <<Cont, D30>>, <<D30, D15>>}

DiscreteEntries == [type : {"DISCRETE"}, size : Sizes]

\* Intervals for each size: any list for 640x480, none or one rate for
\* 1280x720 and for the pair a stepwise entry aliases.
IntervalFns ==
  {iv \in [Sizes \cup {"ALIASED"} -> IntervalLists] :
     iv["1280x720"] \in {<<>>, <<D30>>} /\ iv["ALIASED"] \in {<<>>, <<D30>>}}

\* The frame-size lists VIDIOC_ENUM_FRAMESIZES can answer: up to two discrete
\* sizes, or a stepwise range, which V4L2 only reports at index 0 and alone.
SizeLists ==
  {s \in BoundedSeq(SizeEntries, 2) :
     \A i \in DOMAIN s : s[i].type = "STEPWISE" => Len(s) = 1}

\* Every device of up to two formats, each with up to two discrete frame
\* sizes or one stepwise range, under every kind of QUERYCAP answer.  A
\* known and an unknown fourcc (MJPG takes the same paths as YUYV).
AllConfigs ==
  [caps : {"CAPTURE", "CAPTURE_OUTPUT", "QUERY_FAILS"},
   formats : BoundedSeq([fourcc : {"YUYV", "Y16"}, sizes : SizeLists], 2),
   intervals : IntervalFns, ids : {"BOTH"}]

\* One YUYV format whose frame sizes are a stepwise range, or discrete.
StepwiseConfigs ==
  [caps : {"CAPTURE"},
   formats : {<<[fourcc |-> "YUYV", sizes |-> s]>> : s \in SizeLists},
   intervals : [Sizes \cup {"ALIASED"} -> {<<>>, <<D30>>}], ids : {"BOTH"}]
====
