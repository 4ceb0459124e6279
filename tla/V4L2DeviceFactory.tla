-------------------------- MODULE V4L2DeviceFactory --------------------------
(***************************************************************************)
(* media::VideoCaptureDeviceFactoryLinux                                   *)
(* (src/capture/video/linux/video_capture_device_factory_linux.cc): lists  *)
(* the V4L2 capture devices under /dev/video*, reports the formats each    *)
(* supports, and creates a capture device for a descriptor.                *)
(*                                                                         *)
(* A device node is what its ioctls answer: its capabilities, the fourccs  *)
(* VIDIOC_ENUM_FMT lists, for each the frame sizes VIDIOC_ENUM_FRAMESIZES  *)
(* lists, and the frame intervals VIDIOC_ENUM_FRAMEINTERVALS lists for a   *)
(* size.  Each enumeration loop of the code runs over the corresponding    *)
(* sequence until the ioctl fails, i.e. to the end of the sequence.        *)
(* A device may be unplugged between the calls.                           *)
(***************************************************************************)
EXTENDS Integers, Sequences, SequencesExt

CONSTANTS
  Nodes,        \* the /dev/video* nodes
  Configs,      \* the device configurations a node may hold
  MaxCalls,     \* bound: calls made by the client
  MaxReplugs    \* bound: devices unplugged

Absent == [absent |-> TRUE]     \* no device at the node: open() fails

\* The fourccs a device may list.  V4l2FourCcToChromiumPixelFormat maps the
\* first two to a pixel format and the last to PIXEL_FORMAT_UNKNOWN, and
\* GetListOfUsableFourCCs(false) contains those with a pixel format.
Fourccs == {"YUYV", "MJPG", "Y16"}
PixelFormatOf(f) == CASE f = "YUYV" -> "PIXEL_FORMAT_YUY2"
                      [] f = "MJPG" -> "PIXEL_FORMAT_MJPEG"
                      [] OTHER      -> "PIXEL_FORMAT_UNKNOWN"
UsableFourccs == {f \in Fourccs : PixelFormatOf(f) # "PIXEL_FORMAT_UNKNOWN"}

\* A frame-size entry: a discrete size, or a stepwise range whose fields,
\* read through the |discrete| member of the union, give the pair "ALIASED".
Sizes == {"640x480", "1280x720"}
SizeEntries == [type : {"DISCRETE"}, size : Sizes] \cup
               [type : {"STEPWISE"}, size : {"ALIASED"}]

\* A frame-interval entry: discrete numerator/denominator, or continuous.
Intervals == [type : {"DISCRETE"}, num : {0, 1}, den : {15, 30}] \cup
             [type : {"CONTINUOUS"}]

\* A device configuration (an element of Configs) is a record: |caps|,
\* VIDIOC_QUERYCAP's answer or its failure; |formats|, the formats in
\* enumeration order, each a fourcc with its frame-size entries; |intervals|,
\* the intervals answered for each size; |ids|, which of the USB
\* idVendor/idProduct files can be read.
Caps == {"CAPTURE", "CAPTURE_OUTPUT", "OUTPUT", "QUERY_FAILS"}
UsbIds == {"BOTH", "VENDOR_ONLY", "NONE"}

-----------------------------------------------------------------------------
(* The enumeration helpers.                                                *)

\* HasUsableFormats: a capture device listing some usable fourcc.
HasUsableFormats(c) ==
  /\ c.caps \in {"CAPTURE", "CAPTURE_OUTPUT"}
  /\ \E i \in DOMAIN c.formats : c.formats[i].fourcc \in UsableFourccs

\* GetFrameRateList: the rates of the discrete intervals with a non-zero
\* numerator, up to the first continuous or stepwise one; none gives {0}.
RECURSIVE RateLoop(_, _)
RateLoop(ivs, acc) ==
  IF ivs = <<>> \/ Head(ivs).type = "CONTINUOUS" THEN acc
  ELSE RateLoop(Tail(ivs), IF Head(ivs).num # 0
                           THEN Append(acc, Head(ivs).den \div Head(ivs).num)
                           ELSE acc)

\* Mutant: no fallback rate for devices enumerating none.
GetFrameRateListNoFallback(c, size) == RateLoop(c.intervals[size], <<>>)

GetFrameRateList(c, size) ==
  LET rates == RateLoop(c.intervals[size], <<>>)
  IN  IF rates = <<>> THEN <<0>> ELSE rates

\* The inner loop over one format's frame sizes.  |frameSize| is
\* supported_format.frame_size: set by a discrete entry, left as it was by
\* a stepwise one (NOTIMPLEMENTED), while the rates are still asked for the
\* entry's |discrete| fields.  One format is pushed per rate.
RECURSIVE SizeLoop(_, _, _, _, _)
SizeLoop(c, pixel, sizes, frameSize, acc) ==
  IF sizes = <<>> THEN acc
  ELSE LET e    == Head(sizes)
           fs   == IF e.type = "DISCRETE" THEN e.size ELSE frameSize
           rs   == GetFrameRateList(c, e.size)
       IN  SizeLoop(c, pixel, Tail(sizes), fs,
                    acc \o [i \in DOMAIN rs |->
                              [pixel |-> pixel, size |-> fs, rate |-> rs[i]]])

\* Mutant: formats whose fourcc has no pixel format are not skipped.
GetSupportedFormatsForV4L2BufferTypeNoSkip(c) ==
  FoldLeft(LAMBDA acc, f : SizeLoop(c, PixelFormatOf(f.fourcc), f.sizes, "0x0", acc),
           <<>>, c.formats)

\* GetSupportedFormatsForV4L2BufferType: every format with a known pixel
\* format, starting each from a default (0x0) frame size.
GetSupportedFormatsForV4L2BufferType(c) ==
  FoldLeft(LAMBDA acc, f :
             IF PixelFormatOf(f.fourcc) = "PIXEL_FORMAT_UNKNOWN" THEN acc
             ELSE SizeLoop(c, PixelFormatOf(f.fourcc), f.sizes, "0x0", acc),
           <<>>, c.formats)

\* GetDeviceModelId: "vid:pid", or "" when either file cannot be read.
GetDeviceModelId(c) == IF c.ids = "BOTH" THEN "vid:pid" ELSE ""

\* The test of GetDeviceDescriptors: QUERYCAP succeeds, the device captures
\* and does not output (memory-to-memory devices are skipped), and it has a
\* usable format.
IsListed(c) ==
  /\ c.caps = "CAPTURE"
  /\ HasUsableFormats(c)

-----------------------------------------------------------------------------
VARIABLES
  node,        \* node[n]: the device at /dev/video<n>, or Absent
  listed,      \* the descriptors the last GetDeviceDescriptors returned
  answer,      \* what the last GetSupportedFormats returned, and for what
  created,     \* nodes CreateDevice returned a device for
  calls,       \* client calls made
  replugs      \* devices unplugged so far

vars == <<node, listed, answer, created, calls, replugs>>

NoAnswer == [node |-> "none"]

\* GetDeviceDescriptors: every node that opens and passes IsListed, with its
\* model id.
GetDeviceDescriptors ==
  /\ calls < MaxCalls
  /\ calls' = calls + 1
  /\ listed' = {[node |-> n, model |-> GetDeviceModelId(node[n])] :
                 n \in {m \in Nodes : node[m] # Absent /\ IsListed(node[m])}}
  /\ UNCHANGED <<node, answer, created, replugs>>

\* GetSupportedFormats for a listed descriptor, into a fresh list: left
\* untouched when the node does not open, else cleared and filled.
GetSupportedFormats(d) ==
  /\ calls < MaxCalls
  /\ calls' = calls + 1
  /\ answer' = [node |-> d.node, cfg |-> node[d.node],
                 formats |-> IF node[d.node] = Absent THEN <<>>
                             ELSE GetSupportedFormatsForV4L2BufferType(node[d.node])]
  /\ UNCHANGED <<node, listed, created, replugs>>

\* CreateDevice: a device for the descriptor if its node opens, else null.
CreateDevice(d) ==
  /\ calls < MaxCalls
  /\ calls' = calls + 1
  /\ created' = IF node[d.node] # Absent THEN created \cup {d.node} ELSE created
  /\ UNCHANGED <<node, listed, answer, replugs>>

\* A device is unplugged: its node no longer opens.
Unplug(n) ==
  /\ replugs < MaxReplugs /\ node[n] # Absent
  /\ replugs' = replugs + 1
  /\ node' = [node EXCEPT ![n] = Absent]
  /\ UNCHANGED <<listed, answer, created, calls>>

Init ==
  /\ node \in [Nodes -> Configs \cup {Absent}]
  /\ listed = {} /\ answer = NoAnswer /\ created = {}
  /\ calls = 0 /\ replugs = 0

Next ==
  \/ GetDeviceDescriptors
  \/ \E d \in listed : GetSupportedFormats(d) \/ CreateDevice(d)
  \/ \E n \in Nodes : Unplug(n)

Spec == Init /\ [][Next]_vars

-----------------------------------------------------------------------------
Format == [pixel : {PixelFormatOf(f) : f \in UsableFourccs},
           size : Sizes \cup {"0x0"}, rate : {0, 15, 30}]

TypeOK ==
  /\ node \in [Nodes -> Configs \cup {Absent}]
  /\ \A d \in listed : d.node \in Nodes /\ d.model \in {"vid:pid", ""}
  /\ answer # NoAnswer => answer.formats \in Seq(Format)
  /\ created \subseteq Nodes
  /\ calls \in 0..MaxCalls /\ replugs \in 0..MaxReplugs

\* What a device supports, as a set: for each known fourcc, each discrete
\* size it lists, each rate of a discrete interval with a non-zero
\* numerator listed before any continuous one, or rate 0 if there is none.
RefRates(c, size) ==
  LET cut == SelectInSeq(c.intervals[size], LAMBDA iv : iv.type = "CONTINUOUS")
      ivs == IF cut = 0 THEN c.intervals[size] ELSE SubSeq(c.intervals[size], 1, cut - 1)
      rs  == {ivs[i].den \div ivs[i].num : i \in {j \in DOMAIN ivs : ivs[j].num # 0}}
  IN  IF rs = {} THEN {0} ELSE rs

RefFormats(c) ==
  LET known       == {f \in ToSet(c.formats) : f.fourcc \in UsableFourccs}
      discrete(f) == ToSet(f.sizes) \cap [type : {"DISCRETE"}, size : Sizes]
  IN  UNION {UNION {{[pixel |-> PixelFormatOf(f.fourcc), size |-> e.size, rate |-> r] :
                       r \in RefRates(c, e.size)} : e \in discrete(f)} : f \in known}

\* Every format a device enumerates -- each known fourcc with each of its
\* discrete frame sizes and each frame rate of that size (for a size with
\* none, the Kinect fallback 0) -- is among those GetSupportedFormats
\* reports; for a node that no longer opens the caller's fresh list stays
\* empty.
ReportedFormatsComplete ==
  answer # NoAnswer =>
    IF answer.cfg = Absent THEN answer.formats = <<>>
    ELSE RefFormats(answer.cfg) \subseteq ToSet(answer.formats)

\* GetSupportedFormats reports only formats the device enumerates: no frame
\* size, or rate for a size, that the device did not list.
ReportedFormatsSound ==
  answer # NoAnswer /\ answer.cfg # Absent =>
    ToSet(answer.formats) \subseteq RefFormats(answer.cfg)

====
