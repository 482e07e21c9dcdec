------------------------------- MODULE Codec --------------------------------
(***************************************************************************)
(* One exchange over the wire, byte by byte: the request's frame           *)
(* (protocol/encode.rs, tab.rs), the USB link's report that carries it and *)
(* the one that brings the answer (transport/usb.rs), the key the answer   *)
(* is filed under (protocol/decode.rs, tab.rs, runtime/reader.rs) and the  *)
(* value read from it (decode_value).                                      *)
(*                                                                         *)
(* A frame is its CAN id and its data bytes. Bits are taken apart with \div *)
(* and %; an f32 is its four bytes, and only whole numbers are written.    *)
(***************************************************************************)
EXTENDS Naturals, Sequences

CONSTANTS Addrs,     \* device addresses
          Indices,   \* group, field, option and chunk numbers asked for
          StringIds, \* string ids asked for
          Numbers    \* whole numbers written

VARIABLES question, wireStage, frame, report, key, value

codecVars == <<question, wireStage, frame, report, key, value>>

HIGH == 8388608      \* 2^23, BTM1_META_ADDR_FLAG
TwoTo18 == 262144
TwoTo24 == 16777216

(* An address has bit 23 clear, an index is a byte, a string id has 16 bits, *)
(* and an f32 holds every whole number of 24 bits.                          *)
ASSUME CodecAssumption ==
  /\ \A a \in Addrs : a \in Nat /\ a < HIGH
  /\ \A i \in Indices : i \in Nat /\ i < 256
  /\ \A s \in StringIds : s \in Nat /\ s < 65536
  /\ \A n \in Numbers : n \in Nat /\ n < TwoTo24

NoFrame == [id |-> 0, data |-> <<>>]
NoKey == <<"none">>

Tabs == {"Monitoring", "Alarm", "History", "Configuration"}
Kinds == {"Data", "Property", "Group"}

-----------------------------------------------------------------------------
(* tab.rs: which class carries what, on the real address or with bit 23.    *)

Real(class) == [class |-> class, high |-> FALSE]
High(class) == [class |-> class, high |-> TRUE]
X(req, info, na) == [req |-> req, info |-> info, na |-> na]
Exchange(tab, kind) ==
  CASE tab = "Monitoring" /\ kind = "Data"        -> X(Real(24), Real(8), Real(16))
    [] tab = "Monitoring" /\ kind = "Property"    -> X(High(24), High(8), High(16))
    [] tab = "Monitoring" /\ kind = "Group"       -> X(Real(25), Real(9), Real(17))
    [] tab = "Alarm" /\ kind = "Data"             -> X(Real(3), Real(2), High(2))
    [] tab = "Alarm" /\ kind = "Property"         -> X(High(25), High(9), High(17))
    [] tab = "Alarm" /\ kind = "Group"            -> X(Real(26), Real(10), Real(18))
    [] tab = "History" /\ kind = "Data"           -> X(High(29), High(13), High(21))
    [] tab = "History" /\ kind = "Property"       -> X(High(26), High(10), High(18))
    [] tab = "History" /\ kind = "Group"          -> X(Real(27), Real(11), Real(19))
    [] tab = "Configuration" /\ kind = "Data"     -> X(High(27), High(11), High(19))
    [] tab = "Configuration" /\ kind = "Property" -> X(Real(28), Real(12), Real(20))
    [] tab = "Configuration" /\ kind = "Group"    -> X(High(28), High(12), High(20))

IsHigh(addr) == (addr \div HIGH) % 2 = 1
RealAddr(addr) == IF IsHigh(addr) THEN addr - HIGH ELSE addr
CanId(class, addr) == (class * TwoTo24) + (addr % TwoTo24)
WireId(w, addr) == CanId(w.class, IF w.high THEN RealAddr(addr) + HIGH ELSE RealAddr(addr))
WireIs(w, class, addr) == w.class = class /\ (IsHigh(addr) <=> w.high)

Nothing == [tab |-> "none", kind |-> "none", na |-> FALSE]
WireOf(a) == IF a.na THEN Exchange(a.tab, a.kind).na ELSE Exchange(a.tab, a.kind).info
Answers(class, addr) ==
  {a \in [tab : Tabs, kind : Kinds, na : BOOLEAN] : WireIs(WireOf(a), class, addr)}
Answer(class, addr) == IF Answers(class, addr) = {} THEN Nothing
                       ELSE CHOOSE a \in Answers(class, addr) : TRUE

-----------------------------------------------------------------------------
(* Numbers on the wire. *)

(* Powers of two: tables, which a prover can look up. *)
Shift == <<1, 256, 65536, 16777216>>
TwoTo == [e \in 0..23 |->
  <<1, 2, 4, 8, 16, 32, 64, 128, 256, 512, 1024, 2048, 4096, 8192, 16384, 32768, 65536,
    131072, 262144, 524288, 1048576, 2097152, 4194304, 8388608>>[e + 1]]

Byte(n, i) == (n \div Shift[i + 1]) % 256
Octave(n) == CHOOSE e \in 0..23 : TwoTo[e] <= n /\ n < 2 * TwoTo[e]
F32Bits(n) == IF n = 0 THEN 0
              ELSE ((127 + Octave(n)) * 8388608) + ((n - TwoTo[Octave(n)]) * TwoTo[23 - Octave(n)])
F32(n) == [i \in 1..4 |-> Byte(F32Bits(n), i - 1)]
FromF32(b) ==       \* of a whole number; f32::from_le_bytes(..).round()
  LET bits == b[1] + 256 * b[2] + 65536 * b[3] + 16777216 * b[4]
      e == (bits \div 8388608) - 127
  IN IF bits = 0 THEN 0 ELSE TwoTo[e] + ((bits % 8388608) \div TwoTo[23 - e])

(* The BusID of an address: its class bits (18..22) become the top byte. *)
BusIdForAddr(addr) == <<(addr % TwoTo24) \div TwoTo18, addr % TwoTo18>>
AddrForBusId(busId) == busId[1] * TwoTo18 + busId[2]
CommitValue(busId) == <<busId[1], Byte(busId[2], 0), Byte(busId[2], 1), Byte(busId[2], 2)>>
IsValidBusId(busId) == busId[1] \in 10..30 /\ busId[2] < TwoTo18

-----------------------------------------------------------------------------
(* What may be asked, and the frame it is asked with (encode.rs). *)

PropertyReq == 7
PropertyInfo == 6
Selectors == 1..8 \cup {62, 63}          \* menu: the counts of a device
Eventables == 63
Outputs == 0..31                         \* MAX_EVENTABLES of them
PropertyOps == {2, 7, 11, 13, 40, 44}    \* meta_op: the ones that are asked
Writers == {a \in Addrs : IsValidBusId(BusIdForAddr(a))}
Questions ==
       [ask : {"fw", "prop"}, addr : Addrs, n : Indices]
  \cup [ask : {"select"}, addr : Addrs, n : Selectors]
  \cup [ask : {"output"}, addr : Addrs, n : Outputs]
  \cup [ask : {"login", "logout", "login_read"}, addr : Addrs]
  \cup [ask : {"chunk", "store_chunk"}, addr : Addrs, sid : StringIds, seq : Indices]
  \cup [ask : {"group_name", "group_count"}, addr : Addrs, tab : Tabs, group : Indices]
  \cup [ask : {"group_field"}, addr : Addrs, tab : Tabs, group : Indices, n : Indices]
  \cup [ask : {"property"}, addr : Addrs, tab : Tabs, op : PropertyOps, field : Indices]
  \cup [ask : {"option"}, addr : Addrs, tab : Tabs, field : Indices, n : Indices]
  \cup [ask : {"read"}, addr : Addrs, tab : Tabs, field : Indices]
  \cup [ask : {"write"}, addr : Addrs, tab : {"Monitoring", "Configuration"}, field : Indices, number : Numbers,
        viz : {"Float", "Boolean", "List", "DeviceRef"}]
  \cup [ask : {"commit"}, addr : Addrs, field : Indices, writer : Writers]
  \cup [ask : {"heartbeat"}, addr : Addrs]

(* Not answered: the frames that do not ask. *)
Unanswered == {"commit", "heartbeat"}

(* The number a write of a value of this kind puts on the wire. *)
Written(q) == IF q.viz = "Boolean" THEN (IF q.number = 0 THEN 0 ELSE 1) ELSE q.number

OnTab(q, kind, data) == [id |-> WireId(Exchange(q.tab, kind).req, q.addr), data |-> data]
Ask7(q, data) == [id |-> CanId(PropertyReq, q.addr), data |-> data]

RequestFrame(q) ==
  CASE q.ask = "fw"          -> Ask7(q, <<130, q.n>>)
    [] q.ask = "prop"        -> Ask7(q, <<9, q.n>>)
    [] q.ask = "select"      -> Ask7(q, <<8, q.n>>)
    [] q.ask = "output"      -> Ask7(q, <<8, 64 + q.n>>)
    [] q.ask = "login_read"  -> Ask7(q, <<8, 25>>)
    [] q.ask = "login"       -> Ask7(q, <<8, 25, 1, 0>> \o F32(3))
    [] q.ask = "logout"      -> Ask7(q, <<8, 25, 0, 0>>)
    [] q.ask = "chunk"       -> Ask7(q, <<48, Byte(q.sid, 0), Byte(q.sid, 1), q.seq>>)
    [] q.ask = "store_chunk" -> Ask7(q, <<48, Byte(q.sid, 0), Byte(q.sid, 1), q.seq, 65, 66, 67, 68>>)
    [] q.ask = "group_name"  -> OnTab(q, "Group", <<40, q.group, 0>>)
    [] q.ask = "group_count" -> OnTab(q, "Group", <<7, q.group, 0>>)
    [] q.ask = "group_field" -> OnTab(q, "Group", <<3, q.group, 0, q.n>>)
    [] q.ask = "property"    -> OnTab(q, "Property", <<q.op, q.field, 0>>)
    [] q.ask = "option"      -> OnTab(q, "Property", <<38, q.field, 0, q.n>>)
    [] q.ask = "read"        -> OnTab(q, "Data", <<q.field, 0>>)
    [] q.ask = "write"       -> OnTab(q, "Data", <<q.field, 0>> \o F32(Written(q)))
    [] q.ask = "commit"      -> [id |-> CanId(24, q.addr),
                                 data |-> <<q.field, 0>> \o CommitValue(BusIdForAddr(q.writer))]
    [] q.ask = "heartbeat"   -> [id |-> CanId(5, q.addr), data |-> <<>>]

(* The key the asker registers. Reading, logging in and logging out share   *)
(* one, and so do reading and storing a chunk of a string.                  *)
KeyOf(q) ==
  CASE q.ask = "fw"     -> <<"p", q.addr, 130, q.n>>
    [] q.ask = "prop"   -> <<"p", q.addr, 9, q.n>>
    [] q.ask = "select" -> <<"p", q.addr, 8, q.n>>
    [] q.ask = "output" -> <<"p", q.addr, 8, 64 + q.n>>
    [] q.ask \in {"login_read", "login", "logout"} -> <<"p", q.addr, 8, 25>>
    [] q.ask \in {"chunk", "store_chunk"} -> <<"str", q.addr, q.sid, q.seq>>
    [] q.ask = "group_name"  -> <<"group", q.tab, q.addr, 40, q.group>>
    [] q.ask = "group_count" -> <<"group", q.tab, q.addr, 7, q.group>>
    [] q.ask = "group_field" -> <<"group", q.tab, q.addr, 3, q.group, q.n>>
    [] q.ask = "property"    -> <<"prop", q.tab, q.addr, q.op, q.field>>
    [] q.ask = "option"      -> <<"prop", q.tab, q.addr, 38, q.field, q.n>>
    [] q.ask \in {"read", "write"} -> <<"val", q.addr, q.tab, q.field>>
    [] q.ask \in Unanswered -> <<q.ask, q.addr>>

(* What a device answers with: the head of the request, on the answer's     *)
(* class; outputs it does not have are refused from the other half of the   *)
(* addresses, with the selector alone.                                      *)
AsksOutputs(q) == q.ask = "output" \/ (q.ask = "select" /\ q.n = Eventables)
MayRefuse(q) == AsksOutputs(q) \/ q.ask \in {"group_name", "group_count", "property"}
DeviceAnswer(q, refuses) ==
  LET f == RequestFrame(q)
      on(kind) == WireId(IF refuses THEN Exchange(q.tab, kind).na ELSE Exchange(q.tab, kind).info,
                         q.addr)
  IN CASE AsksOutputs(q) /\ refuses ->
            [id |-> CanId(PropertyInfo, q.addr + HIGH), data |-> f.data]
       [] /\ q.ask \in {"fw", "prop", "select", "output", "login", "login_read", "logout"}
          /\ ~(AsksOutputs(q) /\ refuses) ->
            [id |-> CanId(PropertyInfo, q.addr), data |-> SubSeq(f.data, 1, 2) \o <<1, 0>>]
       [] q.ask \in {"chunk", "store_chunk"} ->
            [id |-> CanId(PropertyInfo, q.addr),
             data |-> SubSeq(f.data, 1, 4) \o <<65, 66, 67, 68>>]
       [] q.ask \in {"group_name", "group_count", "group_field"} ->
            [id |-> on("Group"), data |-> IF Len(f.data) = 3 THEN f.data \o <<0, 1, 0, 0, 0>>
                                          ELSE f.data \o <<1, 0>>]
       [] q.ask \in {"property", "option"} ->
            [id |-> on("Property"), data |-> IF Len(f.data) = 3 THEN f.data \o <<0, 1, 0, 0, 0>>
                                             ELSE f.data \o <<1, 0>>]
       [] q.ask = "read" -> [id |-> on("Data"), data |-> f.data \o F32(3)]
       [] q.ask = "write" -> [id |-> on("Data"), data |-> f.data]

-----------------------------------------------------------------------------
(* usb.rs: the report that carries one frame. Bits 16..20 of the address    *)
(* are spread over two bytes.                                               *)

ClassOf(id) == (id \div TwoTo24) % 32
AddrOf(id) == id % TwoTo24

Pad(data) == [i \in 1..8 |-> IF i <= Len(data) THEN data[i] ELSE 0]
BuildReport(f) ==
  LET hi == Byte(f.id, 2)
      dlc == IF Len(f.data) <= 8 THEN Len(f.data) ELSE 8
  IN <<1, (ClassOf(f.id) * 8) + (hi \div 32), (((hi \div 4) % 8) * 32) + (hi % 4),
       Byte(f.id, 1), Byte(f.id, 0), dlc>> \o Pad(f.data)

(* For comparison: the address byte is read as if it were plain. *)
PlainCanId(r) == CanId(r[2] \div 8, r[3] * 65536 + r[4] * 256 + r[5])
(* The device sets bit 3 of the second byte on what it sends. *)
DecodeCanId(r) ==
  CanId(r[2] \div 8,
        (((r[2] % 8) * 32 + (r[3] \div 32) * 4 + (r[3] % 4)) * 65536) + r[4] * 256 + r[5])

ParseReport(r) == [id |-> DecodeCanId(r), data |-> SubSeq(r, 7, 6 + r[6])]
Marked(r) == [r EXCEPT ![3] = @ + (IF (@ \div 8) % 2 = 0 THEN 8 ELSE 0)]

-----------------------------------------------------------------------------
(* decode.rs and reader.rs: where an answer goes, and what it says. *)

PropertyKey(addr, d) ==
  IF Len(d) < 2 THEN NoKey
  ELSE IF IsHigh(addr)
  THEN IF Len(d) = 2 /\ d[1] = 8 /\ d[2] >= 63 THEN <<"p", RealAddr(addr), d[1], d[2]>> ELSE NoKey
  ELSE IF d[1] = 48 /\ Len(d) >= 4 THEN <<"str", addr, d[2] + 256 * d[3], d[4]>>
  ELSE <<"p", addr, d[1], d[2]>>

TabKey(class, addr, d) ==
  LET a == Answer(class, addr)
      real == RealAddr(addr)
  IN IF Len(d) < 2 THEN NoKey
     ELSE CASE a.kind = "none" -> NoKey
       [] a.kind = "Data" ->        \* no waiter key; the reader files values by field
            IF ~a.na /\ Len(d) >= 6 THEN <<"val", real, a.tab, d[1]>> ELSE NoKey
       [] a.kind = "Property" ->
            IF d[1] = 38 /\ Len(d) >= 4 THEN <<"prop", a.tab, real, 38, d[2], d[4]>>
            ELSE <<"prop", a.tab, real, d[1], d[2]>>
       [] a.kind = "Group" ->
            IF d[1] # 3 THEN <<"group", a.tab, real, d[1], d[2]>>
            ELSE IF Len(d) >= 4 THEN <<"group", a.tab, real, 3, d[2], d[4]>> ELSE NoKey

(* For comparison: the tab an answer is on is not part of its key. *)
KeyForFrameAnyTab(f) ==
  IF ClassOf(f.id) = PropertyInfo THEN PropertyKey(AddrOf(f.id), f.data)
  ELSE LET k == TabKey(ClassOf(f.id), AddrOf(f.id), f.data)
       IN IF k[1] = "prop" THEN [k EXCEPT ![2] = "Monitoring"] ELSE k
KeyForFrame(f) ==
  IF ClassOf(f.id) = PropertyInfo THEN PropertyKey(AddrOf(f.id), f.data)
  ELSE TabKey(ClassOf(f.id), AddrOf(f.id), f.data)

(* decode_value: a switch is on when any byte of its value is not zero;     *)
(* list-like kinds and floats are f32. (An Eventable is read from the first *)
(* byte alone, although it is written as an f32, and is left out here.)     *)
DecodeValue(viz, raw) ==
  IF viz = "Boolean" THEN (IF \E i \in 1..4 : raw[i] # 0 THEN 1 ELSE 0) ELSE FromF32(raw)

-----------------------------------------------------------------------------
CodecInit ==
  /\ question \in Questions
  /\ wireStage = "asked" /\ frame = NoFrame /\ report = <<>> /\ key = NoKey /\ value = 0

SendRequest ==
  /\ wireStage = "asked" /\ wireStage' = "sent"
  /\ frame' = RequestFrame(question) /\ report' = BuildReport(frame')
  /\ UNCHANGED <<question, key, value>>

DeviceReplies ==
  /\ wireStage = "sent" /\ question.ask \notin Unanswered /\ wireStage' = "answered"
  /\ \E refuses \in BOOLEAN :
       /\ refuses => MayRefuse(question)
       /\ frame' = DeviceAnswer(question, refuses)
  /\ report' = Marked(BuildReport(frame'))
  /\ UNCHANGED <<question, key, value>>

ReplyIsFiled ==
  /\ wireStage = "answered" /\ wireStage' = "filed"
  /\ LET f == ParseReport(report)
     IN /\ key' = KeyForFrame(f)
        /\ value' = IF question.ask = "write" THEN DecodeValue(question.viz, SubSeq(f.data, 3, 6))
                    ELSE value
  /\ UNCHANGED <<question, frame, report>>

CodecNext == SendRequest \/ DeviceReplies \/ ReplyIsFiled

CodecSpec == CodecInit /\ [][CodecNext]_codecVars

-----------------------------------------------------------------------------
(* The answer to a question is filed under the key its asker registered,    *)
(* and under no other question's key: every class of every tab, either half *)
(* of the addresses and each shape of answer tells its question apart from  *)
(* all others that do not share its key on purpose (decode.rs:223-258,      *)
(* tab.rs:80-158).                                                          *)
SharesKey(q, r) ==
  \/ q = r
  \/ /\ {q.ask, r.ask} \subseteq {"login_read", "login", "logout"} /\ q.addr = r.addr
  \/ /\ {q.ask, r.ask} \subseteq {"chunk", "store_chunk"} /\ <<q.addr, q.sid, q.seq>> = <<r.addr, r.sid, r.seq>>
  \/ /\ {q.ask, r.ask} \subseteq {"read", "write"} /\ <<q.addr, q.tab, q.field>> = <<r.addr, r.tab, r.field>>

AnswersFindTheirQuestion ==
  wireStage = "filed" =>
    /\ key = KeyOf(question)
    /\ \A q \in Questions : SharesKey(q, question) \/ KeyOf(q) # key

(* A frame comes out of the USB link's report as it went in, whichever way  *)
(* it goes (usb.rs:270-327), a value that was written reads back as written *)
(* (encode.rs:120-175, decode.rs:88-215), and a commit names its writer,    *)
(* by a class that firmware does not reserve (bus_id.rs:15-22).             *)
FramesSurvive ==
  /\ wireStage \in {"sent", "answered"} => ParseReport(report) = frame
  /\ (wireStage = "filed" /\ question.ask = "write") => value = Written(question)
  /\ (wireStage = "sent" /\ question.ask = "commit") =>
       LET d == ParseReport(report).data
       IN /\ AddrForBusId(<<d[3], d[4] + 256 * d[5] + 65536 * d[6]>>) = question.writer
          /\ d[3] \in 10..30
=============================================================================
