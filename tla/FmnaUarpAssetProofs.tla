------------------------ MODULE FmnaUarpAssetProofs -------------------------
(***************************************************************************)
(* The update accessory by itself, for every value of the constants of     *)
(* FmnaUarpAsset: whatever messages come, in whatever order, an accessory  *)
(* that is sound stays sound.                                              *)
(*                                                                         *)
(* First that every function leads from one well-formed accessory to       *)
(* another (Accessory) and hands over at most one message more than the    *)
(* service can hold (Sent).  Then what makes an accessory sound (Sound):   *)
(* where the asset that is handled is in its course, which request is open *)
(* there, and what is in the flash.  Then one lemma per function, up to    *)
(* the handlers that the service of FmnaUarp calls.  Last, where the       *)
(* request for the next unit goes (Asked).                                 *)
(***************************************************************************)
EXTENDS FmnaUarpAsset, TLAPS, SequenceTheorems, WellFoundedInduction

(***************************************************************************)
(* The types of the accessory's fields, of a request, of an asset, of a    *)
(* part of an image and of a message.                                      *)
(***************************************************************************)
Request ==
  [type: RequestTypes, of: Int, rel: Int, asked: Int, got: Int, left: Int, out: BOOLEAN]

Asset ==
  [id: Int, v: Int, ctrl: BOOLEAN, marked: BOOLEAN, delegate: BOOLEAN,
   hdr: BOOLEAN, meta: BOOLEAN, index: Int, pl: Int,
   plflags: {"none", "needs", "has"}, recvd: Int, req: Request]

Part == [v: Int, n: Int, ok: BOOLEAN, boot: BOOLEAN]

Texts == RequestTypes \cup {"VERSION", "COMPLETE", "CORRUPT", "DENIED"}
Types == {"NOTHING", "SYNC", "INFO", "OFFER", "RESCIND", "PAUSE", "RESUME", "APPLY",
          "DATA", "ACK", "REQUEST", "NOTIFICATION"}
Message == [type: Types, k: Int, arg: Texts \X Int \X Int]

Faults ==
  {"none", "dangling buffer", "start without payload", "start while transferring",
   "write without transfer", "finish without transfer",
   "rescinded asset without delegate", "orphan without delegate",
   "payload ready while transferring"}

Accessory ==
  [state: AssetStates, asset: Offers \cup {None}, order: Seq(Offers),
   obj: [Offers -> Asset],
   current: Int, transfer: BOOLEAN, staged: Int, fast: BOOLEAN,
   hash: [n: Int, ok: BOOLEAN],
   flash: [AppPayloads -> Part],
   buf: Message, pending: Message, sending: {"none", "new", "sent"},
   allowed: BOOLEAN, reboot: BOOLEAN,
   io: BOOLEAN, kick: BOOLEAN, status: BOOLEAN, fault: Faults]

LEMMA NoMsgTyped == NoMsg \in Message /\ NoArg \in Texts \X Int \X Int
BY DEF NoMsg, Msg, NoArg, Message, Types, Texts, RequestTypes, None

(* The accessory that has just started is one.                              *)
LEMMA NewTyped == NewAccessory \in Accessory
BY NoMsgTyped DEF NewAccessory, Accessory, NoAsset, NoRequest, Asset, Request, Part, None,
       AssetStates, RequestTypes, Faults

LEMMA Lengths ==
  /\ LENGTH \in Nat \ {0} /\ WINDOW \in Nat \ {0} /\ Payloads \in Nat \ {0}
  /\ MaxOffers \in Nat \ {0} /\ Versions \subseteq Nat \ {0} /\ AppPayloads \subseteq 1..Payloads
BY UarpAssumption

LEMMA LengthTypes == LENGTH \in Int /\ WINDOW \in Int /\ Payloads \in Int
BY Lengths

LEMMA LeastTyped == \A m, n \in Int : Least(m, n) \in Int
BY DEF Least

(* A field may be replaced by any value of its type; the updates of several *)
(* fields are taken one after the other.                                    *)
LEMMA FieldTyped ==
  ASSUME NEW x \in Accessory
  PROVE  /\ \A v \in AssetStates : [x EXCEPT !.state = v] \in Accessory
         /\ \A v \in Offers \cup {None} : [x EXCEPT !.asset = v] \in Accessory
         /\ \A v \in Seq(Offers) : [x EXCEPT !.order = v] \in Accessory
         /\ \A v \in [Offers -> Asset] : [x EXCEPT !.obj = v] \in Accessory
         /\ \A v \in Int : [x EXCEPT !.current = v] \in Accessory
         /\ \A v \in BOOLEAN : [x EXCEPT !.transfer = v] \in Accessory
         /\ \A v \in Int : [x EXCEPT !.staged = v] \in Accessory
         /\ \A v \in BOOLEAN : [x EXCEPT !.fast = v] \in Accessory
         /\ \A v \in [n: Int, ok: BOOLEAN] : [x EXCEPT !.hash = v] \in Accessory
         /\ \A v \in [AppPayloads -> Part] : [x EXCEPT !.flash = v] \in Accessory
         /\ \A v \in Message : [x EXCEPT !.buf = v] \in Accessory
         /\ \A v \in Message : [x EXCEPT !.pending = v] \in Accessory
         /\ \A v \in {"none", "new", "sent"} : [x EXCEPT !.sending = v] \in Accessory
         /\ \A v \in BOOLEAN : [x EXCEPT !.allowed = v] \in Accessory
         /\ \A v \in BOOLEAN : [x EXCEPT !.reboot = v] \in Accessory
         /\ \A v \in BOOLEAN : [x EXCEPT !.io = v] \in Accessory
         /\ \A v \in BOOLEAN : [x EXCEPT !.kick = v] \in Accessory
         /\ \A v \in BOOLEAN : [x EXCEPT !.status = v] \in Accessory
         /\ \A v \in Faults : [x EXCEPT !.fault = v] \in Accessory
<1>1. /\ \A v \in AssetStates : [x EXCEPT !.state = v] \in Accessory
      /\ \A v \in Offers \cup {None} : [x EXCEPT !.asset = v] \in Accessory
      /\ \A v \in Seq(Offers) : [x EXCEPT !.order = v] \in Accessory
      /\ \A v \in [Offers -> Asset] : [x EXCEPT !.obj = v] \in Accessory
  BY DEF Accessory
<1>2. /\ \A v \in Int : [x EXCEPT !.current = v] \in Accessory
      /\ \A v \in BOOLEAN : [x EXCEPT !.transfer = v] \in Accessory
      /\ \A v \in Int : [x EXCEPT !.staged = v] \in Accessory
      /\ \A v \in BOOLEAN : [x EXCEPT !.fast = v] \in Accessory
  BY DEF Accessory
<1>3. /\ \A v \in [n: Int, ok: BOOLEAN] : [x EXCEPT !.hash = v] \in Accessory
      /\ \A v \in [AppPayloads -> Part] : [x EXCEPT !.flash = v] \in Accessory
      /\ \A v \in Message : [x EXCEPT !.buf = v] \in Accessory
      /\ \A v \in Message : [x EXCEPT !.pending = v] \in Accessory
  BY DEF Accessory
<1>4. /\ \A v \in {"none", "new", "sent"} : [x EXCEPT !.sending = v] \in Accessory
      /\ \A v \in BOOLEAN : [x EXCEPT !.allowed = v] \in Accessory
      /\ \A v \in BOOLEAN : [x EXCEPT !.reboot = v] \in Accessory
      /\ \A v \in BOOLEAN : [x EXCEPT !.io = v] \in Accessory
      /\ \A v \in BOOLEAN : [x EXCEPT !.kick = v] \in Accessory
      /\ \A v \in BOOLEAN : [x EXCEPT !.status = v] \in Accessory
      /\ \A v \in Faults : [x EXCEPT !.fault = v] \in Accessory
  BY DEF Accessory
<1>. QED  BY <1>1, <1>2, <1>3, <1>4

(* So may a field of an asset.                                              *)
LEMMA AssetField ==
  ASSUME NEW o \in Asset
  PROVE  /\ \A v \in BOOLEAN : /\ [o EXCEPT !.ctrl = v] \in Asset
                               /\ [o EXCEPT !.marked = v] \in Asset
                               /\ [o EXCEPT !.delegate = v] \in Asset
                               /\ [o EXCEPT !.hdr = v] \in Asset
                               /\ [o EXCEPT !.meta = v] \in Asset
                               /\ [o EXCEPT !.req.out = v] \in Asset
         /\ \A v \in Int : /\ [o EXCEPT !.id = v] \in Asset
                           /\ [o EXCEPT !.v = v] \in Asset
                           /\ [o EXCEPT !.index = v] \in Asset
                           /\ [o EXCEPT !.pl = v] \in Asset
                           /\ [o EXCEPT !.recvd = v] \in Asset
         /\ \A v \in {"none", "needs", "has"} : [o EXCEPT !.plflags = v] \in Asset
         /\ \A v \in Request : [o EXCEPT !.req = v] \in Asset
<1>1. \A v \in BOOLEAN : [o EXCEPT !.req.out = v] \in Asset
  BY DEF Asset, Request
<1>. QED  BY <1>1 DEF Asset

LEMMA ObjTyped ==
  ASSUME NEW x \in Accessory, NEW k \in Offers
  PROVE  x.obj[k] \in Asset /\ \A o \in Asset : [x EXCEPT !.obj[k] = o] \in Accessory
<1>. SUFFICES ASSUME NEW o \in Asset
              PROVE  [x EXCEPT !.obj[k] = o] \in Accessory
  BY DEF Accessory
<1>1. [x.obj EXCEPT ![k] = o] \in [Offers -> Asset]
  BY DEF Accessory
<1>2. [x EXCEPT !.obj[k] = o] = [x EXCEPT !.obj = [x.obj EXCEPT ![k] = o]]
  OBVIOUS
<1>. QED  BY <1>1, <1>2, FieldTyped

LEMMA StatusTyped == \A x \in Accessory : Failing(x) \in Accessory /\ Passing(x) \in Accessory
BY FieldTyped DEF Failing, Passing

LEMMA AssertedTyped ==
  \A x \in Accessory, b \in BOOLEAN, n \in Faults : Asserted(x, b, n) \in Accessory
BY FieldTyped DEF Asserted

(* Every function of the accessory keeps it well formed; they come in the   *)
(* order of the module.                                                     *)
LEMMA SendTyped == \A x \in Accessory, m \in Message : send_message(x, m) \in Accessory
<1>. SUFFICES ASSUME NEW x \in Accessory, NEW m \in Message
              PROVE  send_message(x, m) \in Accessory
  OBVIOUS
<1>. DEFINE b == Asserted(x, x.sending = "none", "dangling buffer")
            d == [b EXCEPT !.buf = m, !.sending = "new", !.kick = TRUE]
            p == [x EXCEPT !.pending = m]
<1>1. send_message(x, m) \in {Passing(d), Passing(p), Failing(x)}
  BY DEF send_message
<1>2. b \in Accessory
  <2>1. "dangling buffer" \in Faults
    BY DEF Faults
  <2>. QED  BY <2>1, AssertedTyped
<1>. HIDE DEF b
<1>3. d \in Accessory /\ p \in Accessory
  <2>1. "new" \in {"none", "new", "sent"} /\ TRUE \in BOOLEAN
    OBVIOUS
  <2>. QED  BY <1>2, <2>1, FieldTyped
<1>. HIDE DEF d, p
<1>. QED  BY <1>1, <1>3, StatusTyped

LEMMA MessageTyped ==
  \A t \in Types, k \in Int, g \in Texts \X Int \X Int : Msg(t, k, g) \in Message
BY DEF Msg, Message

LEMMA ReplyTyped ==
  \A x \in Accessory, k \in Int : /\ Reply(x, "ACK", k) \in Accessory
                                  /\ Reply(x, "SYNC", k) \in Accessory
<1>1. "ACK" \in Types /\ "SYNC" \in Types
  BY DEF Types
<1>. QED  BY <1>1, NoMsgTyped, MessageTyped, SendTyped DEF Reply

LEMMA NotificationTyped ==
  \A x \in Accessory, k \in Offers, w \in Texts : Notification(x, k, w) \in Accessory
<1>. SUFFICES ASSUME NEW x \in Accessory, NEW k \in Offers, NEW w \in Texts
              PROVE  Notification(x, k, w) \in Accessory
  OBVIOUS
<1>1. x.obj[k].id \in Int
  BY ObjTyped DEF Asset
<1>2. "NOTIFICATION" \in Types /\ <<w, 0, 0>> \in Texts \X Int \X Int
  BY DEF Types
<1>. QED  BY <1>1, <1>2, MessageTyped, SendTyped DEF Notification

LEMMA ContinueTyped == \A x \in Accessory, k \in Offers : RequestDataContinue(x, k) \in Accessory
<1>. SUFFICES ASSUME NEW x \in Accessory, NEW k \in Offers
              PROVE  RequestDataContinue(x, k) \in Accessory
  OBVIOUS
<1>. DEFINE r == x.obj[k].req
            m == Msg("REQUEST", x.obj[k].id, <<r.type, r.of, r.rel + r.got>>)
            s == send_message(x, m)
            y == [s EXCEPT !.obj[k].req.out = TRUE]
<1>1. RequestDataContinue(x, k) \in {Passing(x), s, y}
  BY Zenon DEF RequestDataContinue
<1>2. r \in Request /\ x.obj[k].id \in Int
  BY ObjTyped DEF Asset
<1>3. "REQUEST" \in Types /\ <<r.type, r.of, r.rel + r.got>> \in Texts \X Int \X Int
  BY <1>2 DEF Types, Texts, Request
<1>4. s \in Accessory
  BY <1>2, <1>3, MessageTyped, SendTyped
<1>. HIDE DEF s
<1>5. y = [s EXCEPT !.obj[k] = [s.obj[k] EXCEPT !.req.out = TRUE]]
  BY <1>4 DEF Accessory
<1>6. [s.obj[k] EXCEPT !.req.out = TRUE] \in Asset
  BY <1>4, ObjTyped, AssetField
<1>. HIDE DEF y
<1>7. y \in Accessory
  BY <1>4, <1>5, <1>6, ObjTyped
<1>. QED  BY <1>1, <1>4, <1>7, StatusTyped

LEMMA RequestTyped ==
  \A x \in Accessory, k \in Offers, t \in RequestTypes, rel, n \in Int :
    RequestData(x, k, t, rel, n) \in Accessory
<1>. SUFFICES ASSUME NEW x \in Accessory, NEW k \in Offers, NEW t \in RequestTypes,
                     NEW rel \in Int, NEW n \in Int
              PROVE  RequestData(x, k, t, rel, n) \in Accessory
  OBVIOUS
<1>. DEFINE o == x.obj[k]
            f == CASE t = "PAYLOAD_HEADER" -> o.index
                   [] t \in {"PAYLOAD", "PAYLOAD_METADATA"} -> o.pl
                   [] OTHER -> None
            r == [type |-> t, rel |-> rel, asked |-> n, got |-> 0,
                  left |-> n, out |-> FALSE, of |-> f]
            y == [x EXCEPT !.obj[k].req = [r EXCEPT !.left = o.req.left]]
            z == [x EXCEPT !.obj[k].req = r]
<1>1. RequestData(x, k, t, rel, n) \in {Failing(x), Failing(y), RequestDataContinue(z, k)}
  BY Zenon DEF RequestData
<1>2. o \in Asset
  BY ObjTyped
<1>3. f \in Int
  BY <1>2 DEF Asset, None
<1>. HIDE DEF f
<1>4. r \in Request /\ [r EXCEPT !.left = o.req.left] \in Request
  <2>1. r \in Request
    BY <1>2, <1>3 DEF Request
  <2>2. o.req.left \in Int
    BY <1>2 DEF Request, Asset
  <2>. HIDE DEF r, o
  <2>. QED  BY <2>1, <2>2 DEF Request
<1>5. /\ y = [x EXCEPT !.obj[k] = [o EXCEPT !.req = [r EXCEPT !.left = o.req.left]]]
      /\ z = [x EXCEPT !.obj[k] = [o EXCEPT !.req = r]]
  <2>. HIDE DEF r
  <2>. QED  BY DEF Accessory
<1>6. /\ [o EXCEPT !.req = [r EXCEPT !.left = o.req.left]] \in Asset
      /\ [o EXCEPT !.req = r] \in Asset
  <2>. HIDE DEF r, o
  <2>. QED  BY <1>2, <1>4, AssetField
<1>. HIDE DEF r, y, z
<1>7. y \in Accessory /\ z \in Accessory
  <2>. HIDE DEF o
  <2>. QED  BY <1>5, <1>6, ObjTyped
<1>. QED  BY <1>1, <1>7, StatusTyped, ContinueTyped

LEMMA PayloadRequestTyped ==
  \A x \in Accessory, k \in Offers : PayloadRequestData(x, k) \in Accessory
<1>1. "PAYLOAD" \in RequestTypes
  BY DEF RequestTypes
<1>2. ASSUME NEW x \in Accessory, NEW k \in Offers
      PROVE  x.obj[k].recvd \in Int /\ Least(WINDOW, LENGTH - x.obj[k].recvd) \in Int
  <2>1. x.obj[k].recvd \in Int
    BY ObjTyped DEF Asset
  <2>2. LENGTH - x.obj[k].recvd \in Int
    BY <2>1, LengthTypes
  <2>. QED  BY <2>1, <2>2, LengthTypes, LeastTyped
<1>. QED  BY <1>1, <1>2, LengthTypes, RequestTyped DEF PayloadRequestData

LEMMA IndexTyped ==
  \A x \in Accessory, k \in Offers, p \in Int : SetPayloadIndex(x, k, p) \in Accessory
<1>. SUFFICES ASSUME NEW x \in Accessory, NEW k \in Offers, NEW p \in Int
              PROVE  SetPayloadIndex(x, k, p) \in Accessory
  OBVIOUS
<1>. DEFINE o == [x.obj[k] EXCEPT !.recvd = 0, !.index = p, !.plflags = "none"]
            y == [x EXCEPT !.obj[k].recvd = 0, !.obj[k].index = p, !.obj[k].plflags = "none"]
<1>1. y = [x EXCEPT !.obj[k] = o]
  BY DEF Accessory
<1>2. o \in Asset
  <2>1. 0 \in Int /\ "none" \in {"none", "needs", "has"}
    OBVIOUS
  <2>. QED  BY <2>1, ObjTyped, AssetField
<1>3. SetPayloadIndex(x, k, p) = RequestData(y, k, "PAYLOAD_HEADER", p - 1, 1)
  BY DEF SetPayloadIndex
<1>4. "PAYLOAD_HEADER" \in RequestTypes
  BY DEF RequestTypes
<1>. HIDE DEF o, y
<1>5. y \in Accessory
  BY <1>1, <1>2, ObjTyped
<1>6. p - 1 \in Int /\ 1 \in Int
  OBVIOUS
<1>. QED  BY <1>3, <1>4, <1>5, <1>6, RequestTyped

LEMMA FlashTyped ==
  ASSUME NEW x \in Accessory, NEW p, NEW v \in Part
  PROVE  [x EXCEPT !.flash[p] = v] \in Accessory
<1>1. [x.flash EXCEPT ![p] = v] \in [AppPayloads -> Part]
  BY DEF Accessory
<1>2. [x EXCEPT !.flash[p] = v] = [x EXCEPT !.flash = [x.flash EXCEPT ![p] = v]]
  OBVIOUS
<1>. QED  BY <1>1, <1>2, FieldTyped

(* An update of a payload that is none of the application changes nothing:  *)
(* the model writes to a.flash[a.current] whatever a.current is.            *)
LEMMA FlashOutside ==
  ASSUME NEW x \in Accessory, NEW p, p \notin AppPayloads, NEW v
  PROVE  [x EXCEPT !.flash[p] = v] = x
<1>1. [x.flash EXCEPT ![p] = v] = x.flash
  BY DEF Accessory
<1>2. [x EXCEPT !.flash[p] = v] = [x EXCEPT !.flash = [x.flash EXCEPT ![p] = v]]
  OBVIOUS
<1>3. [x EXCEPT !.flash = x.flash] = x
  BY DEF Accessory
<1>. QED  BY <1>1, <1>2, <1>3

LEMMA StartTyped == \A x \in Accessory : payload_transfer_start(x) \in Accessory
<1>. SUFFICES ASSUME NEW x \in Accessory
              PROVE  payload_transfer_start(x) \in Accessory
  OBVIOUS
<1>. DEFINE c == Asserted(x, x.current # None, "start without payload")
            b == Asserted(c, ~x.transfer, "start while transferring")
            e == [v |-> None, n |-> 0, ok |-> TRUE, boot |-> FALSE]
            y == [b EXCEPT !.transfer = TRUE]
            z == [y EXCEPT !.flash[b.current] = e]
<1>1. b \in Accessory
  BY AssertedTyped DEF Faults
<1>2. payload_transfer_start(x) \in {Failing(b), Passing(z)}
  BY Zenon DEF payload_transfer_start
<1>. HIDE DEF b, c
<1>3. y \in Accessory
  BY <1>1, FieldTyped
<1>4. e \in Part
  BY DEF Part, None
<1>. HIDE DEF y, e
<1>5. z \in Accessory
  BY <1>3, <1>4, FlashTyped
<1>. HIDE DEF z
<1>. QED  BY <1>1, <1>2, <1>5, StatusTyped

LEMMA WriteTyped ==
  \A x \in Accessory, v \in Int : \A at : payload_transfer_write(x, v, at) \in Accessory
<1>. SUFFICES ASSUME NEW x \in Accessory, NEW v \in Int, NEW at
              PROVE  payload_transfer_write(x, v, at) \in Accessory
  OBVIOUS
<1>. DEFINE b == Asserted(x, x.transfer, "write without transfer")
            f == b.flash[b.current]
            g == [f EXCEPT !.v = v, !.n = Least(f.n + 1, LENGTH + 1),
                           !.ok = f.ok /\ at = <<b.current, f.n>> /\ f.v \in {None, v}]
            z == [b EXCEPT !.flash[b.current] = g]
<1>1. b \in Accessory
  <2>1. x.transfer \in BOOLEAN /\ "write without transfer" \in Faults
    BY DEF Accessory, Faults
  <2>. QED  BY <2>1, AssertedTyped
<1>2. payload_transfer_write(x, v, at) \in {Failing(b), Passing(z)}
  BY Zenon DEF payload_transfer_write
<1>. HIDE DEF b
<1>3. b.current \in AppPayloads => g \in Part
  <2>. SUFFICES ASSUME b.current \in AppPayloads
                PROVE  g \in Part
    OBVIOUS
  <2>1. f \in Part
    BY <1>1 DEF Accessory
  <2>2. f.n \in Int
    BY <2>1 DEF Part
  <2>3. Least(f.n + 1, LENGTH + 1) \in Int
    <3>1. f.n + 1 \in Int /\ LENGTH + 1 \in Int
      BY <2>2, LengthTypes
    <3>. QED  BY <3>1, LeastTyped
  <2>. HIDE DEF f
  <2>. QED  BY <2>1, <2>3 DEF Part
<1>. HIDE DEF g
<1>4. z \in Accessory
  <2>1. CASE b.current \in AppPayloads
    BY <1>1, <1>3, <2>1, FlashTyped
  <2>2. CASE b.current \notin AppPayloads
    BY <1>1, <2>2, FlashOutside
  <2>. QED  BY <2>1, <2>2
<1>. HIDE DEF z
<1>. QED  BY <1>1, <1>2, <1>4, StatusTyped

LEMMA PartTyped ==
  ASSUME NEW x \in Accessory, NEW p
  PROVE  /\ p \in AppPayloads => x.flash[p].n \in Int
         /\ \A v : v \in Int \/ p \notin AppPayloads => [x EXCEPT !.flash[p].n = v] \in Accessory
         /\ \A v \in BOOLEAN : [x EXCEPT !.flash[p].boot = v] \in Accessory
<1>1. p \in AppPayloads => x.flash[p] \in Part
  BY DEF Accessory
<1>2. \A v : [x EXCEPT !.flash[p].n = v] = [x EXCEPT !.flash[p] = [x.flash[p] EXCEPT !.n = v]]
  OBVIOUS
<1>3. \A v : [x EXCEPT !.flash[p].boot = v] = [x EXCEPT !.flash[p] = [x.flash[p] EXCEPT !.boot = v]]
  OBVIOUS
<1>4. CASE p \in AppPayloads
  <2>1. /\ \A v \in Int : [x.flash[p] EXCEPT !.n = v] \in Part
        /\ \A v \in BOOLEAN : [x.flash[p] EXCEPT !.boot = v] \in Part
    BY <1>1, <1>4 DEF Part
  <2>. QED  BY <1>1, <1>2, <1>3, <1>4, <2>1, FlashTyped DEF Part
<1>5. CASE p \notin AppPayloads
  BY <1>2, <1>3, <1>5, FlashOutside
<1>. QED  BY <1>4, <1>5

LEMMA FinishTyped == \A x \in Accessory, s \in BOOLEAN : payload_transfer_finish(x, s) \in Accessory
<1>. SUFFICES ASSUME NEW x \in Accessory, NEW s \in BOOLEAN
              PROVE  payload_transfer_finish(x, s) \in Accessory
  OBVIOUS
<1>. DEFINE b == Asserted(x, x.transfer, "finish without transfer")
            y == [b EXCEPT !.transfer = FALSE, !.status = b.io]
            p == b.current
            n == IF s THEN b.flash[p].n ELSE 0
            z == [y EXCEPT !.flash[p].n = n]
            w == [z EXCEPT !.flash[p].boot = s /\ b.io]
<1>1. b \in Accessory
  <2>1. x.transfer \in BOOLEAN /\ "finish without transfer" \in Faults
    BY DEF Accessory, Faults
  <2>. QED  BY <2>1, AssertedTyped
<1>2. payload_transfer_finish(x, s) \in {Failing(b), w}
  <2>. HIDE DEF b
  <2>. QED  BY DEF payload_transfer_finish, b
<1>. HIDE DEF b
<1>3. y \in Accessory
  <2>1. b.io \in BOOLEAN
    BY <1>1 DEF Accessory
  <2>. QED  BY <1>1, <2>1, FieldTyped
<1>4. n \in Int \/ p \notin AppPayloads
  BY <1>1, PartTyped
<1>. HIDE DEF y, n, p
<1>5. z \in Accessory
  BY <1>3, <1>4, PartTyped
<1>. HIDE DEF z
<1>6. w \in Accessory
  BY <1>5, PartTyped
<1>. HIDE DEF w
<1>. QED  BY <1>1, <1>2, <1>6, StatusTyped

(* An asset replaced by a well-formed one.  The nested updates of the model *)
(* are of this form.                                                        *)
LEMMA ReleaseTyped == \A x \in Accessory, k \in Offers : AssetRelease(x, k) \in Accessory
<1>. SUFFICES ASSUME NEW x \in Accessory, NEW k \in Offers
              PROVE  AssetRelease(x, k) \in Accessory
  OBVIOUS
<1>. DEFINE o == [x.obj[k] EXCEPT !.req.out = FALSE, !.marked = TRUE, !.ctrl = FALSE]
<1>1. AssetRelease(x, k) = [x EXCEPT !.obj[k] = o]
  BY DEF AssetRelease, Accessory
<1>2. o \in Asset
  <2>1. x.obj[k] \in Asset
    BY ObjTyped
  <2>. QED  BY <2>1, AssetField
<1>. HIDE DEF o
<1>. QED  BY <1>1, <1>2, ObjTyped

LEMMA RemoveTyped ==
  \A x \in Accessory, k \in Offers, r \in BOOLEAN : remove_asset(x, k, r) \in Accessory
<1>. SUFFICES ASSUME NEW x \in Accessory, NEW k \in Offers, NEW r \in BOOLEAN
              PROVE  remove_asset(x, k, r) \in Accessory
  OBVIOUS
<1>. DEFINE d == IF r THEN AssetRelease(x, k) ELSE x
            b == [d EXCEPT !.state = "NONE", !.asset = None]
            f == IF b.transfer THEN payload_transfer_finish(b, FALSE) ELSE b
            g == [f EXCEPT !.current = None]
<1>1. remove_asset(x, k, r) \in {x, g}
  BY Zenon DEF remove_asset
<1>2. d \in Accessory
  BY ReleaseTyped
<1>. HIDE DEF d
<1>3. b \in Accessory
  BY <1>2, FieldTyped DEF AssetStates
<1>. HIDE DEF b
<1>4. f \in Accessory
  BY <1>3, FinishTyped
<1>. HIDE DEF f
<1>5. g \in Accessory
  <2>1. None \in Int
    BY DEF None
  <2>. QED  BY <1>4, <2>1, FieldTyped
<1>. HIDE DEF g
<1>. QED  BY <1>1, <1>5

LEMMA RescindedTyped == \A x \in Accessory, k \in Offers : asset_rescinded(x, k) \in Accessory
<1>. SUFFICES ASSUME NEW x \in Accessory, NEW k \in Offers
              PROVE  asset_rescinded(x, k) \in Accessory
  OBVIOUS
<1>1. x.obj[k].delegate \in BOOLEAN /\ "rescinded asset without delegate" \in Faults
  BY ObjTyped DEF Asset, Faults
<1>2. Asserted(x, x.obj[k].delegate, "rescinded asset without delegate") \in Accessory
  BY <1>1, AssertedTyped
<1>. QED  BY <1>2, RemoveTyped DEF asset_rescinded

LEMMA StateTyped ==
  \A x \in Accessory : /\ [x EXCEPT !.state = "ORPHANED"] \in Accessory
                       /\ [x EXCEPT !.state = "FAILED"] \in Accessory
                       /\ [x EXCEPT !.state = "STAGED"] \in Accessory
BY FieldTyped DEF AssetStates

LEMMA OrphanedTyped == \A x \in Accessory, k \in Offers : asset_orphaned(x, k) \in Accessory
<1>. SUFFICES ASSUME NEW x \in Accessory, NEW k \in Offers
              PROVE  asset_orphaned(x, k) \in Accessory
  OBVIOUS
<1>1. asset_orphaned(x, k) \in {x, [x EXCEPT !.state = "ORPHANED"], remove_asset(x, k, TRUE)}
  BY Zenon DEF asset_orphaned
<1>. QED  BY <1>1, StateTyped, RemoveTyped

LEMMA FailureTyped == \A x \in Accessory, k \in Offers : report_failure(x, k) \in Accessory
<1>. SUFFICES ASSUME NEW x \in Accessory, NEW k \in Offers
              PROVE  report_failure(x, k) \in Accessory
  OBVIOUS
<1>. DEFINE y == [x EXCEPT !.state = "FAILED"]
<1>1. report_failure(x, k) \in {x, y, remove_asset(x, k, TRUE), Notification(y, k, "COMPLETE")}
  BY Zenon DEF report_failure
<1>2. y \in Accessory
  BY StateTyped
<1>. HIDE DEF y
<1>3. "COMPLETE" \in Texts
  BY DEF Texts
<1>. QED  BY <1>1, <1>2, <1>3, RemoveTyped, NotificationTyped

LEMMA UnlessFailedTyped == \A x \in Accessory, k \in Offers : UnlessFailed(x, k) \in Accessory
BY FailureTyped DEF UnlessFailed

LEMMA ListedTyped == \A x \in Accessory : Listed(x) \subseteq Offers
BY ElementOfSeq DEF Listed, Accessory

LEMMA NoAssetTyped == NoAsset \in Asset
BY DEF NoAsset, NoRequest, Asset, Request, RequestTypes, None

-----------------------------------------------------------------------------
(* Folds.  What the four folds of the accessory do with an element e: c is  *)
(* what the fold is about.                                                  *)

(* Kept(): what is freed, and the list. *)
KeptOp(c, list, k) == IF k \in c[1] THEN list ELSE <<k>> \o list

(* UpdatePayloadPayload(): the accessory before the window, and the asset. *)
UnitOp(c, x, i) ==
  payload_data(x, c[2], <<c[1].obj[c[2]].req.of, c[1].obj[c[2]].req.rel + i - 1>>)

(* AssetRescinded(): the accessory before, and the identifier. *)
RescindOp(c, x, k) ==
  IF x.obj[k].ctrl /\ c[2] \in {None, x.obj[k].id} THEN Rescind(x, k) ELSE x

(* DataTransferResume() *)
ResumeOp(c, x, k) == IF x.obj[k].ctrl THEN RequestDataContinue(x, k) ELSE x

(* The provers cannot use a theorem about any operator; this one stands for *)
(* the four, by their names.                                                *)
FoldOp(t, c, x, e) ==
  CASE t = "kept"    -> KeptOp(c, x, e)
    [] t = "unit"    -> UnitOp(c, x, e)
    [] t = "rescind" -> RescindOp(c, x, e)
    [] t = "resume"  -> ResumeOp(c, x, e)

Fold(t, c, base, s) == FoldLeft(LAMBDA x, e : FoldOp(t, c, x, e), base, s)

(* A non-empty set of natural numbers has a least one. *)
LEMMA LeastNatural ==
  ASSUME NEW S \in SUBSET Nat, S # {}
  PROVE  \E j \in S : \A i \in S : j <= i
<1>. DEFINE R == OpToRel(<, Nat)
<1>1. IsWellFoundedOn(R, Nat)
  BY NatLessThanWellFounded
<1>2. \A i, k \in Nat : i < k => <<i, k>> \in R
  BY DEF OpToRel
<1>. HIDE DEF R
<1>3. PICK j \in S : \A i \in S : ~(<<i, j>> \in R)
  BY <1>1, WFMin
<1>4. \A i \in S : ~(i < j)
  BY <1>2, <1>3
<1>5. \A i \in S : i \in Int /\ j \in Int
  OBVIOUS
<1>6. \A i \in S : j <= i
  BY <1>4, <1>5
<1>. QED  BY <1>6

(* Induction over the naturals, for a set of them. *)
LEMMA EveryNatural ==
  ASSUME NEW S, 0 \in S, \A n \in Nat : n \in S => n + 1 \in S
  PROVE  Nat \subseteq S
<1>. SUFFICES ASSUME Nat \ S # {} PROVE FALSE
  OBVIOUS
<1>1. PICK j \in Nat \ S : \A i \in Nat \ S : j <= i
  BY LeastNatural
<1>2. j # 0 /\ j - 1 \in Nat /\ j - 1 + 1 = j
  BY <1>1
<1>3. j - 1 \in S
  BY <1>1, <1>2
<1>. QED  BY <1>1, <1>2, <1>3

(* A fold is the value, for the whole domain of the sequence, of a function *)
(* that exists. *)

Largest(S, x) == x \in S /\ \A y \in S : x >= y

LEMMA LargestIsMax ==
  ASSUME NEW S \in SUBSET Int, NEW x, Largest(S, x)
  PROVE  Max(S) = x
<1>1. Max(S) \in S /\ \A y \in S : Max(S) >= y
  BY DEF Max, Largest
<1>2. x >= Max(S) /\ Max(S) >= x /\ x \in Int /\ Max(S) \in Int
  BY <1>1 DEF Largest
<1>. QED  BY <1>2

(* The function by which the fold over the first elements of s is defined. *)
Iterates(t, c, g, base, s, D) ==
  g = [u \in SUBSET D |->
         IF u = {} THEN base
         ELSE FoldOp(t, c, g[u \ {Max(u)}], s[Max(u)])]

LEMMA FoldIsIterate ==
  ASSUME NEW t, NEW c, NEW base, NEW s
  PROVE  Fold(t, c, base, s) = (CHOOSE g : Iterates(t, c, g, base, s, DOMAIN s))[DOMAIN s]
BY Zenon DEF Fold, FoldLeft, MapThenFoldSet, Iterates

(* Every fold has such a function, by induction on the length. *)
LEMMA Iterable ==
  ASSUME NEW t, NEW c, NEW base, NEW s, NEW n \in Nat
  PROVE  \E g : Iterates(t, c, g, base, s, 1..n)
<1>. DEFINE Q == {m \in Nat : \E g : Iterates(t, c, g, base, s, 1..m)}
<1>1. 0 \in Q
  <2>. DEFINE g == [u \in SUBSET (1..0) |-> base]
  <2>1. \A u \in SUBSET (1..0) : u = {}
    OBVIOUS
  <2>2. Iterates(t, c, g, base, s, 1..0)
    BY <2>1 DEF Iterates
  <2>. QED  BY <2>2
<1>2. ASSUME NEW m \in Nat, m \in Q
      PROVE  m + 1 \in Q
  <2>1. PICK g : Iterates(t, c, g, base, s, 1..m)
    BY <1>2
  <2>. DEFINE h == [u \in SUBSET (1..(m + 1)) |->
                      IF m + 1 \in u THEN FoldOp(t, c, g[u \ {m + 1}], s[m + 1]) ELSE g[u]]
  <2>2. \A u \in SUBSET (1..m) : h[u] = g[u]
    OBVIOUS
  <2>3. ASSUME NEW u \in SUBSET (1..(m + 1))
        PROVE  h[u] = IF u = {} THEN base ELSE FoldOp(t, c, h[u \ {Max(u)}], s[Max(u)])
    <3>1. CASE m + 1 \in u
      <4>1. Max(u) = m + 1
        BY <3>1, LargestIsMax DEF Largest
      <4>2. u \ {m + 1} \in SUBSET (1..m)
        OBVIOUS
      <4>3. h[u] = FoldOp(t, c, g[u \ {m + 1}], s[m + 1])
        BY <3>1
      <4>. HIDE DEF h
      <4>. QED  BY <3>1, <4>1, <4>2, <4>3, <2>2
    <3>2. CASE m + 1 \notin u
      <4>1. u \in SUBSET (1..m)
        BY <3>2
      <4>2. u \ {Max(u)} \in SUBSET (1..m)
        BY <4>1
      <4>3. g[u] = IF u = {} THEN base ELSE FoldOp(t, c, g[u \ {Max(u)}], s[Max(u)])
        BY <2>1, <4>1 DEF Iterates
      <4>4. h[u] = g[u] /\ h[u \ {Max(u)}] = g[u \ {Max(u)}]
        BY <2>2, <4>1, <4>2
      <4>. HIDE DEF h
      <4>. QED  BY <4>3, <4>4
    <3>. QED  BY <3>1, <3>2
  <2>4. h = [u \in SUBSET (1..(m + 1)) |-> h[u]]
    OBVIOUS
  <2>. HIDE DEF h
  <2>5. Iterates(t, c, h, base, s, 1..(m + 1))
    BY <2>3, <2>4, Zenon DEF Iterates
  <2>. QED  BY <2>5
<1>. HIDE DEF Q
<1>3. n \in Q
  BY <1>1, <1>2, EveryNatural
<1>. QED  BY <1>3 DEF Q

(* What holds of the base, and after each element if it held before it,     *)
(* holds of the result of a fold.                                           *)
LEMMA FoldInvariant ==
  ASSUME NEW t, NEW c, NEW s, NEW n \in Nat, DOMAIN s = 1..n, NEW base, NEW P, base \in P[0],
         \A i \in 1..n : \A x \in P[i - 1] : FoldOp(t, c, x, s[i]) \in P[i]
  PROVE  Fold(t, c, base, s) \in P[n]
<1>. DEFINE g == CHOOSE g : Iterates(t, c, g, base, s, 1..n)
            Q == {m \in Nat : m <= n => g[1..m] \in P[m]}
<1>1. Iterates(t, c, g, base, s, 1..n)
  BY Iterable, Zenon
<1>2. Fold(t, c, base, s) = g[1..n]
  BY FoldIsIterate, Zenon
<1>. HIDE DEF g
<1>3. g[{}] = base
  BY <1>1 DEF Iterates
<1>4. 0 \in Q
  <2>1. 1..0 = {}
    OBVIOUS
  <2>. QED  BY <1>3, <2>1
<1>5. ASSUME NEW m \in Nat, m \in Q
      PROVE  m + 1 \in Q
  <2>. SUFFICES ASSUME m + 1 <= n PROVE g[1..(m + 1)] \in P[m + 1]
    OBVIOUS
  <2>1. m + 1 \in 1..n /\ m + 1 - 1 = m /\ g[1..m] \in P[m]
    BY <1>5
  <2>2. Max(1..(m + 1)) = m + 1
    <3>1. Largest(1..(m + 1), m + 1)
      BY DEF Largest
    <3>. QED  BY <3>1, LargestIsMax
  <2>. HIDE DEF Q
  <2>3. (1..(m + 1)) \ {m + 1} = 1..m /\ 1..(m + 1) \in SUBSET (1..n) /\ 1..(m + 1) # {}
    <3>1. (1..(m + 1)) \ {m + 1} = 1..m
      OBVIOUS
    <3>2. 1..(m + 1) \in SUBSET (1..n) /\ m + 1 \in 1..(m + 1)
      OBVIOUS
    <3>. QED  BY <3>1, <3>2
  <2>4. g[1..(m + 1)] = FoldOp(t, c, g[1..m], s[m + 1])
    BY <1>1, <2>2, <2>3 DEF Iterates
  <2>. QED  BY <2>1, <2>4
<1>6. n \in Q
  <2>. HIDE DEF Q
  <2>. QED  BY <1>4, <1>5, EveryNatural
<1>. QED  BY <1>2, <1>6

-----------------------------------------------------------------------------
(* The cleanup of the list: the parameters are what is freed and the list.  *)
Elements(s, n) == {s[i] : i \in 1..n}

KeptP(c, list, i)  ==
  list \in Seq(Offers) /\ Elements(list, Len(list)) = Elements(c[2], i) \ c[1]

(* The list that the cleanup leaves is a fold.                              *)
LEMMA KeptIsFold ==
  ASSUME NEW c
  PROVE  Kept(c[2], c[1]) = Fold("kept", c, <<>>, c[2])
<1>. DEFINE s == c[2]
            I(g) == g = [u \in SUBSET (DOMAIN s) |->
                           IF u = {} THEN <<>>
                           ELSE KeptOp(c, g[u \ {Max(u)}], s[Max(u)])]
<1>1. \A g : I(g) <=> Iterates("kept", c, g, <<>>, s, DOMAIN s)
  BY DEF Iterates, FoldOp
<1>2. Kept(c[2], c[1]) = (CHOOSE g : I(g))[DOMAIN s]
  BY Zenon DEF Kept, KeptOp, FoldLeft, MapThenFoldSet
<1>. HIDE DEF I, s
<1>3. (CHOOSE g : I(g)) = (CHOOSE g : Iterates("kept", c, g, <<>>, s, DOMAIN s))
  BY <1>1, Zenon
<1>4. Kept(c[2], c[1]) = Fold("kept", c, <<>>, s)
  BY <1>2, <1>3, FoldIsIterate
<1>. QED  BY <1>4 DEF s

(* One element is put before a list.                                        *)
LEMMA OneBefore ==
  ASSUME NEW list \in Seq(Offers), NEW k \in Offers
  PROVE  /\ <<k>> \o list \in Seq(Offers)
         /\ Elements(<<k>> \o list, Len(<<k>> \o list)) = Elements(list, Len(list)) \cup {k}
<1>. DEFINE n == Len(list)
            l == <<k>> \o list
<1>1. l \in Seq(Offers) /\ n \in Nat /\ Len(l) = n + 1 /\ l[1] = k
      /\ \A i \in 1..n : l[i + 1] = list[i]
  BY ConcatProperties
<1>. HIDE DEF l, n
<1>2. Elements(l, n + 1) \subseteq Elements(list, n) \cup {k}
  <2>. SUFFICES ASSUME NEW i \in 1..n + 1
                PROVE  l[i] \in Elements(list, n) \cup {k}
    BY DEF Elements
  <2>1. CASE i = 1
    BY <1>1, <2>1
  <2>2. CASE i # 1
    <3>1. i - 1 \in 1..n /\ i - 1 + 1 = i
      BY <1>1, <2>2
    <3>2. l[i] = list[i - 1]
      BY <1>1, <3>1
    <3>. QED  BY <3>1, <3>2 DEF Elements
  <2>. QED  BY <2>1, <2>2
<1>3. Elements(list, n) \cup {k} \subseteq Elements(l, n + 1)
  <2>1. 1 \in 1..n + 1 /\ \A i \in 1..n : i + 1 \in 1..n + 1
    BY <1>1
  <2>. QED  BY <1>1, <2>1 DEF Elements
<1>. QED  BY <1>1, <1>2, <1>3 DEF l, n

(* It keeps what is not freed, in whatever order.                           *)
LEMMA KeptElements ==
  \A order \in Seq(Offers) : \A freed :
    /\ Kept(order, freed) \in Seq(Offers)
    /\ LET l == Kept(order, freed) IN
       Elements(l, Len(l)) = Elements(order, Len(order)) \ freed
<1>. SUFFICES ASSUME NEW order \in Seq(Offers), NEW freed
              PROVE  KeptP(<<freed, order>>, Kept(order, freed), Len(order))
  BY DEF KeptP
<1>. DEFINE c == <<freed, order>>
<1>1. Len(order) \in Nat /\ DOMAIN order = 1..Len(order)
  BY LenProperties
<1>2. c[1] = freed /\ c[2] = order
  OBVIOUS
<1>. HIDE DEF c
<1>3. KeptP(c, <<>>, 0)
  BY DEF KeptP, Elements
<1>4. ASSUME NEW list, NEW i \in 1..Len(order), KeptP(c, list, i - 1)
      PROVE  KeptP(c, KeptOp(c, list, order[i]), i)
  <2>1. Elements(order, i) = Elements(order, i - 1) \cup {order[i]}
    <3>1. \A j : j \in 1..i <=> j \in 1..i - 1 \/ j = i
      BY <1>1
    <3>. QED  BY <3>1 DEF Elements
  <2>2. order[i] \in Offers
    BY ElementOfSeq
  <2>3. CASE order[i] \in freed
    BY <1>2, <1>4, <2>1, <2>3 DEF KeptP, KeptOp
  <2>4. CASE order[i] \notin freed
    <3>1. /\ <<order[i]>> \o list \in Seq(Offers)
          /\ Elements(<<order[i]>> \o list, Len(<<order[i]>> \o list))
               = Elements(list, Len(list)) \cup {order[i]}
      BY <1>4, <2>2, OneBefore DEF KeptP
    <3>2. KeptOp(c, list, order[i]) = <<order[i]>> \o list
      BY <1>2, <2>4 DEF KeptOp
    <3>. QED  BY <1>2, <1>4, <2>1, <2>4, <3>1, <3>2 DEF KeptP
  <2>. QED  BY <2>3, <2>4
<1>5. KeptP(c, Fold("kept", c, <<>>, order), Len(order))
  <2>. DEFINE n == Len(order)
              P == [i \in 0..n |-> {list \in Seq(Offers) : KeptP(c, list, i)}]
  <2>1. <<>> \in P[0]
    BY <1>1, <1>3
  <2>2. \A i \in 1..n : \A x \in P[i - 1] : FoldOp("kept", c, x, order[i]) \in P[i]
    BY <1>1, <1>4 DEF FoldOp, KeptP
  <2>. HIDE DEF P, n
  <2>3. Fold("kept", c, <<>>, order) \in P[n]
    BY <1>1, <2>1, <2>2, FoldInvariant DEF n
  <2>. QED  BY <1>1, <2>3 DEF P, n
<1>6. Kept(order, freed) = Fold("kept", c, <<>>, order)
  <2>1. Kept(c[2], c[1]) = Fold("kept", c, <<>>, c[2])
    BY KeptIsFold
  <2>. QED  BY <1>2, <2>1
<1>. QED  BY <1>5, <1>6 DEF c

LEMMA KeptTyped == \A order \in Seq(Offers) : \A freed : Kept(order, freed) \in Seq(Offers)
BY KeptElements

(* uarpPlatformCleanupAssetsForController()                                 *)
LEMMA CleanupTyped ==
  \A x \in Accessory : \A S \in SUBSET Offers : CleanupAssets(x, S) \in Accessory
<1>. SUFFICES ASSUME NEW x \in Accessory, NEW S \in SUBSET Offers
              PROVE  CleanupAssets(x, S) \in Accessory
  OBVIOUS
<1>. DEFINE freed  == {k \in S : x.obj[k].marked}
            orphan == S \ freed
            c == Asserted(x, \A k \in orphan : x.obj[k].delegate, "orphan without delegate")
            q == Kept(x.order, freed)
            o == [k \in Offers |->
                    IF k \in freed THEN NoAsset
                    ELSE IF k \in orphan THEN [x.obj[k] EXCEPT !.ctrl = FALSE]
                    ELSE x.obj[k]]
            b == [c EXCEPT !.order = q, !.obj = o]
<1>1. /\ CleanupAssets(x, S) \in {b, asset_orphaned(b, x.asset)}
      /\ (x.asset \notin orphan => CleanupAssets(x, S) = b)
  BY Zenon DEF CleanupAssets
<1>2. c \in Accessory
  <2>1. "orphan without delegate" \in Faults /\ (\A k \in orphan : x.obj[k].delegate) \in BOOLEAN
    BY DEF Faults
  <2>. QED  BY <2>1, AssertedTyped
<1>3. q \in Seq(Offers)
  BY KeptTyped DEF Accessory
<1>4. o \in [Offers -> Asset]
  <2>1. \A k \in Offers : x.obj[k] \in Asset /\ [x.obj[k] EXCEPT !.ctrl = FALSE] \in Asset
    BY ObjTyped, AssetField
  <2>. QED  BY <2>1, NoAssetTyped
<1>. HIDE DEF c, q, o
<1>5. b \in Accessory
  BY <1>2, <1>3, <1>4, FieldTyped
<1>. HIDE DEF b
<1>. QED  BY <1>1, <1>5, OrphanedTyped

LEMMA CleanupForTyped == \A x \in Accessory : \A c : CleanupFor(x, c) \in Accessory
<1>1. \A x \in Accessory : \A c : {k \in Listed(x) : x.obj[k].ctrl = c} \in SUBSET Offers
  BY ListedTyped
<1>. QED  BY <1>1, CleanupTyped DEF CleanupFor

LEMMA MetaDataCompleteTyped ==
  \A x \in Accessory, k \in Offers : asset_meta_data_complete(x, k) \in Accessory
<1>. SUFFICES ASSUME NEW x \in Accessory, NEW k \in Offers
              PROVE  asset_meta_data_complete(x, k) \in Accessory
  OBVIOUS
<1>. DEFINE y == [x EXCEPT !.staged = 0]
<1>1. y \in Accessory
  <2>1. 0 \in Int
    OBVIOUS
  <2>. QED  BY <2>1, FieldTyped
<1>2. asset_meta_data_complete(x, k) = UnlessFailed(SetPayloadIndex(y, k, 1), k)
  BY DEF asset_meta_data_complete
<1>. HIDE DEF y
<1>. QED  BY <1>1, <1>2, IndexTyped, UnlessFailedTyped

LEMMA UnitTyped ==
  \A x \in Accessory, k \in Offers : /\ RequestData(x, k, "HEADER", 0, 1) \in Accessory
                                     /\ RequestData(x, k, "METADATA", 0, 1) \in Accessory
                                     /\ RequestData(x, k, "PAYLOAD_METADATA", 0, 1) \in Accessory
BY RequestTyped DEF RequestTypes

LEMMA ReadyTyped == \A x \in Accessory, k \in Offers : asset_ready(x, k) \in Accessory
BY UnitTyped, UnlessFailedTyped, MetaDataCompleteTyped DEF asset_ready

LEMMA NextTyped ==
  \A x \in Accessory, k \in Offers : asset_payload_index_set_next(x, k) \in Accessory
<1>1. \A x \in Accessory, k \in Offers : x.obj[k].index + 1 \in Int
  BY ObjTyped DEF Asset
<1>. QED  BY <1>1, IndexTyped, UnlessFailedTyped DEF asset_payload_index_set_next

LEMMA StagedTyped == \A x \in Accessory, k \in Offers : asset_fully_staged_mark(x, k) \in Accessory
<1>1. "COMPLETE" \in Texts
  BY DEF Texts
<1>. QED  BY <1>1, StateTyped, NotificationTyped, UnlessFailedTyped DEF asset_fully_staged_mark

LEMMA PayloadMetaTyped ==
  \A x \in Accessory, k \in Offers : payload_meta_data_complete(x, k) \in Accessory
<1>. SUFFICES ASSUME NEW x \in Accessory, NEW k \in Offers
              PROVE  payload_meta_data_complete(x, k) \in Accessory
  OBVIOUS
<1>. DEFINE f == IF x.transfer THEN payload_transfer_finish(x, FALSE) ELSE Passing(x)
            g == payload_transfer_start(f)
            h == PayloadRequestData(g, k)
<1>1. payload_meta_data_complete(x, k) \in
        {x, report_failure(f, k), report_failure(g, k), UnlessFailed(h, k)}
  BY Zenon DEF payload_meta_data_complete
<1>2. f \in Accessory
  BY FinishTyped, StatusTyped
<1>. HIDE DEF f
<1>3. g \in Accessory
  BY <1>2, StartTyped
<1>. HIDE DEF g
<1>4. h \in Accessory
  BY <1>3, PayloadRequestTyped
<1>. HIDE DEF h
<1>. QED  BY <1>1, <1>2, <1>3, <1>4, FailureTyped, UnlessFailedTyped

LEMMA PayloadReadyTyped == \A x \in Accessory, k \in Offers : payload_ready(x, k) \in Accessory
<1>. SUFFICES ASSUME NEW x \in Accessory, NEW k \in Offers
              PROVE  payload_ready(x, k) \in Accessory
  OBVIOUS
<1>. DEFINE c == Asserted(x, ~x.transfer, "payload ready while transferring")
            b == [c EXCEPT !.current = x.obj[k].pl, !.fast = FALSE,
                           !.hash = [n |-> 0, ok |-> TRUE]]
<1>1. payload_ready(x, k) \in
        {payload_meta_data_complete(b, k), UnlessFailed(RequestData(b, k, "PAYLOAD_METADATA", 0, 1), k),
         report_failure(x, k), asset_payload_index_set_next(x, k), asset_fully_staged_mark(x, k)}
  BY Zenon DEF payload_ready
<1>2. c \in Accessory
  BY AssertedTyped DEF Faults
<1>. HIDE DEF c
<1>3. b \in Accessory
  <2>1. x.obj[k].pl \in Int /\ [n |-> 0, ok |-> TRUE] \in [n: Int, ok: BOOLEAN]
    BY ObjTyped DEF Asset
  <2>. QED  BY <1>2, <2>1, FieldTyped
<1>. HIDE DEF b
<1>. QED  BY <1>1, <1>3, PayloadMetaTyped, UnitTyped, UnlessFailedTyped, FailureTyped,
             NextTyped, StagedTyped

LEMMA DataTyped == \A x \in Accessory, k \in Offers : \A at : payload_data(x, k, at) \in Accessory
<1>. SUFFICES ASSUME NEW x \in Accessory, NEW k \in Offers, NEW at
              PROVE  payload_data(x, k, at) \in Accessory
  OBVIOUS
<1>. DEFINE n == [n |-> Least(x.hash.n + 1, LENGTH + 1),
                  ok |-> x.hash.ok /\ at = <<x.current, x.hash.n>>]
            h == [x EXCEPT !.hash = n]
<1>1. payload_data(x, k, at) = UnlessFailed(payload_transfer_write(h, x.obj[k].v, at), k)
  BY DEF payload_data
<1>2. n \in [n: Int, ok: BOOLEAN]
  <2>1. x.hash.n + 1 \in Int /\ LENGTH + 1 \in Int
    BY LengthTypes DEF Accessory
  <2>2. Least(x.hash.n + 1, LENGTH + 1) \in Int
    BY <2>1, LeastTyped
  <2>. QED  BY <2>2
<1>. HIDE DEF n
<1>3. h \in Accessory
  BY <1>2, FieldTyped
<1>4. x.obj[k].v \in Int
  BY ObjTyped DEF Asset
<1>. HIDE DEF h
<1>. QED  BY <1>1, <1>3, <1>4, WriteTyped, UnlessFailedTyped

LEMMA RebootTyped == \A x \in Accessory : apply_and_reboot(x) \in Accessory
BY FieldTyped DEF apply_and_reboot, AssetStates

LEMMA DataCompleteTyped ==
  \A x \in Accessory, k \in Offers : payload_data_complete(x, k) \in Accessory
<1>. SUFFICES ASSUME NEW x \in Accessory, NEW k \in Offers
              PROVE  payload_data_complete(x, k) \in Accessory
  OBVIOUS
<1>. DEFINE f == payload_transfer_finish(x, TRUE)
            b == [f EXCEPT !.current = None, !.staged = Least(@ + 1, Payloads)]
<1>1. payload_data_complete(x, k) \in
        {x, report_failure(f, k), report_failure(x, k), apply_and_reboot(b),
         asset_payload_index_set_next(b, k), asset_fully_staged_mark(b, k)}
  BY Zenon DEF payload_data_complete
<1>2. f \in Accessory
  BY FinishTyped
<1>. HIDE DEF f
<1>3. b \in Accessory
  <2>1. f.staged + 1 \in Int
    BY <1>2 DEF Accessory
  <2>2. Least(f.staged + 1, Payloads) \in Int
    BY <2>1, LeastTyped, LengthTypes
  <2>3. None \in Int
    BY DEF None
  <2>. QED  BY <1>2, <2>2, <2>3, FieldTyped
<1>. HIDE DEF b
<1>. QED  BY <1>1, <1>2, <1>3, FailureTyped, RebootTyped, NextTyped, StagedTyped

-----------------------------------------------------------------------------
(* What the accessory hands over. *)

HasBuffers(x) == {"buf", "pending", "sending", "kick", "obj", "status", "fault"} \subseteq DOMAIN x

(* y is x after messages have been handed over. *)
Sent(x, y) ==
  /\ HasBuffers(y)
  /\ \/ y.buf = x.buf /\ y.sending = x.sending /\ y.kick = x.kick
     \/ x.buf = NoMsg /\ y.buf # NoMsg /\ y.sending = "new" /\ y.kick = TRUE
  /\ y.buf = NoMsg => y.pending = x.pending

(* Steps of one handler add up: of the messages handed over one starts to   *)
(* be sent at most, and only when nothing was.                              *)
LEMMA SentTrans ==
  ASSUME NEW x, NEW y, NEW z, Sent(x, y), Sent(y, z)
  PROVE  Sent(x, z)
BY DEF Sent

LEMMA SentBuffers == \A x, y : Sent(x, y) => HasBuffers(y)
BY DEF Sent

LEMMA FailingSent == \A x : HasBuffers(x) => Sent(x, Failing(x))
BY DEF Sent, HasBuffers, Failing

LEMMA PassingSent == \A x : HasBuffers(x) => Sent(x, Passing(x))
BY DEF Sent, HasBuffers, Passing

LEMMA AssertedSent == \A x, b, n : HasBuffers(x) => Sent(x, Asserted(x, b, n))
BY DEF Sent, HasBuffers, Asserted

(* send_message(), and what calls it.                                       *)
LEMMA AnySent == \A x, m : HasBuffers(x) /\ m # NoMsg => Sent(x, send_message(x, m))
<1>. SUFFICES ASSUME NEW x, NEW m, HasBuffers(x), m # NoMsg
              PROVE  Sent(x, send_message(x, m))
  OBVIOUS
<1>2. CASE x.buf = NoMsg
  <2>. DEFINE b == Asserted(x, x.sending = "none", "dangling buffer")
              d == [b EXCEPT !.buf = m, !.sending = "new", !.kick = TRUE]
  <2>1. Sent(x, b)
    BY AssertedSent
  <2>2. send_message(x, m) = Passing(d)
    BY <1>2 DEF send_message
  <2>. HIDE DEF b
  <2>3. Sent(x, d)
    BY <2>1, <1>2 DEF Sent, HasBuffers
  <2>. HIDE DEF d
  <2>. QED  BY <2>2, <2>3, PassingSent, SentTrans, SentBuffers
<1>3. CASE x.buf # NoMsg /\ x.pending = NoMsg
  BY <1>3 DEF send_message, Passing, Sent, HasBuffers
<1>4. CASE x.buf # NoMsg /\ x.pending # NoMsg
  BY <1>4, FailingSent DEF send_message
<1>. QED  BY <1>2, <1>3, <1>4

LEMMA MessageSent ==
  \A x, t, k, g : HasBuffers(x) /\ t # "NOTHING" => Sent(x, send_message(x, Msg(t, k, g)))
<1>1. \A t, k, g : t # "NOTHING" => Msg(t, k, g).type # NoMsg.type
  BY DEF Msg, NoMsg
<1>. QED  BY <1>1, AnySent

LEMMA ReplySent == \A x, t, k : HasBuffers(x) /\ t # "NOTHING" => Sent(x, Reply(x, t, k))
BY MessageSent DEF Reply

LEMMA NotificationSent == \A x, k, w : HasBuffers(x) => Sent(x, Notification(x, k, w))
BY MessageSent DEF Notification

LEMMA ContinueSent == \A x, k : HasBuffers(x) => Sent(x, RequestDataContinue(x, k))
<1>. SUFFICES ASSUME NEW x, NEW k, HasBuffers(x)
              PROVE  Sent(x, RequestDataContinue(x, k))
  OBVIOUS
<1>. DEFINE r == x.obj[k].req
            g == <<r.type, r.of, r.rel + r.got>>
            s == send_message(x, Msg("REQUEST", x.obj[k].id, g))
<1>1. Sent(x, s)
  BY MessageSent
<1>2. \/ RequestDataContinue(x, k) = Passing(x)
      \/ RequestDataContinue(x, k) = s
      \/ RequestDataContinue(x, k) = [s EXCEPT !.obj[k].req.out = TRUE]
  BY Zenon DEF RequestDataContinue
<1>. HIDE DEF s
<1>3. Sent(x, [s EXCEPT !.obj[k].req.out = TRUE])
  BY <1>1 DEF Sent, HasBuffers
<1>. QED  BY <1>1, <1>2, <1>3, PassingSent

LEMMA RequestSent == \A x, k, t, rel, n : HasBuffers(x) => Sent(x, RequestData(x, k, t, rel, n))
<1>. SUFFICES ASSUME NEW x, NEW k, NEW t, NEW rel, NEW n, HasBuffers(x)
              PROVE  Sent(x, RequestData(x, k, t, rel, n))
  OBVIOUS
<1>1. \A v : Sent(x, [x EXCEPT !.obj[k].req = v])
  BY DEF Sent, HasBuffers
<1>2. CASE RequestData(x, k, t, rel, n) = Failing(x)
  BY <1>2, FailingSent
<1>3. ASSUME NEW v, \/ RequestData(x, k, t, rel, n) = Failing([x EXCEPT !.obj[k].req = v])
                    \/ RequestData(x, k, t, rel, n) = RequestDataContinue([x EXCEPT !.obj[k].req = v], k)
      PROVE  Sent(x, RequestData(x, k, t, rel, n))
  <2>. DEFINE y == [x EXCEPT !.obj[k].req = v]
  <2>1. Sent(x, y)
    BY <1>1
  <2>2. RequestData(x, k, t, rel, n) \in {Failing(y), RequestDataContinue(y, k)}
    BY <1>3
  <2>. HIDE DEF y
  <2>3. HasBuffers(y)
    BY <2>1 DEF Sent
  <2>4. Sent(y, RequestData(x, k, t, rel, n))
    BY <2>2, <2>3, FailingSent, ContinueSent
  <2>. QED  BY <2>1, <2>4, SentTrans
<1>4. \/ RequestData(x, k, t, rel, n) = Failing(x)
      \/ \E v : RequestData(x, k, t, rel, n) = Failing([x EXCEPT !.obj[k].req = v])
      \/ \E v : RequestData(x, k, t, rel, n) = RequestDataContinue([x EXCEPT !.obj[k].req = v], k)
  BY Zenon DEF RequestData
<1>. QED  BY <1>2, <1>3, <1>4, Zenon

LEMMA PayloadRequestSent == \A x, k : HasBuffers(x) => Sent(x, PayloadRequestData(x, k))
BY RequestSent DEF PayloadRequestData

LEMMA IndexSent == \A x, k, p : HasBuffers(x) => Sent(x, SetPayloadIndex(x, k, p))
<1>. SUFFICES ASSUME NEW x, NEW k, NEW p, HasBuffers(x)
              PROVE  Sent(x, SetPayloadIndex(x, k, p))
  OBVIOUS
<1>. DEFINE y == [x EXCEPT !.obj[k].recvd = 0, !.obj[k].index = p, !.obj[k].plflags = "none"]
<1>1. Sent(x, y)
  BY DEF Sent, HasBuffers
<1>2. SetPayloadIndex(x, k, p) = RequestData(y, k, "PAYLOAD_HEADER", p - 1, 1)
  BY DEF SetPayloadIndex
<1>. HIDE DEF y
<1>. QED  BY <1>1, <1>2, RequestSent, SentTrans, SentBuffers

(* The flash writer hands nothing over. *)
LEMMA StartSent == \A x : HasBuffers(x) => Sent(x, payload_transfer_start(x))
<1>. SUFFICES ASSUME NEW x, HasBuffers(x)
              PROVE  Sent(x, payload_transfer_start(x))
  OBVIOUS
<1>. DEFINE c == Asserted(x, x.current # None, "start without payload")
            b == Asserted(c, ~x.transfer, "start while transferring")
<1>1. Sent(x, b)
  BY AssertedSent, SentTrans, SentBuffers
<1>2. payload_transfer_start(x) =
        IF b.fault # "none" \/ ~b.io THEN Failing(b)
        ELSE Passing([b EXCEPT !.transfer = TRUE,
               !.flash[b.current] = [v |-> None, n |-> 0, ok |-> TRUE, boot |-> FALSE]])
  BY Zenon DEF payload_transfer_start
<1>. HIDE DEF b, c
<1>3. Sent(b, payload_transfer_start(x))
  BY <1>1, <1>2, FailingSent DEF Sent, Passing, HasBuffers
<1>. QED  BY <1>1, <1>3, SentTrans

LEMMA WriteSent == \A x, v, at : HasBuffers(x) => Sent(x, payload_transfer_write(x, v, at))
<1>. SUFFICES ASSUME NEW x, NEW v, NEW at, HasBuffers(x)
              PROVE  Sent(x, payload_transfer_write(x, v, at))
  OBVIOUS
<1>. DEFINE b == Asserted(x, x.transfer, "write without transfer")
            f == b.flash[b.current]
<1>1. Sent(x, b)
  BY AssertedSent
<1>2. payload_transfer_write(x, v, at) =
        IF b.fault # "none" \/ ~b.io THEN Failing(b)
        ELSE Passing([b EXCEPT !.flash[b.current] =
               [f EXCEPT !.v = v, !.n = Least(f.n + 1, LENGTH + 1),
                         !.ok = f.ok /\ at = <<b.current, f.n>> /\ f.v \in {None, v}]])
  BY Zenon DEF payload_transfer_write
<1>. HIDE DEF b
<1>3. Sent(b, payload_transfer_write(x, v, at))
  BY <1>1, <1>2, FailingSent DEF Sent, Passing, HasBuffers
<1>. QED  BY <1>1, <1>3, SentTrans

LEMMA FinishSent == \A x, success : HasBuffers(x) => Sent(x, payload_transfer_finish(x, success))
<1>. SUFFICES ASSUME NEW x, NEW success, HasBuffers(x)
              PROVE  Sent(x, payload_transfer_finish(x, success))
  OBVIOUS
<1>. DEFINE b == Asserted(x, x.transfer, "finish without transfer")
<1>1. Sent(x, b)
  BY AssertedSent
<1>2. payload_transfer_finish(x, success) =
        IF b.fault # "none" THEN Failing(b)
        ELSE [b EXCEPT !.transfer = FALSE, !.status = b.io,
                !.flash[b.current].n    = IF success THEN @ ELSE 0,
                !.flash[b.current].boot = success /\ b.io]
  BY Zenon DEF payload_transfer_finish
<1>. HIDE DEF b
<1>3. Sent(b, payload_transfer_finish(x, success))
  BY <1>1, <1>2, FailingSent DEF Sent, HasBuffers
<1>. QED  BY <1>1, <1>3, SentTrans

LEMMA ReleaseSent == \A x, k : HasBuffers(x) => Sent(x, AssetRelease(x, k))
BY DEF Sent, HasBuffers, AssetRelease

LEMMA RemoveSent == \A x, k, release : HasBuffers(x) => Sent(x, remove_asset(x, k, release))
<1>. SUFFICES ASSUME NEW x, NEW k, NEW release, HasBuffers(x)
              PROVE  Sent(x, remove_asset(x, k, release))
  OBVIOUS
<1>. DEFINE r == IF release THEN AssetRelease(x, k) ELSE x
            b == [r EXCEPT !.state = "NONE", !.asset = None]
            f == IF b.transfer THEN payload_transfer_finish(b, FALSE) ELSE b
<1>1. Sent(x, r)
  BY ReleaseSent DEF Sent, HasBuffers
<1>2. remove_asset(x, k, release) = IF k # x.asset THEN x ELSE [f EXCEPT !.current = None]
  BY Zenon DEF remove_asset
<1>. HIDE DEF r
<1>3. Sent(r, b)
  BY <1>1 DEF Sent, HasBuffers
<1>. HIDE DEF b
<1>4. Sent(b, f)
  BY <1>3, FinishSent DEF Sent
<1>. HIDE DEF f
<1>5. Sent(f, [f EXCEPT !.current = None])
  BY <1>4 DEF Sent, HasBuffers
<1>6. Sent(x, [f EXCEPT !.current = None])
  BY <1>1, <1>3, <1>4, <1>5, SentTrans
<1>. QED  BY <1>2, <1>6 DEF Sent

LEMMA RescindedSent == \A x, k : HasBuffers(x) => Sent(x, asset_rescinded(x, k))
<1>. SUFFICES ASSUME NEW x, NEW k, HasBuffers(x)
              PROVE  Sent(x, asset_rescinded(x, k))
  OBVIOUS
<1>. DEFINE b == Asserted(x, x.obj[k].delegate, "rescinded asset without delegate")
<1>1. Sent(x, b)
  BY AssertedSent
<1>2. asset_rescinded(x, k) = remove_asset(b, k, FALSE)
  BY Zenon DEF asset_rescinded
<1>. HIDE DEF b
<1>. QED  BY <1>1, <1>2, RemoveSent, SentTrans, SentBuffers

LEMMA OrphanedSent == \A x, k : HasBuffers(x) => Sent(x, asset_orphaned(x, k))
<1>. SUFFICES ASSUME NEW x, NEW k, HasBuffers(x)
              PROVE  Sent(x, asset_orphaned(x, k))
  OBVIOUS
<1>1. asset_orphaned(x, k) \in {x, [x EXCEPT !.state = "ORPHANED"], remove_asset(x, k, TRUE)}
  BY Zenon DEF asset_orphaned
<1>2. Sent(x, x) /\ Sent(x, [x EXCEPT !.state = "ORPHANED"])
  BY DEF Sent, HasBuffers
<1>. QED  BY <1>1, <1>2, RemoveSent

LEMMA FailureSent == \A x, k : HasBuffers(x) => Sent(x, report_failure(x, k))
<1>. SUFFICES ASSUME NEW x, NEW k, HasBuffers(x)
              PROVE  Sent(x, report_failure(x, k))
  OBVIOUS
<1>. DEFINE y == [x EXCEPT !.state = "FAILED"]
<1>1. report_failure(x, k) \in {x, y, remove_asset(x, k, TRUE), Notification(y, k, "COMPLETE")}
  BY Zenon DEF report_failure
<1>2. Sent(x, x) /\ Sent(x, y)
  BY DEF Sent, HasBuffers
<1>. HIDE DEF y
<1>3. Sent(x, Notification(y, k, "COMPLETE"))
  BY <1>2, NotificationSent, SentTrans, SentBuffers
<1>. QED  BY <1>1, <1>2, <1>3, RemoveSent

LEMMA UnlessFailedSent == \A x, k : HasBuffers(x) => Sent(x, UnlessFailed(x, k))
BY FailureSent DEF UnlessFailed, Sent

LEMMA CleanupSent == \A x, S : HasBuffers(x) => Sent(x, CleanupAssets(x, S))
<1>. SUFFICES ASSUME NEW x, NEW S, HasBuffers(x)
              PROVE  Sent(x, CleanupAssets(x, S))
  OBVIOUS
<1>. DEFINE freed  == {k \in S : x.obj[k].marked}
            orphan == S \ freed
            c == Asserted(x, \A k \in orphan : x.obj[k].delegate, "orphan without delegate")
            b == [c EXCEPT !.order = Kept(x.order, freed),
                           !.obj = [k \in Offers |->
                                      IF k \in freed THEN NoAsset
                                      ELSE IF k \in orphan THEN [x.obj[k] EXCEPT !.ctrl = FALSE]
                                      ELSE x.obj[k]]]
<1>1. Sent(x, c)
  BY AssertedSent
<1>2. CleanupAssets(x, S) \in {b, asset_orphaned(b, x.asset)}
  BY Zenon DEF CleanupAssets
<1>. HIDE DEF c
<1>3. Sent(c, b)
  BY <1>1 DEF Sent, HasBuffers
<1>. HIDE DEF b
<1>4. Sent(x, b)
  BY <1>1, <1>3, SentTrans
<1>. QED  BY <1>2, <1>4, OrphanedSent, SentTrans, SentBuffers

-----------------------------------------------------------------------------
(* The course of an asset. *)

LEMMA SentField ==
  ASSUME NEW x, HasBuffers(x), NEW v
  PROVE  /\ Sent(x, [x EXCEPT !.state = v])
         /\ Sent(x, [x EXCEPT !.asset = v])
         /\ Sent(x, [x EXCEPT !.staged = v])
         /\ Sent(x, [x EXCEPT !.fast = v])
         /\ Sent(x, [x EXCEPT !.hash = v])
         /\ Sent(x, [x EXCEPT !.obj = v])
         /\ Sent(x, [x EXCEPT !.current = v])
         /\ Sent(x, [x EXCEPT !.reboot = v])
         /\ Sent(x, [x EXCEPT !.allowed = v])
         /\ Sent(x, [x EXCEPT !.order = v])
         /\ Sent(x, [x EXCEPT !.io = v])
         /\ \A k : Sent(x, [x EXCEPT !.obj[k] = v])
BY DEF Sent, HasBuffers

LEMMA MetaDataCompleteSent == \A x, k : HasBuffers(x) => Sent(x, asset_meta_data_complete(x, k))
<1>. SUFFICES ASSUME NEW x, NEW k, HasBuffers(x)
              PROVE  Sent(x, asset_meta_data_complete(x, k))
  OBVIOUS
<1>. DEFINE y == [x EXCEPT !.staged = 0]
            z == SetPayloadIndex(y, k, 1)
<1>1. Sent(x, y)
  BY SentField
<1>2. asset_meta_data_complete(x, k) = UnlessFailed(z, k)
  BY DEF asset_meta_data_complete
<1>. HIDE DEF y
<1>3. Sent(y, z)
  BY <1>1, IndexSent, SentBuffers
<1>. HIDE DEF z
<1>. QED  BY <1>1, <1>2, <1>3, UnlessFailedSent, SentTrans, SentBuffers

LEMMA ReadySent == \A x, k : HasBuffers(x) => Sent(x, asset_ready(x, k))
BY RequestSent, UnlessFailedSent, MetaDataCompleteSent, SentTrans, SentBuffers DEF asset_ready

LEMMA NextSent == \A x, k : HasBuffers(x) => Sent(x, asset_payload_index_set_next(x, k))
BY IndexSent, UnlessFailedSent, SentTrans, SentBuffers DEF asset_payload_index_set_next

LEMMA StagedSent == \A x, k : HasBuffers(x) => Sent(x, asset_fully_staged_mark(x, k))
<1>. SUFFICES ASSUME NEW x, NEW k, HasBuffers(x)
              PROVE  Sent(x, asset_fully_staged_mark(x, k))
  OBVIOUS
<1>. DEFINE y == [x EXCEPT !.state = "STAGED"]
<1>1. Sent(x, y)
  BY SentField
<1>2. asset_fully_staged_mark(x, k) = UnlessFailed(Notification(y, k, "COMPLETE"), k)
  BY DEF asset_fully_staged_mark
<1>. HIDE DEF y
<1>. QED  BY <1>1, <1>2, NotificationSent, UnlessFailedSent, SentTrans, SentBuffers

LEMMA PayloadMetaSent == \A x, k : HasBuffers(x) => Sent(x, payload_meta_data_complete(x, k))
<1>. SUFFICES ASSUME NEW x, NEW k, HasBuffers(x)
              PROVE  Sent(x, payload_meta_data_complete(x, k))
  OBVIOUS
<1>. DEFINE f == IF x.transfer THEN payload_transfer_finish(x, FALSE) ELSE Passing(x)
            g == payload_transfer_start(f)
            h == PayloadRequestData(g, k)
<1>1. payload_meta_data_complete(x, k) \in
        {x, report_failure(f, k), report_failure(g, k), UnlessFailed(h, k)}
  BY Zenon DEF payload_meta_data_complete
<1>2. Sent(x, f)
  BY FinishSent, PassingSent
<1>. HIDE DEF f
<1>3. Sent(x, g)
  BY <1>2, StartSent, SentTrans, SentBuffers
<1>. HIDE DEF g
<1>4. Sent(x, h)
  BY <1>3, PayloadRequestSent, SentTrans, SentBuffers
<1>. HIDE DEF h
<1>5. /\ Sent(x, report_failure(f, k)) /\ Sent(x, report_failure(g, k))
      /\ Sent(x, UnlessFailed(h, k))
  BY <1>2, <1>3, <1>4, FailureSent, UnlessFailedSent, SentTrans, SentBuffers
<1>. QED  BY <1>1, <1>5 DEF Sent

LEMMA PayloadReadySent == \A x, k : HasBuffers(x) => Sent(x, payload_ready(x, k))
<1>. SUFFICES ASSUME NEW x, NEW k, HasBuffers(x)
              PROVE  Sent(x, payload_ready(x, k))
  OBVIOUS
<1>. DEFINE c == Asserted(x, ~x.transfer, "payload ready while transferring")
            b == [c EXCEPT !.current = x.obj[k].pl, !.fast = FALSE,
                           !.hash = [n |-> 0, ok |-> TRUE]]
            r == RequestData(b, k, "PAYLOAD_METADATA", 0, 1)
<1>1. payload_ready(x, k) \in
        {payload_meta_data_complete(b, k), UnlessFailed(r, k), report_failure(x, k),
         asset_payload_index_set_next(x, k), asset_fully_staged_mark(x, k)}
  BY Zenon DEF payload_ready
<1>2. Sent(x, c)
  BY AssertedSent
<1>. HIDE DEF c
<1>3. Sent(c, b)
  BY <1>2 DEF Sent, HasBuffers
<1>. HIDE DEF b
<1>4. Sent(x, b)
  BY <1>2, <1>3, SentTrans
<1>5. Sent(x, r)
  BY <1>4, RequestSent, SentTrans, SentBuffers
<1>. HIDE DEF r
<1>6. Sent(x, payload_meta_data_complete(b, k)) /\ Sent(x, UnlessFailed(r, k))
  BY <1>4, <1>5, PayloadMetaSent, UnlessFailedSent, SentTrans, SentBuffers
<1>7. /\ Sent(x, report_failure(x, k)) /\ Sent(x, asset_payload_index_set_next(x, k))
      /\ Sent(x, asset_fully_staged_mark(x, k))
  BY FailureSent, NextSent, StagedSent
<1>. QED  BY <1>1, <1>6, <1>7

LEMMA DataSent == \A x, k, at : HasBuffers(x) => Sent(x, payload_data(x, k, at))
<1>. SUFFICES ASSUME NEW x, NEW k, NEW at, HasBuffers(x)
              PROVE  Sent(x, payload_data(x, k, at))
  OBVIOUS
<1>. DEFINE h == [x EXCEPT !.hash = [n |-> Least(@.n + 1, LENGTH + 1),
                                     ok |-> @.ok /\ at = <<x.current, @.n>>]]
            w == payload_transfer_write(h, x.obj[k].v, at)
<1>1. Sent(x, h)
  BY DEF Sent, HasBuffers
<1>2. payload_data(x, k, at) = UnlessFailed(w, k)
  BY Zenon DEF payload_data
<1>. HIDE DEF h
<1>3. Sent(x, w)
  BY <1>1, WriteSent, SentTrans, SentBuffers
<1>. HIDE DEF w
<1>. QED  BY <1>2, <1>3, UnlessFailedSent, SentTrans, SentBuffers

LEMMA RebootSent == \A x : HasBuffers(x) => Sent(x, apply_and_reboot(x))
BY DEF apply_and_reboot, Sent, HasBuffers

LEMMA DataCompleteSent == \A x, k : HasBuffers(x) => Sent(x, payload_data_complete(x, k))
<1>. SUFFICES ASSUME NEW x, NEW k, HasBuffers(x)
              PROVE  Sent(x, payload_data_complete(x, k))
  OBVIOUS
<1>. DEFINE f == payload_transfer_finish(x, TRUE)
            b == [f EXCEPT !.current = None, !.staged = Least(@ + 1, Payloads)]
<1>1. payload_data_complete(x, k) \in
        {x, report_failure(f, k), report_failure(x, k), apply_and_reboot(b),
         asset_payload_index_set_next(b, k), asset_fully_staged_mark(b, k)}
  BY Zenon DEF payload_data_complete
<1>2. Sent(x, f)
  BY FinishSent
<1>. HIDE DEF f
<1>3. Sent(f, b)
  BY <1>2 DEF Sent, HasBuffers
<1>. HIDE DEF b
<1>4. Sent(x, b)
  BY <1>2, <1>3, SentTrans
<1>5. Sent(x, x) /\ Sent(x, report_failure(x, k)) /\ Sent(x, report_failure(f, k))
  BY <1>2, FailureSent, SentTrans, SentBuffers DEF Sent
<1>6. /\ Sent(x, apply_and_reboot(b)) /\ Sent(x, asset_payload_index_set_next(b, k))
      /\ Sent(x, asset_fully_staged_mark(b, k))
  BY <1>4, RebootSent, NextSent, StagedSent, SentTrans, SentBuffers
<1>. QED  BY <1>1, <1>5, <1>6

-----------------------------------------------------------------------------
(* Both at once: y is a state of the accessory, after x handed messages over. *)
Leads(x, y) == y \in Accessory /\ Sent(x, y)

LEMMA AccessoryBuffers == \A x \in Accessory : HasBuffers(x) /\ Sent(x, x)
BY DEF Accessory, HasBuffers, Sent

LEMMA LeadsTrans == \A x, y, z : Leads(x, y) /\ Leads(y, z) => Leads(x, z)
<1>1. \A x, y, z : Sent(x, y) /\ Sent(y, z) => Sent(x, z)
  BY SentTrans
<1>. QED  BY <1>1 DEF Leads

LEMMA LeadsTyped == \A x, y : Leads(x, y) => y \in Accessory
BY DEF Leads

LEMMA LeadsHere == \A x \in Accessory : Leads(x, x)
BY AccessoryBuffers DEF Leads

(* The functions of the course of an asset lead from one well-formed        *)
(* accessory to another.                                                    *)
LEMMA CourseLeads ==
  ASSUME NEW x \in Accessory, NEW k \in Offers
  PROVE  /\ Leads(x, Failing(x)) /\ Leads(x, Passing(x))
         /\ Leads(x, asset_rescinded(x, k))
         /\ Leads(x, asset_ready(x, k))
         /\ Leads(x, payload_ready(x, k))
         /\ Leads(x, asset_meta_data_complete(x, k))
         /\ Leads(x, payload_meta_data_complete(x, k))
         /\ Leads(x, payload_data_complete(x, k))
         /\ Leads(x, PayloadRequestData(x, k))
         /\ Leads(x, RequestDataContinue(x, k))
         /\ Leads(x, AssetRelease(x, k))
         /\ Leads(x, apply_and_reboot(x))
         /\ \A w \in Texts : Leads(x, Notification(x, k, w))
         /\ \A at : Leads(x, payload_data(x, k, at))
<1>1. HasBuffers(x)
  BY AccessoryBuffers
<1>2. /\ Leads(x, Failing(x)) /\ Leads(x, Passing(x))
      /\ Leads(x, asset_rescinded(x, k))
      /\ Leads(x, asset_ready(x, k))
      /\ Leads(x, payload_ready(x, k))
  BY <1>1, StatusTyped, FailingSent, PassingSent, RescindedTyped, RescindedSent, ReadyTyped,
     ReadySent, PayloadReadyTyped, PayloadReadySent DEF Leads
<1>3. /\ Leads(x, asset_meta_data_complete(x, k))
      /\ Leads(x, payload_meta_data_complete(x, k))
      /\ Leads(x, payload_data_complete(x, k))
      /\ Leads(x, PayloadRequestData(x, k))
      /\ Leads(x, RequestDataContinue(x, k))
  BY <1>1, MetaDataCompleteTyped, MetaDataCompleteSent, PayloadMetaTyped, PayloadMetaSent,
     DataCompleteTyped, DataCompleteSent, PayloadRequestTyped, PayloadRequestSent,
     ContinueTyped, ContinueSent DEF Leads
<1>4. /\ Leads(x, AssetRelease(x, k))
      /\ Leads(x, apply_and_reboot(x))
      /\ \A w \in Texts : Leads(x, Notification(x, k, w))
      /\ \A at : Leads(x, payload_data(x, k, at))
  BY <1>1, ReleaseTyped, ReleaseSent, RebootTyped, RebootSent, NotificationTyped,
     NotificationSent, DataTyped, DataSent DEF Leads
<1>. QED  BY <1>2, <1>3, <1>4

LEMMA RequestLeads ==
  \A x \in Accessory, k \in Offers : /\ Leads(x, RequestData(x, k, "HEADER", 0, 1))
                                     /\ Leads(x, RequestData(x, k, "METADATA", 0, 1))
BY UnitTyped, RequestSent, AccessoryBuffers DEF Leads

LEMMA ObjLeads ==
  \A x \in Accessory, k \in Offers, o \in Asset : Leads(x, [x EXCEPT !.obj[k] = o])
<1>. SUFFICES ASSUME NEW x \in Accessory, NEW k \in Offers, NEW o \in Asset
              PROVE  Leads(x, [x EXCEPT !.obj[k] = o])
  OBVIOUS
<1>1. [x EXCEPT !.obj[k] = o] \in Accessory
  BY ObjTyped
<1>2. Sent(x, [x EXCEPT !.obj[k] = o])
  BY AccessoryBuffers, SentField
<1>. QED  BY <1>1, <1>2 DEF Leads

LEMMA HeaderCompleteLeads ==
  \A x \in Accessory, k \in Offers : Leads(x, SuperBinaryHeaderComplete(x, k))
<1>. SUFFICES ASSUME NEW x \in Accessory, NEW k \in Offers
              PROVE  Leads(x, SuperBinaryHeaderComplete(x, k))
  OBVIOUS
<1>. DEFINE o == [x.obj[k] EXCEPT !.hdr = TRUE]
            y == [x EXCEPT !.obj[k].hdr = TRUE]
            m == Notification(x, k, "CORRUPT")
<1>1. SuperBinaryHeaderComplete(x, k) \in {asset_rescinded(m, k), asset_ready(y, k)}
  BY Zenon DEF SuperBinaryHeaderComplete
<1>2. y = [x EXCEPT !.obj[k] = o]
  BY DEF Accessory
<1>3. o \in Asset
  BY ObjTyped, AssetField
<1>. HIDE DEF o, y
<1>4. Leads(x, y)
  BY <1>2, <1>3, ObjLeads
<1>5. "CORRUPT" \in Texts
  BY DEF Texts
<1>6. Leads(x, m)
  BY <1>5, CourseLeads
<1>. HIDE DEF m
<1>7. m \in Accessory /\ y \in Accessory
  BY <1>4, <1>6, LeadsTyped
<1>8. Leads(m, asset_rescinded(m, k)) /\ Leads(y, asset_ready(y, k))
  BY <1>7, CourseLeads
<1>. QED  BY <1>1, <1>4, <1>6, <1>8, LeadsTrans

LEMMA PayloadHeaderLeads ==
  \A x \in Accessory, k \in Offers : Leads(x, PayloadHeaderComplete(x, k))
<1>. SUFFICES ASSUME NEW x \in Accessory, NEW k \in Offers
              PROVE  Leads(x, PayloadHeaderComplete(x, k))
  OBVIOUS
<1>. DEFINE g == IF x.obj[k].v \in PlainVersions THEN "none" ELSE "needs"
            o == [x.obj[k] EXCEPT !.pl = x.obj[k].req.of, !.plflags = g]
            y == [x EXCEPT !.obj[k].pl = x.obj[k].req.of, !.obj[k].plflags = g]
<1>1. PayloadHeaderComplete(x, k) = payload_ready(y, k)
  BY DEF PayloadHeaderComplete
<1>2. y = [x EXCEPT !.obj[k] = o]
  <2>. HIDE DEF g
  <2>. QED  BY DEF Accessory
<1>3. o \in Asset
  <2>1. x.obj[k] \in Asset
    BY ObjTyped
  <2>2. x.obj[k].req.of \in Int
    BY <2>1 DEF Asset, Request
  <2>3. g \in {"none", "needs", "has"}
    OBVIOUS
  <2>. HIDE DEF g
  <2>4. [x.obj[k] EXCEPT !.pl = x.obj[k].req.of] \in Asset
    BY <2>1, <2>2, AssetField
  <2>. QED  BY <2>3, <2>4, AssetField
<1>. HIDE DEF o, y
<1>4. Leads(x, y)
  BY <1>2, <1>3, ObjLeads
<1>5. Leads(y, payload_ready(y, k))
  BY <1>4, LeadsTyped, CourseLeads
<1>. QED  BY <1>1, <1>4, <1>5, LeadsTrans

LEMMA MetaDataLeads ==
  \A x \in Accessory, k \in Offers : Leads(x, UpdateSuperBinaryMetaData(x, k))
<1>. SUFFICES ASSUME NEW x \in Accessory, NEW k \in Offers
              PROVE  Leads(x, UpdateSuperBinaryMetaData(x, k))
  OBVIOUS
<1>. DEFINE o == [x.obj[k] EXCEPT !.meta = TRUE]
            y == [x EXCEPT !.obj[k].meta = TRUE]
<1>1. UpdateSuperBinaryMetaData(x, k) = asset_meta_data_complete(y, k)
  BY DEF UpdateSuperBinaryMetaData
<1>2. y = [x EXCEPT !.obj[k] = o]
  BY DEF Accessory
<1>3. o \in Asset
  BY ObjTyped, AssetField
<1>. HIDE DEF o, y
<1>4. Leads(x, y)
  BY <1>2, <1>3, ObjLeads
<1>5. Leads(y, asset_meta_data_complete(y, k))
  BY <1>4, LeadsTyped, CourseLeads
<1>. QED  BY <1>1, <1>4, <1>5, LeadsTrans

LEMMA PayloadMetaDataLeads ==
  \A x \in Accessory, k \in Offers : Leads(x, UpdatePayloadMetaData(x, k))
<1>. SUFFICES ASSUME NEW x \in Accessory, NEW k \in Offers
              PROVE  Leads(x, UpdatePayloadMetaData(x, k))
  OBVIOUS
<1>. DEFINE o == [x.obj[k] EXCEPT !.plflags = "has", !.meta = TRUE]
            w == [x EXCEPT !.obj[k] = o]
            f == x.obj[k].v \in FastVersions
            y == [x EXCEPT !.obj[k].plflags = "has", !.obj[k].meta = TRUE, !.fast = f]
<1>1. UpdatePayloadMetaData(x, k) = payload_meta_data_complete(y, k)
  BY DEF UpdatePayloadMetaData
<1>2. y = [w EXCEPT !.fast = f]
  BY DEF Accessory
<1>3. o \in Asset
  <2>1. "has" \in {"none", "needs", "has"} /\ TRUE \in BOOLEAN
    OBVIOUS
  <2>. QED  BY <2>1, ObjTyped, AssetField
<1>4. f \in BOOLEAN
  OBVIOUS
<1>. HIDE DEF o, f, y
<1>5. Leads(x, w)
  BY <1>3, ObjLeads
<1>. HIDE DEF w
<1>6. Leads(w, y)
  BY <1>2, <1>4, <1>5, FieldTyped, SentField, AccessoryBuffers DEF Leads
<1>7. Leads(y, payload_meta_data_complete(y, k))
  BY <1>6, LeadsTyped, CourseLeads
<1>. QED  BY <1>1, <1>5, <1>6, <1>7, LeadsTrans

(* The units of a window, one after the other.                              *)
UnitP(c, x, i)  == Leads(c[1], x)

Units(c) == Fold("unit", c, c[1], [i \in 1..c[1].obj[c[2]].req.asked |-> i])

(* UpdatePayloadPayload() takes the units of its window one by one, a fold  *)
(* over their numbers.                                                      *)
LEMMA UnitsAreFold ==
  ASSUME NEW c
  PROVE  UpdatePayloadPayload(c[1], c[2]) =
           LET b == [Units(c) EXCEPT !.obj[c[2]].recvd =
                       Least(c[1].obj[c[2]].recvd + c[1].obj[c[2]].req.asked, LENGTH + 1)]
           IN IF b.obj[c[2]].recvd = LENGTH
              THEN payload_data_complete(b, c[2])
              ELSE PayloadRequestData(b, c[2])
<1>. DEFINE s == [i \in 1..c[1].obj[c[2]].req.asked |-> i]
            I(g) == g = [u \in SUBSET (DOMAIN s) |->
                           IF u = {} THEN c[1]
                           ELSE UnitOp(c, g[u \ {Max(u)}], s[Max(u)])]
            F == (CHOOSE g : I(g))[DOMAIN s]
<1>1. \A g : I(g) <=> Iterates("unit", c, g, c[1], s, DOMAIN s)
  BY DEF Iterates, FoldOp
<1>2. UpdatePayloadPayload(c[1], c[2]) =
        LET b == [F EXCEPT !.obj[c[2]].recvd =
                    Least(c[1].obj[c[2]].recvd + c[1].obj[c[2]].req.asked, LENGTH + 1)]
        IN IF b.obj[c[2]].recvd = LENGTH
           THEN payload_data_complete(b, c[2])
           ELSE PayloadRequestData(b, c[2])
  BY Zenon DEF UpdatePayloadPayload, UnitOp, FoldLeft, MapThenFoldSet
<1>3. F = Units(c)
  <2>. HIDE DEF I, s
  <2>1. (CHOOSE g : I(g)) = (CHOOSE g : Iterates("unit", c, g, c[1], s, DOMAIN s))
    BY <1>1, Zenon
  <2>2. Units(c) = Fold("unit", c, c[1], s)
    BY DEF Units, s
  <2>. QED  BY <2>1, <2>2, FoldIsIterate
<1>. HIDE DEF F
<1>. QED  BY <1>2, <1>3

LEMMA UnitsLead == \A x \in Accessory, k \in Offers : Leads(x, Units(<<x, k>>))
<1>. SUFFICES ASSUME NEW x \in Accessory, NEW k \in Offers
              PROVE  Leads(x, Units(<<x, k>>))
  OBVIOUS
<1>. DEFINE c == <<x, k>>
            r == x.obj[k].req
            s == [i \in 1..r.asked |-> i]
            n == IF r.asked >= 0 THEN r.asked ELSE 0
<1>1. c[1] = x /\ c[2] = k
  OBVIOUS
<1>2. Units(c) = Fold("unit", c, x, s)
  <2>. HIDE DEF c
  <2>. QED  BY <1>1 DEF Units
<1>3. r.asked \in Int
  BY ObjTyped DEF Asset, Request
<1>. HIDE DEF c
<1>4. n \in Nat /\ DOMAIN s = 1..n
  <2>. HIDE DEF r
  <2>. QED  BY <1>3
<1>5. UnitP(c, x, 0)
  BY <1>1, LeadsHere DEF UnitP
<1>6. \A y : \A i \in 1..n : UnitP(c, y, i - 1) => UnitP(c, UnitOp(c, y, s[i]), i)
  <2>1. \A y, at : Leads(x, y) => Leads(x, payload_data(y, k, at))
    BY LeadsTyped, CourseLeads, LeadsTrans
  <2>. QED  BY <1>1, <2>1 DEF UnitP, UnitOp
<1>7. UnitP(c, Fold("unit", c, x, s), n)
  <2>. DEFINE P == [i \in 0..n |-> {y \in Accessory : UnitP(c, y, i)}]
  <2>1. \A y, i : UnitP(c, y, i) => y \in Accessory
    BY LeadsTyped DEF UnitP
  <2>. HIDE DEF s, n
  <2>2. x \in P[0]
    BY <1>4, <1>5
  <2>3. \A i \in 1..n : \A y \in P[i - 1] : FoldOp("unit", c, y, s[i]) \in P[i]
    BY <1>4, <1>6, <2>1 DEF FoldOp
  <2>. HIDE DEF P
  <2>4. Fold("unit", c, x, s) \in P[n]
    BY <1>4, <2>2, <2>3, FoldInvariant
  <2>. QED  BY <1>4, <2>4 DEF P
<1>. HIDE DEF s, n
<1>8. Leads(x, Units(c))
  BY <1>1, <1>2, <1>7 DEF UnitP
<1>. QED  BY <1>8 DEF c

LEMMA PayloadLeads == \A x \in Accessory, k \in Offers : Leads(x, UpdatePayloadPayload(x, k))
<1>. SUFFICES ASSUME NEW x \in Accessory, NEW k \in Offers
              PROVE  Leads(x, UpdatePayloadPayload(x, k))
  OBVIOUS
<1>. DEFINE c == <<x, k>>
            n == Least(x.obj[k].recvd + x.obj[k].req.asked, LENGTH + 1)
            u == Units(c)
            b == [u EXCEPT !.obj[k].recvd = n]
<1>1. c[1] = x /\ c[2] = k
  OBVIOUS
<1>2. Leads(x, u)
  BY UnitsLead
<1>. HIDE DEF c
<1>3. UpdatePayloadPayload(x, k) \in {payload_data_complete(b, k), PayloadRequestData(b, k)}
  <2>1. UpdatePayloadPayload(c[1], c[2]) \in {payload_data_complete(b, k), PayloadRequestData(b, k)}
    BY <1>1, UnitsAreFold
  <2>. QED  BY <1>1, <2>1
<1>. HIDE DEF u
<1>4. n \in Int
  <2>1. x.obj[k] \in Asset
    BY ObjTyped
  <2>2. x.obj[k].recvd + x.obj[k].req.asked \in Int /\ LENGTH + 1 \in Int
    BY <2>1, LengthTypes DEF Asset, Request
  <2>. QED  BY <2>2, LeastTyped
<1>. HIDE DEF n
<1>5. u \in Accessory
  BY <1>2, LeadsTyped
<1>6. b = [u EXCEPT !.obj[k] = [u.obj[k] EXCEPT !.recvd = n]]
  BY <1>5 DEF Accessory
<1>7. [u.obj[k] EXCEPT !.recvd = n] \in Asset
  BY <1>4, <1>5, ObjTyped, AssetField
<1>. HIDE DEF b
<1>8. Leads(u, b)
  BY <1>5, <1>6, <1>7, ObjLeads
<1>9. Leads(b, payload_data_complete(b, k)) /\ Leads(b, PayloadRequestData(b, k))
  BY <1>8, LeadsTyped, CourseLeads
<1>. QED  BY <1>2, <1>3, <1>8, <1>9, LeadsTrans

LEMMA RequestCompleteLeads ==
  \A x \in Accessory, k \in Offers : Leads(x, DataRequestComplete(x, k))
<1>. SUFFICES ASSUME NEW x \in Accessory, NEW k \in Offers
              PROVE  Leads(x, DataRequestComplete(x, k))
  OBVIOUS
<1>1. DataRequestComplete(x, k) \in
        {SuperBinaryHeaderComplete(x, k), UpdateSuperBinaryMetaData(x, k),
         PayloadHeaderComplete(x, k), UpdatePayloadMetaData(x, k),
         UpdatePayloadPayload(x, k), Failing(x)}
  BY Zenon DEF DataRequestComplete
<1>. QED  BY <1>1, HeaderCompleteLeads, MetaDataLeads, PayloadHeaderLeads, PayloadMetaDataLeads,
             PayloadLeads, CourseLeads

LEMMA DataLeads == \A x \in Accessory, k \in Offers : \A g : Leads(x, AssetDataResponse(x, k, g))
<1>. SUFFICES ASSUME NEW x \in Accessory, NEW k \in Offers, NEW g
              PROVE  Leads(x, AssetDataResponse(x, k, g))
  OBVIOUS
<1>. DEFINE o == x.obj[k]
            r == [o.req EXCEPT !.got = o.req.got + 1, !.left = o.req.left - 1, !.out = FALSE]
            b == [x EXCEPT !.obj[k].req = r]
<1>1. AssetDataResponse(x, k, g) \in {x, DataRequestComplete(b, k), RequestDataContinue(b, k)}
  BY Zenon DEF AssetDataResponse
<1>2. b = [x EXCEPT !.obj[k] = [o EXCEPT !.req = r]]
  <2>. HIDE DEF r
  <2>. QED  BY DEF Accessory
<1>3. o \in Asset
  BY ObjTyped
<1>4. r \in Request
  <2>. DEFINE q == o.req
              g1 == q.got + 1
              l1 == q.left - 1
  <2>1. q \in Request
    <3>. HIDE DEF o
    <3>. QED  BY <1>3 DEF Asset
  <2>2. g1 \in Int /\ l1 \in Int
    <3>. HIDE DEF q
    <3>. QED  BY <2>1 DEF Request
  <2>3. r = [q EXCEPT !.got = g1, !.left = l1, !.out = FALSE]
    OBVIOUS
  <2>. HIDE DEF q, g1, l1, r
  <2>4. [q EXCEPT !.got = g1, !.left = l1, !.out = FALSE] \in Request
    BY <2>1, <2>2 DEF Request
  <2>. QED  BY <2>3, <2>4
<1>5. [o EXCEPT !.req = r] \in Asset
  <2>. HIDE DEF o, r
  <2>. QED  BY <1>3, <1>4, AssetField
<1>. HIDE DEF b
<1>6. Leads(x, b)
  <2>. HIDE DEF o, r
  <2>. QED  BY <1>2, <1>5, ObjLeads
<1>7. Leads(b, DataRequestComplete(b, k)) /\ Leads(b, RequestDataContinue(b, k))
  BY <1>6, LeadsTyped, RequestCompleteLeads, CourseLeads
<1>. QED  BY <1>1, <1>6, <1>7, LeadsHere, LeadsTrans

-----------------------------------------------------------------------------
(* Offers. *)

LEMMA AcceptLeads == \A x \in Accessory, k \in Offers : Leads(x, AssetAccept(x, k))
<1>. SUFFICES ASSUME NEW x \in Accessory, NEW k \in Offers
              PROVE  Leads(x, AssetAccept(x, k))
  OBVIOUS
<1>1. AssetAccept(x, k) \in
        {RequestData(x, k, "HEADER", 0, 1), RequestData(x, k, "METADATA", 0, 1),
         Passing(asset_meta_data_complete(x, k)), Passing(payload_ready(x, k)),
         PayloadRequestData(x, k)}
  BY Zenon DEF AssetAccept
<1>2. \A y : Leads(x, y) => Leads(x, Passing(y))
  BY CourseLeads, LeadsTyped, LeadsTrans
<1>. QED  BY <1>1, <1>2, RequestLeads, CourseLeads

LEMMA DenyLeads == \A x \in Accessory, k \in Offers : Leads(x, AssetDeny(x, k))
<1>. SUFFICES ASSUME NEW x \in Accessory, NEW k \in Offers
              PROVE  Leads(x, AssetDeny(x, k))
  OBVIOUS
<1>. DEFINE b == Notification(x, k, "DENIED")
            o == [b.obj[k] EXCEPT !.marked = TRUE, !.delegate = FALSE]
            y == [b EXCEPT !.obj[k].marked = TRUE, !.obj[k].delegate = FALSE]
<1>1. AssetDeny(x, k) \in {b, y}
  BY Zenon DEF AssetDeny
<1>2. Leads(x, b)
  <2>1. "DENIED" \in Texts
    BY DEF Texts
  <2>. QED  BY <2>1, CourseLeads
<1>. HIDE DEF b
<1>3. b \in Accessory
  BY <1>2, LeadsTyped
<1>4. y = [b EXCEPT !.obj[k] = o]
  BY <1>3 DEF Accessory
<1>5. o \in Asset
  <2>1. b.obj[k] \in Asset
    BY <1>3, ObjTyped
  <2>. QED  BY <2>1, AssetField
<1>. HIDE DEF o, y
<1>6. Leads(b, y)
  BY <1>3, <1>4, <1>5, ObjLeads
<1>. QED  BY <1>1, <1>2, <1>6, LeadsTrans

LEMMA AcceptedLeads == \A x \in Accessory, k \in Offers : Leads(x, Accepted(x, k))
<1>. SUFFICES ASSUME NEW x \in Accessory, NEW k \in Offers
              PROVE  Leads(x, Accepted(x, k))
  OBVIOUS
<1>. DEFINE o == [x.obj[k] EXCEPT !.delegate = TRUE]
            w == [x EXCEPT !.obj[k] = o]
            v == [w EXCEPT !.asset = k]
            u == [v EXCEPT !.state = "ACTIVE"]
            y == [x EXCEPT !.asset = k, !.state = "ACTIVE", !.obj[k].delegate = TRUE]
            b == AssetAccept(y, k)
            r == AssetRelease(b, k)
            s == [r EXCEPT !.asset = None]
            t == [s EXCEPT !.state = "NONE"]
            z == [r EXCEPT !.asset = None, !.state = "NONE"]
<1>1. Accepted(x, k) \in {b, z}
  BY Zenon DEF Accepted
<1>2. y = u
  BY DEF Accessory
<1>3. o \in Asset
  BY ObjTyped, AssetField
<1>. HIDE DEF o
<1>4. Leads(x, w)
  BY <1>3, ObjLeads
<1>. HIDE DEF w
<1>5. Leads(w, v)
  BY <1>4, FieldTyped, SentField, AccessoryBuffers DEF Leads
<1>. HIDE DEF v
<1>6. Leads(v, u)
  BY <1>5, FieldTyped, SentField, AccessoryBuffers DEF Leads, AssetStates
<1>. HIDE DEF u, y
<1>7. Leads(x, y)
  BY <1>2, <1>4, <1>5, <1>6, LeadsTrans
<1>8. Leads(y, b)
  BY <1>7, LeadsTyped, AcceptLeads
<1>. HIDE DEF b
<1>9. Leads(b, r)
  BY <1>8, LeadsTyped, CourseLeads
<1>. HIDE DEF r
<1>10. Leads(r, s)
  BY <1>9, FieldTyped, SentField, AccessoryBuffers DEF Leads
<1>11. z = t
  OBVIOUS
<1>. HIDE DEF s, z
<1>12. Leads(s, t)
  BY <1>10, FieldTyped, SentField, AccessoryBuffers DEF Leads, AssetStates
<1>. HIDE DEF t
<1>. QED  BY <1>1, <1>7, <1>8, <1>9, <1>10, <1>11, <1>12, LeadsTrans

LEMMA MergeLeads ==
  \A x \in Accessory, k \in Offers : x.asset \in Offers => Leads(x, SuperBinaryMerge(x, k))
<1>. SUFFICES ASSUME NEW x \in Accessory, NEW k \in Offers, x.asset \in Offers
              PROVE  Leads(x, SuperBinaryMerge(x, k))
  OBVIOUS
<1>. DEFINE j == x.asset
            i == x.obj[k].id
            o == [x.obj[j] EXCEPT !.req.out = FALSE, !.ctrl = TRUE, !.id = i]
            w == [x EXCEPT !.obj[j] = o]
            p == [w.obj[k] EXCEPT !.marked = TRUE, !.ctrl = FALSE]
            y == [w EXCEPT !.obj[k] = p]
<1>1. SuperBinaryMerge(x, k) = y
  <2>. DEFINE g == [x.obj EXCEPT ![j].req.out = FALSE, ![j].ctrl = TRUE, ![j].id = i,
                                 ![k].marked = TRUE, ![k].ctrl = FALSE]
  <2>1. SuperBinaryMerge(x, k) = [x EXCEPT !.obj = g]
    BY DEF SuperBinaryMerge, Accessory
  <2>2. x.obj \in [Offers -> Asset] /\ j \in Offers
    BY DEF Accessory
  <2>3. y = [x EXCEPT !.obj = [[x.obj EXCEPT ![j] = o] EXCEPT ![k] = p]]
    BY DEF Accessory
  <2>4. g = [[x.obj EXCEPT ![j] = o] EXCEPT ![k] = p]
    <3>1. CASE j = k
      BY <2>2, <3>1 DEF Accessory, Asset
    <3>2. CASE j # k
      BY <2>2, <3>2 DEF Accessory, Asset
    <3>. QED  BY <3>1, <3>2
  <2>. QED  BY <2>1, <2>3, <2>4
<1>2. x.obj[j] \in Asset /\ i \in Int
  BY ObjTyped DEF Asset
<1>. HIDE DEF i
<1>3. o \in Asset
  BY <1>2, AssetField
<1>. HIDE DEF o
<1>4. Leads(x, w)
  BY <1>3, ObjLeads
<1>. HIDE DEF w
<1>5. p \in Asset
  BY <1>4, LeadsTyped, ObjTyped, AssetField
<1>. HIDE DEF p
<1>6. Leads(w, y)
  BY <1>4, <1>5, LeadsTyped, ObjLeads
<1>. HIDE DEF y
<1>. QED  BY <1>1, <1>4, <1>6, LeadsTrans

LEMMA SuperBinaryLeads ==
  \A x \in Accessory, k \in Offers : (x.state = "ORPHANED" => x.asset \in Offers) =>
    Leads(x, super_binary_offered(x, k))
<1>. SUFFICES ASSUME NEW x \in Accessory, NEW k \in Offers,
                     x.state = "ORPHANED" => x.asset \in Offers
              PROVE  Leads(x, super_binary_offered(x, k))
  OBVIOUS
<1>. DEFINE m == SuperBinaryMerge(x, k)
            r == AssetRelease(x, x.asset)
<1>1. \/ super_binary_offered(x, k) \in {AssetDeny(x, k), Accepted(x, k)}
      \/ /\ x.state = "ORPHANED"
         /\ super_binary_offered(x, k) \in {Accepted(m, x.asset), Accepted(r, k)}
  BY Zenon DEF super_binary_offered
<1>2. x.asset \in Offers => Leads(x, m) /\ Leads(x, r)
  BY MergeLeads, CourseLeads
<1>. HIDE DEF m, r
<1>3. x.asset \in Offers => Leads(m, Accepted(m, x.asset)) /\ Leads(r, Accepted(r, k))
  BY <1>2, LeadsTyped, AcceptedLeads
<1>. QED  BY <1>1, <1>2, <1>3, DenyLeads, AcceptedLeads, LeadsTrans

-----------------------------------------------------------------------------
(* The accessory between two events. *)

(* Unit i is one of those that a request of type t asks for of payload f.   *)
Within(t, f, i) ==
  \/ t \in {"HEADER", "METADATA", "PAYLOAD_METADATA"} /\ i = 0
  \/ t = "PAYLOAD_HEADER" /\ i = f - 1
  \/ t = "PAYLOAD" /\ 0 <= i /\ i < LENGTH

(* What is left of a request is what it asks for, and nothing else is.      *)
RequestSound(r) ==
  /\ r.rel >= 0 /\ r.got >= 0 /\ r.left >= 0 /\ r.left = r.asked - r.got
  /\ r.type \in {"HEADER", "METADATA", "PAYLOAD_METADATA"} => r.rel = 0 /\ r.asked = 1
  /\ r.type = "PAYLOAD_HEADER" => r.rel = r.of - 1 /\ r.asked = 1
  /\ r.type = "PAYLOAD" => /\ r.rel + r.asked <= LENGTH
                           /\ r.left = 0 => r.rel + r.asked = LENGTH
  /\ r.type = "NOTHING" => r.left = 0

(* The asset that is handled is listed, wanted and a new version. *)
Owner(x) ==
  /\ x.state = "NONE" <=> x.asset = None
  /\ x.asset = None => ~x.transfer
  /\ x.asset # None =>
       /\ x.asset \in Listed(x) /\ ~x.obj[x.asset].marked
       /\ x.obj[x.asset].v \notin OldVersions
       /\ x.state = "ORPHANED" => ~x.obj[x.asset].ctrl
  /\ x.reboot => x.state = "APPLIED"

(* The assets of the list have identifiers, and a delegate until they are   *)
(* marked for cleanup; requests of others than the one handled have ended.  *)
Listing(x) ==
  \A k \in Listed(x) : x.obj[k].id \in Offers /\ (~x.obj[k].marked => x.obj[k].delegate)

Requests(x) ==
  \A k \in Offers : k # x.asset =>
    RequestSound(x.obj[k].req) /\ (~x.obj[k].marked => x.obj[k].req.left = 0)

(* Payload p of version v is in the flash, whole. *)
Done(x, v, p) ==
  /\ x.flash[p].n = LENGTH /\ x.flash[p].ok /\ x.flash[p].boot /\ x.flash[p].v = v
  /\ v \notin BadHashVersions \cup PlainVersions

DoneUpTo(x, p) ==
  \A q \in AppPayloads : q <= p => Done(x, x.obj[x.asset].v, q)

Fresh(o) == o.index = None /\ o.pl = None /\ o.plflags = "none"
Told(o)  == o.hdr /\ (o.v \in MetaVersions => o.meta)

(* Where the asset o is in its course while the request r of it is open.    *)
AtHeader(x, o)   == ~o.hdr /\ ~o.meta /\ Fresh(o) /\ ~x.transfer
AtMetadata(x, o) == o.hdr /\ o.v \in MetaVersions /\ ~o.meta /\ Fresh(o) /\ ~x.transfer
AtPayloadHeader(x, o) ==
  /\ Told(o) /\ o.index >= 1 /\ o.req.of = o.index /\ o.pl < o.index
  /\ o.plflags = "none" /\ o.recvd = 0 /\ ~x.transfer
AtPayload(x, o) ==
  /\ Told(o) /\ o.req.of = o.pl /\ o.pl = o.index /\ o.pl \in AppPayloads /\ x.current = o.pl
AtPayloadMetadata(x, o) ==
  /\ AtPayload(x, o) /\ o.plflags = "needs" /\ o.v \notin PlainVersions /\ o.recvd = 0
  /\ ~x.transfer /\ x.hash.n = 0 /\ x.hash.ok
AtData(x, o) == AtPayload(x, o) /\ o.plflags # "needs" /\ x.transfer /\ o.req.rel = o.recvd

At(x) ==
  LET o == x.obj[x.asset] IN
  /\ o.req.type # "NOTHING"
  /\ o.req.type = "HEADER"           => AtHeader(x, o)
  /\ o.req.type = "METADATA"         => AtMetadata(x, o)
  /\ o.req.type = "PAYLOAD_HEADER"   => AtPayloadHeader(x, o)
  /\ o.req.type = "PAYLOAD_METADATA" => AtPayloadMetadata(x, o)
  /\ o.req.type = "PAYLOAD"          => AtData(x, o)

(* The flash, the hash and the asset have received the same. *)
InStep(x) ==
  LET o == x.obj[x.asset]
      f == x.flash[x.current] IN
  /\ f.n = o.recvd /\ f.ok /\ f.v \in {None, o.v} /\ (f.n > 0 => f.v = o.v)
  /\ x.hash.n = o.recvd /\ x.hash.ok

(* All but the request of the asset that is handled. *)
Rest(x) ==
  /\ x.fault = "none" /\ Owner(x) /\ Listing(x) /\ Requests(x)
  /\ x.asset # None => DoneUpTo(x, x.obj[x.asset].index - 1)

(* An open request is that of the place reached. *)
Posed(x) ==
  LET r == x.obj[x.asset].req IN
  x.asset # None =>
    /\ RequestSound(r)
    /\ r.left > 0 => x.state \in {"ACTIVE", "ORPHANED", "FAILED"} /\ At(x)

(* A superbinary that is being received has one. *)
Live(x) ==
  LET r == x.obj[x.asset].req IN
  x.state \in {"ACTIVE", "ORPHANED"} => r.left > 0 /\ (r.type = "PAYLOAD" => InStep(x))

Complete(x) == x.state \in {"STAGED", "APPLIED"} => DoneUpTo(x, x.obj[x.asset].index)

Sturdy(x) == Rest(x) /\ Posed(x) /\ Complete(x)
Sound(x)  == Sturdy(x) /\ Live(x)

(* What it hands over asks for units that exist. *)
Asks(m) == m.type = "REQUEST" => Within(m.arg[1], m.arg[2], m.arg[3])
Buffers(x) ==
  /\ x.sending = "none" <=> x.buf = NoMsg
  /\ x.buf = NoMsg => x.pending = NoMsg
  /\ Asks(x.buf) /\ Asks(x.pending)

-----------------------------------------------------------------------------
(* Two accessories that differ in what they hand over. *)
SameRequest(q, r) ==
  /\ r.type = q.type /\ r.of = q.of /\ r.rel = q.rel
  /\ r.asked = q.asked /\ r.got = q.got /\ r.left = q.left

SameAsset(o, p) ==
  /\ p.id = o.id /\ p.v = o.v /\ p.ctrl = o.ctrl /\ p.marked = o.marked
  /\ p.delegate = o.delegate /\ p.hdr = o.hdr /\ p.meta = o.meta /\ p.index = o.index
  /\ p.pl = o.pl /\ p.plflags = o.plflags /\ p.recvd = o.recvd
  /\ SameRequest(o.req, p.req)

SameBut(x, y) ==
  /\ y.state = x.state /\ y.asset = x.asset /\ y.order = x.order /\ y.current = x.current
  /\ y.transfer = x.transfer /\ y.hash = x.hash /\ y.flash = x.flash
  /\ y.reboot = x.reboot /\ y.fault = x.fault

Alike(x, y) == SameBut(x, y) /\ \A k \in Offers : SameAsset(x.obj[k], y.obj[k])

LEMMA OwnAsset == \A x \in Accessory : x.asset \in Offers \cup {None} /\ Listed(x) \subseteq Offers
BY ListedTyped DEF Accessory

LEMMA AlikeTrans == \A x, y, z : Alike(x, y) /\ Alike(y, z) => Alike(x, z)
BY DEF Alike, SameBut, SameAsset, SameRequest

LEMMA AlikeHere == \A x : Alike(x, x)
BY DEF Alike, SameBut, SameAsset, SameRequest

LEMMA RequestAlike == \A q, r : SameRequest(q, r) => (RequestSound(q) <=> RequestSound(r))
BY DEF SameRequest, RequestSound

(* Where the asset is in its course, and what the flash has of it, does not *)
(* depend on what is handed over.                                           *)
LEMMA AtAlike ==
  ASSUME NEW x, NEW y, Alike(x, y), x.asset \in Offers
  PROVE  /\ At(x) => At(y)
         /\ InStep(x) => InStep(y)
         /\ \A p : DoneUpTo(x, p) => DoneUpTo(y, p)
<1>1. SameAsset(x.obj[x.asset], y.obj[y.asset]) /\ SameBut(x, y)
  BY DEF Alike, SameBut
<1>2. At(x) => At(y)
  BY <1>1 DEF At, AtHeader, AtMetadata, AtPayloadHeader, AtPayload, AtPayloadMetadata, AtData,
              Fresh, Told, SameAsset, SameRequest, SameBut
<1>3. InStep(x) => InStep(y)
  BY <1>1 DEF InStep, SameAsset, SameBut
<1>4. \A p : DoneUpTo(x, p) => DoneUpTo(y, p)
  BY <1>1 DEF DoneUpTo, Done, SameAsset, SameBut
<1>. QED  BY <1>2, <1>3, <1>4

LEMMA RestAlike ==
  ASSUME NEW x \in Accessory, NEW y, Alike(x, y), Rest(x)
  PROVE  Rest(y)
<1>1. SameBut(x, y) /\ \A k \in Offers : SameAsset(x.obj[k], y.obj[k])
  BY DEF Alike
<1>2. Listed(y) = Listed(x) /\ x.asset \in Offers \cup {None} /\ Listed(x) \subseteq Offers
  BY <1>1, OwnAsset DEF SameBut, Listed
<1>3. Owner(y)
  BY <1>1, <1>2 DEF Rest, Owner, SameBut, SameAsset
<1>4. Listing(y)
  BY <1>1, <1>2 DEF Rest, Listing, SameAsset
<1>5. Requests(y)
  <2>1. \A k \in Offers : RequestSound(x.obj[k].req) => RequestSound(y.obj[k].req)
    BY <1>1, RequestAlike DEF SameAsset
  <2>. QED  BY <1>1, <2>1 DEF Rest, Requests, SameBut, SameAsset, SameRequest
<1>6. x.asset # None => DoneUpTo(y, y.obj[y.asset].index - 1)
  BY <1>1, <1>2, AtAlike DEF Rest, SameBut, SameAsset
<1>. QED  BY <1>1, <1>3, <1>4, <1>5, <1>6 DEF Rest, SameBut

LEMMA SturdyAlike ==
  ASSUME NEW x \in Accessory, NEW y, Alike(x, y), Sturdy(x)
  PROVE  Sturdy(y)
<1>1. SameBut(x, y) /\ \A k \in Offers : SameAsset(x.obj[k], y.obj[k])
  BY DEF Alike
<1>2. Rest(y)
  BY RestAlike DEF Sturdy
<1>3. x.asset \in Offers \cup {None} /\ (x.state = "NONE" <=> x.asset = None)
  BY OwnAsset DEF Sturdy, Rest, Owner
<1>4. Posed(y)
  <2>. SUFFICES ASSUME x.asset # None
                PROVE  /\ RequestSound(y.obj[y.asset].req)
                       /\ y.obj[y.asset].req.left > 0 =>
                            y.state \in {"ACTIVE", "ORPHANED", "FAILED"} /\ At(y)
    BY <1>1 DEF Posed, SameBut
  <2>1. SameRequest(x.obj[x.asset].req, y.obj[y.asset].req)
    BY <1>1, <1>3 DEF SameBut, SameAsset
  <2>2. RequestSound(y.obj[y.asset].req)
    BY <2>1, RequestAlike DEF Sturdy, Posed
  <2>. QED  BY <1>1, <1>3, <2>1, <2>2, AtAlike DEF Sturdy, Posed, SameBut, SameRequest
<1>5. Complete(y)
  BY <1>1, <1>3, AtAlike DEF Sturdy, Complete, SameBut, SameAsset
<1>. QED  BY <1>2, <1>4, <1>5 DEF Sturdy

(* Nor does soundness.                                                      *)
LEMMA SoundAlike ==
  ASSUME NEW x \in Accessory, NEW y, Alike(x, y), Sound(x)
  PROVE  Sound(y)
<1>1. SameBut(x, y) /\ \A k \in Offers : SameAsset(x.obj[k], y.obj[k])
  BY DEF Alike
<1>2. Sturdy(y)
  BY SturdyAlike DEF Sound
<1>3. x.asset \in Offers \cup {None} /\ (x.state = "NONE" <=> x.asset = None)
  BY OwnAsset DEF Sound, Sturdy, Rest, Owner
<1>4. Live(y)
  <2>. SUFFICES ASSUME y.state \in {"ACTIVE", "ORPHANED"}
                PROVE  /\ y.obj[y.asset].req.left > 0
                       /\ y.obj[y.asset].req.type = "PAYLOAD" => InStep(y)
    BY DEF Live
  <2>1. x.state \in {"ACTIVE", "ORPHANED"} /\ x.asset \in Offers
    BY <1>1, <1>3 DEF SameBut
  <2>2. SameRequest(x.obj[x.asset].req, y.obj[y.asset].req)
    BY <1>1, <2>1 DEF SameBut, SameAsset
  <2>. QED  BY <2>1, <2>2, AtAlike DEF Sound, Live, SameRequest
<1>. QED  BY <1>2, <1>4 DEF Sound

-----------------------------------------------------------------------------
(* Handing over. *)

LEMMA StatusAlike == \A x \in Accessory : Alike(x, Failing(x)) /\ Alike(x, Passing(x))
BY DEF Failing, Passing, Alike, SameBut, SameAsset, SameRequest

LEMMA StatusBuffers ==
  \A x \in Accessory : Buffers(x) => Buffers(Failing(x)) /\ Buffers(Passing(x))
BY DEF Failing, Passing, Buffers

(* A message to a sound accessory is taken up or refused, and nothing else  *)
(* changes; it is taken up when none waits.                                 *)
LEMMA SendAlike ==
  ASSUME NEW x \in Accessory, x.fault = "none", Buffers(x), NEW m \in Message, m # NoMsg, Asks(m)
  PROVE  /\ Alike(x, send_message(x, m)) /\ Buffers(send_message(x, m))
         /\ x.pending = NoMsg => send_message(x, m).status
         /\ send_message(x, m).status \in BOOLEAN
<1>. DEFINE d == [x EXCEPT !.buf = m, !.sending = "new", !.kick = TRUE]
            p == [x EXCEPT !.pending = m]
<1>1. CASE x.buf = NoMsg
  <2>1. Asserted(x, x.sending = "none", "dangling buffer") = x
    BY <1>1 DEF Asserted, Buffers
  <2>2. send_message(x, m) = Passing(d)
    BY <1>1, <2>1 DEF send_message
  <2>3. d.buf = m /\ d.pending = NoMsg /\ d.sending = "new" /\ Passing(d).status = TRUE
    BY <1>1 DEF Accessory, Buffers, Passing
  <2>4. Alike(x, d) /\ d \in Accessory
    <3>1. Alike(x, d)
      BY DEF Alike, SameBut, SameAsset, SameRequest
    <3>2. "new" \in {"none", "new", "sent"} /\ TRUE \in BOOLEAN
      OBVIOUS
    <3>. QED  BY <3>1, <3>2, FieldTyped
  <2>. HIDE DEF d
  <2>5. Buffers(d)
    BY <2>3 DEF Buffers, Asks, NoMsg, Msg
  <2>6. Alike(d, Passing(d)) /\ Buffers(Passing(d))
    BY <2>4, <2>5, StatusAlike, StatusBuffers
  <2>7. Alike(x, Passing(d))
    BY <2>4, <2>6, AlikeTrans
  <2>. QED  BY <2>2, <2>3, <2>6, <2>7
<1>2. CASE x.buf # NoMsg /\ x.pending = NoMsg
  <2>1. send_message(x, m) = Passing(p)
    BY <1>2 DEF send_message
  <2>2. p.buf = x.buf /\ p.pending = m /\ p.sending = x.sending /\ Passing(p).status = TRUE
    BY DEF Accessory, Passing
  <2>3. Alike(x, p)
    BY DEF Alike, SameBut, SameAsset, SameRequest
  <2>4. p \in Accessory
    BY FieldTyped
  <2>. HIDE DEF p
  <2>5. Buffers(p)
    BY <1>2, <2>2 DEF Buffers
  <2>6. Alike(p, Passing(p)) /\ Buffers(Passing(p))
    BY <2>4, <2>5, StatusAlike, StatusBuffers
  <2>7. Alike(x, Passing(p))
    BY <2>3, <2>6, AlikeTrans
  <2>. QED  BY <2>1, <2>2, <2>6, <2>7
<1>3. CASE x.buf # NoMsg /\ x.pending # NoMsg
  <2>1. send_message(x, m) = Failing(x)
    BY <1>3 DEF send_message
  <2>2. Failing(x).status \in BOOLEAN
    BY DEF Failing, Accessory
  <2>. QED  BY <1>3, <2>1, <2>2, StatusAlike, StatusBuffers
<1>. QED  BY <1>1, <1>2, <1>3

LEMMA PlainAsks ==
  \A t \in Types, k \in Int, g \in Texts \X Int \X Int :
    t \notin {"NOTHING", "REQUEST"} =>
      Msg(t, k, g) \in Message /\ Msg(t, k, g) # NoMsg /\ Asks(Msg(t, k, g))
<1>1. \A t, k, g : t # "NOTHING" => Msg(t, k, g).type # NoMsg.type
  BY DEF Msg, NoMsg
<1>2. \A t, k, g : t # "REQUEST" => Asks(Msg(t, k, g))
  BY DEF Msg, Asks
<1>. QED  BY <1>1, <1>2, MessageTyped

LEMMA NotificationAlike ==
  ASSUME NEW x \in Accessory, x.fault = "none", Buffers(x), NEW k \in Offers, NEW w \in Texts
  PROVE  /\ Alike(x, Notification(x, k, w)) /\ Buffers(Notification(x, k, w))
         /\ x.pending = NoMsg => Notification(x, k, w).status
<1>1. x.obj[k].id \in Int
  BY ObjTyped DEF Asset
<1>2. "NOTIFICATION" \in Types /\ <<w, 0, 0>> \in Texts \X Int \X Int
  BY DEF Types
<1>. QED  BY <1>1, <1>2, PlainAsks, SendAlike DEF Notification

(* The next unit of a sound request is one that exists.                     *)
LEMMA ContinueAlike ==
  ASSUME NEW x \in Accessory, x.fault = "none", Buffers(x), NEW k \in Offers,
         RequestSound(x.obj[k].req)
  PROVE  /\ Alike(x, RequestDataContinue(x, k)) /\ Buffers(RequestDataContinue(x, k))
         /\ x.pending = NoMsg => RequestDataContinue(x, k).status
<1>. DEFINE r == x.obj[k].req
            m == Msg("REQUEST", x.obj[k].id, <<r.type, r.of, r.rel + r.got>>)
            s == send_message(x, m)
            y == [s EXCEPT !.obj[k].req.out = TRUE]
<1>1. \/ RequestDataContinue(x, k) = Passing(x)
      \/ r.left # 0 /\ RequestDataContinue(x, k) = s
      \/ r.left # 0 /\ s.status /\ RequestDataContinue(x, k) = y
  BY Zenon DEF RequestDataContinue
<1>2. CASE RequestDataContinue(x, k) = Passing(x)
  BY <1>2, StatusAlike, StatusBuffers DEF Passing, Accessory
<1>3. CASE r.left # 0
  <2>1. r \in Request /\ x.obj[k].id \in Int
    BY ObjTyped DEF Asset
  <2>2. Within(r.type, r.of, r.rel + r.got)
    <3>1. /\ r.type \in RequestTypes /\ r.of \in Int /\ r.rel \in Int /\ r.got \in Int
          /\ r.asked \in Int /\ r.left \in Int /\ RequestSound(r)
      BY <2>1 DEF Request
    <3>. HIDE DEF r
    <3>. QED  BY <1>3, <3>1, LengthTypes DEF RequestSound, Within, RequestTypes
  <2>3. m \in Message /\ m # NoMsg /\ Asks(m)
    <3>1. "REQUEST" \in Types /\ <<r.type, r.of, r.rel + r.got>> \in Texts \X Int \X Int
      BY <2>1 DEF Types, Texts, Request
    <3>2. m \in Message
      BY <2>1, <3>1, MessageTyped
    <3>3. m.type = "REQUEST" /\ NoMsg.type = "NOTHING"
      BY DEF Msg, NoMsg
    <3>4. m.arg[1] = r.type /\ m.arg[2] = r.of /\ m.arg[3] = r.rel + r.got
      BY DEF Msg
    <3>. HIDE DEF m, r
    <3>. QED  BY <2>2, <3>2, <3>3, <3>4 DEF Asks
  <2>. HIDE DEF m
  <2>4. /\ Alike(x, s) /\ Buffers(s) /\ s \in Accessory
        /\ x.pending = NoMsg => s.status
    BY <2>3, SendAlike, SendTyped
  <2>. HIDE DEF s
  <2>5. Alike(s, y) /\ Buffers(y) /\ y.status = s.status
    <3>1. /\ y.state = s.state /\ y.asset = s.asset /\ y.order = s.order
          /\ y.current = s.current /\ y.transfer = s.transfer /\ y.hash = s.hash
          /\ y.flash = s.flash /\ y.reboot = s.reboot /\ y.fault = s.fault
          /\ y.buf = s.buf /\ y.pending = s.pending /\ y.sending = s.sending
          /\ y.status = s.status
      OBVIOUS
    <3>2. \A j \in Offers : SameAsset(s.obj[j], y.obj[j])
      <4>. SUFFICES ASSUME NEW j \in Offers
                    PROVE  SameAsset(s.obj[j], y.obj[j])
        OBVIOUS
      <4>1. s.obj \in [Offers -> Asset]
        BY <2>4 DEF Accessory
      <4>2. s.obj[j] \in Asset /\ s.obj[j].req \in Request
        BY <4>1 DEF Asset
      <4>3. y.obj = [s.obj EXCEPT ![k] = [s.obj[k] EXCEPT !.req.out = TRUE]]
        BY <4>1, <2>4 DEF Accessory
      <4>4. y.obj[j] = IF j = k THEN [s.obj[j] EXCEPT !.req.out = TRUE] ELSE s.obj[j]
        BY <4>1, <4>3
      <4>. HIDE DEF y
      <4>. QED  BY <4>2, <4>4 DEF SameAsset, SameRequest, Asset, Request
    <3>. HIDE DEF y
    <3>. QED  BY <2>4, <3>1, <3>2 DEF Alike, SameBut, Buffers
  <2>. HIDE DEF y
  <2>6. Alike(x, y)
    BY <2>4, <2>5, AlikeTrans
  <2>. QED  BY <1>1, <1>2, <2>4, <2>5, <2>6
<1>. QED  BY <1>1, <1>2, <1>3

-----------------------------------------------------------------------------
(* Two accessories that differ in the asset that is handled. *)
Keeps(o, p) ==
  /\ p.id = o.id /\ p.v = o.v /\ p.ctrl = o.ctrl
  /\ p.marked = o.marked /\ p.delegate = o.delegate

Running == {"ACTIVE", "FAILED", "STAGED"}

SameRest(x, y) ==
  /\ y.asset = x.asset /\ y.order = x.order /\ y.reboot = x.reboot /\ y.fault = x.fault
  /\ y.state = x.state \/ {x.state, y.state} \subseteq Running
  /\ \A j \in Offers : j # x.asset => y.obj[j] = x.obj[j]
  /\ Keeps(x.obj[x.asset], y.obj[x.asset])

LEMMA SameRestTrans == \A x, y, z : SameRest(x, y) /\ SameRest(y, z) => SameRest(x, z)
BY DEF SameRest, Keeps

(* What concerns the other assets is kept by a step of the one handled.     *)
LEMMA RestKept ==
  ASSUME NEW x \in Accessory, NEW y, Rest(x), x.asset \in Offers, SameRest(x, y),
         DoneUpTo(y, y.obj[y.asset].index - 1)
  PROVE  Rest(y)
<1>1. Listed(y) = Listed(x) /\ Listed(x) \subseteq Offers
  BY OwnAsset DEF SameRest, Listed
<1>2. x.state # "NONE" /\ x.asset # None
  BY Lengths DEF Rest, Owner, Offers, None
<1>3. Owner(y)
  BY <1>1, <1>2 DEF Rest, Owner, SameRest, Keeps, Running
<1>4. Listing(y)
  <2>. SUFFICES ASSUME NEW k \in Listed(x)
                PROVE  y.obj[k].id \in Offers /\ (~y.obj[k].marked => y.obj[k].delegate)
    BY <1>1 DEF Listing
  <2>. QED  BY <1>1 DEF Rest, Listing, SameRest, Keeps
<1>5. Requests(y)
  BY DEF Rest, Requests, SameRest
<1>. QED  BY <1>3, <1>4, <1>5 DEF Rest, SameRest

(* The asset k is being received, or its transfer has failed, and no        *)
(* request of it is with the controller.                                    *)
Held(x, k) ==
  /\ x \in Accessory /\ Buffers(x) /\ Rest(x)
  /\ x.asset = k /\ k \in Offers /\ x.state \in {"ACTIVE", "FAILED"}

Underway(x, k) == Held(x, k) /\ ~x.obj[k].req.out

(* y comes after x. *)
Goes(x, y) ==
  /\ Sound(y) /\ Buffers(y) /\ y.order = x.order /\ y.asset = x.asset
  /\ y.state = x.state \/ (x.state \in Running /\ y.state \in Running)

LEMMA GoesTrans == \A x, y, z : y.order = x.order /\ y.asset = x.asset /\ Goes(y, z)
                       /\ (y.state = x.state \/ {x.state, y.state} \subseteq Running) => Goes(x, z)
BY DEF Goes

-----------------------------------------------------------------------------
(* A transfer fails. *)

(* report_failure(), of an asset whose request is open.                     *)
LEMMA FailedSturdy ==
  ASSUME NEW x \in Accessory, Sturdy(x), x.asset \in Offers, x.state \in Running
  PROVE  /\ Sound([x EXCEPT !.state = "FAILED"]) /\ [x EXCEPT !.state = "FAILED"] \in Accessory
         /\ SameRest(x, [x EXCEPT !.state = "FAILED"])
<1>. DEFINE y == [x EXCEPT !.state = "FAILED"]
<1>1. /\ y.asset = x.asset /\ y.order = x.order /\ y.reboot = x.reboot /\ y.fault = x.fault
      /\ y.obj = x.obj /\ y.state = "FAILED" /\ y.transfer = x.transfer /\ y.flash = x.flash
      /\ y.current = x.current /\ y.hash = x.hash
  BY DEF Accessory
<1>2. y \in Accessory
  BY FieldTyped DEF AssetStates
<1>. HIDE DEF y
<1>3. SameRest(x, y)
  BY <1>1 DEF SameRest, Keeps, Running
<1>4. x.asset # None
  BY DEF Offers, None
<1>5. DoneUpTo(y, y.obj[y.asset].index - 1)
  BY <1>1, <1>4 DEF Sturdy, Rest, DoneUpTo, Done
<1>6. Rest(y)
  BY <1>3, <1>5, RestKept DEF Sturdy
<1>7. Posed(y)
  <2>1. At(x) => At(y)
    BY <1>1 DEF At, AtHeader, AtMetadata, AtPayloadHeader, AtPayload, AtPayloadMetadata, AtData,
                Fresh, Told
  <2>. QED  BY <1>1, <1>4, <2>1 DEF Sturdy, Posed
<1>8. Complete(y) /\ Live(y)
  BY <1>1 DEF Complete, Live
<1>. QED  BY <1>2, <1>3, <1>6, <1>7, <1>8 DEF Sound, Sturdy, y

LEMMA FailureGoes ==
  ASSUME NEW x \in Accessory, Sturdy(x), Buffers(x), NEW k \in Offers, x.asset = k,
         x.state \in Running
  PROVE  Goes(x, report_failure(x, k))
<1>. DEFINE y == [x EXCEPT !.state = "FAILED"]
<1>1. /\ Sound(y) /\ y \in Accessory /\ SameRest(x, y)
  BY FailedSturdy
<1>2. y.buf = x.buf /\ y.pending = x.pending /\ y.sending = x.sending /\ y.state = "FAILED"
  BY DEF Accessory
<1>. HIDE DEF y
<1>3. Buffers(y)
  BY <1>2 DEF Buffers
<1>4. y.fault = "none"
  BY <1>1 DEF Sound, Sturdy, Rest
<1>5. Alike(y, Notification(y, k, "COMPLETE")) /\ Buffers(Notification(y, k, "COMPLETE"))
  BY <1>1, <1>3, <1>4, NotificationAlike DEF Texts
<1>6. Sound(Notification(y, k, "COMPLETE"))
  BY <1>1, <1>5, SoundAlike
<1>7. CASE x.state = "ACTIVE"
  <2>1. report_failure(x, k) = Notification(y, k, "COMPLETE")
    BY <1>7 DEF report_failure, y
  <2>. QED  BY <1>1, <1>2, <1>5, <1>6, <1>7, <2>1 DEF Goes, SameRest, Alike, SameBut, Running
<1>8. CASE x.state = "STAGED"
  <2>1. report_failure(x, k) = y
    BY <1>8 DEF report_failure, y
  <2>. QED  BY <1>1, <1>2, <1>3, <1>8, <2>1 DEF Goes, SameRest, Running
<1>9. CASE x.state = "FAILED"
  <2>1. report_failure(x, k) = x
    BY <1>9 DEF report_failure
  <2>. QED  BY <1>9, <2>1 DEF Goes, Sound, Live
<1>. QED  BY <1>7, <1>8, <1>9 DEF Running

LEMMA UnlessFailedGoes ==
  ASSUME NEW x, NEW y \in Accessory, Goes(x, y), NEW k \in Offers, x.asset = k, x.state \in Running
  PROVE  Goes(x, UnlessFailed(y, k))
<1>1. y.asset = k /\ y.state \in Running /\ Sturdy(y) /\ Buffers(y)
  BY DEF Goes, Sound
<1>2. Goes(y, report_failure(y, k))
  BY <1>1, FailureGoes
<1>3. Goes(x, report_failure(y, k))
  BY <1>1, <1>2 DEF Goes
<1>. QED  BY <1>3 DEF UnlessFailed

-----------------------------------------------------------------------------
(* Requests. *)

LEMMA PosedGoes ==
  ASSUME NEW x, NEW k, Underway(x, k), NEW r \in Request, ~r.out, RequestSound(r),
         r.left > 0, At([x EXCEPT !.obj[k].req = r]),
         x.state = "ACTIVE" /\ r.type = "PAYLOAD" => InStep(x)
  PROVE  LET z == [x EXCEPT !.obj[k].req = r] IN
         /\ Goes(x, RequestDataContinue(z, k))
         /\ x.pending = NoMsg => RequestDataContinue(z, k).status
<1>. DEFINE z == [x EXCEPT !.obj[k].req = r]
            o == [x.obj[k] EXCEPT !.req = r]
<1>. USE DEF Underway, Held
<1>1. z = [x EXCEPT !.obj[k] = o] /\ x.obj \in [Offers -> Asset]
  BY DEF Accessory
<1>2. o \in Asset /\ x.obj[k] \in Asset
  BY ObjTyped, AssetField
<1>3. /\ o.id = x.obj[k].id /\ o.v = x.obj[k].v /\ o.ctrl = x.obj[k].ctrl
      /\ o.marked = x.obj[k].marked /\ o.delegate = x.obj[k].delegate
      /\ o.index = x.obj[k].index /\ o.recvd = x.obj[k].recvd /\ o.req = r
  BY <1>2 DEF Asset
<1>4. z \in Accessory
  BY <1>1, <1>2, ObjTyped
<1>5. /\ z.asset = x.asset /\ z.order = x.order /\ z.reboot = x.reboot /\ z.fault = x.fault
      /\ z.state = x.state /\ z.transfer = x.transfer /\ z.flash = x.flash
      /\ z.current = x.current /\ z.hash = x.hash /\ z.buf = x.buf /\ z.pending = x.pending
      /\ z.sending = x.sending
  OBVIOUS
<1>6. z.obj[k] = o /\ \A j \in Offers : j # k => z.obj[j] = x.obj[j]
  BY <1>1
<1>7. At(z) /\ x.asset # None
  BY DEF Offers, None
<1>. HIDE DEF z, o
<1>8. SameRest(x, z)
  BY <1>3, <1>5, <1>6 DEF SameRest, Keeps
<1>9. Rest(z)
  <2>1. DoneUpTo(z, z.obj[z.asset].index - 1)
    BY <1>3, <1>5, <1>6, <1>7 DEF Rest, DoneUpTo, Done
  <2>. QED  BY <1>8, <2>1, RestKept
<1>10. Posed(z)
  BY <1>3, <1>5, <1>6, <1>7 DEF Posed
<1>11. Complete(z)
  BY <1>5 DEF Complete
<1>12. Live(z)
  BY <1>3, <1>5, <1>6 DEF Live, InStep
<1>13. Sound(z) /\ Buffers(z)
  BY <1>5, <1>9, <1>10, <1>11, <1>12 DEF Sound, Sturdy, Buffers
<1>14. RequestSound(z.obj[k].req) /\ z.fault = "none"
  BY <1>3, <1>6, <1>9 DEF Rest
<1>15. /\ Alike(z, RequestDataContinue(z, k)) /\ Buffers(RequestDataContinue(z, k))
       /\ z.pending = NoMsg => RequestDataContinue(z, k).status
  BY <1>4, <1>13, <1>14, ContinueAlike
<1>16. Sound(RequestDataContinue(z, k))
  BY <1>4, <1>13, <1>15, SoundAlike
<1>17. Goes(x, RequestDataContinue(z, k))
  BY <1>5, <1>15, <1>16 DEF Goes, Alike, SameBut
<1>. QED  BY <1>5, <1>15, <1>17 DEF z

(* The request that RequestData() opens. *)
Opened(x, k, t, rel, n) ==
  [type |-> t, rel |-> rel, asked |-> n, got |-> 0, left |-> n, out |-> FALSE,
   of |-> CASE t = "PAYLOAD_HEADER" -> x.obj[k].index
            [] t \in {"PAYLOAD", "PAYLOAD_METADATA"} -> x.obj[k].pl
            [] OTHER -> None]

LEMMA OpenedTyped ==
  ASSUME NEW x \in Accessory, NEW k \in Offers, NEW t \in RequestTypes, NEW rel \in Int, NEW n \in Int
  PROVE  /\ Opened(x, k, t, rel, n) \in Request
         /\ t = "PAYLOAD_HEADER" => Opened(x, k, t, rel, n).of = x.obj[k].index
         /\ t \in {"PAYLOAD", "PAYLOAD_METADATA"} => Opened(x, k, t, rel, n).of = x.obj[k].pl
         /\ Opened(x, k, t, rel, n).type = t /\ Opened(x, k, t, rel, n).rel = rel
         /\ Opened(x, k, t, rel, n).asked = n /\ Opened(x, k, t, rel, n).left = n
         /\ Opened(x, k, t, rel, n).got = 0 /\ ~Opened(x, k, t, rel, n).out
<1>. DEFINE f == CASE t = "PAYLOAD_HEADER" -> x.obj[k].index
                   [] t \in {"PAYLOAD", "PAYLOAD_METADATA"} -> x.obj[k].pl
                   [] OTHER -> None
<1>1. x.obj[k].index \in Int /\ x.obj[k].pl \in Int
  BY ObjTyped DEF Asset
<1>2. /\ f \in Int
      /\ t = "PAYLOAD_HEADER" => f = x.obj[k].index
      /\ t \in {"PAYLOAD", "PAYLOAD_METADATA"} => f = x.obj[k].pl
  <2>1. CASE t = "PAYLOAD_HEADER"
    BY <1>1, <2>1
  <2>2. CASE t \in {"PAYLOAD", "PAYLOAD_METADATA"}
    BY <1>1, <2>2
  <2>3. CASE t \notin {"PAYLOAD", "PAYLOAD_METADATA", "PAYLOAD_HEADER"}
    BY <2>3 DEF None
  <2>. QED  BY <2>1, <2>2, <2>3
<1>3. Opened(x, k, t, rel, n) = [type |-> t, rel |-> rel, asked |-> n, got |-> 0,
                                 left |-> n, out |-> FALSE, of |-> f]
  BY DEF Opened
<1>. HIDE DEF f
<1>. QED  BY <1>2, <1>3 DEF Request

LEMMA RequestGoes ==
  ASSUME NEW x, NEW k, Underway(x, k), NEW t \in RequestTypes, NEW rel \in Int, NEW n \in Int,
         n > 0, Known(x.obj[k], t), RequestSound(Opened(x, k, t, rel, n)),
         At([x EXCEPT !.obj[k].req = Opened(x, k, t, rel, n)]),
         x.state = "ACTIVE" /\ t = "PAYLOAD" => InStep(x)
  PROVE  /\ Goes(x, RequestData(x, k, t, rel, n))
         /\ x.pending = NoMsg => RequestData(x, k, t, rel, n).status
<1>. DEFINE r == Opened(x, k, t, rel, n)
            z == [x EXCEPT !.obj[k].req = r]
<1>1. RequestData(x, k, t, rel, n) = RequestDataContinue(z, k)
  BY Zenon DEF RequestData, Underway, Held, Opened
<1>2. r \in Request /\ r.type = t /\ r.left = n /\ ~r.out
  BY OpenedTyped DEF Underway, Held
<1>3. RequestSound(r) /\ At(z)
  OBVIOUS
<1>. HIDE DEF r
<1>. QED  BY <1>1, <1>2, <1>3, PosedGoes

LEMMA OpenedPlace ==
  ASSUME NEW x \in Accessory, NEW k \in Offers, x.asset = k, NEW r \in Request
  PROVE  LET z == [x EXCEPT !.obj[k].req = r] IN
         /\ z.asset = k /\ z.transfer = x.transfer /\ z.current = x.current /\ z.hash = x.hash
         /\ z.obj[k].hdr = x.obj[k].hdr /\ z.obj[k].meta = x.obj[k].meta
         /\ z.obj[k].index = x.obj[k].index /\ z.obj[k].pl = x.obj[k].pl
         /\ z.obj[k].plflags = x.obj[k].plflags /\ z.obj[k].recvd = x.obj[k].recvd
         /\ z.obj[k].v = x.obj[k].v /\ z.obj[k].req = r
<1>1. x.obj \in [Offers -> Asset] /\ x.obj[k] \in Asset
  BY ObjTyped DEF Accessory
<1>. QED  BY <1>1 DEF Asset

LEMMA HeaderGoes ==
  ASSUME NEW x, NEW k, Underway(x, k), AtHeader(x, x.obj[k])
  PROVE  /\ Goes(x, RequestData(x, k, "HEADER", 0, 1))
         /\ x.pending = NoMsg => RequestData(x, k, "HEADER", 0, 1).status
<1>. DEFINE r == Opened(x, k, "HEADER", 0, 1)
            z == [x EXCEPT !.obj[k].req = r]
<1>1. "HEADER" \in RequestTypes /\ x \in Accessory /\ k \in Offers /\ x.asset = k
  BY DEF Underway, Held, RequestTypes
<1>2. /\ r \in Request /\ r.type = "HEADER" /\ r.rel = 0 /\ r.asked = 1 /\ r.left = 1
      /\ r.got = 0
  BY <1>1, OpenedTyped
<1>. HIDE DEF r
<1>3. RequestSound(r)
  BY <1>2 DEF RequestSound
<1>4. At(z)
  BY <1>1, <1>2, OpenedPlace DEF At, AtHeader, Fresh
<1>5. Known(x.obj[k], "HEADER") /\ "HEADER" # "PAYLOAD"
  BY DEF Known
<1>. QED  BY <1>1, <1>3, <1>4, <1>5, RequestGoes DEF r

LEMMA MetadataGoes ==
  ASSUME NEW x, NEW k, Underway(x, k), AtMetadata(x, x.obj[k])
  PROVE  /\ Goes(x, RequestData(x, k, "METADATA", 0, 1))
         /\ x.pending = NoMsg => RequestData(x, k, "METADATA", 0, 1).status
<1>. DEFINE r == Opened(x, k, "METADATA", 0, 1)
            z == [x EXCEPT !.obj[k].req = r]
<1>1. "METADATA" \in RequestTypes /\ x \in Accessory /\ k \in Offers /\ x.asset = k
  BY DEF Underway, Held, RequestTypes
<1>2. /\ r \in Request /\ r.type = "METADATA" /\ r.rel = 0 /\ r.asked = 1 /\ r.left = 1
      /\ r.got = 0
  BY <1>1, OpenedTyped
<1>. HIDE DEF r
<1>3. RequestSound(r)
  BY <1>2 DEF RequestSound
<1>4. At(z)
  BY <1>1, <1>2, OpenedPlace DEF At, AtMetadata, Fresh
<1>5. Known(x.obj[k], "METADATA") /\ "METADATA" # "PAYLOAD"
  BY DEF Known
<1>. QED  BY <1>1, <1>3, <1>4, <1>5, RequestGoes DEF r

LEMMA PayloadHeaderGoes ==
  ASSUME NEW x, NEW k, Underway(x, k), NEW p \in Int, p >= 1, p = x.obj[k].index,
         Told(x.obj[k]), x.obj[k].pl < p, x.obj[k].plflags = "none", x.obj[k].recvd = 0,
         ~x.transfer
  PROVE  /\ Goes(x, RequestData(x, k, "PAYLOAD_HEADER", p - 1, 1))
         /\ x.pending = NoMsg => RequestData(x, k, "PAYLOAD_HEADER", p - 1, 1).status
<1>. DEFINE r == Opened(x, k, "PAYLOAD_HEADER", p - 1, 1)
            z == [x EXCEPT !.obj[k].req = r]
<1>1. "PAYLOAD_HEADER" \in RequestTypes /\ x \in Accessory /\ k \in Offers /\ x.asset = k
  BY DEF Underway, Held, RequestTypes
<1>2. /\ r \in Request /\ r.type = "PAYLOAD_HEADER" /\ r.rel = p - 1 /\ r.asked = 1 /\ r.left = 1
      /\ r.got = 0 /\ r.of = p
  BY <1>1, OpenedTyped
<1>. HIDE DEF r
<1>3. RequestSound(r)
  BY <1>2 DEF RequestSound
<1>4. At(z)
  BY <1>1, <1>2, OpenedPlace DEF At, AtPayloadHeader, Told
<1>5. Known(x.obj[k], "PAYLOAD_HEADER") /\ "PAYLOAD_HEADER" # "PAYLOAD"
  BY DEF Known
<1>6. p - 1 \in Int /\ 1 \in Int /\ 1 > 0
  OBVIOUS
<1>7. x.state = "ACTIVE" /\ "PAYLOAD_HEADER" = "PAYLOAD" => InStep(x)
  BY <1>5
<1>8. /\ RequestSound(Opened(x, k, "PAYLOAD_HEADER", p - 1, 1))
      /\ At([x EXCEPT !.obj[k].req = Opened(x, k, "PAYLOAD_HEADER", p - 1, 1)])
  BY <1>3, <1>4 DEF r
<1>. QED  BY ONLY Underway(x, k), <1>1, <1>5, <1>6, <1>7, <1>8, RequestGoes

LEMMA PayloadMetadataGoes ==
  ASSUME NEW x, NEW k, Underway(x, k), Told(x.obj[k]), x.obj[k].pl = x.obj[k].index,
         x.obj[k].pl \in AppPayloads, x.current = x.obj[k].pl, x.obj[k].plflags = "needs",
         x.obj[k].v \notin PlainVersions, x.obj[k].recvd = 0, ~x.transfer,
         x.hash.n = 0, x.hash.ok
  PROVE  /\ Goes(x, RequestData(x, k, "PAYLOAD_METADATA", 0, 1))
         /\ x.pending = NoMsg => RequestData(x, k, "PAYLOAD_METADATA", 0, 1).status
<1>. DEFINE r == Opened(x, k, "PAYLOAD_METADATA", 0, 1)
            z == [x EXCEPT !.obj[k].req = r]
<1>1. "PAYLOAD_METADATA" \in RequestTypes /\ x \in Accessory /\ k \in Offers /\ x.asset = k
  BY DEF Underway, Held, RequestTypes
<1>2. /\ r \in Request /\ r.type = "PAYLOAD_METADATA" /\ r.rel = 0 /\ r.asked = 1 /\ r.left = 1
      /\ r.got = 0 /\ r.of = x.obj[k].pl
  BY <1>1, OpenedTyped
<1>. HIDE DEF r
<1>3. RequestSound(r)
  BY <1>2 DEF RequestSound
<1>4. At(z)
  BY <1>1, <1>2, OpenedPlace DEF At, AtPayloadMetadata, AtPayload, Told
<1>5. Known(x.obj[k], "PAYLOAD_METADATA")
  BY Lengths DEF Known, None
<1>. QED  BY <1>1, <1>3, <1>4, <1>5, RequestGoes DEF r

(* The place where payload data are received. *)
Receiving(x, k) ==
  /\ Told(x.obj[k]) /\ x.obj[k].pl = x.obj[k].index /\ x.obj[k].pl \in AppPayloads
  /\ x.current = x.obj[k].pl /\ x.obj[k].plflags # "needs" /\ x.transfer

LEMMA PayloadRequestGoes ==
  ASSUME NEW x, NEW k, Underway(x, k), Receiving(x, k), 0 <= x.obj[k].recvd,
         x.obj[k].recvd < LENGTH, x.state = "ACTIVE" => InStep(x)
  PROVE  /\ Goes(x, PayloadRequestData(x, k))
         /\ x.pending = NoMsg => PayloadRequestData(x, k).status
<1>. DEFINE q == x.obj[k].recvd
            n == Least(WINDOW, LENGTH - q)
            r == Opened(x, k, "PAYLOAD", q, n)
            z == [x EXCEPT !.obj[k].req = r]
<1>1. "PAYLOAD" \in RequestTypes /\ x \in Accessory /\ k \in Offers /\ x.asset = k
  BY DEF Underway, Held, RequestTypes
<1>2. q \in Int /\ n \in Int /\ n > 0 /\ q + n <= LENGTH
  <2>1. q \in Int
    BY <1>1, ObjTyped DEF Asset
  <2>. HIDE DEF q
  <2>. QED  BY <2>1, Lengths DEF Least, q
<1>3. PayloadRequestData(x, k) = RequestData(x, k, "PAYLOAD", q, n)
  BY DEF PayloadRequestData
<1>. HIDE DEF n
<1>4. /\ r \in Request /\ r.type = "PAYLOAD" /\ r.rel = q /\ r.asked = n /\ r.left = n
      /\ r.got = 0 /\ r.of = x.obj[k].pl
  BY <1>1, <1>2, OpenedTyped
<1>. HIDE DEF r
<1>5. RequestSound(r)
  BY <1>2, <1>4 DEF RequestSound
<1>6. At(z)
  BY <1>1, <1>4, OpenedPlace DEF At, AtData, AtPayload, Told, Receiving
<1>7. Known(x.obj[k], "PAYLOAD")
  BY Lengths DEF Known, None, Receiving
<1>. QED  BY <1>1, <1>2, <1>3, <1>5, <1>6, <1>7, RequestGoes DEF r

-----------------------------------------------------------------------------
(* The course of the asset that is received. *)

LEMMA UnderwayKept ==
  ASSUME NEW x, NEW k, Held(x, k), NEW y \in Accessory, SameRest(x, y),
         y.state \in {"ACTIVE", "FAILED"}, y.buf = x.buf, y.pending = x.pending,
         y.sending = x.sending, ~y.obj[k].req.out, DoneUpTo(y, y.obj[k].index - 1)
  PROVE  Underway(y, k)
<1>1. Rest(y)
  BY RestKept DEF Underway, Held, SameRest
<1>. QED  BY <1>1 DEF Underway, Held, Buffers, SameRest

LEMMA UnderwayFields ==
  ASSUME NEW x, NEW k, Underway(x, k), NEW y \in Accessory, y.state = x.state,
         y.asset = x.asset, y.order = x.order, y.reboot = x.reboot, y.fault = x.fault,
         y.obj = x.obj, y.flash = x.flash, y.buf = x.buf, y.pending = x.pending,
         y.sending = x.sending
  PROVE  Underway(y, k)
<1>1. SameRest(x, y)
  BY DEF SameRest, Keeps
<1>2. DoneUpTo(y, y.obj[k].index - 1)
  BY DEF Underway, Held, Rest, DoneUpTo, Done, Offers, None
<1>. QED  BY <1>1, <1>2, UnderwayKept DEF Underway, Held

LEMMA UnderwayOwn ==
  ASSUME NEW x, NEW k, Held(x, k), NEW o \in Asset, Keeps(x.obj[k], o), ~o.req.out,
         DoneUpTo(x, o.index - 1)
  PROVE  LET w == [x EXCEPT !.obj[k] = o] IN
         /\ Underway(w, k) /\ w.obj[k] = o
         /\ w.transfer = x.transfer /\ w.current = x.current /\ w.hash = x.hash
         /\ w.flash = x.flash /\ w.state = x.state /\ w.order = x.order /\ w.asset = x.asset
         /\ w.pending = x.pending
<1>. DEFINE w == [x EXCEPT !.obj[k] = o]
<1>1. x \in Accessory /\ k \in Offers /\ x.asset = k
  BY DEF Underway, Held
<1>2. w \in Accessory
  BY <1>1, ObjTyped
<1>3. /\ w.transfer = x.transfer /\ w.current = x.current /\ w.hash = x.hash
      /\ w.flash = x.flash /\ w.state = x.state /\ w.order = x.order /\ w.asset = x.asset
      /\ w.pending = x.pending /\ w.buf = x.buf /\ w.sending = x.sending
      /\ w.reboot = x.reboot /\ w.fault = x.fault
  OBVIOUS
<1>4. w.obj[k] = o /\ \A j \in Offers : j # k => w.obj[j] = x.obj[j]
  BY <1>1 DEF Accessory
<1>. HIDE DEF w
<1>5. SameRest(x, w)
  BY <1>1, <1>3, <1>4 DEF SameRest
<1>6. DoneUpTo(w, w.obj[k].index - 1)
  BY <1>1, <1>3, <1>4 DEF DoneUpTo, Done, Keeps
<1>7. Underway(w, k)
  BY <1>2, <1>3, <1>4, <1>5, <1>6, UnderwayKept DEF Underway, Held
<1>. QED  BY <1>3, <1>4, <1>7 DEF w

LEMMA UnderwayTyped ==
  \A x, k : Underway(x, k) => /\ x \in Accessory /\ k \in Offers /\ x.asset = k
                              /\ x.obj[k] \in Asset /\ x.state \in Running
                              /\ x.asset # None
BY ObjTyped DEF Underway, Held, Running, Offers, None

LEMMA NoneDone == \A x : DoneUpTo(x, 0)
BY Lengths DEF DoneUpTo

(* SetPayloadIndex() asks for the header of the next payload.               *)
LEMMA IndexGoes ==
  ASSUME NEW x, NEW k, Underway(x, k), NEW p \in Int, p >= 1, Told(x.obj[k]),
         x.obj[k].pl < p, ~x.transfer, DoneUpTo(x, p - 1)
  PROVE  /\ Goes(x, SetPayloadIndex(x, k, p))
         /\ x.pending = NoMsg => SetPayloadIndex(x, k, p).status
<1>. DEFINE o == [x.obj[k] EXCEPT !.recvd = 0, !.index = p, !.plflags = "none"]
            w == [x EXCEPT !.obj[k] = o]
<1>1. x \in Accessory /\ k \in Offers /\ x.asset = k /\ x.obj[k] \in Asset
  BY UnderwayTyped
<1>2. SetPayloadIndex(x, k, p) = RequestData(w, k, "PAYLOAD_HEADER", p - 1, 1)
  <2>1. [x EXCEPT !.obj[k].recvd = 0, !.obj[k].index = p, !.obj[k].plflags = "none"] = w
    BY <1>1 DEF Accessory
  <2>. QED  BY <2>1 DEF SetPayloadIndex
<1>3. o \in Asset
  <2>1. 0 \in Int /\ "none" \in {"none", "needs", "has"}
    OBVIOUS
  <2>. DEFINE o1 == [x.obj[k] EXCEPT !.recvd = 0]
              o2 == [o1 EXCEPT !.index = p]
  <2>2. o1 \in Asset
    BY <1>1, <2>1, AssetField
  <2>3. o = [o2 EXCEPT !.plflags = "none"]
    OBVIOUS
  <2>. HIDE DEF o1, o
  <2>4. o2 \in Asset
    BY <2>2, AssetField
  <2>. HIDE DEF o2
  <2>. QED  BY <2>1, <2>3, <2>4, AssetField
<1>4. /\ o.recvd = 0 /\ o.index = p /\ o.plflags = "none" /\ o.pl = x.obj[k].pl
      /\ o.hdr = x.obj[k].hdr /\ o.meta = x.obj[k].meta /\ o.v = x.obj[k].v
      /\ o.req = x.obj[k].req /\ Keeps(x.obj[k], o)
  BY <1>1 DEF Keeps, Asset
<1>. HIDE DEF o
<1>5. /\ Underway(w, k) /\ w.obj[k] = o /\ w.transfer = x.transfer /\ w.state = x.state
      /\ w.order = x.order /\ w.asset = x.asset /\ w.pending = x.pending
  BY <1>3, <1>4, UnderwayOwn DEF Underway, Held
<1>. HIDE DEF w
<1>6. Told(w.obj[k])
  BY <1>4, <1>5 DEF Told
<1>7. /\ Goes(w, RequestData(w, k, "PAYLOAD_HEADER", p - 1, 1))
      /\ w.pending = NoMsg => RequestData(w, k, "PAYLOAD_HEADER", p - 1, 1).status
  BY <1>4, <1>5, <1>6, PayloadHeaderGoes
<1>. QED  BY <1>2, <1>5, <1>7 DEF Goes

(* If the request could not be handed over the asset fails, and is sound.   *)
LEMMA GoesUnlessFailed ==
  ASSUME NEW x, NEW k, Underway(x, k), NEW y \in Accessory, Goes(x, y)
  PROVE  Goes(x, UnlessFailed(y, k))
BY UnderwayTyped, UnlessFailedGoes

(* The superbinary is known: its first payload follows.                     *)
LEMMA MetaDataCompleteGoes ==
  ASSUME NEW x, NEW k, Underway(x, k), Told(x.obj[k]), x.obj[k].pl < 1, ~x.transfer
  PROVE  Goes(x, asset_meta_data_complete(x, k))
<1>. DEFINE w == [x EXCEPT !.staged = 0]
            y == SetPayloadIndex(w, k, 1)
<1>1. x \in Accessory /\ k \in Offers
  BY UnderwayTyped
<1>2. w \in Accessory
  <2>1. 0 \in Int
    OBVIOUS
  <2>. QED  BY <1>1, <2>1, FieldTyped
<1>3. /\ w.transfer = x.transfer /\ w.obj = x.obj
      /\ w.flash = x.flash /\ w.state = x.state /\ w.order = x.order /\ w.asset = x.asset
      /\ w.pending = x.pending /\ w.buf = x.buf /\ w.sending = x.sending
      /\ w.reboot = x.reboot /\ w.fault = x.fault
  OBVIOUS
<1>. HIDE DEF w
<1>4. Underway(w, k)
  BY <1>2, <1>3, UnderwayFields
<1>5. Goes(w, y) /\ y \in Accessory
  BY <1>1, <1>2, <1>3, <1>4, IndexGoes, NoneDone, IndexTyped
<1>6. asset_meta_data_complete(x, k) = UnlessFailed(y, k)
  BY DEF asset_meta_data_complete, w
<1>. HIDE DEF y
<1>7. Goes(x, y)
  BY <1>3, <1>5 DEF Goes
<1>. QED  BY <1>5, <1>6, <1>7, GoesUnlessFailed

LEMMA ReadyGoes ==
  ASSUME NEW x, NEW k, Underway(x, k), x.obj[k].hdr, ~x.obj[k].meta, Fresh(x.obj[k]), ~x.transfer
  PROVE  Goes(x, asset_ready(x, k))
<1>1. CASE x.obj[k].v \in MetaVersions
  <2>1. Goes(x, RequestData(x, k, "METADATA", 0, 1))
    BY <1>1, MetadataGoes DEF AtMetadata
  <2>2. RequestData(x, k, "METADATA", 0, 1) \in Accessory
    BY UnitTyped, UnderwayTyped
  <2>. QED  BY <1>1, <2>1, <2>2, GoesUnlessFailed DEF asset_ready
<1>2. CASE x.obj[k].v \notin MetaVersions
  BY <1>2, MetaDataCompleteGoes DEF asset_ready, Told, Fresh, None
<1>. QED  BY <1>1, <1>2

(* A payload is done, or none of the application: the next follows.         *)
LEMMA NextGoes ==
  ASSUME NEW x, NEW k, Underway(x, k), Told(x.obj[k]), x.obj[k].pl <= x.obj[k].index,
         x.obj[k].index >= 0, ~x.transfer, DoneUpTo(x, x.obj[k].index)
  PROVE  Goes(x, asset_payload_index_set_next(x, k))
<1>. DEFINE p == x.obj[k].index + 1
            y == SetPayloadIndex(x, k, p)
<1>1. p \in Int /\ x.obj[k].pl < p /\ p >= 1 /\ p - 1 = x.obj[k].index
  BY UnderwayTyped DEF Asset
<1>2. asset_payload_index_set_next(x, k) = UnlessFailed(y, k)
  BY DEF asset_payload_index_set_next
<1>. HIDE DEF p
<1>3. Goes(x, y)
  BY <1>1, IndexGoes
<1>4. y \in Accessory
  BY <1>1, IndexTyped, UnderwayTyped
<1>. QED  BY <1>2, <1>3, <1>4, GoesUnlessFailed

(* With no request open the accessory may as well fail. *)
LEMMA UnderwaySturdy ==
  ASSUME NEW x, NEW k, Underway(x, k), RequestSound(x.obj[k].req), x.obj[k].req.left = 0
  PROVE  Sturdy(x) /\ Goes(x, report_failure(x, k))
<1>1. Sturdy(x)
  BY DEF Underway, Held, Sturdy, Posed, Complete
<1>. QED  BY <1>1, UnderwayTyped, FailureGoes DEF Underway, Held

(* All payloads are done: the asset is staged.                              *)
LEMMA StagedGoes ==
  ASSUME NEW x, NEW k, Underway(x, k), RequestSound(x.obj[k].req), x.obj[k].req.left = 0,
         DoneUpTo(x, x.obj[k].index)
  PROVE  Goes(x, asset_fully_staged_mark(x, k))
<1>. DEFINE w == [x EXCEPT !.state = "STAGED"]
            y == Notification(w, k, "COMPLETE")
<1>1. x \in Accessory /\ k \in Offers /\ x.asset = k /\ x.state \in Running /\ x.asset # None
  BY UnderwayTyped
<1>2. w \in Accessory
  BY <1>1, FieldTyped DEF AssetStates
<1>3. /\ w.transfer = x.transfer /\ w.obj = x.obj /\ w.state = "STAGED"
      /\ w.flash = x.flash /\ w.order = x.order /\ w.asset = x.asset
      /\ w.pending = x.pending /\ w.buf = x.buf /\ w.sending = x.sending
      /\ w.reboot = x.reboot /\ w.fault = x.fault
  BY <1>1 DEF Accessory
<1>. HIDE DEF w
<1>4. SameRest(x, w)
  BY <1>1, <1>3 DEF SameRest, Keeps, Running
<1>5. DoneUpTo(w, w.obj[w.asset].index - 1) /\ DoneUpTo(w, w.obj[w.asset].index)
  BY <1>1, <1>3 DEF Underway, Held, Rest, DoneUpTo, Done
<1>6. Rest(w)
  BY <1>1, <1>4, <1>5, RestKept DEF Underway, Held
<1>7. Sound(w) /\ Buffers(w) /\ w.fault = "none"
  BY <1>1, <1>3, <1>5, <1>6 DEF Sound, Sturdy, Posed, Complete, Live, Underway, Held, Buffers, Rest
<1>8. Alike(w, y) /\ Buffers(y) /\ y \in Accessory
  BY <1>1, <1>2, <1>7, NotificationAlike, NotificationTyped DEF Texts
<1>9. Sound(y)
  BY <1>2, <1>7, <1>8, SoundAlike
<1>10. asset_fully_staged_mark(x, k) = UnlessFailed(y, k)
  BY DEF asset_fully_staged_mark, w
<1>. HIDE DEF y
<1>11. Goes(x, y)
  BY <1>1, <1>3, <1>8, <1>9 DEF Goes, Alike, SameBut, Running
<1>. QED  BY <1>8, <1>10, <1>11, GoesUnlessFailed

-----------------------------------------------------------------------------
(* Payload data. *)

(* The status that a function returns says nothing of the asset.            *)
LEMMA StatusUnderway ==
  ASSUME NEW x, NEW k, Underway(x, k)
  PROVE  Underway(Passing(x), k) /\ Underway(Failing(x), k)
<1>1. x \in Accessory /\ Passing(x) \in Accessory /\ Failing(x) \in Accessory
  BY UnderwayTyped, StatusTyped
<1>2. Underway(Passing(x), k)
  <2>. DEFINE y == Passing(x)
  <2>1. /\ y.state = x.state /\ y.obj = x.obj
        /\ y.flash = x.flash /\ y.order = x.order /\ y.asset = x.asset
        /\ y.pending = x.pending /\ y.buf = x.buf /\ y.sending = x.sending
        /\ y.reboot = x.reboot /\ y.fault = x.fault
    BY DEF Passing
  <2>. HIDE DEF y
  <2>2. Underway(y, k)
    BY <1>1, <2>1, UnderwayFields DEF y
  <2>. QED  BY <2>2 DEF y
<1>3. Underway(Failing(x), k)
  <2>. DEFINE y == Failing(x)
  <2>1. /\ y.state = x.state /\ y.obj = x.obj
        /\ y.flash = x.flash /\ y.order = x.order /\ y.asset = x.asset
        /\ y.pending = x.pending /\ y.buf = x.buf /\ y.sending = x.sending
        /\ y.reboot = x.reboot /\ y.fault = x.fault
    BY DEF Failing
  <2>. HIDE DEF y
  <2>2. Underway(y, k)
    BY <1>1, <2>1, UnderwayFields DEF y
  <2>. QED  BY <2>2 DEF y
<1>. QED  BY <1>2, <1>3

LEMMA StatusFields ==
  \A x \in Accessory : \A y \in {Passing(x), Failing(x)} :
    /\ y.state = x.state /\ y.obj = x.obj /\ y.flash = x.flash /\ y.order = x.order
    /\ y.asset = x.asset /\ y.pending = x.pending /\ y.transfer = x.transfer
    /\ y.current = x.current /\ y.hash = x.hash /\ y.io = x.io
    /\ y.fault = x.fault /\ y.buf = x.buf /\ y.sending = x.sending /\ y.reboot = x.reboot
<1>. SUFFICES ASSUME NEW x \in Accessory, NEW y \in {Passing(x), Failing(x)}
              PROVE  /\ y.state = x.state /\ y.obj = x.obj /\ y.flash = x.flash
                     /\ y.order = x.order /\ y.asset = x.asset /\ y.pending = x.pending
                     /\ y.transfer = x.transfer /\ y.current = x.current /\ y.hash = x.hash
                     /\ y.io = x.io /\ y.fault = x.fault /\ y.buf = x.buf
                     /\ y.sending = x.sending /\ y.reboot = x.reboot
  OBVIOUS
<1>1. CASE y = Passing(x)
  BY <1>1 DEF Passing, Accessory
<1>2. CASE y = Failing(x)
  BY <1>2 DEF Failing, Accessory
<1>. QED  BY <1>1, <1>2

(* A new transfer of the payload. *)
LEMMA StartUnderway ==
  ASSUME NEW x, NEW k, Underway(x, k), ~x.transfer, x.obj[k].pl = x.obj[k].index,
         x.obj[k].pl \in AppPayloads, x.current = x.obj[k].pl, x.obj[k].recvd = 0,
         x.hash.n = 0, x.hash.ok
  PROVE  LET y == payload_transfer_start(x) IN
         /\ Underway(y, k) /\ y.obj = x.obj /\ y.state = x.state
         /\ y.order = x.order /\ y.asset = x.asset /\ y.pending = x.pending
         /\ y.status => y.transfer /\ y.current = x.current /\ InStep(y)
<1>. DEFINE new == [v |-> None, n |-> 0, ok |-> TRUE, boot |-> FALSE]
            f == [x.flash EXCEPT ![x.current] = new]
            w == [x EXCEPT !.transfer = TRUE, !.flash = f]
            y == payload_transfer_start(x)
<1>1. x \in Accessory /\ k \in Offers /\ x.asset = k /\ x.fault = "none"
  BY UnderwayTyped DEF Underway, Held, Rest
<1>2. Asserted(Asserted(x, x.current # None, "start without payload"),
               ~x.transfer, "start while transferring") = x
  <2>1. x.current # None
    BY Lengths DEF None
  <2>2. Asserted(x, x.current # None, "start without payload") = x
    BY <2>1 DEF Asserted
  <2>. QED  BY <2>2 DEF Asserted
<1>3. y = Failing(x) \/ y = Passing(w)
  BY <1>1, <1>2 DEF payload_transfer_start
<1>4. CASE y = Failing(x)
  <2>1. ~y.status
    BY <1>1, <1>4 DEF Failing, Accessory
  <2>2. Underway(y, k)
    BY <1>4, StatusUnderway
  <2>. QED  BY <1>1, <1>4, <2>1, <2>2, StatusFields
<1>5. CASE y = Passing(w)
  <2>1. x.flash \in [AppPayloads -> Part] /\ new \in Part
    BY <1>1 DEF Accessory, Part, None
  <2>. HIDE DEF new
  <2>2. /\ f \in [AppPayloads -> Part] /\ f[x.current] = new
        /\ \A q \in AppPayloads : q # x.current => f[q] = x.flash[q]
    BY <2>1
  <2>. HIDE DEF f
  <2>3. w \in Accessory
    <3>. DEFINE u == [x EXCEPT !.transfer = TRUE]
    <3>1. u \in Accessory
      BY <1>1, FieldTyped
    <3>2. w = [u EXCEPT !.flash = f]
      OBVIOUS
    <3>. HIDE DEF u, w
    <3>. QED  BY <2>2, <3>1, <3>2, FieldTyped
  <2>4. /\ w.transfer = TRUE /\ w.flash = f /\ w.state = x.state /\ w.obj = x.obj
        /\ w.order = x.order /\ w.asset = x.asset /\ w.pending = x.pending /\ w.buf = x.buf
        /\ w.sending = x.sending /\ w.current = x.current /\ w.hash = x.hash
        /\ w.reboot = x.reboot /\ w.fault = x.fault
    BY <1>1 DEF Accessory
  <2>. HIDE DEF w
  <2>5. SameRest(x, w)
    BY <2>4 DEF SameRest, Keeps
  <2>6. DoneUpTo(w, w.obj[k].index - 1)
    <3>1. DoneUpTo(x, x.obj[k].index - 1)
      BY <1>1 DEF Underway, Held, Rest, Offers, None
    <3>2. \A q \in AppPayloads : q <= x.obj[k].index - 1 => w.flash[q] = x.flash[q]
      <4>1. x.current \in Int /\ x.obj[k].index = x.current /\ AppPayloads \subseteq Int
        BY <1>1, Lengths DEF Accessory
      <4>. QED  BY <2>2, <2>4, <4>1
    <3>. QED  BY <1>1, <2>4, <3>1, <3>2 DEF DoneUpTo, Done
  <2>7. Underway(w, k)
    BY <2>3, <2>4, <2>5, <2>6, UnderwayKept DEF Underway, Held
  <2>8. Underway(y, k)
    BY <1>5, <2>7, StatusUnderway
  <2>9. InStep(y)
    <3>1. /\ y.flash = f /\ y.current = x.current /\ y.obj = x.obj /\ y.asset = x.asset
          /\ y.hash = x.hash
      BY <1>5, <2>3, <2>4, StatusFields
    <3>. QED  BY <1>1, <2>2, <3>1 DEF InStep, new
  <2>. QED  BY <1>5, <2>3, <2>4, <2>8, <2>9, StatusFields
<1>. QED  BY <1>3, <1>4, <1>5

(* payload_meta_data_complete() starts the transfer of a payload.           *)
LEMMA PayloadMetaGoes ==
  ASSUME NEW x, NEW k, Underway(x, k), RequestSound(x.obj[k].req), x.obj[k].req.left = 0,
         Told(x.obj[k]), ~x.transfer, x.obj[k].pl = x.obj[k].index,
         x.obj[k].pl \in AppPayloads, x.current = x.obj[k].pl, x.obj[k].plflags # "needs",
         x.obj[k].recvd = 0, x.hash.n = 0, x.hash.ok
  PROVE  Goes(x, payload_meta_data_complete(x, k))
<1>. DEFINE f == Passing(x)
            s == payload_transfer_start(f)
            y == PayloadRequestData(s, k)
<1>1. \/ x.state # "ACTIVE" /\ payload_meta_data_complete(x, k) = x
      \/ payload_meta_data_complete(x, k) = report_failure(s, k)
      \/ s.status /\ payload_meta_data_complete(x, k) = UnlessFailed(y, k)
  <2>1. f.status
    BY UnderwayTyped DEF Passing, Accessory
  <2>. QED  BY <2>1 DEF payload_meta_data_complete
<1>2. CASE x.state # "ACTIVE" /\ payload_meta_data_complete(x, k) = x
  BY <1>2, UnderwaySturdy DEF Goes, Sound, Live, Underway, Held
<1>3. /\ Underway(f, k) /\ f.obj = x.obj /\ f.transfer = x.transfer /\ f.current = x.current
      /\ f.hash = x.hash /\ f.order = x.order /\ f.asset = x.asset /\ f.state = x.state
  BY UnderwayTyped, StatusUnderway, StatusFields
<1>. HIDE DEF f
<1>4. /\ Underway(s, k) /\ s.obj = x.obj /\ s.state = x.state
      /\ s.order = x.order /\ s.asset = x.asset
      /\ s.status => s.transfer /\ s.current = x.current /\ InStep(s)
  BY <1>3, StartUnderway
<1>. HIDE DEF s
<1>5. CASE payload_meta_data_complete(x, k) = report_failure(s, k)
  <2>1. Goes(s, report_failure(s, k))
    BY <1>4, UnderwaySturdy
  <2>. QED  BY <1>4, <1>5, <2>1 DEF Goes
<1>6. CASE s.status /\ payload_meta_data_complete(x, k) = UnlessFailed(y, k)
  <2>1. Goes(s, y)
    BY <1>4, <1>6, PayloadRequestGoes, Lengths DEF Receiving
  <2>2. y \in Accessory
    BY <1>4, UnderwayTyped, PayloadRequestTyped
  <2>3. Goes(x, y)
    BY <1>4, <2>1 DEF Goes
  <2>. QED  BY <1>6, <2>2, <2>3, GoesUnlessFailed
<1>. QED  BY <1>1, <1>2, <1>5, <1>6

(* payload_ready(): its header has come. No transfer is open, or __ASSERT() *)
(* of payload_transfer_start() would fail.                                  *)
LEMMA PayloadReadyGoes ==
  ASSUME NEW x, NEW k, Underway(x, k), RequestSound(x.obj[k].req), ~x.transfer, Told(x.obj[k]),
         x.obj[k].pl = x.obj[k].index, x.obj[k].index >= 1,
         x.obj[k].v \notin PlainVersions => x.obj[k].plflags = "needs",
         x.obj[k].v \in PlainVersions => x.obj[k].plflags # "needs",
         x.obj[k].recvd = 0,
         \/ x.obj[k].req.left = 0
         \/ x.obj[k].pl \in AppPayloads /\ x.obj[k].v \notin PlainVersions
  PROVE  Goes(x, payload_ready(x, k))
<1>. DEFINE o == x.obj[k]
            h == [n |-> 0, ok |-> TRUE]
            b == [x EXCEPT !.current = o.pl, !.fast = FALSE, !.hash = h]
            r == RequestData(b, k, "PAYLOAD_METADATA", 0, 1)
            app == o.pl \in AppPayloads
            plain == o.v \in PlainVersions
<1>1. /\ x \in Accessory /\ k \in Offers /\ x.asset = k /\ o \in Asset /\ x.asset # None
      /\ Rest(x)
  BY UnderwayTyped DEF Underway, Held
<1>2. o.v \notin OldVersions
  BY <1>1 DEF Rest, Owner
<1>3. \/ app /\ plain /\ payload_ready(x, k) = payload_meta_data_complete(b, k)
      \/ app /\ ~plain /\ payload_ready(x, k) = UnlessFailed(r, k)
      \/ ~app /\ payload_ready(x, k) \in
              {asset_payload_index_set_next(x, k), asset_fully_staged_mark(x, k), report_failure(x, k)}
  <2>1. Asserted(x, ~x.transfer, "payload ready while transferring") = x
    BY DEF Asserted
  <2>. HIDE DEF o
  <2>2. payload_ready(x, k) \in {payload_meta_data_complete(b, k), UnlessFailed(r, k),
           asset_payload_index_set_next(x, k), asset_fully_staged_mark(x, k), report_failure(x, k)}
    BY <2>1, Zenon DEF payload_ready, o
  <2>3. app /\ plain => payload_ready(x, k) = payload_meta_data_complete(b, k)
    BY <1>2, <2>1, Zenon DEF payload_ready, o
  <2>4. app /\ ~plain => payload_ready(x, k) = UnlessFailed(r, k)
    BY <1>2, <2>1, Zenon DEF payload_ready, o
  <2>5. ~app => payload_ready(x, k) \in
           {asset_payload_index_set_next(x, k), asset_fully_staged_mark(x, k), report_failure(x, k)}
    BY <2>1, Zenon DEF payload_ready, o
  <2>. QED  BY <2>3, <2>4, <2>5
<1>4. b \in Accessory
  <2>1. o.pl \in Int /\ FALSE \in BOOLEAN /\ h \in [n: Int, ok: BOOLEAN]
    BY <1>1 DEF Asset
  <2>. DEFINE b1 == [x EXCEPT !.current = o.pl]
              b2 == [b1 EXCEPT !.fast = FALSE]
  <2>2. b = [b2 EXCEPT !.hash = h]
    OBVIOUS
  <2>3. b1 \in Accessory
    BY <1>1, <2>1, FieldTyped
  <2>. HIDE DEF b1, b, h
  <2>4. b2 \in Accessory
    BY <2>1, <2>3, FieldTyped
  <2>. HIDE DEF b2
  <2>. QED  BY <2>1, <2>2, <2>4, FieldTyped
<1>5. /\ b.obj = x.obj /\ b.state = x.state /\ b.asset = x.asset /\ b.order = x.order
      /\ b.reboot = x.reboot /\ b.fault = x.fault /\ b.flash = x.flash /\ b.buf = x.buf
      /\ b.pending = x.pending /\ b.sending = x.sending /\ b.transfer = x.transfer
      /\ b.current = o.pl /\ b.hash.n = 0 /\ b.hash.ok
  BY <1>1 DEF Accessory
<1>. HIDE DEF b
<1>6. Underway(b, k)
  BY <1>4, <1>5, UnderwayFields
<1>7. CASE app /\ plain /\ payload_ready(x, k) = payload_meta_data_complete(b, k)
  <2>1. Goes(b, payload_meta_data_complete(b, k))
    BY <1>5, <1>6, <1>7, PayloadMetaGoes
  <2>. QED  BY <1>5, <1>7, <2>1 DEF Goes
<1>8. CASE app /\ ~plain /\ payload_ready(x, k) = UnlessFailed(r, k)
  <2>1. Goes(b, r)
    BY <1>5, <1>6, <1>8, PayloadMetadataGoes
  <2>2. r \in Accessory
    BY <1>1, <1>4, UnitTyped
  <2>. HIDE DEF r
  <2>3. Goes(x, r)
    BY <1>5, <2>1 DEF Goes
  <2>. QED  BY <1>8, <2>2, <2>3, GoesUnlessFailed
<1>9. CASE ~app /\ payload_ready(x, k) \in
              {asset_payload_index_set_next(x, k), asset_fully_staged_mark(x, k), report_failure(x, k)}
  <2>1. DoneUpTo(x, o.index)
    <3>1. DoneUpTo(x, o.index - 1)
      BY <1>1 DEF Rest
    <3>2. \A q \in AppPayloads : q <= o.index => q <= o.index - 1
      <4>1. o.index \in Int /\ AppPayloads \subseteq Int /\ o.index \notin AppPayloads
        BY <1>1, <1>9, Lengths DEF Asset
      <4>. HIDE DEF o
      <4>. QED  BY <4>1
    <3>. QED  BY <3>1, <3>2 DEF DoneUpTo
  <2>2. o.index >= 0 /\ o.pl <= o.index /\ o.req.left = 0
    BY <1>1, <1>9 DEF Asset
  <2>3. Goes(x, asset_payload_index_set_next(x, k))
    BY <2>1, <2>2, NextGoes
  <2>4. Goes(x, asset_fully_staged_mark(x, k))
    BY <2>1, <2>2, StagedGoes
  <2>5. Goes(x, report_failure(x, k))
    BY <2>2, UnderwaySturdy
  <2>. QED  BY <1>9, <2>3, <2>4, <2>5
<1>. QED  BY <1>3, <1>7, <1>8, <1>9

-----------------------------------------------------------------------------
(* One unit goes to the flash. *)

(* A failure in the midst of a window leaves the asset as it is.            *)
LEMMA FailureKeeps ==
  ASSUME NEW x \in Accessory, Rest(x), Buffers(x), NEW k \in Offers, x.asset = k,
         x.state \in {"ACTIVE", "FAILED"}
  PROVE  LET y == report_failure(x, k) IN
         /\ Rest(y) /\ Buffers(y) /\ y.obj = x.obj /\ y.order = x.order /\ y.asset = x.asset
         /\ y.transfer = x.transfer /\ y.current = x.current /\ y.flash = x.flash
         /\ y.state = "FAILED"
<1>1. CASE x.state = "FAILED"
  BY <1>1 DEF report_failure
<1>2. CASE x.state = "ACTIVE"
  <2>. DEFINE w == [x EXCEPT !.state = "FAILED"]
              y == Notification(w, k, "COMPLETE")
  <2>1. report_failure(x, k) = y
    BY <1>2 DEF report_failure
  <2>2. /\ w.transfer = x.transfer /\ w.obj = x.obj /\ w.state = "FAILED"
        /\ w.flash = x.flash /\ w.order = x.order /\ w.asset = x.asset
        /\ w.pending = x.pending /\ w.buf = x.buf /\ w.sending = x.sending
        /\ w.reboot = x.reboot /\ w.fault = x.fault /\ w.current = x.current
    BY DEF Accessory
  <2>3. w \in Accessory
    BY FieldTyped DEF AssetStates
  <2>. HIDE DEF w
  <2>4. SameRest(x, w)
    BY <1>2, <2>2 DEF SameRest, Keeps, Running
  <2>5. DoneUpTo(w, w.obj[w.asset].index - 1)
    BY <2>2 DEF Rest, DoneUpTo, Done, Offers, None
  <2>6. Rest(w) /\ Buffers(w) /\ w.fault = "none"
    <3>1. Rest(w)
      BY <2>4, <2>5, RestKept
    <3>2. Buffers(w)
      BY <2>2 DEF Buffers
    <3>. QED  BY <3>1, <3>2 DEF Rest
  <2>7. Alike(w, y) /\ Buffers(y)
    BY <2>3, <2>6, NotificationAlike DEF Texts
  <2>8. Rest(y)
    BY <2>3, <2>6, <2>7, RestAlike
  <2>9. y.obj = w.obj
    <3>1. \A m : send_message(w, m).obj = w.obj
      BY <2>3 DEF send_message, Asserted, Passing, Failing, Accessory
    <3>. QED  BY <3>1 DEF Notification
  <2>. HIDE DEF y
  <2>. QED  BY <2>1, <2>2, <2>7, <2>8, <2>9 DEF Alike, SameBut
<1>. QED  BY <1>1, <1>2

(* Unit n is the next of the payload that is received. *)
Filling(x, n) ==
  LET f == x.flash[x.current] IN
  /\ f.n = n /\ f.ok /\ f.v \in {None, x.obj[x.asset].v} /\ (f.n > 0 => f.v = x.obj[x.asset].v)
  /\ x.hash.n = n /\ x.hash.ok

(* payload_transfer_write() of a unit appends it to the flash.              *)
LEMMA WriteKeeps ==
  ASSUME NEW x, NEW k, Held(x, k), NEW n \in Int, 0 <= n, n < LENGTH, x.transfer,
         x.current = x.obj[k].index, x.current \in AppPayloads, NEW h \in [n: Int, ok: BOOLEAN]
  PROVE  LET z == [x EXCEPT !.hash = h]
             y == payload_transfer_write(z, x.obj[k].v, <<x.current, n>>) IN
         /\ Held(y, k) /\ y.obj = x.obj /\ y.order = x.order /\ y.state = x.state
         /\ y.transfer /\ y.current = x.current /\ y.hash = h
         /\ y.status /\ Filling(x, n) => /\ y.flash[y.current].n = n + 1
                                         /\ y.flash[y.current].ok
                                         /\ y.flash[y.current].v = x.obj[k].v
<1>. DEFINE z == [x EXCEPT !.hash = h]
            v == x.obj[k].v
            at == <<x.current, n>>
            y == payload_transfer_write(z, v, at)
            f == x.flash[x.current]
            g == [f EXCEPT !.v = v, !.n = Least(f.n + 1, LENGTH + 1),
                           !.ok = f.ok /\ at = <<x.current, f.n>> /\ f.v \in {None, v}]
            w == [z EXCEPT !.flash[x.current] = g]
<1>1. /\ x \in Accessory /\ k \in Offers /\ x.asset = k /\ x.fault = "none" /\ Rest(x)
      /\ x.asset # None
  BY DEF Held, Rest, Offers, None
<1>2. z \in Accessory /\ v \in Int /\ f \in Part
  <2>1. z \in Accessory
    BY <1>1, FieldTyped
  <2>2. v \in Int
    BY <1>1, ObjTyped DEF Asset
  <2>3. f \in Part
    BY <1>1 DEF Accessory
  <2>. QED  BY <2>1, <2>2, <2>3
<1>3. /\ z.transfer = x.transfer /\ z.obj = x.obj /\ z.state = x.state
      /\ z.flash = x.flash /\ z.order = x.order /\ z.asset = x.asset /\ z.pending = x.pending
      /\ z.buf = x.buf /\ z.sending = x.sending /\ z.current = x.current
      /\ z.reboot = x.reboot /\ z.fault = x.fault /\ z.hash = h
  BY <1>1 DEF Accessory
<1>. HIDE DEF z
<1>4. Asserted(z, z.transfer, "write without transfer") = z
  BY <1>3 DEF Asserted
<1>5. y = Failing(z) \/ y = Passing(w)
  BY <1>1, <1>3, <1>4 DEF payload_transfer_write
<1>6. CASE y = Failing(z)
  <2>1. ~y.status
    BY <1>2, <1>6 DEF Failing, Accessory
  <2>2. /\ y \in Accessory /\ y.transfer = x.transfer /\ y.obj = x.obj /\ y.state = x.state
        /\ y.flash = x.flash /\ y.order = x.order /\ y.asset = x.asset /\ y.pending = x.pending
        /\ y.buf = x.buf /\ y.sending = x.sending /\ y.current = x.current
        /\ y.reboot = x.reboot /\ y.fault = x.fault /\ y.hash = h
    <3>1. y \in Accessory
      BY <1>2, <1>6, StatusTyped
    <3>. HIDE DEF y
    <3>. QED  BY <1>2, <1>3, <1>6, <3>1, StatusFields
  <2>. HIDE DEF y
  <2>3. SameRest(x, y)
    BY <2>2 DEF SameRest, Keeps
  <2>4. DoneUpTo(y, y.obj[y.asset].index - 1)
    BY <1>1, <2>2 DEF Rest, DoneUpTo, Done
  <2>5. Rest(y)
    BY <1>1, <2>3, <2>4, RestKept
  <2>6. Held(y, k)
    BY <1>1, <2>2, <2>5 DEF Held, Buffers
  <2>. QED  BY <2>1, <2>2, <2>6 DEF y, z
<1>7. CASE y = Passing(w)
  <2>. DEFINE fl == [x.flash EXCEPT ![x.current] = g]
  <2>1. g \in Part /\ g.n = Least(f.n + 1, LENGTH + 1) /\ g.v = v
        /\ g.ok = (f.ok /\ at = <<x.current, f.n>> /\ f.v \in {None, v})
    <3>1. Least(f.n + 1, LENGTH + 1) \in Int
      <4>1. f.n + 1 \in Int /\ LENGTH + 1 \in Int
        BY <1>2, LengthTypes DEF Part
      <4>. QED  BY <4>1, LeastTyped
    <3>2. (f.ok /\ at = <<x.current, f.n>> /\ f.v \in {None, v}) \in BOOLEAN
      BY <1>2 DEF Part
    <3>. HIDE DEF f, v, at
    <3>. QED  BY <1>2, <3>1, <3>2 DEF Part
  <2>. HIDE DEF g
  <2>2. /\ fl \in [AppPayloads -> Part] /\ fl[x.current] = g
        /\ \A q \in AppPayloads : q # x.current => fl[q] = x.flash[q]
    BY <1>1, <2>1 DEF Accessory
  <2>3. w = [z EXCEPT !.flash = fl]
    BY <1>2, <1>3
  <2>. HIDE DEF fl
  <2>4. w \in Accessory
    BY <1>2, <2>2, <2>3, FieldTyped
  <2>5. /\ w.transfer = x.transfer /\ w.obj = x.obj /\ w.state = x.state
        /\ w.flash = fl /\ w.order = x.order /\ w.asset = x.asset /\ w.pending = x.pending
        /\ w.buf = x.buf /\ w.sending = x.sending /\ w.current = x.current
        /\ w.reboot = x.reboot /\ w.fault = x.fault /\ w.hash = h
    BY <1>2, <1>3, <2>3 DEF Accessory
  <2>. HIDE DEF w
  <2>6. /\ y \in Accessory /\ y.transfer = x.transfer /\ y.obj = x.obj /\ y.state = x.state
        /\ y.flash = fl /\ y.order = x.order /\ y.asset = x.asset /\ y.pending = x.pending
        /\ y.buf = x.buf /\ y.sending = x.sending /\ y.current = x.current
        /\ y.reboot = x.reboot /\ y.fault = x.fault /\ y.hash = h
    <3>1. y \in Accessory
      BY <1>7, <2>4, StatusTyped
    <3>. HIDE DEF y
    <3>. QED  BY <1>7, <2>4, <2>5, <3>1, StatusFields
  <2>. HIDE DEF y
  <2>7. SameRest(x, y)
    BY <2>6 DEF SameRest, Keeps
  <2>8. DoneUpTo(y, y.obj[y.asset].index - 1)
    <3>1. DoneUpTo(x, x.obj[k].index - 1)
      BY <1>1 DEF Rest
    <3>2. \A q \in AppPayloads : q <= x.obj[k].index - 1 => y.flash[q] = x.flash[q]
      <4>1. x.current \in Int /\ AppPayloads \subseteq Int
        BY <1>1, Lengths DEF Accessory
      <4>. QED  BY <2>2, <2>6, <4>1
    <3>. QED  BY <1>1, <2>6, <3>1, <3>2 DEF DoneUpTo, Done
  <2>9. Rest(y)
    BY <1>1, <2>7, <2>8, RestKept
  <2>10. Held(y, k)
    BY <1>1, <2>6, <2>9 DEF Held, Buffers
  <2>11. ASSUME Filling(x, n)
         PROVE  g.n = n + 1 /\ g.ok /\ g.v = v
    <3>1. f.n = n /\ f.ok /\ f.v \in {None, v}
      BY <1>1, <2>11 DEF Filling
    <3>2. Least(f.n + 1, LENGTH + 1) = n + 1
      BY <3>1, LengthTypes DEF Least
    <3>. QED  BY <2>1, <3>1, <3>2
  <2>. QED  BY <2>2, <2>6, <2>10, <2>11 DEF y, z
<1>. QED  BY <1>5, <1>6, <1>7

(* payload_data(), of the next unit: the flash and the hash stay in step    *)
(* unless the write fails, and then the asset does.                         *)
LEMMA UnitKeeps ==
  ASSUME NEW x, NEW k, Held(x, k), NEW n \in Int, 0 <= n, n < LENGTH, x.transfer,
         x.current = x.obj[k].index, x.current \in AppPayloads,
         x.state = "ACTIVE" => Filling(x, n)
  PROVE  LET y == payload_data(x, k, <<x.current, n>>) IN
         /\ Held(y, k) /\ y.obj = x.obj /\ y.order = x.order /\ y.transfer
         /\ y.current = x.current
         /\ y.state = "ACTIVE" => x.state = "ACTIVE" /\ Filling(y, n + 1)
<1>. DEFINE at == <<x.current, n>>
            h == [n |-> Least(x.hash.n + 1, LENGTH + 1), ok |-> x.hash.ok /\ at = <<x.current, x.hash.n>>]
            z == [x EXCEPT !.hash = h]
            w == payload_transfer_write(z, x.obj[k].v, at)
            y == payload_data(x, k, at)
<1>1. x \in Accessory /\ k \in Offers /\ x.asset = k
  BY DEF Held
<1>2. h \in [n: Int, ok: BOOLEAN] /\ (x.state = "ACTIVE" => h.n = n + 1 /\ h.ok)
  <2>1. x.hash.n \in Int /\ x.hash.ok \in BOOLEAN
    BY <1>1 DEF Accessory
  <2>2. Least(x.hash.n + 1, LENGTH + 1) \in Int
    <3>1. x.hash.n + 1 \in Int /\ LENGTH + 1 \in Int
      BY <2>1, LengthTypes
    <3>. QED  BY <3>1, LeastTyped
  <2>3. x.state = "ACTIVE" => x.hash.n = n /\ x.hash.ok
    BY DEF Filling
  <2>4. x.state = "ACTIVE" => Least(x.hash.n + 1, LENGTH + 1) = n + 1
    BY <2>3, LengthTypes DEF Least
  <2>. QED  BY <2>1, <2>2, <2>3, <2>4
<1>3. y = UnlessFailed(w, k)
  <2>1. z = [x EXCEPT !.hash = [n |-> Least(@.n + 1, LENGTH + 1),
                               ok |-> @.ok /\ at = <<x.current, @.n>>]]
    OBVIOUS
  <2>. QED  BY <2>1 DEF payload_data
<1>. HIDE DEF h
<1>4. /\ Held(w, k) /\ w.obj = x.obj /\ w.order = x.order /\ w.state = x.state
      /\ w.transfer /\ w.current = x.current /\ w.hash = h
      /\ w.status /\ Filling(x, n) => /\ w.flash[w.current].n = n + 1
                                      /\ w.flash[w.current].ok
                                      /\ w.flash[w.current].v = x.obj[k].v
  BY <1>2, WriteKeeps
<1>. HIDE DEF w, y
<1>5. CASE w.status
  <2>1. y = w
    BY <1>3, <1>5 DEF UnlessFailed
  <2>2. w.state = "ACTIVE" => Filling(w, n + 1)
    BY <1>1, <1>2, <1>4, <1>5 DEF Filling, Held
  <2>. QED  BY <1>4, <2>1, <2>2 DEF y
<1>6. CASE ~w.status
  <2>1. y = report_failure(w, k)
    BY <1>3, <1>6 DEF UnlessFailed
  <2>2. w \in Accessory /\ Rest(w) /\ Buffers(w) /\ w.asset = k /\ w.state \in {"ACTIVE", "FAILED"}
    BY <1>4 DEF Held
  <2>3. /\ Rest(y) /\ Buffers(y) /\ y.obj = w.obj /\ y.order = w.order /\ y.asset = w.asset
        /\ y.transfer = w.transfer /\ y.current = w.current /\ y.state = "FAILED"
    BY <1>1, <2>1, <2>2, FailureKeeps
  <2>4. y \in Accessory
    BY <1>1, <2>1, <2>2, FailureTyped
  <2>. QED  BY <1>1, <1>4, <2>2, <2>3, <2>4 DEF Held, y
<1>. QED  BY <1>5, <1>6

(* A window of payload data is there. *)
Window(x, k) ==
  LET r == x.obj[k].req IN
  /\ Underway(x, k) /\ Receiving(x, k)
  /\ r.of = x.obj[k].pl /\ r.rel = x.obj[k].recvd /\ r.rel >= 0 /\ r.asked >= 0
  /\ r.rel + r.asked <= LENGTH
  /\ x.state = "ACTIVE" => InStep(x)

WindowP(c, x, i) ==
  LET z == c[1] k == c[2] IN
  /\ Held(x, k) /\ x.obj = z.obj /\ x.order = z.order /\ x.transfer /\ x.current = z.current
  /\ x.state = "ACTIVE" => z.state = "ACTIVE" /\ Filling(x, z.obj[k].req.rel + i)

(* After a window the flash has every unit of it, in order, or the asset    *)
(* has failed.                                                              *)
LEMMA WindowFilled ==
  ASSUME NEW x, NEW k, Window(x, k)
  PROVE  WindowP(<<x, k>>, Units(<<x, k>>), x.obj[k].req.asked)
<1>. DEFINE c == <<x, k>>
            r == x.obj[k].req
            n == r.asked
            s == [i \in 1..n |-> i]
<1>1. c[1] = x /\ c[2] = k
  OBVIOUS
<1>2. Units(c) = Fold("unit", c, x, s)
  <2>. HIDE DEF c
  <2>. QED  BY <1>1 DEF Units
<1>3. n \in Nat /\ r.rel \in Int /\ r.rel >= 0 /\ r.rel + n <= LENGTH /\ r.of = x.obj[k].pl
  <2>1. r \in Request
    BY UnderwayTyped DEF Window, Asset
  <2>. QED  BY <2>1 DEF Window, Request
<1>. HIDE DEF c
<1>4. DOMAIN s = 1..n
  OBVIOUS
<1>5. WindowP(c, x, 0)
  <2>1. x.state = "ACTIVE" => Filling(x, r.rel + 0)
    <3>1. r.rel + 0 = r.rel /\ r.rel = x.obj[k].recvd /\ x.asset = k
      BY <1>3, UnderwayTyped DEF Window
    <3>. HIDE DEF r
    <3>. QED  BY <3>1 DEF Window, InStep, Filling
  <2>. QED  BY <1>1, <2>1 DEF WindowP, Window, Underway, Receiving
<1>6. \A y : \A i \in 1..n : WindowP(c, y, i - 1) => WindowP(c, UnitOp(c, y, s[i]), i)
  <2>. SUFFICES ASSUME NEW y, NEW i \in 1..n, WindowP(c, y, i - 1)
                PROVE  WindowP(c, UnitOp(c, y, s[i]), i)
    OBVIOUS
  <2>. DEFINE m == r.rel + i - 1
  <2>1. m \in Int /\ 0 <= m /\ m < LENGTH /\ m + 1 = r.rel + i /\ m = r.rel + (i - 1)
    <3>1. i \in Int /\ 1 <= i /\ i <= n /\ LENGTH \in Int
      BY <1>3, LengthTypes
    <3>. HIDE DEF r, n
    <3>. QED  BY <1>3, <3>1 DEF n
  <2>2. UnitOp(c, y, s[i]) = payload_data(y, k, <<r.of, m>>)
    BY <1>1 DEF UnitOp
  <2>. HIDE DEF m
  <2>3. r.of = y.current /\ y.current = y.obj[k].index /\ y.current \in AppPayloads
    BY <1>1, <1>3 DEF WindowP, Window, Receiving
  <2>4. y.state = "ACTIVE" => Filling(y, m)
    BY <1>1, <2>1 DEF WindowP
  <2>5. Held(y, k) /\ y.transfer
    BY <1>1 DEF WindowP
  <2>. DEFINE w == payload_data(y, k, <<y.current, m>>)
  <2>6. /\ Held(w, k) /\ w.obj = y.obj /\ w.order = y.order /\ w.transfer
        /\ w.current = y.current
        /\ w.state = "ACTIVE" => y.state = "ACTIVE" /\ Filling(w, m + 1)
    BY <2>1, <2>3, <2>4, <2>5, UnitKeeps
  <2>7. UnitOp(c, y, s[i]) = w
    BY <2>2, <2>3
  <2>. HIDE DEF w, s, r
  <2>. QED  BY <1>1, <2>1, <2>6, <2>7 DEF WindowP, r
<1>7. WindowP(c, Fold("unit", c, x, s), n)
  <2>. DEFINE P == [i \in 0..n |-> {y \in Accessory : WindowP(c, y, i)}]
  <2>1. \A y, i : WindowP(c, y, i) => y \in Accessory
    BY DEF WindowP, Held
  <2>. HIDE DEF s, n
  <2>2. x \in P[0]
    BY <1>3, <1>5, <2>1
  <2>3. \A i \in 1..n : \A y \in P[i - 1] : FoldOp("unit", c, y, s[i]) \in P[i]
    BY <1>3, <1>6, <2>1 DEF FoldOp
  <2>. HIDE DEF P
  <2>4. Fold("unit", c, x, s) \in P[n]
    BY <1>3, <1>4, <2>2, <2>3, FoldInvariant
  <2>. QED  BY <1>3, <2>4 DEF P
<1>. HIDE DEF s
<1>8. WindowP(c, Units(c), n)
  BY <1>2, <1>7
<1>. QED  BY <1>8 DEF c

-----------------------------------------------------------------------------
(* A transfer ends. *)

(* payload_transfer_finish() closes the transfer; only the payload received *)
(* changes in the flash.                                                    *)
LEMMA FinishFields ==
  ASSUME NEW x \in Accessory, x.fault = "none", x.transfer, NEW s \in BOOLEAN
  PROVE  LET y == payload_transfer_finish(x, s) IN
         /\ y.state = x.state /\ y.obj = x.obj /\ y.order = x.order /\ y.asset = x.asset
         /\ y.pending = x.pending /\ y.buf = x.buf /\ y.sending = x.sending
         /\ y.current = x.current /\ y.hash = x.hash /\ y.reboot = x.reboot
         /\ y.fault = x.fault /\ ~y.transfer /\ y.status = x.io
         /\ y.kick = x.kick
         /\ \A q \in AppPayloads : q # x.current => y.flash[q] = x.flash[q]
         /\ x.current \in AppPayloads /\ s =>
              /\ y.flash[x.current].n = x.flash[x.current].n
              /\ y.flash[x.current].ok = x.flash[x.current].ok
              /\ y.flash[x.current].v = x.flash[x.current].v
              /\ y.flash[x.current].boot = x.io
<1>. DEFINE p == x.current
            n == IF s THEN x.flash[p].n ELSE 0
            b == s /\ x.io
            u == [x EXCEPT !.transfer = FALSE, !.status = x.io]
            z == [u EXCEPT !.flash[p].n = n]
            w == [z EXCEPT !.flash[p].boot = b]
            f == [x.flash EXCEPT ![p].n = n]
            g == [f EXCEPT ![p].boot = b]
            y == payload_transfer_finish(x, s)
<1>1. Asserted(x, x.transfer, "finish without transfer") = x
  BY DEF Asserted
<1>2. y = w
  BY <1>1 DEF payload_transfer_finish
<1>3. x.flash \in [AppPayloads -> Part] /\ x.io \in BOOLEAN
  BY DEF Accessory
<1>. HIDE DEF n, b, y
<1>4. /\ u.state = x.state /\ u.obj = x.obj /\ u.order = x.order /\ u.asset = x.asset
      /\ u.pending = x.pending /\ u.buf = x.buf /\ u.sending = x.sending
      /\ u.current = x.current /\ u.hash = x.hash /\ u.reboot = x.reboot
      /\ u.fault = x.fault /\ u.transfer = FALSE /\ u.status = x.io /\ u.kick = x.kick
      /\ u.flash = x.flash /\ "flash" \in DOMAIN u
  BY DEF Accessory
<1>. HIDE DEF u
<1>5. /\ z.state = u.state /\ z.obj = u.obj /\ z.order = u.order /\ z.asset = u.asset
      /\ z.pending = u.pending /\ z.buf = u.buf /\ z.sending = u.sending
      /\ z.current = u.current /\ z.hash = u.hash /\ z.reboot = u.reboot
      /\ z.fault = u.fault /\ z.transfer = u.transfer /\ z.status = u.status
      /\ z.kick = u.kick /\ z.flash = f /\ "flash" \in DOMAIN z
  BY <1>4
<1>. HIDE DEF z
<1>6. /\ w.state = z.state /\ w.obj = z.obj /\ w.order = z.order /\ w.asset = z.asset
      /\ w.pending = z.pending /\ w.buf = z.buf /\ w.sending = z.sending
      /\ w.current = z.current /\ w.hash = z.hash /\ w.reboot = z.reboot
      /\ w.fault = z.fault /\ w.transfer = z.transfer /\ w.status = z.status
      /\ w.kick = z.kick /\ w.flash = g
  BY <1>5
<1>. HIDE DEF w
<1>7. /\ \A q \in AppPayloads : q # p => g[q] = x.flash[q]
      /\ p \in AppPayloads /\ s => /\ g[p].n = x.flash[p].n
                                   /\ g[p].ok = x.flash[p].ok
                                   /\ g[p].v = x.flash[p].v
                                   /\ g[p].boot = x.io
  <2>1. p \in AppPayloads => x.flash[p] \in Part
    BY <1>3
  <2>2. /\ \A q \in AppPayloads : q # p => g[q] = x.flash[q]
        /\ p \in AppPayloads => g[p] = [[x.flash[p] EXCEPT !.n = n] EXCEPT !.boot = b]
    BY <1>3
  <2>3. s => b = x.io /\ n = x.flash[p].n
    BY <1>3 DEF n, b
  <2>. HIDE DEF g
  <2>4. ASSUME p \in AppPayloads
        PROVE  /\ g[p].n = n /\ g[p].ok = x.flash[p].ok
               /\ g[p].v = x.flash[p].v /\ g[p].boot = b
    BY <2>1, <2>2, <2>4 DEF Part
  <2>. QED  BY <2>2, <2>3, <2>4
<1>. HIDE DEF g
<1>. QED  BY <1>2, <1>4, <1>5, <1>6, <1>7 DEF y

LEMMA FinishUnderway ==
  ASSUME NEW x, NEW k, Underway(x, k), x.transfer, x.current = x.obj[k].index,
         NEW s \in BOOLEAN
  PROVE  Underway(payload_transfer_finish(x, s), k)
<1>. DEFINE y == payload_transfer_finish(x, s)
<1>1. x \in Accessory /\ k \in Offers /\ x.asset = k /\ x.fault = "none" /\ x.asset # None
      /\ DoneUpTo(x, x.obj[k].index - 1)
  BY UnderwayTyped DEF Underway, Held, Rest
<1>2. y \in Accessory
  BY <1>1, FinishTyped
<1>3. /\ y.state = x.state /\ y.obj = x.obj /\ y.order = x.order /\ y.asset = x.asset
      /\ y.pending = x.pending /\ y.buf = x.buf /\ y.sending = x.sending
      /\ y.reboot = x.reboot /\ y.fault = x.fault
      /\ \A q \in AppPayloads : q # x.current => y.flash[q] = x.flash[q]
  BY <1>1, FinishFields
<1>. HIDE DEF y
<1>4. SameRest(x, y)
  BY <1>3 DEF SameRest, Keeps
<1>5. DoneUpTo(y, y.obj[k].index - 1)
  <2>1. \A q \in AppPayloads : q <= x.obj[k].index - 1 => y.flash[q] = x.flash[q]
    <3>1. x.current \in Int /\ AppPayloads \subseteq Int
      BY <1>1, Lengths DEF Accessory
    <3>. QED  BY <1>3, <3>1
  <2>. QED  BY <1>1, <1>3, <2>1 DEF DoneUpTo, Done
<1>6. Underway(y, k)
  BY <1>2, <1>3, <1>4, <1>5, UnderwayKept DEF Underway, Held
<1>. QED  BY <1>6 DEF y

(* y comes after x, whatever its state. *)
Reaches(x, y) == Sound(y) /\ Buffers(y) /\ y.order = x.order

LEMMA GoesReaches == \A x, y : Goes(x, y) => Reaches(x, y)
BY DEF Goes, Reaches

(* apply_and_reboot(), of an asset whose payloads are whole.                *)
LEMMA RebootReaches ==
  ASSUME NEW x, NEW k, Underway(x, k), RequestSound(x.obj[k].req), x.obj[k].req.left = 0,
         DoneUpTo(x, x.obj[k].index)
  PROVE  Reaches(x, apply_and_reboot(x))
<1>. DEFINE y == [x EXCEPT !.reboot = TRUE, !.state = "APPLIED"]
<1>1. x \in Accessory /\ k \in Offers /\ x.asset = k /\ x.asset # None
      /\ DoneUpTo(x, x.obj[k].index - 1) /\ Rest(x) /\ x.state \in {"ACTIVE", "FAILED"}
      /\ Buffers(x)
  BY UnderwayTyped DEF Underway, Held, Rest
<1>2. /\ y.state = "APPLIED" /\ y.obj = x.obj /\ y.order = x.order /\ y.asset = x.asset
      /\ y.pending = x.pending /\ y.buf = x.buf /\ y.sending = x.sending
      /\ y.fault = x.fault /\ y.flash = x.flash
  BY <1>1 DEF Accessory
<1>3. apply_and_reboot(x) = y
  BY DEF apply_and_reboot
<1>. HIDE DEF y
<1>4. Rest(y)
  BY <1>1, <1>2 DEF Rest, Owner, Listing, Requests, Listed, DoneUpTo, Done
<1>5. DoneUpTo(y, y.obj[y.asset].index)
  BY <1>1, <1>2 DEF DoneUpTo, Done
<1>. QED  BY <1>1, <1>2, <1>3, <1>4, <1>5 DEF Reaches, Sound, Sturdy, Posed, Complete, Live, Buffers

(* payload_data_complete(): the payload counts as done when it is whole and *)
(* its hash matches, and then everything up to it is.                       *)
LEMMA DataCompleteReaches ==
  ASSUME NEW x, NEW k, Underway(x, k), RequestSound(x.obj[k].req), x.obj[k].req.left = 0,
         Receiving(x, k), x.obj[k].recvd = LENGTH, x.state = "ACTIVE" => InStep(x)
  PROVE  Reaches(x, payload_data_complete(x, k))
<1>. DEFINE f == payload_transfer_finish(x, TRUE)
            c == Least(f.staged + 1, Payloads)
            b == [f EXCEPT !.current = None, !.staged = c]
            y == payload_data_complete(x, k)
<1>1. /\ x \in Accessory /\ k \in Offers /\ x.asset = k /\ x.fault = "none" /\ x.transfer
      /\ x.current = x.obj[k].index /\ x.current \in AppPayloads /\ x.obj[k] \in Asset
      /\ DoneUpTo(x, x.obj[k].index - 1)
  BY UnderwayTyped DEF Underway, Held, Receiving, Rest
<1>2. \/ x.state # "ACTIVE" /\ y = x
      \/ y = report_failure(x, k)
      \/ y = report_failure(f, k)
      \/ /\ x.state = "ACTIVE" /\ HashMatches(x, k) /\ f.status
         /\ \/ y = apply_and_reboot(b)
            \/ y = asset_payload_index_set_next(b, k)
            \/ y = asset_fully_staged_mark(b, k)
  <2>. DEFINE ff == payload_transfer_finish(x, TRUE)
  <2>1. b = [ff EXCEPT !.current = None, !.staged = Least(@ + 1, Payloads)]
    BY DEF f, ff
  <2>. QED  BY <2>1, Zenon DEF payload_data_complete
<1>3. CASE x.state # "ACTIVE" /\ y = x
  BY <1>3, UnderwaySturdy DEF Reaches, Sound, Live, Underway, Held
<1>4. CASE y = report_failure(x, k)
  BY <1>4, UnderwaySturdy, GoesReaches
<1>5. Underway(f, k)
  BY <1>1, FinishUnderway
<1>6. /\ f.obj = x.obj /\ f.order = x.order /\ ~f.transfer /\ f.status = x.io
      /\ f.asset = x.asset /\ f.state = x.state
      /\ \A q \in AppPayloads : q # x.current => f.flash[q] = x.flash[q]
      /\ f.flash[x.current].n = x.flash[x.current].n
      /\ f.flash[x.current].ok = x.flash[x.current].ok
      /\ f.flash[x.current].v = x.flash[x.current].v
      /\ f.flash[x.current].boot = x.io
  BY <1>1, FinishFields
<1>. HIDE DEF f
<1>7. CASE y = report_failure(f, k)
  <2>1. Goes(f, report_failure(f, k))
    BY <1>5, <1>6, UnderwaySturdy
  <2>. QED  BY <1>6, <1>7, <2>1 DEF Goes, Reaches
<1>8. CASE /\ x.state = "ACTIVE" /\ HashMatches(x, k) /\ f.status
           /\ \/ y = apply_and_reboot(b)
              \/ y = asset_payload_index_set_next(b, k)
              \/ y = asset_fully_staged_mark(b, k)
  <2>1. f \in Accessory /\ c \in Int
    <3>1. f \in Accessory
      BY <1>5, UnderwayTyped
    <3>2. f.staged + 1 \in Int
      BY <3>1 DEF Accessory
    <3>. QED  BY <3>1, <3>2, LengthTypes, LeastTyped
  <2>. HIDE DEF c
  <2>2. b \in Accessory
    <3>. DEFINE u == [f EXCEPT !.current = None]
    <3>1. None \in Int
      BY DEF None
    <3>2. u \in Accessory
      BY <2>1, <3>1, FieldTyped
    <3>3. b = [u EXCEPT !.staged = c]
      OBVIOUS
    <3>. HIDE DEF u
    <3>. QED  BY <2>1, <3>2, <3>3, FieldTyped
  <2>3. /\ b.state = f.state /\ b.asset = f.asset /\ b.order = f.order
        /\ b.reboot = f.reboot /\ b.fault = f.fault
        /\ b.obj = f.obj /\ b.flash = f.flash /\ b.buf = f.buf /\ b.pending = f.pending
        /\ b.sending = f.sending /\ b.transfer = f.transfer
    BY <2>1 DEF Accessory
  <2>. HIDE DEF b
  <2>4. Underway(b, k)
    BY <1>5, <2>2, <2>3, UnderwayFields
  <2>5. DoneUpTo(b, b.obj[k].index)
    <3>1. Done(b, b.obj[k].v, x.current)
      <4>1. /\ x.flash[x.current].n = LENGTH /\ x.flash[x.current].ok
            /\ x.flash[x.current].v = x.obj[k].v
        BY <1>1, <1>8, Lengths DEF InStep
      <4>2. x.obj[k].v \notin BadHashVersions \cup PlainVersions
        BY <1>8 DEF HashMatches
      <4>. QED  BY <1>6, <1>8, <2>3, <4>1, <4>2 DEF Done
    <3>2. \A q \in AppPayloads : q <= x.obj[k].index => q = x.current \/ q <= x.obj[k].index - 1
      <4>1. x.current \in Int /\ AppPayloads \subseteq Int
        BY <1>1, Lengths DEF Accessory
      <4>. QED  BY <1>1, <4>1
    <3>3. \A q \in AppPayloads : q <= x.obj[k].index - 1 => Done(b, b.obj[k].v, q)
      <4>1. x.current \in Int /\ AppPayloads \subseteq Int
        BY <1>1, Lengths DEF Accessory
      <4>2. \A q \in AppPayloads : q <= x.obj[k].index - 1 => b.flash[q] = x.flash[q]
        BY <1>1, <1>6, <2>3, <4>1
      <4>. QED  BY <1>1, <1>6, <2>3, <4>2 DEF DoneUpTo, Done
    <3>. QED  BY <1>1, <1>6, <2>3, <3>1, <3>2, <3>3 DEF DoneUpTo
  <2>6. Goes(b, asset_payload_index_set_next(b, k))
    <3>1. Told(b.obj[k]) /\ b.obj[k].pl <= b.obj[k].index /\ b.obj[k].index >= 0
      <4>1. b.obj[k] = x.obj[k]
        BY <1>6, <2>3
      <4>2. x.obj[k].index \in 1..Payloads /\ x.obj[k].pl = x.obj[k].index /\ Payloads \in Nat
        BY <1>1, Lengths DEF Receiving
      <4>3. Told(x.obj[k])
        BY DEF Receiving
      <4>. QED  BY <4>1, <4>2, <4>3
    <3>. QED  BY <1>6, <2>3, <2>4, <2>5, <3>1, NextGoes
  <2>7. Goes(b, asset_fully_staged_mark(b, k))
    BY <1>6, <2>3, <2>4, <2>5, StagedGoes
  <2>8. Reaches(b, apply_and_reboot(b))
    BY <1>6, <2>3, <2>4, <2>5, RebootReaches
  <2>9. Reaches(b, y)
    BY <1>8, <2>6, <2>7, <2>8, GoesReaches
  <2>. QED  BY <1>6, <2>3, <2>9 DEF Reaches
<1>. QED  BY <1>2, <1>3, <1>4, <1>7, <1>8

(* A window is complete: the next is requested, or the payload is complete. *)
LEMMA WindowReaches ==
  ASSUME NEW x, NEW k, Window(x, k), x.obj[k].req.left = 0,
         x.obj[k].req.got = x.obj[k].req.asked, x.obj[k].req.type = "PAYLOAD"
  PROVE  Reaches(x, UpdatePayloadPayload(x, k))
<1>. DEFINE c == <<x, k>>
            r == x.obj[k].req
            n == Least(x.obj[k].recvd + x.obj[k].req.asked, LENGTH + 1)
            u == Units(c)
            o == [u.obj[k] EXCEPT !.recvd = n]
            b == [u EXCEPT !.obj[k].recvd = n]
            y == UpdatePayloadPayload(x, k)
<1>1. c[1] = x /\ c[2] = k
  OBVIOUS
<1>2. /\ Underway(x, k) /\ Receiving(x, k) /\ r.of = x.obj[k].pl /\ r.rel = x.obj[k].recvd
      /\ r.rel >= 0 /\ r.asked >= 0 /\ r.rel + r.asked <= LENGTH
      /\ x \in Accessory /\ k \in Offers /\ x.asset = k /\ x.obj[k] \in Asset /\ r \in Request
  BY UnderwayTyped DEF Window, Asset
<1>3. WindowP(c, u, r.asked)
  BY WindowFilled
<1>. HIDE DEF c
<1>4. \/ b.obj[k].recvd = LENGTH /\ y = payload_data_complete(b, k)
      \/ b.obj[k].recvd # LENGTH /\ y = PayloadRequestData(b, k)
  <2>1. \/ b.obj[k].recvd = LENGTH /\ UpdatePayloadPayload(c[1], c[2]) = payload_data_complete(b, k)
        \/ b.obj[k].recvd # LENGTH /\ UpdatePayloadPayload(c[1], c[2]) = PayloadRequestData(b, k)
    BY <1>1, UnitsAreFold
  <2>. QED  BY <1>1, <2>1
<1>. HIDE DEF u, y
<1>5. n \in Int /\ n = x.obj[k].recvd + r.asked /\ n <= LENGTH /\ n >= 0
  <2>1. x.obj[k].recvd \in Int /\ r.asked \in Int
    BY <1>2 DEF Asset, Request
  <2>. HIDE DEF r
  <2>. QED  BY <1>2, <2>1, LengthTypes DEF Least, r
<1>. HIDE DEF n
<1>6. /\ Held(u, k) /\ u.obj = x.obj /\ u.order = x.order /\ u.transfer /\ u.current = x.current
      /\ u.state = "ACTIVE" => x.state = "ACTIVE" /\ Filling(u, r.rel + r.asked)
  BY <1>1, <1>3 DEF WindowP
<1>7. b = [u EXCEPT !.obj[k] = o]
  BY <1>6 DEF Held, Accessory
<1>8. o \in Asset
  BY <1>2, <1>5, <1>6, AssetField
<1>9. /\ o.recvd = n /\ o.index = x.obj[k].index /\ o.plflags = x.obj[k].plflags
      /\ o.pl = x.obj[k].pl
      /\ o.hdr = x.obj[k].hdr /\ o.meta = x.obj[k].meta /\ o.v = x.obj[k].v
      /\ o.req = r /\ Keeps(u.obj[k], o)
  BY <1>2, <1>6 DEF Keeps, Asset
<1>. HIDE DEF o, b
<1>10. DoneUpTo(u, o.index - 1)
  BY <1>2, <1>6, <1>9, UnderwayTyped DEF Held, Rest
<1>11. /\ Underway(b, k) /\ b.obj[k] = o /\ b.transfer = u.transfer /\ b.current = u.current
       /\ b.hash = u.hash /\ b.flash = u.flash /\ b.state = u.state /\ b.order = u.order
       /\ b.asset = u.asset
  <2>1. ~o.req.out
    BY <1>2, <1>9 DEF Underway
  <2>. DEFINE w == [u EXCEPT !.obj[k] = o]
  <2>2. Held(u, k) /\ Keeps(u.obj[k], o)
    BY <1>6, <1>9
  <2>3. /\ Underway(w, k) /\ w.obj[k] = o /\ w.transfer = u.transfer /\ w.current = u.current
        /\ w.hash = u.hash /\ w.flash = u.flash /\ w.state = u.state /\ w.order = u.order
        /\ w.asset = u.asset
    BY <1>8, <1>10, <2>1, <2>2, UnderwayOwn
  <2>. QED  BY <1>7, <2>3
<1>12. Receiving(b, k)
  BY <1>2, <1>6, <1>9, <1>11 DEF Receiving, Told
<1>13. b.state = "ACTIVE" => InStep(b)
  <2>. SUFFICES ASSUME b.state = "ACTIVE"
                PROVE  InStep(b)
    OBVIOUS
  <2>1. Filling(u, n)
    BY <1>2, <1>5, <1>6, <1>11
  <2>2. u.asset = k /\ b.asset = k /\ u.obj[u.asset].v = o.v
    BY <1>2, <1>6, <1>9 , <1>11 DEF Held
  <2>. QED  BY <1>9, <1>11, <2>1, <2>2 DEF Filling, InStep
<1>14. CASE b.obj[k].recvd = LENGTH /\ y = payload_data_complete(b, k)
  <2>1. RequestSound(b.obj[k].req)
    <3>1. /\ r.type = "PAYLOAD" /\ r.rel >= 0 /\ r.got = r.asked /\ r.left = 0
          /\ r.rel + r.asked = LENGTH /\ r.asked >= 0 /\ r.asked \in Int /\ r.got \in Int
      BY <1>2, <1>5, <1>9, <1>11, <1>14 DEF Request
    <3>. HIDE DEF r
    <3>. QED  BY <1>9, <1>11, <3>1, LengthTypes DEF RequestSound
  <2>2. b.obj[k].req.left = 0
    BY <1>9, <1>11
  <2>3. Reaches(b, y)
    BY <1>11, <1>12, <1>13, <1>14, <2>1, <2>2, DataCompleteReaches
  <2>. QED  BY <1>6, <1>11, <2>3 DEF Reaches, y
<1>15. CASE b.obj[k].recvd # LENGTH /\ y = PayloadRequestData(b, k)
  <2>1. 0 <= b.obj[k].recvd /\ b.obj[k].recvd < LENGTH
    BY <1>5, <1>9, <1>11, <1>15, LengthTypes
  <2>2. Goes(b, y)
    BY <1>11, <1>12, <1>13, <1>15, <2>1, PayloadRequestGoes
  <2>. QED  BY <1>6, <1>11, <2>2 DEF Goes, Reaches, y
<1>. QED  BY <1>4, <1>14, <1>15

-----------------------------------------------------------------------------
(* An asset is given up. *)

LEMMA ReleaseFields ==
  ASSUME NEW x \in Accessory, NEW k \in Offers
  PROVE  LET y == AssetRelease(x, k) IN
         /\ y.state = x.state /\ y.order = x.order /\ y.asset = x.asset
         /\ y.pending = x.pending /\ y.buf = x.buf /\ y.sending = x.sending /\ y.kick = x.kick
         /\ y.transfer = x.transfer /\ y.reboot = x.reboot /\ y.fault = x.fault
         /\ y.current = x.current /\ y.flash = x.flash /\ y.hash = x.hash
         /\ \A j \in Offers : j # k => y.obj[j] = x.obj[j]
         /\ y.obj[k].id = x.obj[k].id /\ y.obj[k].v = x.obj[k].v
         /\ y.obj[k].delegate = x.obj[k].delegate
         /\ y.obj[k].marked /\ ~y.obj[k].ctrl /\ ~y.obj[k].req.out
         /\ SameRequest(x.obj[k].req, y.obj[k].req)
<1>. DEFINE o == [x.obj[k] EXCEPT !.req.out = FALSE, !.marked = TRUE, !.ctrl = FALSE]
            y == [x EXCEPT !.obj[k] = o]
<1>1. AssetRelease(x, k) = y
  BY DEF AssetRelease, Accessory
<1>2. x.obj[k] \in Asset /\ x.obj[k].req \in Request
  BY ObjTyped DEF Asset
<1>3. /\ o.id = x.obj[k].id /\ o.v = x.obj[k].v /\ o.delegate = x.obj[k].delegate
      /\ o.marked /\ ~o.ctrl /\ ~o.req.out /\ SameRequest(x.obj[k].req, o.req)
  BY <1>2 DEF Asset, Request, SameRequest
<1>. HIDE DEF o
<1>4. /\ y.state = x.state /\ y.order = x.order /\ y.asset = x.asset
      /\ y.pending = x.pending /\ y.buf = x.buf /\ y.sending = x.sending /\ y.kick = x.kick
      /\ y.transfer = x.transfer /\ y.reboot = x.reboot /\ y.fault = x.fault
      /\ y.current = x.current /\ y.flash = x.flash /\ y.hash = x.hash
      /\ \A j \in Offers : j # k => y.obj[j] = x.obj[j]
      /\ y.obj[k] = o
  BY DEF Accessory
<1>. HIDE DEF y
<1>. QED  BY <1>1, <1>3, <1>4

(* The asset k is given up: it is marked, now or before, or has no request. *)
LEMMA RemoveSound ==
  ASSUME NEW x \in Accessory, NEW k \in Offers, NEW r \in BOOLEAN, x.asset = k,
         x.fault = "none", Listing(x), Requests(x), ~x.reboot, RequestSound(x.obj[k].req),
         r \/ x.obj[k].marked \/ x.obj[k].req.left = 0
  PROVE  LET y == remove_asset(x, k, r) IN
         /\ Sound(y) /\ y.order = x.order /\ y.asset = None /\ y.state = "NONE"
         /\ y.buf = x.buf /\ y.pending = x.pending /\ y.sending = x.sending /\ y.kick = x.kick
         /\ \A j \in Offers : j # k => y.obj[j] = x.obj[j]
         /\ ~r => y.obj[k] = x.obj[k]
         /\ y.obj[k].id = x.obj[k].id /\ y.obj[k].delegate = x.obj[k].delegate
<1>. DEFINE d == IF r THEN AssetRelease(x, k) ELSE x
            b == [d EXCEPT !.state = "NONE", !.asset = None]
            f == IF b.transfer THEN payload_transfer_finish(b, FALSE) ELSE b
            g == [f EXCEPT !.current = None]
            y == remove_asset(x, k, r)
<1>1. y = g
  BY Zenon DEF remove_asset
<1>2. d \in Accessory
  BY ReleaseTyped
<1>3. /\ d.order = x.order /\ d.reboot = x.reboot /\ d.fault = x.fault
      /\ d.buf = x.buf /\ d.pending = x.pending /\ d.sending = x.sending /\ d.kick = x.kick
      /\ \A j \in Offers : j # k => d.obj[j] = x.obj[j]
      /\ d.obj[k].id = x.obj[k].id /\ d.obj[k].delegate = x.obj[k].delegate
      /\ SameRequest(x.obj[k].req, d.obj[k].req)
      /\ r => d.obj[k].marked /\ ~d.obj[k].ctrl
      /\ ~r => d.obj[k] = x.obj[k]
  <2>1. CASE r
    BY <2>1, ReleaseFields
  <2>2. CASE ~r
    BY <2>2 DEF SameRequest
  <2>. QED  BY <2>1, <2>2
<1>. HIDE DEF d
<1>4. b \in Accessory
  BY <1>2, FieldTyped DEF AssetStates
<1>5. /\ b.order = d.order /\ b.reboot = d.reboot /\ b.fault = d.fault
      /\ b.buf = d.buf /\ b.pending = d.pending /\ b.sending = d.sending /\ b.kick = d.kick
      /\ b.obj = d.obj /\ b.state = "NONE" /\ b.asset = None
  BY <1>2 DEF Accessory
<1>. HIDE DEF b
<1>6. f \in Accessory
  BY <1>4, FinishTyped
<1>7. /\ f.order = b.order /\ f.reboot = b.reboot /\ f.fault = b.fault
      /\ f.buf = b.buf /\ f.pending = b.pending /\ f.sending = b.sending /\ f.kick = b.kick
      /\ f.obj = b.obj /\ f.state = "NONE" /\ f.asset = None /\ ~f.transfer
  <2>1. CASE b.transfer
    <3>1. f = payload_transfer_finish(b, FALSE) /\ b.fault = "none"
      BY <1>3, <1>5, <2>1
    <3>. HIDE DEF f
    <3>. QED  BY <1>4, <1>5, <2>1, <3>1, FinishFields
  <2>2. CASE ~b.transfer
    <3>1. f = b
      BY <2>2
    <3>. HIDE DEF f
    <3>. QED  BY <1>5, <2>2, <3>1
  <2>. HIDE DEF f
  <2>. QED  BY <2>1, <2>2
<1>. HIDE DEF f
<1>8. /\ y.order = x.order /\ y.reboot = x.reboot /\ y.fault = "none"
      /\ y.buf = x.buf /\ y.pending = x.pending /\ y.sending = x.sending /\ y.kick = x.kick
      /\ y.obj = d.obj /\ y.state = "NONE" /\ y.asset = None /\ ~y.transfer
  BY <1>1, <1>3, <1>5, <1>6, <1>7 DEF Accessory
<1>. HIDE DEF y
<1>9. Owner(y)
  BY <1>8 DEF Owner
<1>10. Listing(y)
  <2>1. Listed(y) = Listed(x) /\ Listed(x) \subseteq Offers
    BY <1>8, OwnAsset DEF Listed
  <2>2. \A j \in Offers : y.obj[j].id = x.obj[j].id /\ y.obj[j].delegate = x.obj[j].delegate
                          /\ (x.obj[j].marked => y.obj[j].marked)
    BY <1>3, <1>8
  <2>. QED  BY <2>1, <2>2 DEF Listing
<1>11. Requests(y)
  <2>. SUFFICES ASSUME NEW j \in Offers
                PROVE  RequestSound(y.obj[j].req) /\ (~y.obj[j].marked => y.obj[j].req.left = 0)
    BY DEF Requests
  <2>1. CASE j # k
    BY <1>3, <1>8, <2>1 DEF Requests
  <2>2. CASE j = k
    BY <1>3, <1>8, <2>2, RequestAlike DEF SameRequest
  <2>. QED  BY <2>1, <2>2
<1>12. Sound(y)
  BY <1>8, <1>9, <1>10, <1>11 DEF Sound, Sturdy, Rest, Posed, Complete, Live
<1>. QED  BY <1>3, <1>8, <1>12 DEF y

-----------------------------------------------------------------------------
(* Completed requests. *)

(* Every unit of the request has come. *)
Ended(r) ==
  /\ r.left = 0 /\ r.got = r.asked /\ r.got >= 0 /\ r.rel >= 0
  /\ r.type \in {"HEADER", "METADATA", "PAYLOAD_METADATA"} => r.rel = 0 /\ r.asked = 1
  /\ r.type = "PAYLOAD_HEADER" => r.rel = r.of - 1 /\ r.asked = 1
  /\ r.type = "PAYLOAD" => r.rel + r.asked <= LENGTH

LEMMA EndedSound == \A r \in Request : Ended(r) /\ r.type # "PAYLOAD" => RequestSound(r)
BY DEF Ended, RequestSound, Request

LEMMA OwnerFacts ==
  ASSUME NEW x, NEW k, Underway(x, k)
  PROVE  /\ ~x.reboot /\ ~x.obj[k].marked /\ x.obj[k].delegate /\ x.fault = "none"
         /\ Listing(x) /\ Requests(x) /\ x.obj[k].v \notin OldVersions
         /\ DoneUpTo(x, x.obj[k].index - 1)
BY UnderwayTyped DEF Underway, Held, Rest, Owner, Listing

(* Each request that may be complete, from the place where it was made.     *)
LEMMA HeaderCompleteReaches ==
  ASSUME NEW x, NEW k, Underway(x, k), RequestSound(x.obj[k].req), x.obj[k].req.left = 0,
         AtHeader(x, x.obj[k])
  PROVE  Reaches(x, SuperBinaryHeaderComplete(x, k))
<1>. DEFINE n == Notification(x, k, "CORRUPT")
            o == [x.obj[k] EXCEPT !.hdr = TRUE]
            w == [x EXCEPT !.obj[k] = o]
            y == SuperBinaryHeaderComplete(x, k)
<1>1. /\ x \in Accessory /\ k \in Offers /\ x.asset = k /\ x.obj[k] \in Asset
      /\ Rest(x) /\ Buffers(x) /\ x.fault = "none"
  BY UnderwayTyped DEF Underway, Held, Rest
<1>2. CASE x.obj[k].v \in CorruptVersions
  <2>1. y = asset_rescinded(n, k)
    BY <1>2 DEF SuperBinaryHeaderComplete
  <2>2. n \in Accessory /\ Alike(x, n) /\ Buffers(n)
    BY <1>1, NotificationAlike, NotificationTyped DEF Texts
  <2>. HIDE DEF n, y
  <2>3. Rest(n)
    BY <1>1, <2>2, RestAlike
  <2>4. /\ n.asset = k /\ n.order = x.order /\ ~n.reboot /\ n.fault = "none"
        /\ SameAsset(x.obj[k], n.obj[k])
    BY <1>1, <2>2, OwnerFacts DEF Alike, SameBut
  <2>5. n.obj[k].delegate /\ RequestSound(n.obj[k].req) /\ n.obj[k].req.left = 0
    BY <2>4, OwnerFacts, RequestAlike DEF SameAsset, SameRequest
  <2>6. Asserted(n, n.obj[k].delegate, "rescinded asset without delegate") = n
    BY <2>5 DEF Asserted
  <2>7. y = remove_asset(n, k, FALSE)
    BY <2>1, <2>6 DEF asset_rescinded
  <2>8. /\ Sound(y) /\ y.order = n.order
        /\ y.buf = n.buf /\ y.pending = n.pending /\ y.sending = n.sending
    BY <1>1, <2>2, <2>3, <2>4, <2>5, <2>7, RemoveSound DEF Rest
  <2>9. Buffers(y)
    BY <2>2, <2>8 DEF Buffers
  <2>. QED  BY <2>4, <2>8, <2>9 DEF Reaches, y
<1>3. CASE x.obj[k].v \notin CorruptVersions
  <2>1. y = asset_ready(w, k)
    BY <1>1, <1>3 DEF SuperBinaryHeaderComplete, Accessory
  <2>2. o \in Asset
    BY <1>1, AssetField
  <2>3. /\ o.hdr /\ o.meta = x.obj[k].meta /\ o.index = x.obj[k].index /\ o.pl = x.obj[k].pl
        /\ o.plflags = x.obj[k].plflags /\ o.req = x.obj[k].req /\ Keeps(x.obj[k], o)
    BY <1>1 DEF Keeps, Asset
  <2>. HIDE DEF o, y
  <2>4. /\ Underway(w, k) /\ w.obj[k] = o /\ w.transfer = x.transfer /\ w.order = x.order
    BY <2>2, <2>3, OwnerFacts, UnderwayOwn DEF Underway
  <2>. HIDE DEF w
  <2>5. Goes(w, asset_ready(w, k))
    BY <2>3, <2>4, ReadyGoes DEF AtHeader, Fresh
  <2>. QED  BY <2>1, <2>4, <2>5 DEF Goes, Reaches, y
<1>. QED  BY <1>2, <1>3

LEMMA PayloadHeaderReaches ==
  ASSUME NEW x, NEW k, Underway(x, k), RequestSound(x.obj[k].req), x.obj[k].req.left = 0,
         AtPayloadHeader(x, x.obj[k])
  PROVE  Reaches(x, PayloadHeaderComplete(x, k))
<1>. DEFINE f == IF x.obj[k].v \in PlainVersions THEN "none" ELSE "needs"
            o == [x.obj[k] EXCEPT !.pl = x.obj[k].req.of, !.plflags = f]
            w == [x EXCEPT !.obj[k] = o]
            y == PayloadHeaderComplete(x, k)
<1>1. /\ x \in Accessory /\ k \in Offers /\ x.asset = k /\ x.obj[k] \in Asset
      /\ x.obj[k].req.of \in Int
  BY UnderwayTyped DEF Asset, Request
<1>2. y = payload_ready(w, k)
  <2>. DEFINE q == [x EXCEPT !.obj[k].pl = x.obj[k].req.of, !.obj[k].plflags = f]
  <2>1. y = payload_ready(q, k)
    BY DEF PayloadHeaderComplete
  <2>2. q = w
    <3>. HIDE DEF f
    <3>. QED  BY <1>1 DEF Accessory
  <2>. QED  BY <2>1, <2>2
<1>3. f \in {"none", "needs", "has"}
  OBVIOUS
<1>4. /\ x.obj[k].v \in PlainVersions => f # "needs"
      /\ x.obj[k].v \notin PlainVersions => f = "needs"
  OBVIOUS
<1>. HIDE DEF f
<1>5. o \in Asset
  <2>. DEFINE u == [x.obj[k] EXCEPT !.pl = x.obj[k].req.of]
  <2>1. u \in Asset
    BY <1>1, AssetField
  <2>2. o = [u EXCEPT !.plflags = f]
    OBVIOUS
  <2>. HIDE DEF u, o
  <2>. QED  BY <1>3, <2>1, <2>2, AssetField
<1>6. /\ o.pl = x.obj[k].req.of /\ o.plflags = f /\ o.index = x.obj[k].index
      /\ o.hdr = x.obj[k].hdr /\ o.meta = x.obj[k].meta /\ o.v = x.obj[k].v
      /\ o.recvd = x.obj[k].recvd /\ o.req = x.obj[k].req /\ Keeps(x.obj[k], o)
  BY <1>1 DEF Keeps, Asset
<1>. HIDE DEF o, y
<1>7. /\ Underway(w, k) /\ w.obj[k] = o /\ w.transfer = x.transfer /\ w.order = x.order
  BY <1>5, <1>6, OwnerFacts, UnderwayOwn DEF Underway
<1>. HIDE DEF w
<1>8. Told(w.obj[k])
  BY <1>6, <1>7 DEF AtPayloadHeader, Told
<1>9. Goes(w, payload_ready(w, k))
  BY <1>4, <1>6, <1>7, <1>8, PayloadReadyGoes DEF AtPayloadHeader
<1>. QED  BY <1>2, <1>7, <1>9 DEF Goes, Reaches, y

LEMMA MetaDataReaches ==
  ASSUME NEW x, NEW k, Underway(x, k), RequestSound(x.obj[k].req), x.obj[k].req.left = 0,
         AtMetadata(x, x.obj[k])
  PROVE  Reaches(x, UpdateSuperBinaryMetaData(x, k))
<1>. DEFINE o == [x.obj[k] EXCEPT !.meta = TRUE]
            w == [x EXCEPT !.obj[k] = o]
            y == UpdateSuperBinaryMetaData(x, k)
<1>1. /\ x \in Accessory /\ k \in Offers /\ x.asset = k /\ x.obj[k] \in Asset
  BY UnderwayTyped
<1>2. y = asset_meta_data_complete(w, k)
  BY <1>1 DEF UpdateSuperBinaryMetaData, Accessory
<1>3. o \in Asset
  BY <1>1, AssetField
<1>4. /\ o.pl = x.obj[k].pl /\ o.index = x.obj[k].index
      /\ o.hdr = x.obj[k].hdr /\ o.meta /\ o.req = x.obj[k].req /\ Keeps(x.obj[k], o)
  BY <1>1 DEF Keeps, Asset
<1>. HIDE DEF o, y
<1>5. /\ Underway(w, k) /\ w.obj[k] = o /\ w.transfer = x.transfer /\ w.order = x.order
  BY <1>3, <1>4, OwnerFacts, UnderwayOwn DEF Underway
<1>. HIDE DEF w
<1>6. Told(w.obj[k]) /\ w.obj[k].pl < 1
  <2>1. x.obj[k].hdr /\ x.obj[k].pl = 0
    BY DEF AtMetadata, Fresh, None
  <2>2. o.hdr /\ o.pl = 0 /\ o.meta /\ w.obj[k] = o
    BY <1>4, <1>5, <2>1
  <2>. QED  BY <2>2 DEF Told
<1>7. Goes(w, asset_meta_data_complete(w, k))
  BY <1>5, <1>6, MetaDataCompleteGoes DEF AtMetadata
<1>. QED  BY <1>2, <1>5, <1>7 DEF Goes, Reaches, y

LEMMA PayloadMetaDataReaches ==
  ASSUME NEW x, NEW k, Underway(x, k), RequestSound(x.obj[k].req), x.obj[k].req.left = 0,
         AtPayloadMetadata(x, x.obj[k])
  PROVE  Reaches(x, UpdatePayloadMetaData(x, k))
<1>. DEFINE o == [x.obj[k] EXCEPT !.plflags = "has", !.meta = TRUE]
            f == x.obj[k].v \in FastVersions
            w == [x EXCEPT !.obj[k] = o]
            z == [w EXCEPT !.fast = f]
            y == UpdatePayloadMetaData(x, k)
<1>1. /\ x \in Accessory /\ k \in Offers /\ x.asset = k /\ x.obj[k] \in Asset
  BY UnderwayTyped
<1>2. y = payload_meta_data_complete(z, k)
  <2>. DEFINE q == [x EXCEPT !.obj[k].plflags = "has", !.obj[k].meta = TRUE, !.fast = f]
  <2>1. y = payload_meta_data_complete(q, k)
    BY DEF UpdatePayloadMetaData
  <2>2. x \in Accessory /\ k \in Offers
    BY <1>1
  <2>3. q = z
    BY ONLY <2>2 DEF Accessory
  <2>. QED  BY <2>1, <2>3
<1>3. o \in Asset
  <2>1. "has" \in {"none", "needs", "has"}
    OBVIOUS
  <2>. DEFINE u == [x.obj[k] EXCEPT !.plflags = "has"]
  <2>2. u \in Asset
    BY <1>1, <2>1, AssetField
  <2>3. o = [u EXCEPT !.meta = TRUE]
    OBVIOUS
  <2>. HIDE DEF u, o
  <2>. QED  BY <2>2, <2>3, AssetField
<1>4. /\ o.pl = x.obj[k].pl /\ o.index = x.obj[k].index /\ o.plflags = "has"
      /\ o.recvd = x.obj[k].recvd
      /\ o.hdr = x.obj[k].hdr /\ o.meta /\ o.req = x.obj[k].req /\ Keeps(x.obj[k], o)
  BY <1>1 DEF Keeps, Asset
<1>. HIDE DEF o, y
<1>5. /\ Underway(w, k) /\ w.obj[k] = o /\ w.transfer = x.transfer /\ w.order = x.order
      /\ w.current = x.current /\ w.hash = x.hash
  BY <1>3, <1>4, OwnerFacts, UnderwayOwn DEF Underway
<1>. HIDE DEF w
<1>6. w \in Accessory /\ f \in BOOLEAN
  BY <1>5, UnderwayTyped
<1>. HIDE DEF f
<1>7. z \in Accessory
  BY <1>6, FieldTyped
<1>8. /\ z.state = w.state /\ z.asset = w.asset /\ z.order = w.order
      /\ z.reboot = w.reboot /\ z.fault = w.fault
      /\ z.obj = w.obj /\ z.flash = w.flash /\ z.buf = w.buf /\ z.pending = w.pending
      /\ z.sending = w.sending /\ z.transfer = w.transfer /\ z.current = w.current
      /\ z.hash = w.hash
  OBVIOUS
<1>. HIDE DEF z
<1>9. Underway(z, k)
  BY <1>5, <1>7, <1>8, UnderwayFields
<1>10. Told(z.obj[k]) /\ z.obj[k].plflags # "needs" /\ z.obj[k].pl = z.obj[k].index
      /\ z.obj[k].pl \in AppPayloads /\ z.current = z.obj[k].pl /\ z.obj[k].recvd = 0
      /\ ~z.transfer /\ z.hash.n = 0 /\ z.hash.ok
  BY <1>4, <1>5, <1>8 DEF AtPayloadMetadata, AtPayload, Told
<1>11. RequestSound(z.obj[k].req) /\ z.obj[k].req.left = 0
  BY <1>4, <1>5, <1>8
<1>12. Goes(z, payload_meta_data_complete(z, k))
  BY <1>9, <1>10, <1>11, PayloadMetaGoes
<1>. QED  BY <1>2, <1>5, <1>8, <1>12 DEF Goes, Reaches, y

(* Whichever request it was.                                                *)
LEMMA RequestCompleteReaches ==
  ASSUME NEW x, NEW k, Underway(x, k), At(x), Ended(x.obj[k].req),
         x.state = "ACTIVE" /\ x.obj[k].req.type = "PAYLOAD" => InStep(x)
  PROVE  Reaches(x, DataRequestComplete(x, k))
<1>. DEFINE o == x.obj[k]
            r == o.req
<1>1. /\ x \in Accessory /\ k \in Offers /\ x.asset = k /\ o \in Asset /\ r \in Request
  BY UnderwayTyped DEF Asset
<1>2. r.type # "PAYLOAD" => RequestSound(r)
  BY <1>1, EndedSound
<1>3. r.left = 0
  BY DEF Ended
<1>4. CASE r.type = "HEADER"
  BY <1>1, <1>2, <1>3, <1>4, HeaderCompleteReaches DEF DataRequestComplete, At
<1>5. CASE r.type = "METADATA"
  BY <1>1, <1>2, <1>3, <1>5, MetaDataReaches DEF DataRequestComplete, At
<1>6. CASE r.type = "PAYLOAD_HEADER"
  BY <1>1, <1>2, <1>3, <1>6, PayloadHeaderReaches DEF DataRequestComplete, At
<1>7. CASE r.type = "PAYLOAD_METADATA"
  BY <1>1, <1>2, <1>3, <1>7, PayloadMetaDataReaches DEF DataRequestComplete, At
<1>8. CASE r.type = "PAYLOAD"
  <2>1. DataRequestComplete(x, k) = UpdatePayloadPayload(x, k)
    BY <1>8 DEF DataRequestComplete
  <2>2. AtData(x, o)
    BY <1>1, <1>8 DEF At
  <2>3. Receiving(x, k) /\ r.of = o.pl /\ r.rel = o.recvd
    BY <2>2 DEF AtData, AtPayload, Receiving
  <2>4. r.rel >= 0 /\ r.asked >= 0 /\ r.rel + r.asked <= LENGTH /\ r.got = r.asked
    BY <1>8 DEF Ended
  <2>5. Window(x, k)
    BY <1>8, <2>3, <2>4 DEF Window
  <2>. QED  BY <1>3, <1>8, <2>1, <2>4, <2>5, WindowReaches
<1>9. r.type \in {"HEADER", "METADATA", "PAYLOAD_HEADER", "PAYLOAD_METADATA", "PAYLOAD"}
  BY <1>1 DEF At, Request, RequestTypes
<1>. QED  BY <1>4, <1>5, <1>6, <1>7, <1>8, <1>9

-----------------------------------------------------------------------------
(* Data that come. *)

(* The unit after the last of a request is none that one may ask for. *)
LEMMA NothingLeft ==
  \A r \in Request : RequestSound(r) /\ r.left = 0 => ~Within(r.type, r.of, r.rel + r.got)
<1>. SUFFICES ASSUME NEW r \in Request, RequestSound(r), r.left = 0
              PROVE  ~Within(r.type, r.of, r.rel + r.got)
  OBVIOUS
<1>1. /\ r.rel \in Int /\ r.asked \in Int /\ r.got \in Int /\ r.of \in Int
      /\ r.asked = r.got /\ LENGTH \in Int
  BY LengthTypes DEF Request, RequestSound
<1>2. CASE r.type \in {"HEADER", "METADATA", "PAYLOAD_METADATA"}
  <2>1. r.rel + r.got = 1
    BY <1>1, <1>2 DEF RequestSound
  <2>. QED  BY <1>2, <2>1 DEF Within
<1>3. CASE r.type = "PAYLOAD_HEADER"
  <2>1. r.rel + r.got = r.of
    BY <1>1, <1>3 DEF RequestSound
  <2>. QED  BY <1>1, <1>3, <2>1 DEF Within
<1>4. CASE r.type = "PAYLOAD"
  <2>1. r.rel + r.got = LENGTH
    BY <1>1, <1>4 DEF RequestSound
  <2>. QED  BY <1>1, <1>4, <2>1 DEF Within
<1>. QED  BY <1>2, <1>3, <1>4 DEF Within

(* uarpPlatformAssetDataResponse(): whatever unit comes, late, twice or of  *)
(* a request before, the accessory is sound after it.                       *)
LEMMA DataReaches ==
  ASSUME NEW x \in Accessory, Sound(x), Buffers(x), NEW k \in Offers, x.obj[k].ctrl,
         NEW g, Within(g[1], g[2], g[3])
  PROVE  Reaches(x, AssetDataResponse(x, k, g))
<1>. DEFINE o == x.obj[k]
            q == o.req
            r == [q EXCEPT !.got = @ + 1, !.left = @ - 1, !.out = FALSE]
            p == [o EXCEPT !.req = r]
            b == [x EXCEPT !.obj[k] = p]
            y == AssetDataResponse(x, k, g)
<1>1. /\ o \in Asset /\ q \in Request /\ q.rel \in Int /\ q.asked \in Int /\ q.got \in Int
      /\ q.left \in Int /\ q.of \in Int
  BY ObjTyped DEF Asset, Request
<1>2. \/ y = x
      \/ ~o.marked /\ g = <<q.type, q.of, q.rel + q.got>> /\ r.got = r.asked /\ y = DataRequestComplete(b, k)
      \/ ~o.marked /\ g = <<q.type, q.of, q.rel + q.got>> /\ r.got # r.asked /\ y = RequestDataContinue(b, k)
  <2>. DEFINE bb == [x EXCEPT !.obj[k].req = r]
  <2>1. bb = b
    BY DEF Accessory
  <2>2. \/ y = x
        \/ ~o.marked /\ g = <<q.type, q.of, q.rel + q.got>> /\ r.got = r.asked /\ y = DataRequestComplete(bb, k)
        \/ ~o.marked /\ g = <<q.type, q.of, q.rel + q.got>> /\ r.got # r.asked /\ y = RequestDataContinue(bb, k)
    BY DEF AssetDataResponse
  <2>. QED  BY <2>1, <2>2
<1>3. CASE y = x
  BY <1>3 DEF Reaches
<1>4. ~o.marked /\ g = <<q.type, q.of, q.rel + q.got>> =>
        /\ x.asset = k /\ q.left > 0 /\ x.state \in {"ACTIVE", "FAILED"} /\ At(x)
        /\ RequestSound(q) /\ Rest(x)
        /\ x.state = "ACTIVE" /\ q.type = "PAYLOAD" => InStep(x)
  <2>. SUFFICES ASSUME ~o.marked, g = <<q.type, q.of, q.rel + q.got>>
                PROVE  /\ x.asset = k /\ q.left > 0 /\ x.state \in {"ACTIVE", "FAILED"} /\ At(x)
                       /\ RequestSound(q) /\ Rest(x)
                       /\ x.state = "ACTIVE" /\ q.type = "PAYLOAD" => InStep(x)
    OBVIOUS
  <2>1. Within(q.type, q.of, q.rel + q.got)
    OBVIOUS
  <2>2. x.asset = k
    BY <1>1, <2>1, NothingLeft DEF Sound, Sturdy, Rest, Requests
  <2>3. RequestSound(q)
    BY <2>2 DEF Sound, Sturdy, Posed, Offers, None
  <2>4. q.left # 0
    BY <1>1, <2>1, <2>3, NothingLeft
  <2>5. q.left > 0
    BY <1>1, <2>3, <2>4 DEF RequestSound
  <2>6. x.state \in {"ACTIVE", "ORPHANED", "FAILED"} /\ At(x)
    BY <2>2, <2>5 DEF Sound, Sturdy, Posed, Offers, None
  <2>7. x.state # "ORPHANED"
    BY <2>2 DEF Sound, Sturdy, Rest, Owner, Offers, None
  <2>. QED  BY <2>2, <2>3, <2>5, <2>6, <2>7 DEF Sound, Sturdy, Live
<1>5. /\ r \in Request /\ r.type = q.type /\ r.of = q.of /\ r.rel = q.rel /\ r.asked = q.asked
      /\ r.got = q.got + 1 /\ r.left = q.left - 1 /\ ~r.out
  <2>. DEFINE g1 == q.got + 1
              l1 == q.left - 1
  <2>1. g1 \in Int /\ l1 \in Int /\ q \in Request
    <3>. HIDE DEF q
    <3>. QED  BY <1>1
  <2>2. r = [q EXCEPT !.got = g1, !.left = l1, !.out = FALSE]
    OBVIOUS
  <2>3. g1 = q.got + 1 /\ l1 = q.left - 1
    OBVIOUS
  <2>. HIDE DEF g1, l1, r, q
  <2>4. r \in Request
    BY <2>1, <2>2 DEF Request
  <2>5. /\ r.type = q.type /\ r.of = q.of /\ r.rel = q.rel /\ r.asked = q.asked
        /\ r.got = g1 /\ r.left = l1 /\ ~r.out
    BY <2>1, <2>2 DEF Request
  <2>. QED  BY <2>3, <2>4, <2>5
<1>. HIDE DEF r, q
<1>6. /\ p \in Asset /\ p.req = r /\ Keeps(o, p) /\ p.index = o.index
      /\ p.hdr = o.hdr /\ p.meta = o.meta /\ p.pl = o.pl /\ p.plflags = o.plflags
      /\ p.recvd = o.recvd /\ p.v = o.v
  <2>1. p \in Asset
    BY <1>1, <1>5, AssetField
  <2>. QED  BY <1>1, <2>1 DEF Keeps, Asset
<1>. HIDE DEF p
<1>7. ~o.marked /\ g = <<q.type, q.of, q.rel + q.got>> =>
        /\ Underway(b, k) /\ b.obj[k] = p /\ b.order = x.order /\ At(b)
        /\ b.asset = k /\ b.state = x.state
        /\ b.state = "ACTIVE" /\ r.type = "PAYLOAD" => InStep(b)
  <2>. SUFFICES ASSUME ~o.marked, g = <<q.type, q.of, q.rel + q.got>>
                PROVE  /\ Underway(b, k) /\ b.obj[k] = p /\ b.order = x.order /\ At(b)
                       /\ b.asset = k /\ b.state = x.state
                       /\ b.state = "ACTIVE" /\ r.type = "PAYLOAD" => InStep(b)
    OBVIOUS
  <2>1. Held(x, k)
    BY <1>4 DEF Held
  <2>2. DoneUpTo(x, p.index - 1)
    BY <1>4, <1>6 DEF Rest, Offers, None
  <2>3. /\ Underway(b, k) /\ b.obj[k] = p
        /\ b.transfer = x.transfer /\ b.current = x.current /\ b.hash = x.hash
        /\ b.flash = x.flash /\ b.state = x.state /\ b.order = x.order /\ b.asset = x.asset
    BY <1>5, <1>6, <2>1, <2>2, UnderwayOwn
  <2>. HIDE DEF b
  <2>4. At(x) /\ x.asset = k
    BY <1>4
  <2>5. At(b)
    BY <1>5, <1>6, <2>3, <2>4
       DEF At, AtHeader, AtMetadata, AtPayloadHeader, AtPayload, AtPayloadMetadata, AtData,
           Fresh, Told, q
  <2>6. b.state = "ACTIVE" /\ r.type = "PAYLOAD" => InStep(b)
    <3>1. x.state = "ACTIVE" /\ q.type = "PAYLOAD" => InStep(x)
      BY <1>4
    <3>2. x.obj[x.asset] = o /\ b.obj[b.asset] = p
      BY <2>3, <2>4
    <3>3. p.recvd = o.recvd /\ p.v = o.v /\ r.type = q.type
      BY <1>5, <1>6
    <3>. QED  BY <2>3, <3>1, <3>2, <3>3 DEF InStep
  <2>. QED  BY <2>3, <2>4, <2>5, <2>6
<1>8. CASE /\ ~o.marked /\ g = <<q.type, q.of, q.rel + q.got>> /\ r.got = r.asked
           /\ y = DataRequestComplete(b, k)
  <2>1. RequestSound(q) /\ q.left > 0
    BY <1>4, <1>8
  <2>2. Ended(r)
    <3>1. /\ r.left = 0 /\ r.rel >= 0 /\ r.got >= 0
      BY <1>1, <1>5, <1>8, <2>1 DEF RequestSound
    <3>. QED  BY <1>1, <1>5, <1>8, <2>1, <3>1 DEF RequestSound, Ended
  <2>3. Reaches(b, DataRequestComplete(b, k))
    BY <1>6, <1>7, <1>8, <2>2, RequestCompleteReaches
  <2>. QED  BY <1>7, <1>8, <2>3 DEF Reaches
<1>9. CASE /\ ~o.marked /\ g = <<q.type, q.of, q.rel + q.got>> /\ r.got # r.asked
           /\ y = RequestDataContinue(b, k)
  <2>1. RequestSound(q) /\ q.left > 0
    BY <1>4, <1>9
  <2>2. RequestSound(r) /\ r.left > 0
    <3>1. /\ r.left > 0 /\ r.rel >= 0 /\ r.got >= 0
      BY <1>1, <1>5, <1>9, <2>1 DEF RequestSound
    <3>. QED  BY <1>1, <1>5, <1>9, <2>1, <3>1 DEF RequestSound
  <2>3. Underway(b, k) /\ b.obj[k].req = r /\ At(b) /\ b.order = x.order
    BY <1>6, <1>7, <1>9
  <2>4. b \in Accessory /\ b.asset = k /\ Rest(b) /\ Buffers(b) /\ b.fault = "none"
        /\ b.state \in {"ACTIVE", "FAILED"}
    BY <2>3, OwnerFacts DEF Underway, Held
  <2>5. b.state = "ACTIVE" /\ r.type = "PAYLOAD" => InStep(b)
    BY <1>7, <1>9
  <2>. HIDE DEF b
  <2>6. Sound(b)
    BY <2>2, <2>3, <2>4, <2>5 DEF Sound, Sturdy, Posed, Complete, Live
  <2>7. Alike(b, RequestDataContinue(b, k)) /\ Buffers(RequestDataContinue(b, k))
    BY <2>2, <2>3, <2>4, ContinueAlike
  <2>8. Sound(RequestDataContinue(b, k))
    BY <2>4, <2>6, <2>7, SoundAlike
  <2>. QED  BY <1>9, <2>3, <2>7, <2>8 DEF Reaches, Alike, SameBut
<1>. QED  BY <1>2, <1>3, <1>8, <1>9

-----------------------------------------------------------------------------
(* Nothing is handed over. *)

Silent(x, y) ==
  y.buf = x.buf /\ y.pending = x.pending /\ y.sending = x.sending /\ y.kick = x.kick

(* What is used of soundness most.                                          *)
LEMMA SoundFacts ==
  ASSUME NEW x \in Accessory, Sound(x)
  PROVE  /\ x.fault = "none" /\ Owner(x) /\ Listing(x) /\ Requests(x)
         /\ \A k \in Offers : RequestSound(x.obj[k].req)
         /\ x.asset = None \/ x.asset \in Offers
         /\ None \notin Offers
BY DEF Sound, Sturdy, Rest, Posed, Requests, Accessory, Offers, None

(* The asset k is rescinded; the delegate is asked to release it. *)
LEMMA RescindSound ==
  ASSUME NEW x \in Accessory, Sound(x), NEW k \in Offers, x.obj[k].delegate,
         ~(k = x.asset /\ x.reboot)
  PROVE  LET y == Rescind(x, k) IN
         /\ Sound(y) /\ y.order = x.order /\ y.asset \in {x.asset, None}
         /\ y.reboot => x.reboot
         /\ Silent(x, y)
         /\ \A j \in Offers : /\ y.obj[j].id = x.obj[j].id /\ y.obj[j].ctrl = x.obj[j].ctrl
                              /\ y.obj[j].delegate = x.obj[j].delegate
<1>. DEFINE o == [x.obj[k] EXCEPT !.req.out = FALSE, !.marked = TRUE]
            z == [x EXCEPT !.obj[k] = o]
            y == Rescind(x, k)
<1>1. x.obj[k] \in Asset /\ x.obj[k].req \in Request /\ x.obj \in [Offers -> Asset]
  BY ObjTyped DEF Asset, Accessory
<1>2. /\ o.id = x.obj[k].id /\ o.v = x.obj[k].v /\ o.delegate = x.obj[k].delegate
      /\ o.ctrl = x.obj[k].ctrl /\ o.marked /\ SameRequest(x.obj[k].req, o.req)
  BY <1>1 DEF Asset, Request, SameRequest
<1>3. o \in Asset
  BY <1>1, AssetField
<1>4. [x EXCEPT !.obj[k].req.out = FALSE, !.obj[k].marked = TRUE] = z
  BY DEF Accessory
<1>5. y = asset_rescinded(z, k)
  BY <1>4 DEF Rescind
<1>. HIDE DEF o
<1>6. z \in Accessory
  BY <1>3, ObjTyped
<1>7. /\ z.state = x.state /\ z.order = x.order /\ z.asset = x.asset
      /\ Silent(x, z)
      /\ z.transfer = x.transfer /\ z.reboot = x.reboot /\ z.fault = x.fault
      /\ z.current = x.current /\ z.flash = x.flash /\ z.hash = x.hash
      /\ \A j \in Offers : j # k => z.obj[j] = x.obj[j]
      /\ z.obj[k] = o
  BY <1>1 DEF Silent
<1>. HIDE DEF z, y
<1>8. RequestSound(z.obj[k].req)
  BY <1>2, <1>7, SoundFacts, RequestAlike
<1>9. Listing(z) /\ Requests(z) /\ z.fault = "none"
  <2>1. Listed(z) = Listed(x) /\ Listed(x) \subseteq Offers
    BY <1>7, OwnAsset DEF Listed
  <2>2. \A j \in Offers : /\ z.obj[j].id = x.obj[j].id /\ z.obj[j].delegate = x.obj[j].delegate
                          /\ (x.obj[j].marked => z.obj[j].marked)
    BY <1>2, <1>7
  <2>3. Listing(z)
    BY <2>1, <2>2, SoundFacts DEF Listing
  <2>4. Requests(z)
    BY <1>2, <1>7, <1>8, SoundFacts DEF Requests
  <2>. QED  BY <1>7, <2>3, <2>4, SoundFacts
<1>10. y = remove_asset(z, k, FALSE)
  <2>1. Asserted(z, z.obj[k].delegate, "rescinded asset without delegate") = z
    BY <1>2, <1>7 DEF Asserted
  <2>. QED  BY <1>5, <2>1 DEF asset_rescinded
<1>11. CASE k = x.asset
  <2>1. /\ Sound(y) /\ y.order = z.order /\ y.asset = None /\ y.state = "NONE"
        /\ y.buf = z.buf /\ y.pending = z.pending /\ y.sending = z.sending /\ y.kick = z.kick
        /\ \A j \in Offers : j # k => y.obj[j] = z.obj[j]
        /\ y.obj[k] = z.obj[k]
    <3>1. z.asset = k /\ ~z.reboot /\ z.obj[k].marked /\ FALSE \in BOOLEAN
      BY <1>2, <1>7, <1>11
    <3>2. PICK r \in BOOLEAN : r = FALSE
      OBVIOUS
    <3>3. y = remove_asset(z, k, r)
      BY <1>10, <3>2
    <3>4. /\ Sound(y) /\ y.order = z.order /\ y.asset = None /\ y.state = "NONE"
          /\ y.buf = z.buf /\ y.pending = z.pending /\ y.sending = z.sending /\ y.kick = z.kick
          /\ \A j \in Offers : j # k => y.obj[j] = z.obj[j]
          /\ ~r => y.obj[k] = z.obj[k]
      BY <1>6, <1>8, <1>9, <3>1, <3>3, RemoveSound
    <3>. QED  BY <3>2, <3>4
  <2>2. ~y.reboot
    BY <2>1 DEF Sound, Sturdy, Rest, Owner
  <2>. QED  BY <1>2, <1>7, <2>1, <2>2 DEF y, Silent
<1>12. CASE k # x.asset
  <2>1. y = z
    BY <1>7, <1>10, <1>12 DEF remove_asset
  <2>2. x.asset # None => z.obj[x.asset] = x.obj[x.asset]
    BY <1>7, <1>12, SoundFacts
  <2>3. Owner(z)
    BY <1>7, <2>2, SoundFacts DEF Owner, Listed
  <2>4. Rest(z)
    BY <1>7, <1>9, <2>2, <2>3 DEF Sound, Sturdy, Rest, DoneUpTo, Done
  <2>5. Posed(z) /\ Complete(z) /\ Live(z)
    <3>1. x.asset = None => x.state = "NONE"
      BY SoundFacts DEF Owner
    <3>2. CASE x.asset = None
      BY <1>7, <3>1, <3>2 DEF Posed, Complete, Live
    <3>3. CASE x.asset # None
      <4>1. At(x) => At(z)
        BY <1>7, <2>2, <3>3 DEF At, AtHeader, AtMetadata, AtPayloadHeader, AtPayload,
                                AtPayloadMetadata, AtData, Fresh, Told
      <4>2. InStep(x) => InStep(z)
        BY <1>7, <2>2, <3>3 DEF InStep
      <4>. QED  BY <1>7, <2>2, <3>3, <4>1, <4>2
                   DEF Sound, Sturdy, Posed, Complete, Live, DoneUpTo, Done
    <3>. QED  BY <3>2, <3>3
  <2>. QED  BY <1>2, <1>7, <2>1, <2>4, <2>5 DEF Sound, Sturdy, y
<1>. QED  BY <1>11, <1>12

-----------------------------------------------------------------------------
(* The assets S of a controller are given up. *)

Freed(x, S) == {k \in S : x.obj[k].marked}

LEMMA NoRequestSound == RequestSound(NoRequest)
BY DEF NoRequest, RequestSound

(* What is left of them, before the asset that is handled is orphaned.      *)
LEMMA GivenUpSound ==
  ASSUME NEW x \in Accessory, Sound(x), NEW S \in SUBSET Listed(x), NEW y \in Accessory,
         y.state = x.state, y.asset = x.asset, y.transfer = x.transfer, y.reboot = x.reboot,
         y.fault = x.fault, y.current = x.current, y.flash = x.flash, y.hash = x.hash,
         Listed(y) = Listed(x) \ Freed(x, S),
         \A k \in Offers :
           \/ k \in Freed(x, S) /\ y.obj[k] = NoAsset
           \/ k \in S \ Freed(x, S) /\ y.obj[k] = [x.obj[k] EXCEPT !.ctrl = FALSE]
           \/ k \notin S /\ y.obj[k] = x.obj[k]
  PROVE  Sound(y)
<1>1. \A k \in Offers : k \notin Freed(x, S) =>
        /\ y.obj[k].id = x.obj[k].id /\ y.obj[k].v = x.obj[k].v
        /\ y.obj[k].ctrl => x.obj[k].ctrl
        /\ y.obj[k].marked = x.obj[k].marked /\ y.obj[k].delegate = x.obj[k].delegate
        /\ y.obj[k].hdr = x.obj[k].hdr /\ y.obj[k].meta = x.obj[k].meta
        /\ y.obj[k].index = x.obj[k].index /\ y.obj[k].pl = x.obj[k].pl
        /\ y.obj[k].plflags = x.obj[k].plflags /\ y.obj[k].recvd = x.obj[k].recvd
        /\ y.obj[k].req = x.obj[k].req
  <2>. SUFFICES ASSUME NEW k \in Offers, k \notin Freed(x, S)
                PROVE  /\ y.obj[k].id = x.obj[k].id /\ y.obj[k].v = x.obj[k].v
                       /\ y.obj[k].ctrl => x.obj[k].ctrl
                       /\ y.obj[k].marked = x.obj[k].marked
                       /\ y.obj[k].delegate = x.obj[k].delegate
                       /\ y.obj[k].hdr = x.obj[k].hdr /\ y.obj[k].meta = x.obj[k].meta
                       /\ y.obj[k].index = x.obj[k].index /\ y.obj[k].pl = x.obj[k].pl
                       /\ y.obj[k].plflags = x.obj[k].plflags
                       /\ y.obj[k].recvd = x.obj[k].recvd /\ y.obj[k].req = x.obj[k].req
    OBVIOUS
  <2>1. x.obj[k] \in Asset
    BY ObjTyped
  <2>2. y.obj[k] = [x.obj[k] EXCEPT !.ctrl = FALSE] \/ y.obj[k] = x.obj[k]
    OBVIOUS
  <2>. QED  BY <2>1, <2>2 DEF Asset
<1>2. \A k \in Offers : k \in Freed(x, S) => y.obj[k] = NoAsset
  BY DEF Freed
<1>3. x.asset # None =>
        /\ x.asset \in Offers /\ x.asset \notin Freed(x, S) /\ x.asset \in Listed(y)
  BY SoundFacts DEF Owner, Freed
<1>4. Owner(y)
  BY <1>1, <1>3, SoundFacts DEF Owner
<1>5. Listing(y)
  BY <1>1, SoundFacts, OwnAsset DEF Listing
<1>6. Requests(y)
  <2>. SUFFICES ASSUME NEW k \in Offers, k # x.asset
                PROVE  RequestSound(y.obj[k].req) /\ (~y.obj[k].marked => y.obj[k].req.left = 0)
    BY DEF Requests
  <2>1. CASE k \in Freed(x, S)
    <3>1. NoAsset.req = NoRequest
      BY DEF NoAsset
    <3>2. NoRequest.left = 0
      BY DEF NoRequest
    <3>. QED  BY <1>2, <2>1, <3>1, <3>2, NoRequestSound
  <2>2. CASE k \notin Freed(x, S)
    BY <1>1, <2>2, SoundFacts DEF Requests
  <2>. QED  BY <2>1, <2>2
<1>7. Rest(y)
  BY <1>1, <1>3, <1>4, <1>5, <1>6, SoundFacts DEF Sound, Sturdy, Rest, DoneUpTo, Done
<1>8. CASE x.asset = None
  <2>1. x.state = "NONE"
    BY <1>8, SoundFacts DEF Owner
  <2>. QED  BY <1>7, <1>8, <2>1 DEF Sound, Sturdy, Posed, Complete, Live
<1>9. CASE x.asset # None
  <2>. DEFINE o == x.obj[x.asset]
              p == y.obj[y.asset]
  <2>1. /\ p.v = o.v /\ p.hdr = o.hdr /\ p.meta = o.meta /\ p.index = o.index /\ p.pl = o.pl
        /\ p.plflags = o.plflags /\ p.recvd = o.recvd /\ p.req = o.req
    BY <1>1, <1>3, <1>9
  <2>2. At(x) => At(y)
    BY <2>1 DEF At, AtHeader, AtMetadata, AtPayloadHeader, AtPayload, AtPayloadMetadata,
                AtData, Fresh, Told
  <2>3. InStep(x) => InStep(y)
    BY <2>1 DEF InStep
  <2>4. \A n : DoneUpTo(x, n) => DoneUpTo(y, n)
    BY <2>1 DEF DoneUpTo, Done
  <2>5. Posed(y) /\ Live(y) /\ Complete(y)
    BY <1>9, <2>1, <2>2, <2>3, <2>4 DEF Sound, Sturdy, Posed, Complete, Live
  <2>. QED  BY <1>7, <2>5 DEF Sound, Sturdy
<1>. QED  BY <1>8, <1>9

(* asset_orphaned(): the transfer waits, flash and hash in step, or the     *)
(* asset is released.                                                       *)
LEMMA OrphanedSound ==
  ASSUME NEW x \in Accessory, Sound(x), NEW k \in Offers, x.asset = k, ~x.obj[k].ctrl
  PROVE  LET y == asset_orphaned(x, k) IN
         Sound(y) /\ y.order = x.order /\ Silent(x, y)
<1>. DEFINE y == asset_orphaned(x, k)
            z == [x EXCEPT !.state = "ORPHANED"]
<1>1. CASE x.state = "ACTIVE"
  <2>1. y = z
    BY <1>1 DEF asset_orphaned
  <2>2. /\ z.order = x.order /\ z.asset = x.asset /\ Silent(x, z) /\ z.state = "ORPHANED"
        /\ z.transfer = x.transfer /\ z.reboot = x.reboot /\ z.fault = x.fault
        /\ z.current = x.current /\ z.flash = x.flash /\ z.hash = x.hash /\ z.obj = x.obj
    BY DEF Accessory, Silent
  <2>. HIDE DEF z
  <2>3. Owner(z)
    BY <1>1, <2>2, SoundFacts DEF Owner, Listed
  <2>4. Rest(z)
    BY <2>2, <2>3 DEF Sound, Sturdy, Rest, Listing, Listed, Requests, DoneUpTo, Done
  <2>5. At(x) => At(z)
    BY <2>2 DEF At, AtHeader, AtMetadata, AtPayloadHeader, AtPayload, AtPayloadMetadata,
                AtData, Fresh, Told
  <2>6. Posed(z) /\ Live(z) /\ Complete(z)
    BY <1>1, <2>2, <2>5 DEF Sound, Sturdy, Posed, Complete, Live, InStep
  <2>. QED  BY <2>1, <2>2, <2>4, <2>6 DEF Sound, Sturdy
<1>2. CASE x.state \in {"STAGED", "FAILED"}
  <2>1. y = remove_asset(x, k, TRUE)
    BY <1>2 DEF asset_orphaned
  <2>2. ~x.reboot
    BY <1>2, SoundFacts DEF Owner
  <2>. HIDE DEF y
  <2>3. /\ Sound(y) /\ y.order = x.order
        /\ y.buf = x.buf /\ y.pending = x.pending /\ y.sending = x.sending /\ y.kick = x.kick
    BY <2>1, <2>2, SoundFacts, RemoveSound
  <2>. QED  BY <2>3 DEF Silent, y
<1>3. CASE x.state \notin {"ACTIVE", "STAGED", "FAILED"}
  <2>1. y = x
    BY <1>3 DEF asset_orphaned
  <2>. QED  BY <2>1 DEF Silent
<1>. QED  BY <1>1, <1>2, <1>3

(* What is left of them, before the asset that is handled is orphaned. *)
GivenUp(x, S, b) ==
  /\ b \in Accessory
  /\ b.state = x.state /\ b.asset = x.asset /\ Silent(x, b) /\ b.allowed = x.allowed
  /\ b.transfer = x.transfer /\ b.reboot = x.reboot /\ b.fault = x.fault
  /\ b.current = x.current /\ b.flash = x.flash /\ b.hash = x.hash
  /\ Listed(b) = Listed(x) \ Freed(x, S)
  /\ \A k \in Offers :
       \/ k \in Freed(x, S) /\ b.obj[k] = NoAsset
       \/ k \in S \ Freed(x, S) /\ b.obj[k] = [x.obj[k] EXCEPT !.ctrl = FALSE]
       \/ k \notin S /\ b.obj[k] = x.obj[k]

(* uarpPlatformCleanupAssetsForController(), step by step.                  *)
LEMMA CleanupFields ==
  ASSUME NEW x \in Accessory, Sound(x), NEW S \in SUBSET Listed(x)
  PROVE  \E b : /\ GivenUp(x, S, b)
                /\ CleanupAssets(x, S) = IF x.asset \in S \ Freed(x, S)
                                         THEN asset_orphaned(b, x.asset) ELSE b
<1>. DEFINE freed  == {k \in S : x.obj[k].marked}
            orphan == S \ freed
            c == Asserted(x, \A k \in orphan : x.obj[k].delegate, "orphan without delegate")
            q == Kept(x.order, freed)
            o == [k \in Offers |->
                    IF k \in freed THEN NoAsset
                    ELSE IF k \in orphan THEN [x.obj[k] EXCEPT !.ctrl = FALSE]
                    ELSE x.obj[k]]
            b == [c EXCEPT !.order = q, !.obj = o]
            y == CleanupAssets(x, S)
<1>1. y = IF x.asset \in orphan THEN asset_orphaned(b, x.asset) ELSE b
  BY Zenon DEF CleanupAssets
<1>2. c = x
  <2>1. \A k \in orphan : x.obj[k].delegate
    BY SoundFacts DEF Listing
  <2>. QED  BY <2>1 DEF Asserted
<1>3. q \in Seq(Offers) /\ Elements(q, Len(q)) = Elements(x.order, Len(x.order)) \ freed
  BY KeptElements DEF Accessory
<1>4. o \in [Offers -> Asset]
  <2>1. \A k \in Offers : x.obj[k] \in Asset /\ [x.obj[k] EXCEPT !.ctrl = FALSE] \in Asset
    BY ObjTyped, AssetField
  <2>. QED  BY <2>1, NoAssetTyped
<1>5. freed = Freed(x, S)
  BY DEF Freed
<1>6. \A k \in Offers :
        \/ k \in freed /\ o[k] = NoAsset
        \/ k \in orphan /\ o[k] = [x.obj[k] EXCEPT !.ctrl = FALSE]
        \/ k \notin S /\ o[k] = x.obj[k]
  OBVIOUS
<1>7. b = [x EXCEPT !.order = q, !.obj = o]
  BY <1>2
<1>. HIDE DEF c, q, o, y
<1>8. b \in Accessory
  BY <1>3, <1>4, <1>7, FieldTyped
<1>9. /\ b.state = x.state /\ b.asset = x.asset /\ Silent(x, b) /\ b.allowed = x.allowed
      /\ b.transfer = x.transfer /\ b.reboot = x.reboot /\ b.fault = x.fault
      /\ b.current = x.current /\ b.flash = x.flash /\ b.hash = x.hash
      /\ b.order = q /\ b.obj = o
  BY <1>7 DEF Accessory, Silent
<1>. HIDE DEF b
<1>10. Listed(b) = Listed(x) \ freed
  BY <1>3, <1>9 DEF Elements, Listed
<1>. HIDE DEF freed
<1>11. GivenUp(x, S, b)
  BY <1>5, <1>6, <1>8, <1>9, <1>10 DEF GivenUp
<1>. QED  BY <1>1, <1>5, <1>11 DEF y

(* uarpPlatformCleanupAssetsForController() keeps the accessory sound: an   *)
(* asset that is orphaned had its delegate.                                 *)
LEMMA CleanupSound ==
  ASSUME NEW x \in Accessory, Sound(x), NEW S \in SUBSET Listed(x)
  PROVE  LET y == CleanupAssets(x, S) IN
         Sound(y) /\ Silent(x, y) /\ Listed(y) \subseteq Listed(x)
<1>. DEFINE y == CleanupAssets(x, S)
<1>1. PICK b : GivenUp(x, S, b) /\ y = IF x.asset \in S \ Freed(x, S)
                                       THEN asset_orphaned(b, x.asset) ELSE b
  BY CleanupFields
<1>. HIDE DEF y
<1>2. Sound(b) /\ Silent(x, b) /\ Listed(b) \subseteq Listed(x) /\ b \in Accessory
  BY <1>1, GivenUpSound DEF GivenUp
<1>3. CASE x.asset \in S \ Freed(x, S)
  <2>1. x.asset \in Offers /\ b.asset = x.asset
    BY <1>1, <1>3, OwnAsset DEF GivenUp
  <2>2. ~b.obj[x.asset].ctrl
    <3>1. b.obj[x.asset] = [x.obj[x.asset] EXCEPT !.ctrl = FALSE]
      BY <1>1, <1>3, <2>1 DEF GivenUp
    <3>2. x.obj[x.asset] \in Asset
      BY <2>1, ObjTyped
    <3>. QED  BY <3>1, <3>2 DEF Asset
  <2>3. Sound(y) /\ y.order = b.order /\ Silent(b, y)
    BY <1>1, <1>2, <1>3, <2>1, <2>2, OrphanedSound
  <2>. QED  BY <1>2, <2>3 DEF Silent, Listed, y
<1>. QED  BY <1>1, <1>2, <1>3 DEF y

(* So it does for the assets of the controller, and for those of none.      *)
LEMMA CleanupForSound ==
  ASSUME NEW x \in Accessory, Sound(x), NEW c
  PROVE  LET y == CleanupFor(x, c) IN
         Sound(y) /\ Silent(x, y) /\ Listed(y) \subseteq Listed(x)
<1>1. {k \in Listed(x) : x.obj[k].ctrl = c} \in SUBSET Listed(x)
  OBVIOUS
<1>. QED  BY <1>1, CleanupSound DEF CleanupFor

-----------------------------------------------------------------------------
(* Offers. *)

NewAsset(k, v) == [NoAsset EXCEPT !.id = k, !.v = v, !.ctrl = TRUE]

(* The asset of a new offer.                                                *)
LEMMA NewAssetFields ==
  ASSUME NEW k \in Offers, NEW v \in Versions
  PROVE  LET o == NewAsset(k, v) IN
         /\ o \in Asset /\ o.id = k /\ o.v = v /\ o.ctrl /\ ~o.marked /\ ~o.delegate
         /\ ~o.hdr /\ ~o.meta /\ Fresh(o) /\ o.recvd = 0 /\ o.req = NoRequest
<1>. DEFINE o == NewAsset(k, v)
<1>1. k \in Int /\ v \in Int
  BY Lengths DEF Offers
<1>2. NoAsset \in Asset
  BY NoAssetTyped
<1>3. o \in Asset
  <2>. DEFINE p == [NoAsset EXCEPT !.id = k]
              q == [p EXCEPT !.v = v]
  <2>1. p \in Asset
    BY <1>1, <1>2, AssetField
  <2>2. o = [q EXCEPT !.ctrl = TRUE]
    BY DEF NewAsset
  <2>. HIDE DEF p, o
  <2>3. q \in Asset
    BY <1>1, <2>1, AssetField
  <2>. HIDE DEF q
  <2>. QED  BY <2>2, <2>3, AssetField
<1>4. /\ o.id = k /\ o.v = v /\ o.ctrl /\ ~o.marked /\ ~o.delegate
      /\ ~o.hdr /\ ~o.meta /\ o.recvd = 0
      /\ o.index = None /\ o.pl = None /\ o.plflags = "none"
  BY DEF NewAsset, NoAsset
<1>5. o.req = NoRequest
  BY DEF NewAsset, NoAsset
<1>. QED  BY <1>3, <1>4, <1>5 DEF Fresh

(* super_binary_offered(), down to the request that it makes. *)
Placed(x, k) == [x EXCEPT !.asset = k, !.state = "ACTIVE", !.obj[k].delegate = TRUE]

LEMMA PlacedFields ==
  ASSUME NEW x \in Accessory, NEW k \in Offers
  PROVE  LET y == Placed(x, k) IN
         /\ y \in Accessory /\ y.asset = k /\ y.state = "ACTIVE" /\ y.order = x.order
         /\ Silent(x, y) /\ y.transfer = x.transfer /\ y.reboot = x.reboot
         /\ y.fault = x.fault /\ y.current = x.current /\ y.flash = x.flash
         /\ y.hash = x.hash
         /\ \A j \in Offers : j # k => y.obj[j] = x.obj[j]
         /\ y.obj[k] = [x.obj[k] EXCEPT !.delegate = TRUE]
<1>. DEFINE o == [x.obj[k] EXCEPT !.delegate = TRUE]
            w == [x EXCEPT !.obj[k] = o]
            v == [w EXCEPT !.asset = k]
            y == [v EXCEPT !.state = "ACTIVE"]
<1>1. Placed(x, k) = y
  BY DEF Placed, Accessory
<1>2. o \in Asset
  BY ObjTyped, AssetField
<1>. HIDE DEF o
<1>3. w \in Accessory
  BY <1>2, ObjTyped
<1>4. /\ w.state = x.state /\ w.order = x.order /\ w.asset = x.asset
      /\ w.buf = x.buf /\ w.pending = x.pending /\ w.sending = x.sending /\ w.kick = x.kick
      /\ w.transfer = x.transfer /\ w.reboot = x.reboot
      /\ w.fault = x.fault /\ w.current = x.current /\ w.flash = x.flash
      /\ w.hash = x.hash
      /\ \A j \in Offers : j # k => w.obj[j] = x.obj[j]
      /\ w.obj[k] = o
  BY DEF Accessory
<1>. HIDE DEF w
<1>5. v \in Accessory
  BY <1>3, FieldTyped
<1>6. y \in Accessory
  <2>. HIDE DEF v
  <2>. QED  BY <1>5, FieldTyped DEF AssetStates
<1>7. /\ y.asset = k /\ y.state = "ACTIVE" /\ y.order = w.order
      /\ y.buf = w.buf /\ y.pending = w.pending /\ y.sending = w.sending /\ y.kick = w.kick
      /\ y.transfer = w.transfer /\ y.reboot = w.reboot
      /\ y.fault = w.fault /\ y.current = w.current /\ y.flash = w.flash
      /\ y.hash = w.hash /\ y.obj = w.obj
  BY <1>3 DEF Accessory
<1>. HIDE DEF y
<1>. QED  BY <1>1, <1>4, <1>6, <1>7 DEF Silent, o

LEMMA PayloadIndex == \A p \in AppPayloads : p # None /\ p >= 1
<1>. SUFFICES ASSUME NEW p \in AppPayloads
              PROVE  p # None /\ p >= 1
  OBVIOUS
<1>1. p \in 1..Payloads
  BY Lengths
<1>. QED  BY <1>1, LengthTypes DEF None

(* The asset is received from where it was left. *)
LEMMA AcceptGoes ==
  ASSUME NEW x, NEW k, Underway(x, k), x.pending = NoMsg, x.state = "ACTIVE",
         \/ AtHeader(x, x.obj[k])
         \/ /\ RequestSound(x.obj[k].req) /\ x.obj[k].req.left > 0 /\ At(x)
            /\ x.obj[k].req.type = "PAYLOAD" => InStep(x)
            /\ x.obj[k].req.type # "PAYLOAD_HEADER"
  PROVE  Goes(x, AssetAccept(x, k)) /\ AssetAccept(x, k).status
<1>. DEFINE o == x.obj[k]
            r == o.req
            y == AssetAccept(x, k)
<1>1. x \in Accessory /\ k \in Offers /\ x.asset = k /\ o \in Asset /\ r \in Request
  BY UnderwayTyped DEF Asset
<1>2. CASE AtHeader(x, o)
  <2>1. y = RequestData(x, k, "HEADER", 0, 1)
    BY <1>2 DEF AssetAccept, AtHeader
  <2>. QED  BY <1>2, <2>1, HeaderGoes
<1>3. CASE /\ RequestSound(r) /\ r.left > 0 /\ At(x)
           /\ r.type = "PAYLOAD" => InStep(x)
           /\ r.type # "PAYLOAD_HEADER"
  <2>1. CASE r.type = "HEADER"
    BY <1>1, <1>2, <1>3, <2>1 DEF At
  <2>2. CASE r.type = "METADATA"
    <3>1. AtMetadata(x, o)
      BY <1>1, <1>3, <2>2 DEF At
    <3>2. y = RequestData(x, k, "METADATA", 0, 1)
      BY <3>1 DEF AssetAccept, AtMetadata
    <3>. QED  BY <3>1, <3>2, MetadataGoes
  <2>3. CASE r.type = "PAYLOAD_METADATA"
    <3>1. AtPayloadMetadata(x, o)
      BY <1>1, <1>3, <2>3 DEF At
    <3>2. o.index # None /\ o.index >= 1
      <4>1. o.index \in AppPayloads
        BY <3>1 DEF AtPayloadMetadata, AtPayload
      <4>. HIDE DEF o
      <4>. QED  BY <4>1, PayloadIndex
    <3>3. y = Passing(payload_ready(x, k))
      BY <3>1, <3>2 DEF AssetAccept, AtPayloadMetadata, AtPayload, Told
    <3>4. Goes(x, payload_ready(x, k))
      BY <1>3, <3>1, <3>2, PayloadReadyGoes DEF AtPayloadMetadata, AtPayload
    <3>5. payload_ready(x, k) \in Accessory
      BY <1>1, PayloadReadyTyped
    <3>. DEFINE z == payload_ready(x, k)
    <3>. HIDE DEF z
    <3>6. Goes(x, Passing(z)) /\ Passing(z).status
      <4>1. z \in Accessory /\ Goes(x, z)
        BY <3>4, <3>5 DEF z
      <4>2. Alike(z, Passing(z)) /\ Buffers(Passing(z))
        BY <4>1, StatusAlike, StatusBuffers DEF Goes
      <4>3. Sound(Passing(z))
        BY <4>1, <4>2, SoundAlike DEF Goes
      <4>4. Passing(z).status
        BY <4>1 DEF Passing, Accessory
      <4>. QED  BY <4>1, <4>2, <4>3, <4>4 DEF Goes, Alike, SameBut
    <3>. QED  BY <3>3, <3>6 DEF z
  <2>4. CASE r.type = "PAYLOAD"
    <3>1. AtData(x, o)
      BY <1>1, <1>3, <2>4 DEF At
    <3>2. o.index # None
      <4>1. o.index \in AppPayloads
        BY <3>1 DEF AtData, AtPayload
      <4>. HIDE DEF o
      <4>. QED  BY <4>1, PayloadIndex
    <3>3. y = PayloadRequestData(x, k)
      BY <3>1, <3>2 DEF AssetAccept, AtData, AtPayload, Told
    <3>4. 0 <= o.recvd /\ o.recvd < LENGTH
      <4>1. /\ r.rel = o.recvd /\ r.rel >= 0 /\ r.got >= 0 /\ r.left > 0
            /\ r.left = r.asked - r.got /\ r.rel + r.asked <= LENGTH
        BY <1>3, <2>4, <3>1 DEF AtData, RequestSound
      <4>2. r.rel \in Int /\ r.got \in Int /\ r.left \in Int /\ r.asked \in Int
        BY <1>1 DEF Request
      <4>. HIDE DEF r
      <4>. QED  BY <4>1, <4>2, LengthTypes
    <3>5. Receiving(x, k)
      BY <3>1 DEF AtData, AtPayload, Receiving
    <3>. QED  BY <1>3, <2>4, <3>3, <3>4, <3>5, PayloadRequestGoes
  <2>5. r.type # "NOTHING" /\ r.type \in RequestTypes
    BY <1>1, <1>3 DEF At, Request
  <2>. HIDE DEF r, y, o
  <2>6. r.type \in {"HEADER", "METADATA", "PAYLOAD_METADATA", "PAYLOAD"}
    BY <1>3, <2>5 DEF RequestTypes
  <2>. QED  BY <2>1, <2>2, <2>3, <2>4, <2>6
<1>. QED  BY <1>2, <1>3

LEMMA PlacedReaches ==
  ASSUME NEW x \in Accessory, NEW k \in Offers, Underway(Placed(x, k), k), x.pending = NoMsg,
         LET y == Placed(x, k) IN
         \/ AtHeader(y, y.obj[k])
         \/ /\ RequestSound(y.obj[k].req) /\ y.obj[k].req.left > 0 /\ At(y)
            /\ y.obj[k].req.type = "PAYLOAD" => InStep(y)
            /\ y.obj[k].req.type # "PAYLOAD_HEADER"
  PROVE  Reaches(x, Accepted(x, k))
<1>. DEFINE y == Placed(x, k)
            b == AssetAccept(y, k)
<1>1. y.pending = NoMsg /\ y.state = "ACTIVE" /\ y.order = x.order
  BY PlacedFields DEF Silent
<1>2. Accepted(x, k) = IF b.status THEN b ELSE [AssetRelease(b, k) EXCEPT !.asset = None, !.state = "NONE"]
  BY DEF Accepted, Placed
<1>. HIDE DEF y
<1>3. Underway(y, k)
  BY DEF y
<1>4. \/ AtHeader(y, y.obj[k])
      \/ /\ RequestSound(y.obj[k].req) /\ y.obj[k].req.left > 0 /\ At(y)
         /\ y.obj[k].req.type = "PAYLOAD" => InStep(y)
         /\ y.obj[k].req.type # "PAYLOAD_HEADER"
  BY DEF y
<1>5. Goes(y, b) /\ b.status
  BY <1>1, <1>3, <1>4, AcceptGoes
<1>. QED  BY <1>1, <1>2, <1>5 DEF Goes, Reaches

(* A new asset takes the place of none, or of one that is released. *)
LEMMA FreshReaches ==
  ASSUME NEW x \in Accessory, Buffers(x), x.pending = NoMsg, x.fault = "none",
         NEW k \in Offers, NEW v \in Versions \ OldVersions, k \in Listed(x),
         x.obj[k] = NewAsset(k, v), ~x.transfer, ~x.reboot,
         \A j \in Listed(x) : j # k =>
           x.obj[j].id \in Offers /\ (~x.obj[j].marked => x.obj[j].delegate),
         \A j \in Offers : j # k =>
           RequestSound(x.obj[j].req) /\ (~x.obj[j].marked => x.obj[j].req.left = 0)
  PROVE  Reaches(x, Accepted(x, k))
<1>. DEFINE y == Placed(x, k)
            o == [x.obj[k] EXCEPT !.delegate = TRUE]
<1>1. /\ y \in Accessory /\ y.asset = k /\ y.state = "ACTIVE" /\ y.order = x.order
      /\ Silent(x, y) /\ y.transfer = x.transfer /\ y.reboot = x.reboot
      /\ y.fault = x.fault
      /\ \A j \in Offers : j # k => y.obj[j] = x.obj[j]
      /\ y.obj[k] = o
  BY PlacedFields
<1>2. /\ o.id = k /\ o.v = v /\ o.ctrl /\ ~o.marked /\ o.delegate
      /\ ~o.hdr /\ ~o.meta /\ Fresh(o) /\ o.req = NoRequest
  <2>. DEFINE n == NewAsset(k, v)
  <2>1. /\ n \in Asset /\ n.id = k /\ n.v = v /\ n.ctrl /\ ~n.marked
        /\ ~n.hdr /\ ~n.meta /\ Fresh(n) /\ n.req = NoRequest
    BY NewAssetFields
  <2>2. o = [n EXCEPT !.delegate = TRUE]
    OBVIOUS
  <2>. HIDE DEF n, o
  <2>. QED  BY <2>1, <2>2 DEF Fresh, Asset
<1>. HIDE DEF o, y
<1>3. Listed(y) = Listed(x) /\ Listed(x) \subseteq Offers /\ k # None
  BY <1>1, OwnAsset DEF Listed, Offers, None
<1>4. Owner(y)
  BY <1>1, <1>2, <1>3 DEF Owner
<1>5. Listing(y) /\ Requests(y)
  BY <1>1, <1>2, <1>3 DEF Listing, Requests
<1>6. DoneUpTo(y, y.obj[k].index - 1)
  BY <1>1, <1>2, Lengths DEF DoneUpTo, Fresh, None
<1>7. Rest(y)
  BY <1>1, <1>4, <1>5, <1>6 DEF Rest
<1>8. Underway(y, k)
  <2>1. ~NoRequest.out
    BY DEF NoRequest
  <2>. QED  BY <1>1, <1>2, <1>7, <2>1 DEF Underway, Held, Silent, Buffers
<1>9. AtHeader(y, y.obj[k])
  BY <1>1, <1>2 DEF AtHeader
<1>. QED  BY <1>8, <1>9, PlacedReaches DEF y

(* The orphan is received on, for the asset k that was offered. *)
LEMMA MergeFields ==
  ASSUME NEW x \in Accessory, NEW k \in Offers, x.asset \in Offers, k # x.asset
  PROVE  LET y == SuperBinaryMerge(x, k)
             j == x.asset IN
         /\ y.state = x.state /\ y.order = x.order /\ y.asset = x.asset /\ Silent(x, y)
         /\ y.transfer = x.transfer /\ y.reboot = x.reboot /\ y.fault = x.fault
         /\ y.current = x.current /\ y.flash = x.flash /\ y.hash = x.hash
         /\ \A i \in Offers : i \notin {j, k} => y.obj[i] = x.obj[i]
         /\ y.obj[j] = [x.obj[j] EXCEPT !.req.out = FALSE, !.ctrl = TRUE, !.id = x.obj[k].id]
         /\ y.obj[k] = [x.obj[k] EXCEPT !.marked = TRUE, !.ctrl = FALSE]
<1>. DEFINE j == x.asset
            i == x.obj[k].id
            g == [x.obj EXCEPT ![j].req.out = FALSE, ![j].ctrl = TRUE, ![j].id = i,
                               ![k].marked = TRUE, ![k].ctrl = FALSE]
            o == [x.obj[j] EXCEPT !.req.out = FALSE, !.ctrl = TRUE, !.id = i]
            p == [x.obj[k] EXCEPT !.marked = TRUE, !.ctrl = FALSE]
            y == [x EXCEPT !.obj = g]
<1>1. SuperBinaryMerge(x, k) = y
  BY DEF SuperBinaryMerge, Accessory
<1>2. x.obj \in [Offers -> Asset] /\ j \in Offers
  BY DEF Accessory
<1>3. g = [[x.obj EXCEPT ![j] = o] EXCEPT ![k] = p]
  BY <1>2 DEF Asset
<1>. HIDE DEF g, o, p
<1>4. /\ \A n \in Offers : n \notin {j, k} => g[n] = x.obj[n]
      /\ g[j] = o /\ g[k] = p
  BY <1>2, <1>3
<1>5. /\ y.state = x.state /\ y.order = x.order /\ y.asset = x.asset /\ Silent(x, y)
      /\ y.transfer = x.transfer /\ y.reboot = x.reboot /\ y.fault = x.fault
      /\ y.current = x.current /\ y.flash = x.flash /\ y.hash = x.hash /\ y.obj = g
  BY DEF Accessory, Silent
<1>. QED  BY <1>1, <1>4, <1>5 DEF o, p

(* uarpPlatformAccessorySuperBinaryMerge(): the orphan goes on where its    *)
(* flash and hash are. It must not have been left between two payloads: the *)
(* transfer that is open then would be started again.                       *)
LEMMA MergedReaches ==
  ASSUME NEW x \in Accessory, NEW m \in Accessory, NEW k \in Offers, NEW j \in Offers, k # j,
         m = SuperBinaryMerge(x, k), x.asset = j, x.state = "ORPHANED",
         Buffers(x), x.pending = NoMsg, x.fault = "none", Owner(x), Requests(x), Posed(x), Live(x),
         DoneUpTo(x, x.obj[j].index - 1), x.obj[k].id \in Offers,
         \A i \in Listed(x) : i # k =>
           x.obj[i].id \in Offers /\ (~x.obj[i].marked => x.obj[i].delegate),
         x.obj[j].hdr => x.obj[j].index = x.obj[j].pl
  PROVE  Reaches(x, Accepted(m, j))
<1>. DEFINE o == x.obj[j]
            p == m.obj[j]
            y == Placed(m, j)
            q == y.obj[j]
<1>1. o \in Asset /\ o.req \in Request /\ p \in Asset /\ x.obj[k] \in Asset
  BY ObjTyped DEF Asset
<1>2. /\ m.state = x.state /\ m.order = x.order /\ m.asset = x.asset /\ Silent(x, m)
      /\ m.transfer = x.transfer /\ m.reboot = x.reboot /\ m.fault = x.fault
      /\ m.current = x.current /\ m.flash = x.flash /\ m.hash = x.hash
      /\ \A i \in Offers : i \notin {j, k} => m.obj[i] = x.obj[i]
      /\ p = [o EXCEPT !.req.out = FALSE, !.ctrl = TRUE, !.id = x.obj[k].id]
      /\ m.obj[k] = [x.obj[k] EXCEPT !.marked = TRUE, !.ctrl = FALSE]
  <2>. DEFINE z == SuperBinaryMerge(x, k)
  <2>1. /\ z.state = x.state /\ z.order = x.order /\ z.asset = x.asset /\ Silent(x, z)
        /\ z.transfer = x.transfer /\ z.reboot = x.reboot /\ z.fault = x.fault
        /\ z.current = x.current /\ z.flash = x.flash /\ z.hash = x.hash
        /\ \A i \in Offers : i \notin {x.asset, k} => z.obj[i] = x.obj[i]
        /\ z.obj[x.asset] = [x.obj[x.asset] EXCEPT !.req.out = FALSE, !.ctrl = TRUE, !.id = x.obj[k].id]
        /\ z.obj[k] = [x.obj[k] EXCEPT !.marked = TRUE, !.ctrl = FALSE]
    BY MergeFields
  <2>2. z = m /\ x.asset = j
    OBVIOUS
  <2>. HIDE DEF z
  <2>. QED  BY <2>1, <2>2
<1>3. /\ y \in Accessory /\ y.asset = j /\ y.state = "ACTIVE" /\ y.order = m.order
      /\ Silent(m, y) /\ y.transfer = m.transfer /\ y.reboot = m.reboot
      /\ y.fault = m.fault /\ y.current = m.current /\ y.flash = m.flash
      /\ y.hash = m.hash
      /\ \A i \in Offers : i # j => y.obj[i] = m.obj[i]
      /\ q = [p EXCEPT !.delegate = TRUE]
  BY PlacedFields
<1>. HIDE DEF y, o
<1>4. /\ p.v = o.v /\ p.marked = o.marked /\ p.hdr = o.hdr
      /\ p.meta = o.meta /\ p.index = o.index /\ p.pl = o.pl /\ p.plflags = o.plflags
      /\ p.recvd = o.recvd /\ p.id = x.obj[k].id /\ p.ctrl
      /\ ~p.req.out /\ SameRequest(o.req, p.req)
  BY <1>1, <1>2 DEF Asset, Request, SameRequest
<1>. HIDE DEF p
<1>5. /\ q.v = o.v /\ q.marked = o.marked /\ q.hdr = o.hdr
      /\ q.meta = o.meta /\ q.index = o.index /\ q.pl = o.pl /\ q.plflags = o.plflags
      /\ q.recvd = o.recvd /\ q.id = x.obj[k].id /\ q.ctrl /\ q.delegate
      /\ ~q.req.out /\ SameRequest(o.req, q.req)
  BY <1>1, <1>3, <1>4 DEF Asset
<1>6. \A i \in Offers :
        i # j => /\ y.obj[i].id = x.obj[i].id /\ y.obj[i].delegate = x.obj[i].delegate
                 /\ y.obj[i].req = x.obj[i].req
                 /\ i # k => y.obj[i].marked = x.obj[i].marked
                 /\ i = k => y.obj[i].marked
  <2>1. \A i \in Offers : i \notin {j, k} => y.obj[i] = x.obj[i]
    BY <1>2, <1>3
  <2>2. y.obj[k] = [x.obj[k] EXCEPT !.marked = TRUE, !.ctrl = FALSE]
    BY <1>2, <1>3
  <2>3. /\ y.obj[k].id = x.obj[k].id /\ y.obj[k].delegate = x.obj[k].delegate
        /\ y.obj[k].req = x.obj[k].req /\ y.obj[k].marked
    BY <1>1, <2>2 DEF Asset
  <2>. QED  BY <2>1, <2>3
<1>. HIDE DEF q
<1>7. Listed(y) = Listed(x) /\ Listed(x) \subseteq Offers /\ j # None
  BY <1>2, <1>3, OwnAsset DEF Listed, Offers, None
<1>8. Owner(y)
  BY <1>2, <1>3, <1>5, <1>7 DEF Owner, o, q
<1>9. Listing(y)
  BY <1>3, <1>5, <1>6, <1>7 DEF Listing, q
<1>10. Requests(y)
  BY <1>3, <1>6 DEF Requests
<1>11. DoneUpTo(y, y.obj[j].index - 1)
  BY <1>2, <1>3, <1>5 DEF DoneUpTo, Done, o, q
<1>12. Rest(y)
  BY <1>2, <1>3, <1>8, <1>9, <1>10, <1>11 DEF Rest
<1>13. Underway(y, j)
  BY <1>2, <1>3, <1>5, <1>12 DEF Underway, Held, Silent, Buffers, q
<1>14. /\ RequestSound(o.req) /\ o.req.left > 0 /\ At(x)
       /\ o.req.type = "PAYLOAD" => InStep(x)
       /\ o.req.type # "PAYLOAD_HEADER"
  <2>1. /\ RequestSound(o.req) /\ o.req.left > 0 /\ At(x)
        /\ o.req.type = "PAYLOAD" => InStep(x)
    BY <1>7 DEF Posed, Live, o
  <2>2. ASSUME o.req.type = "PAYLOAD_HEADER"
        PROVE  FALSE
    <3>1. AtPayloadHeader(x, o)
      BY <2>1, <2>2 DEF At, o
    <3>2. o.pl < o.index /\ o.index = o.pl
      BY <3>1 DEF AtPayloadHeader, Told, o
    <3>3. o.pl \in Int
      BY <1>1 DEF Asset
    <3>. QED  BY <3>2, <3>3
  <2>. QED  BY <2>1, <2>2
<1>15. /\ RequestSound(q.req) /\ q.req.left > 0 /\ At(y)
       /\ q.req.type = "PAYLOAD" => InStep(y)
       /\ q.req.type # "PAYLOAD_HEADER"
  <2>1. RequestSound(q.req) /\ q.req.left > 0 /\ q.req.type = o.req.type
    BY <1>5, <1>14, RequestAlike DEF SameRequest
  <2>2. x.obj[x.asset] = o /\ y.obj[y.asset] = q
    BY <1>3 DEF o, q
  <2>3. At(y)
    BY <1>2, <1>3, <1>5, <1>14, <2>2
       DEF At, AtHeader, AtMetadata, AtPayloadHeader, AtPayload, AtPayloadMetadata, AtData,
           Fresh, Told, SameRequest
  <2>4. InStep(x) => InStep(y)
    BY <1>2, <1>3, <1>5, <2>2 DEF InStep
  <2>. QED  BY <1>14, <2>1, <2>3, <2>4
<1>16. m.pending = NoMsg
  BY <1>2 DEF Silent
<1>17. Reaches(m, Accepted(m, j))
  BY <1>13, <1>15, <1>16, PlacedReaches DEF y, q
<1>. QED  BY <1>2, <1>17 DEF Reaches

-----------------------------------------------------------------------------
(* The offer of the asset k, of version v. *)

(* What Offerable() asks for. *)
OfferFits(x, v) ==
  x.state = "ORPHANED" =>
    LET o == x.obj[x.asset] IN
    /\ o.v = v /\ o.hdr => o.index = o.pl
    /\ o.v # v => ~x.transfer

(* x is sound, but for the asset k that has just been listed. *)
Offered(x, k, v) ==
  /\ x \in Accessory /\ Buffers(x) /\ x.buf # NoMsg /\ x.pending = NoMsg
  /\ x.fault = "none" /\ Owner(x) /\ Requests(x) /\ Posed(x) /\ Live(x) /\ Complete(x)
  /\ x.asset # None => DoneUpTo(x, x.obj[x.asset].index - 1)
  /\ k \in Offers /\ v \in Versions /\ k \in Listed(x) /\ x.asset # k
  /\ x.obj[k] = NewAsset(k, v)
  /\ \A j \in Listed(x) : j # k =>
       x.obj[j].id \in Offers /\ (~x.obj[j].marked => x.obj[j].delegate)
  /\ OfferFits(x, v)

(* A denied asset is marked only when the controller is told.               *)
LEMMA DenyReaches ==
  ASSUME NEW x, NEW k, NEW v, Offered(x, k, v)
  PROVE  Reaches(x, AssetDeny(x, k))
<1>. DEFINE b == Notification(x, k, "DENIED")
            o == [b.obj[k] EXCEPT !.marked = TRUE, !.delegate = FALSE]
            y == [b EXCEPT !.obj[k] = o]
<1>1. /\ x \in Accessory /\ k \in Offers /\ x.fault = "none" /\ Buffers(x) /\ x.pending = NoMsg
      /\ x.obj[k] = NewAsset(k, v) /\ x.asset # k
  BY DEF Offered
<1>2. "DENIED" \in Texts
  BY DEF Texts
<1>3. Alike(x, b) /\ Buffers(b) /\ b.status /\ b \in Accessory
  BY <1>1, <1>2, NotificationAlike, NotificationTyped
<1>4. AssetDeny(x, k) = y
  <2>1. AssetDeny(x, k) = [b EXCEPT !.obj[k].marked = TRUE, !.obj[k].delegate = FALSE]
    BY <1>3 DEF AssetDeny
  <2>. HIDE DEF b
  <2>. QED  BY <1>1, <1>3, <2>1 DEF Accessory
<1>. HIDE DEF b
<1>5. /\ o.marked /\ o.id = x.obj[k].id /\ SameRequest(x.obj[k].req, o.req)
      /\ o \in Asset
  <2>1. b.obj[k] \in Asset /\ SameAsset(x.obj[k], b.obj[k])
    BY <1>1, <1>3, ObjTyped DEF Alike
  <2>2. [b.obj[k] EXCEPT !.marked = TRUE] \in Asset
    BY <2>1, AssetField
  <2>3. o \in Asset
    BY <2>2, AssetField
  <2>4. o.marked /\ o.id = b.obj[k].id /\ o.req = b.obj[k].req
    BY <2>1 DEF Asset
  <2>. HIDE DEF o
  <2>. QED  BY <2>1, <2>3, <2>4 DEF SameAsset
<1>. HIDE DEF o
<1>6. /\ y.state = b.state /\ y.order = b.order /\ y.asset = b.asset /\ Silent(b, y)
      /\ y.transfer = b.transfer /\ y.reboot = b.reboot /\ y.fault = b.fault
      /\ y.current = b.current /\ y.flash = b.flash /\ y.hash = b.hash
      /\ \A j \in Offers : j # k => y.obj[j] = b.obj[j]
      /\ y.obj[k] = o
  BY <1>1, <1>3 DEF Accessory, Silent
<1>. HIDE DEF y
<1>7. SameBut(x, y) /\ \A j \in Offers : j # k => SameAsset(x.obj[j], y.obj[j])
  BY <1>3, <1>6 DEF Alike, SameBut
<1>8. Listed(y) = Listed(x) /\ x.asset \in Offers \cup {None} /\ Listed(x) \subseteq Offers
  BY <1>1, <1>7, OwnAsset DEF SameBut, Listed
<1>9. x.asset # None => SameAsset(x.obj[x.asset], y.obj[y.asset])
  BY <1>1, <1>7, <1>8 DEF SameBut
<1>10. Owner(y)
  BY <1>7, <1>8, <1>9 DEF Offered, Owner, SameBut, SameAsset
<1>11. Listing(y)
  <2>1. x.obj[k].id \in Offers
    BY <1>1, NewAssetFields DEF Offered
  <2>. QED  BY <1>5, <1>6, <1>7, <1>8, <2>1 DEF Offered, Listing, SameAsset
<1>12. Requests(y)
  <2>. SUFFICES ASSUME NEW j \in Offers, j # x.asset
                PROVE  RequestSound(y.obj[j].req) /\ (~y.obj[j].marked => y.obj[j].req.left = 0)
    BY <1>7 DEF Requests, SameBut
  <2>1. /\ SameRequest(x.obj[j].req, y.obj[j].req)
        /\ (y.obj[j].marked \/ y.obj[j].marked = x.obj[j].marked)
    BY <1>5, <1>6, <1>7 DEF SameAsset
  <2>2. RequestSound(y.obj[j].req)
    BY <2>1, RequestAlike DEF Offered, Requests
  <2>. QED  BY <2>1, <2>2 DEF Offered, Requests, SameRequest
<1>13. CASE x.asset = None
  <2>1. x.state = "NONE"
    BY <1>13 DEF Offered, Owner
  <2>2. Sound(y)
    BY <1>7, <1>10, <1>11, <1>12, <1>13, <2>1
       DEF Offered, Sound, Sturdy, Rest, Posed, Complete, Live, SameBut
  <2>. QED  BY <1>3, <1>4, <1>6, <2>2 DEF Reaches, Buffers, Silent, Alike, SameBut
<1>14. CASE x.asset # None
  <2>. DEFINE p == x.obj[x.asset]
              q == y.obj[y.asset]
  <2>1. SameAsset(p, q)
    BY <1>9, <1>14
  <2>2. At(x) => At(y)
    BY <1>7, <2>1 DEF At, AtHeader, AtMetadata, AtPayloadHeader, AtPayload, AtPayloadMetadata,
                AtData, Fresh, Told, SameBut, SameAsset, SameRequest
  <2>3. InStep(x) => InStep(y)
    BY <1>7, <2>1 DEF InStep, SameBut, SameAsset
  <2>4. \A n : DoneUpTo(x, n) => DoneUpTo(y, n)
    BY <1>7, <2>1 DEF DoneUpTo, Done, SameBut, SameAsset
  <2>5. RequestSound(p.req) => RequestSound(q.req)
    BY <2>1, RequestAlike DEF SameAsset
  <2>6. q.index = p.index /\ q.req.left = p.req.left /\ q.req.type = p.req.type
    BY <2>1 DEF SameAsset, SameRequest
  <2>7. Rest(y)
    BY <1>7, <1>10, <1>11, <1>12, <1>14, <2>4, <2>6 DEF Offered, Rest, SameBut
  <2>8. Posed(y) /\ Live(y) /\ Complete(y)
    BY <1>7, <1>14, <2>2, <2>3, <2>4, <2>5, <2>6 DEF Offered, Posed, Complete, Live, SameBut
  <2>. QED  BY <1>3, <1>4, <1>6, <2>7, <2>8
            DEF Sound, Sturdy, Reaches, Buffers, Silent, Alike, SameBut
<1>. QED  BY <1>13, <1>14

(* super_binary_offered(), in each of its cases.                            *)
LEMMA SuperBinaryReaches ==
  ASSUME NEW x, NEW k, NEW v, Offered(x, k, v)
  PROVE  Reaches(x, super_binary_offered(x, k)) /\ super_binary_offered(x, k) \in Accessory
<1>. DEFINE j == x.asset
            m == SuperBinaryMerge(x, k)
            r == AssetRelease(x, j)
            y == super_binary_offered(x, k)
<1>1. /\ x \in Accessory /\ k \in Offers /\ v \in Versions /\ Buffers(x) /\ x.pending = NoMsg
      /\ x.fault = "none" /\ Owner(x) /\ Requests(x) /\ k \in Listed(x) /\ j # k
      /\ x.obj[k] = NewAsset(k, v) /\ x.obj[k].v = v /\ x.obj[k].id = k
      /\ \A i \in Listed(x) : i # k =>
           x.obj[i].id \in Offers /\ (~x.obj[i].marked => x.obj[i].delegate)
  BY NewAssetFields DEF Offered
<1>2. x.state # "NONE" => j \in Offers /\ j # None
  BY <1>1 DEF Owner, Accessory
<1>3. Leads(x, y)
  BY <1>1, <1>2, SuperBinaryLeads
<1>4. CASE v \in OldVersions \/ x.state \notin {"NONE", "ORPHANED"}
  <2>1. y = AssetDeny(x, k)
    BY <1>1, <1>4 DEF super_binary_offered
  <2>. QED  BY <1>3, <2>1, DenyReaches DEF Leads
<1>5. CASE v \notin OldVersions /\ x.state = "NONE"
  <2>1. y = Accepted(x, k)
    BY <1>1, <1>5 DEF super_binary_offered
  <2>2. j = None /\ ~x.transfer /\ ~x.reboot
    BY <1>1, <1>5 DEF Owner
  <2>3. \A i \in Offers : i # k =>
          RequestSound(x.obj[i].req) /\ (~x.obj[i].marked => x.obj[i].req.left = 0)
    BY <1>1, <2>2 DEF Requests, Offers, None
  <2>4. Reaches(x, Accepted(x, k))
    BY <1>1, <1>5, <2>2, <2>3, FreshReaches
  <2>. QED  BY <1>3, <2>1, <2>4 DEF Leads
<1>6. CASE v \notin OldVersions /\ x.state = "ORPHANED" /\ x.obj[j].v = v
  <2>1. y = Accepted(m, j)
    BY <1>1, <1>6 DEF super_binary_offered
  <2>2. m \in Accessory /\ j \in Offers
    BY <1>1, <1>2, <1>6, MergeLeads DEF Leads
  <2>3. x.obj[j].hdr => x.obj[j].index = x.obj[j].pl
    BY <1>6 DEF Offered, OfferFits
  <2>4. Posed(x) /\ Live(x) /\ DoneUpTo(x, x.obj[j].index - 1)
    BY <1>2, <1>6 DEF Offered
  <2>5. PICK n \in Accessory : n = m
    BY <2>2
  <2>. HIDE DEF m
  <2>6. n = SuperBinaryMerge(x, k)
    BY <2>5 DEF m
  <2>7. PICK i \in Offers : i = j
    BY <2>2
  <2>. HIDE DEF j
  <2>8. x.asset = i /\ i # k
    BY <1>1, <2>7 DEF j
  <2>9. Reaches(x, Accepted(n, i))
    BY <1>1, <1>6, <2>3, <2>4, <2>6, <2>7, <2>8, MergedReaches
  <2>. QED  BY <1>3, <2>1, <2>5, <2>7, <2>9 DEF Leads
<1>7. CASE v \notin OldVersions /\ x.state = "ORPHANED" /\ x.obj[j].v # v
  <2>1. y = Accepted(r, k)
    BY <1>1, <1>7 DEF super_binary_offered
  <2>2. r \in Accessory /\ j \in Offers
    BY <1>1, <1>2, <1>7, ReleaseTyped
  <2>3. /\ r.order = x.order /\ r.pending = x.pending /\ r.buf = x.buf /\ r.sending = x.sending
        /\ r.transfer = x.transfer /\ r.reboot = x.reboot /\ r.fault = x.fault
        /\ \A i \in Offers : i # j => r.obj[i] = x.obj[i]
        /\ r.obj[j].id = x.obj[j].id /\ r.obj[j].marked
        /\ SameRequest(x.obj[j].req, r.obj[j].req)
    BY <1>1, <2>2, ReleaseFields
  <2>. HIDE DEF r
  <2>4. ~r.transfer /\ ~r.reboot
    BY <1>1, <1>7, <2>3 DEF Offered, OfferFits, Owner
  <2>5. Buffers(r) /\ r.pending = NoMsg /\ r.fault = "none"
    BY <1>1, <2>3 DEF Buffers
  <2>6. Listed(r) = Listed(x) /\ Listed(x) \subseteq Offers
    BY <1>1, <2>3, OwnAsset DEF Listed
  <2>7. r.obj[k] = NewAsset(k, v)
    BY <1>1, <2>3
  <2>8. \A i \in Listed(r) : i # k =>
          r.obj[i].id \in Offers /\ (~r.obj[i].marked => r.obj[i].delegate)
    BY <1>1, <2>3, <2>6
  <2>9. \A i \in Offers : i # k =>
          RequestSound(r.obj[i].req) /\ (~r.obj[i].marked => r.obj[i].req.left = 0)
    <3>1. RequestSound(r.obj[j].req)
      BY <1>2, <1>7, <2>3, RequestAlike DEF Offered, Posed
    <3>. QED  BY <1>1, <2>3, <3>1 DEF Requests
  <2>10. Reaches(r, Accepted(r, k))
    BY <1>1, <1>7, <2>2, <2>4, <2>5, <2>6, <2>7, <2>8, <2>9, FreshReaches
  <2>. QED  BY <1>3, <2>1, <2>3, <2>10 DEF Leads, Reaches
<1>. QED  BY <1>4, <1>5, <1>6, <1>7

WithOffer(x, k, v) == [x EXCEPT !.obj[k] = NewAsset(k, v), !.order = <<k>> \o x.order]

(* The asset of a new offer is put into the list.                           *)
LEMMA OfferPlaced ==
  ASSUME NEW x \in Accessory, Sound(x), Buffers(x), x.buf # NoMsg, x.pending = NoMsg,
         NEW k \in Offers, k \notin Listed(x), NEW v \in Versions, OfferFits(x, v)
  PROVE  LET b == WithOffer(x, k, v) IN
         /\ Leads(x, b) /\ Offered(b, k, v) /\ Listed(b) = Listed(x) \cup {k}
         /\ b.state = x.state /\ b.asset = x.asset /\ Silent(x, b)
         /\ \A j \in Offers : j # k => b.obj[j] = x.obj[j]
<1>. DEFINE o == NewAsset(k, v)
            q == <<k>> \o x.order
            b == [x EXCEPT !.obj[k] = o, !.order = q]
<1>1. WithOffer(x, k, v) = b
  BY DEF WithOffer
<1>2. o \in Asset
  BY NewAssetFields
<1>. HIDE DEF o
<1>3. q \in Seq(Offers) /\ Elements(q, Len(q)) = Elements(x.order, Len(x.order)) \cup {k}
  BY OneBefore DEF Accessory
<1>. HIDE DEF q
<1>4. Leads(x, b)
  <2>. DEFINE w == [x EXCEPT !.obj[k] = o]
  <2>1. Leads(x, w)
    BY <1>2, ObjLeads
  <2>2. b = [w EXCEPT !.order = q]
    OBVIOUS
  <2>. HIDE DEF w, b
  <2>3. Leads(w, b)
    BY <1>3, <2>1, <2>2, FieldTyped, SentField, AccessoryBuffers DEF Leads
  <2>. QED  BY <2>1, <2>3, LeadsTrans
<1>5. /\ b.state = x.state /\ b.asset = x.asset /\ Silent(x, b)
      /\ b.transfer = x.transfer /\ b.reboot = x.reboot /\ b.fault = x.fault
      /\ b.current = x.current /\ b.flash = x.flash /\ b.hash = x.hash
      /\ \A j \in Offers : j # k => b.obj[j] = x.obj[j]
      /\ b.obj[k] = o /\ b.order = q
  BY DEF Accessory, Silent
<1>. HIDE DEF b
<1>6. Listed(b) = Listed(x) \cup {k} /\ Listed(x) \subseteq Offers
  BY <1>3, <1>5, OwnAsset DEF Elements, Listed
<1>7. x.asset # k /\ (x.asset = None \/ x.asset \in Offers) /\ None \notin Offers
  BY SoundFacts DEF Owner
<1>8. x.asset # None => b.obj[b.asset] = x.obj[x.asset]
  BY <1>5, <1>7
<1>9. Owner(b)
  BY <1>5, <1>6, <1>8, SoundFacts DEF Owner
<1>10. Requests(b)
  <2>1. RequestSound(b.obj[k].req) /\ b.obj[k].req.left = 0
    <3>1. b.obj[k].req = NoRequest
      BY <1>5, NewAssetFields DEF o
    <3>2. NoRequest.left = 0
      BY DEF NoRequest
    <3>. QED  BY <3>1, <3>2, NoRequestSound
  <2>. QED  BY <1>5, <2>1, SoundFacts DEF Requests
<1>11. /\ Posed(b) /\ Live(b) /\ Complete(b)
       /\ b.asset # None => DoneUpTo(b, b.obj[b.asset].index - 1)
       /\ OfferFits(b, v)
  <2>1. CASE x.asset = None
    <3>1. x.state = "NONE"
      BY <2>1, SoundFacts DEF Owner
    <3>. QED  BY <1>5, <2>1, <3>1 DEF Posed, Live, Complete, OfferFits
  <2>2. CASE x.asset # None
    <3>1. At(x) => At(b)
      BY <1>5, <1>8, <2>2 DEF At, AtHeader, AtMetadata, AtPayloadHeader, AtPayload,
                              AtPayloadMetadata, AtData, Fresh, Told
    <3>2. InStep(x) => InStep(b)
      BY <1>5, <1>8, <2>2 DEF InStep
    <3>. QED  BY <1>5, <1>8, <2>2, <3>1, <3>2
              DEF Sound, Sturdy, Rest, Posed, Live, Complete, OfferFits, DoneUpTo, Done
  <2>. QED  BY <2>1, <2>2
<1>12. b.fault = "none" /\ Buffers(b) /\ b.buf # NoMsg /\ b.pending = NoMsg
  BY <1>5, SoundFacts DEF Buffers, Silent
<1>13. \A j \in Listed(b) : j # k =>
         b.obj[j].id \in Offers /\ (~b.obj[j].marked => b.obj[j].delegate)
  BY <1>5, <1>6, SoundFacts DEF Listing
<1>14. Offered(b, k, v)
  BY <1>4, <1>5, <1>6, <1>7, <1>9, <1>10, <1>11, <1>12, <1>13 DEF Offered, Leads, o
<1>. QED  BY <1>1, <1>4, <1>5, <1>6, <1>14

(* uarpPlatformAssetOffered() as a whole.                                   *)
LEMMA AssetOfferedSound ==
  ASSUME NEW x \in Accessory, Sound(x), Buffers(x), x.buf # NoMsg, x.pending = NoMsg,
         NEW k \in Offers, k \notin Listed(x), NEW v \in Versions, OfferFits(x, v)
  PROVE  LET y == AssetOffered(x, k, v) IN
         /\ y \in Accessory /\ Sent(x, y)
         /\ Sound(y) /\ Buffers(y) /\ Listed(y) \subseteq Listed(x) \cup {k}
<1>. DEFINE b == WithOffer(x, k, v)
            s == super_binary_offered(b, k)
            y == AssetOffered(x, k, v)
<1>1. y = CleanupFor(s, FALSE)
  BY DEF AssetOffered, WithOffer, NewAsset
<1>2. /\ Leads(x, b) /\ Offered(b, k, v) /\ Listed(b) = Listed(x) \cup {k}
      /\ b.state = x.state /\ b.asset = x.asset
  BY OfferPlaced
<1>. HIDE DEF b
<1>3. Reaches(b, s) /\ s \in Accessory
  BY <1>2, SuperBinaryReaches
<1>4. Sent(b, s)
  <2>1. b \in Accessory /\ (b.state = "ORPHANED" => b.asset \in Offers)
    BY <1>2, SoundFacts DEF Leads, Owner
  <2>. QED  BY <2>1, SuperBinaryLeads, <1>2 DEF Leads, Offered
<1>. HIDE DEF s, y
<1>5. Sound(y) /\ Silent(s, y) /\ Listed(y) \subseteq Listed(s)
  BY <1>1, <1>3, CleanupForSound DEF Reaches
<1>6. y \in Accessory /\ Sent(s, y)
  BY <1>1, <1>3, CleanupForTyped, CleanupSent, AccessoryBuffers DEF CleanupFor
<1>7. Sent(x, y)
  BY <1>2, <1>4, <1>6, SentTrans DEF Leads
<1>8. Buffers(y)
  BY <1>3, <1>5 DEF Reaches, Buffers, Silent
<1>9. Listed(s) = Listed(b)
  BY <1>3 DEF Reaches, Listed
<1>. QED  BY <1>2, <1>5, <1>6, <1>7, <1>8, <1>9 DEF y

-----------------------------------------------------------------------------
(* Assets are rescinded. *)

(* None of them was given up already, or is applied. *)
RescindFits(x, id) ==
  \A k \in Listed(x) : x.obj[k].ctrl /\ id \in {None, x.obj[k].id} =>
    ~x.obj[k].marked /\ ~(k = x.asset /\ x.reboot)

(* x has lost assets since w. *)
Rescinded(w, x) ==
  /\ Leads(w, x) /\ Sound(x) /\ Silent(w, x) /\ x.order = w.order
  /\ x.asset \in {w.asset, None} /\ (x.reboot => w.reboot)
  /\ \A j \in Offers : /\ x.obj[j].id = w.obj[j].id /\ x.obj[j].ctrl = w.obj[j].ctrl
                       /\ x.obj[j].delegate = w.obj[j].delegate

(* One asset is rescinded.                                                  *)
LEMMA RescindLeads == \A x \in Accessory, k \in Offers : Leads(x, Rescind(x, k))
<1>. SUFFICES ASSUME NEW x \in Accessory, NEW k \in Offers
              PROVE  Leads(x, Rescind(x, k))
  OBVIOUS
<1>. DEFINE o == [x.obj[k] EXCEPT !.req.out = FALSE, !.marked = TRUE]
            z == [x EXCEPT !.obj[k] = o]
<1>1. o \in Asset
  <2>. DEFINE p == [x.obj[k] EXCEPT !.req.out = FALSE]
  <2>1. p \in Asset
    BY ObjTyped, AssetField
  <2>2. o = [p EXCEPT !.marked = TRUE]
    OBVIOUS
  <2>. HIDE DEF p, o
  <2>. QED  BY <2>1, <2>2, AssetField
<1>2. [x EXCEPT !.obj[k].req.out = FALSE, !.obj[k].marked = TRUE] = z
  BY DEF Accessory
<1>. HIDE DEF o
<1>3. Leads(x, z)
  BY <1>1, ObjLeads
<1>. HIDE DEF z
<1>4. Leads(z, asset_rescinded(z, k))
  BY <1>3, CourseLeads, LeadsTyped
<1>. QED  BY <1>2, <1>3, <1>4, LeadsTrans DEF Rescind

RescindP(c, x, i)  == Rescinded(c[1], x)

(* AssetRescinded() goes through the list.                                  *)
LEMMA RescindedIsFold ==
  ASSUME NEW c
  PROVE  AssetRescinded(c[1], c[2]) = Fold("rescind", c, c[1], c[1].order)
<1>. DEFINE s == c[1].order
            I(g) == g = [u \in SUBSET (DOMAIN s) |->
                           IF u = {} THEN c[1]
                           ELSE RescindOp(c, g[u \ {Max(u)}], s[Max(u)])]
<1>1. \A g : I(g) <=> Iterates("rescind", c, g, c[1], s, DOMAIN s)
  BY DEF Iterates, FoldOp
<1>2. AssetRescinded(c[1], c[2]) = (CHOOSE g : I(g))[DOMAIN s]
  BY Zenon DEF AssetRescinded, RescindOp, FoldLeft, MapThenFoldSet
<1>. HIDE DEF I, s
<1>3. (CHOOSE g : I(g)) = (CHOOSE g : Iterates("rescind", c, g, c[1], s, DOMAIN s))
  BY <1>1, Zenon
<1>4. AssetRescinded(c[1], c[2]) = Fold("rescind", c, c[1], s)
  BY <1>2, <1>3, FoldIsIterate
<1>. QED  BY <1>4 DEF s

(* Every asset named is given up. None may have been denied, or its         *)
(* delegate is gone, nor be applied, or the payloads are closed before the  *)
(* reboot.                                                                  *)
LEMMA AssetRescindedSound ==
  ASSUME NEW w \in Accessory, Sound(w), NEW id, RescindFits(w, id)
  PROVE  Rescinded(w, AssetRescinded(w, id))
<1>. DEFINE c == <<w, id>>
<1>1. c[1] = w /\ c[2] = id
  OBVIOUS
<1>. HIDE DEF c
<1>2. Len(w.order) \in Nat /\ DOMAIN w.order = 1..Len(w.order)
      /\ \A i \in 1..Len(w.order) : w.order[i] \in Listed(w) /\ w.order[i] \in Offers
  BY LenProperties, ElementOfSeq DEF Accessory, Listed
<1>3. RescindP(c, w, 0)
  BY <1>1, LeadsHere DEF RescindP, Rescinded, Silent
<1>4. ASSUME NEW x, NEW k \in Offers, k \in Listed(w), Rescinded(w, x)
      PROVE  Rescinded(w, RescindOp(c, x, k))
  <2>1. CASE ~(x.obj[k].ctrl /\ id \in {None, x.obj[k].id})
    BY <1>1, <1>4, <2>1 DEF RescindOp
  <2>2. CASE x.obj[k].ctrl /\ id \in {None, x.obj[k].id}
    <3>. DEFINE y == Rescind(x, k)
    <3>1. RescindOp(c, x, k) = y
      BY <1>1, <2>2 DEF RescindOp
    <3>2. x \in Accessory /\ Sound(x)
      BY <1>4 DEF Rescinded, Leads
    <3>3. w.obj[k].ctrl /\ id \in {None, w.obj[k].id}
      BY <1>4, <2>2 DEF Rescinded
    <3>4. ~w.obj[k].marked /\ ~(k = w.asset /\ w.reboot)
      BY <1>4, <3>3 DEF RescindFits
    <3>5. x.obj[k].delegate
      BY <1>4, <3>4 DEF Rescinded, Sound, Sturdy, Rest, Listing
    <3>6. ~(k = x.asset /\ x.reboot)
      BY <1>4, <3>4 DEF Rescinded, Offers, None
    <3>7. /\ Sound(y) /\ y.order = x.order /\ y.asset \in {x.asset, None}
          /\ y.reboot => x.reboot
          /\ Silent(x, y)
          /\ \A j \in Offers : /\ y.obj[j].id = x.obj[j].id /\ y.obj[j].ctrl = x.obj[j].ctrl
                               /\ y.obj[j].delegate = x.obj[j].delegate
      BY <3>2, <3>5, <3>6, RescindSound
    <3>8. Leads(x, y)
      BY <3>2, RescindLeads
    <3>. HIDE DEF y
    <3>9. Leads(w, y)
      BY <1>4, <3>8, LeadsTrans DEF Rescinded
    <3>. QED  BY <1>4, <3>1, <3>7, <3>9 DEF Rescinded, Silent
  <2>. QED  BY <2>1, <2>2
<1>5. \A x : \A i \in 1..Len(w.order) :
        RescindP(c, x, i - 1) => RescindP(c, RescindOp(c, x, w.order[i]), i)
  BY <1>1, <1>2, <1>4 DEF RescindP
<1>6. RescindP(c, Fold("rescind", c, w, w.order), Len(w.order))
  <2>. DEFINE n == Len(w.order)
              P == [i \in 0..n |-> {y \in Accessory : RescindP(c, y, i)}]
  <2>1. \A y, i : RescindP(c, y, i) => y \in Accessory
    BY LeadsTyped DEF RescindP, Rescinded
  <2>2. w \in P[0]
    BY <1>2, <1>3
  <2>3. \A i \in 1..n : \A y \in P[i - 1] : FoldOp("rescind", c, y, w.order[i]) \in P[i]
    BY <1>2, <1>5, <2>1 DEF FoldOp
  <2>. HIDE DEF P, n
  <2>4. Fold("rescind", c, w, w.order) \in P[n]
    BY <1>2, <2>2, <2>3, FoldInvariant DEF n
  <2>. QED  BY <1>2, <2>4 DEF P, n
<1>7. AssetRescinded(c[1], c[2]) = Fold("rescind", c, c[1], c[1].order)
  BY RescindedIsFold
<1>. QED  BY <1>1, <1>6, <1>7 DEF RescindP

-----------------------------------------------------------------------------
(* Data transfer is resumed. *)

(* x has handed over requests since w. *)
Resumed(w, x) == Leads(w, x) /\ Alike(w, x) /\ Buffers(x)

ResumeP(c, x, i)  == Resumed(c, x)

(* DataTransferResume() goes through the list as well.                      *)
LEMMA ResumeIsFold ==
  ASSUME NEW c
  PROVE  DataTransferResume(c) = Fold("resume", c, [c EXCEPT !.allowed = TRUE], c.order)
<1>. DEFINE s == c.order
            I(g) == g = [u \in SUBSET (DOMAIN s) |->
                           IF u = {} THEN [c EXCEPT !.allowed = TRUE]
                           ELSE ResumeOp(c, g[u \ {Max(u)}], s[Max(u)])]
<1>1. \A g : I(g) <=> Iterates("resume", c, g, [c EXCEPT !.allowed = TRUE], s, DOMAIN s)
  BY DEF Iterates, FoldOp
<1>2. DataTransferResume(c) = (CHOOSE g : I(g))[DOMAIN s]
  BY Zenon DEF DataTransferResume, ResumeOp, FoldLeft, MapThenFoldSet
<1>. HIDE DEF I, s
<1>3. (CHOOSE g : I(g)) = (CHOOSE g : Iterates("resume", c, g, [c EXCEPT !.allowed = TRUE], s, DOMAIN s))
  BY <1>1, Zenon
<1>4. DataTransferResume(c) = Fold("resume", c, [c EXCEPT !.allowed = TRUE], s)
  BY <1>2, <1>3, FoldIsIterate
<1>. QED  BY <1>4 DEF s

LEMMA AllowedAlike ==
  ASSUME NEW x \in Accessory, Buffers(x), NEW b \in BOOLEAN
  PROVE  Resumed(x, [x EXCEPT !.allowed = b])
<1>. DEFINE y == [x EXCEPT !.allowed = b]
<1>1. y \in Accessory /\ Sent(x, y)
  BY FieldTyped, SentField, AccessoryBuffers
<1>2. /\ SameBut(x, y) /\ y.obj = x.obj /\ Buffers(y)
  BY DEF SameBut, Buffers, Accessory
<1>. QED  BY <1>1, <1>2 DEF Resumed, Leads, Alike, SameAsset, SameRequest

(* The requests of every asset may be sent again: all of them are sound.    *)
LEMMA ResumeSound ==
  ASSUME NEW w \in Accessory, Sound(w), Buffers(w)
  PROVE  Resumed(w, DataTransferResume(w))
<1>. DEFINE b == [w EXCEPT !.allowed = TRUE]
<1>1. Len(w.order) \in Nat /\ DOMAIN w.order = 1..Len(w.order)
      /\ \A i \in 1..Len(w.order) : w.order[i] \in Offers
  BY LenProperties, ElementOfSeq DEF Accessory
<1>2. ResumeP(w, b, 0)
  BY AllowedAlike DEF ResumeP
<1>. HIDE DEF b
<1>3. ASSUME NEW x, NEW k \in Offers, Resumed(w, x)
      PROVE  Resumed(w, ResumeOp(w, x, k))
  <2>1. CASE ~x.obj[k].ctrl
    BY <1>3, <2>1 DEF ResumeOp
  <2>2. CASE x.obj[k].ctrl
    <3>. DEFINE y == RequestDataContinue(x, k)
    <3>1. ResumeOp(w, x, k) = y
      BY <2>2 DEF ResumeOp
    <3>2. x \in Accessory /\ Alike(w, x) /\ Buffers(x) /\ Leads(w, x)
      BY <1>3 DEF Resumed, Leads
    <3>3. Sound(x)
      BY <3>2, SoundAlike
    <3>4. x.fault = "none" /\ RequestSound(x.obj[k].req)
      BY <3>2, <3>3, SoundFacts
    <3>5. Alike(x, y) /\ Buffers(y)
      BY <3>2, <3>4, ContinueAlike
    <3>6. Leads(x, y)
      BY <3>2, CourseLeads
    <3>. HIDE DEF y
    <3>. QED  BY <3>1, <3>2, <3>5, <3>6, AlikeTrans, LeadsTrans DEF Resumed
  <2>. QED  BY <2>1, <2>2
<1>4. \A x : \A i \in 1..Len(w.order) :
        ResumeP(w, x, i - 1) => ResumeP(w, ResumeOp(w, x, w.order[i]), i)
  BY <1>1, <1>3 DEF ResumeP
<1>5. ResumeP(w, Fold("resume", w, b, w.order), Len(w.order))
  <2>. DEFINE n == Len(w.order)
              P == [i \in 0..n |-> {y \in Accessory : ResumeP(w, y, i)}]
  <2>1. \A y, i : ResumeP(w, y, i) => y \in Accessory
    BY LeadsTyped DEF ResumeP, Resumed
  <2>2. b \in P[0]
    BY <1>1, <1>2, <2>1
  <2>3. \A i \in 1..n : \A y \in P[i - 1] : FoldOp("resume", w, y, w.order[i]) \in P[i]
    BY <1>1, <1>4, <2>1 DEF FoldOp
  <2>. HIDE DEF P, n
  <2>4. Fold("resume", w, b, w.order) \in P[n]
    BY <1>1, <2>2, <2>3, FoldInvariant DEF n
  <2>. QED  BY <1>1, <2>4 DEF P, n
<1>6. DataTransferResume(w) = Fold("resume", w, b, w.order)
  BY ResumeIsFold DEF b
<1>. QED  BY <1>5, <1>6 DEF ResumeP

-----------------------------------------------------------------------------
(* A message is received. *)

(* What the accessory relies on. *)
Fits(x, m) ==
  /\ m \in Message
  /\ m.type = "DATA" => Within(m.arg[1], m.arg[2], m.arg[3])
  /\ m.type = "OFFER" => /\ x.buf = NoMsg /\ m.k \in Offers \ Listed(x)
                         /\ m.arg[2] \in Versions /\ OfferFits(x, m.arg[2])
  /\ m.type = "RESCIND" => RescindFits(x, m.k)

(* What it does with it, S being the assets that may be new. *)
Receives(x, S, y) ==
  Leads(x, y) /\ Sound(y) /\ Buffers(y) /\ Listed(y) \subseteq Listed(x) \cup S

LEMMA ReceivesAlike ==
  ASSUME NEW x \in Accessory, Sound(x), NEW y, Resumed(x, y), NEW S
  PROVE  Receives(x, S, y)
BY SoundAlike DEF Receives, Resumed, Alike, SameBut, Listed

LEMMA ReceivesHere ==
  ASSUME NEW x \in Accessory, Sound(x), Buffers(x), NEW S
  PROVE  Receives(x, S, x)
BY LeadsHere DEF Receives

LEMMA ReceivesTrans ==
  ASSUME NEW x, NEW y, NEW z, NEW S, Receives(x, S, y), Receives(y, S, z)
  PROVE  Receives(x, S, z)
BY LeadsTrans DEF Receives

(* An answer that is no request.                                            *)
LEMMA ReplySound ==
  ASSUME NEW x \in Accessory, x.fault = "none", Buffers(x), NEW t \in {"ACK", "SYNC"}, NEW k \in Int
  PROVE  /\ Resumed(x, Reply(x, t, k))
         /\ x.buf = NoMsg => Reply(x, t, k).buf # NoMsg /\ Reply(x, t, k).pending = NoMsg
<1>. DEFINE m == Msg(t, k, NoArg)
            y == Reply(x, t, k)
<1>1. t \in Types /\ t \notin {"NOTHING", "REQUEST"} /\ NoArg \in Texts \X Int \X Int
  BY NoMsgTyped DEF Types
<1>2. m \in Message /\ m # NoMsg /\ Asks(m)
  BY <1>1, PlainAsks
<1>. HIDE DEF m
<1>3. y = send_message(x, m)
  BY DEF Reply, m
<1>4. Alike(x, y) /\ Buffers(y)
  BY <1>2, <1>3, SendAlike
<1>5. Leads(x, y)
  BY <1>2, <1>3, SendTyped, AnySent, AccessoryBuffers DEF Leads
<1>6. x.buf = NoMsg => y.buf # NoMsg /\ y.pending = NoMsg
  <2>. SUFFICES ASSUME x.buf = NoMsg
                PROVE  y.buf = m /\ y.pending = NoMsg
    BY <1>2
  <2>1. Asserted(x, x.sending = "none", "dangling buffer") = x
    BY DEF Asserted, Buffers
  <2>2. y = Passing([x EXCEPT !.buf = m, !.sending = "new", !.kick = TRUE])
    BY <1>3, <2>1 DEF send_message
  <2>. HIDE DEF y
  <2>. QED  BY <2>2 DEF Passing, Accessory, Buffers
<1>. QED  BY <1>4, <1>5, <1>6 DEF Resumed

(* apply_staged_assets(): what is staged is whole.                          *)
LEMMA AppliedReceives ==
  ASSUME NEW x \in Accessory, Sound(x), Buffers(x)
  PROVE  Receives(x, {}, apply_staged_assets(x))
<1>. DEFINE y == apply_and_reboot(x)
<1>1. CASE x.state # "STAGED"
  BY <1>1, ReceivesHere DEF apply_staged_assets
<1>2. CASE x.state = "STAGED"
  <2>1. apply_staged_assets(x) = y
    BY <1>2 DEF apply_staged_assets
  <2>2. /\ y.state = "APPLIED" /\ y.reboot /\ y.asset = x.asset /\ y.order = x.order /\ y.obj = x.obj
        /\ y.current = x.current /\ y.transfer = x.transfer /\ y.flash = x.flash /\ y.hash = x.hash
        /\ y.fault = x.fault /\ y.buf = x.buf /\ y.pending = x.pending /\ y.sending = x.sending
    BY DEF apply_and_reboot, Accessory
  <2>3. Leads(x, y)
    <3>1. MaxOffers \in Nat \ {0}
      BY Lengths
    <3>2. 1 \in Offers
      BY <3>1 DEF Offers
    <3>. QED  BY <3>2, CourseLeads
  <2>. HIDE DEF y
  <2>4. x.asset # None /\ x.obj[x.asset].req.left <= 0
    <3>1. x.asset # None
      BY <1>2, SoundFacts DEF Owner
    <3>2. ~(x.obj[x.asset].req.left > 0)
      BY <1>2, <3>1 DEF Sound, Sturdy, Posed
    <3>3. x.obj[x.asset].req.left \in Int
      BY <3>1, OwnAsset, ObjTyped DEF Asset, Request
    <3>. QED  BY <3>1, <3>2, <3>3
  <2>5. x.obj[x.asset].req.left \in Int
    BY <2>4, OwnAsset, ObjTyped DEF Asset, Request
  <2>6. Owner(y) /\ Listing(y) /\ Requests(y)
    BY <1>2, <2>2, SoundFacts DEF Owner, Listing, Requests, Listed
  <2>7. Rest(y)
    BY <2>2, <2>6 DEF Sound, Sturdy, Rest, DoneUpTo, Done
  <2>8. Posed(y) /\ Live(y)
    BY <1>2, <2>2, <2>4, <2>5 DEF Sound, Sturdy, Posed, Live
  <2>9. Complete(y)
    BY <1>2, <2>2 DEF Sound, Sturdy, Complete, DoneUpTo, Done
  <2>10. Buffers(y) /\ Listed(y) = Listed(x)
    BY <2>2 DEF Buffers, Listed
  <2>. QED  BY <2>1, <2>3, <2>7, <2>8, <2>9, <2>10 DEF Receives, Sound, Sturdy
<1>. QED  BY <1>1, <1>2

(* The acknowledgement, sent first, spoils nothing that the message relies  *)
(* on.                                                                      *)
LEMMA OfferKept ==
  ASSUME NEW x, NEW y, Alike(x, y), NEW v, OfferFits(x, v), x.asset \in Offers \/ x.state # "ORPHANED"
  PROVE  OfferFits(y, v)
BY DEF OfferFits, Alike, SameBut, SameAsset

LEMMA RescindKept ==
  ASSUME NEW x \in Accessory, NEW y, Alike(x, y), NEW id, RescindFits(x, id)
  PROVE  RescindFits(y, id)
BY OwnAsset DEF RescindFits, Alike, SameBut, SameAsset, Listed

(* A message that is acknowledged and processed.                            *)
LEMMA AcknowledgedReceives ==
  ASSUME NEW x \in Accessory, Sound(x), Buffers(x), NEW m, Fits(x, m),
         m.type \in {"OFFER", "RESCIND", "PAUSE", "RESUME"}
  PROVE  Receives(x, IF m.type = "OFFER" THEN {m.k} ELSE {}, Acknowledged(x, m))
<1>. DEFINE b == Reply(x, "ACK", m.k)
            S == IF m.type = "OFFER" THEN {m.k} ELSE {}
            y == Processed(b, m)
<1>1. m \in Message /\ m.k \in Int
  BY DEF Fits, Message
<1>2. Resumed(x, b) /\ (x.buf = NoMsg => b.buf # NoMsg /\ b.pending = NoMsg)
  BY <1>1, SoundFacts, ReplySound
<1>3. Acknowledged(x, m) = IF b.status THEN y ELSE b
  BY DEF Acknowledged
<1>. HIDE DEF b
<1>4. b \in Accessory /\ Alike(x, b) /\ Buffers(b)
  BY <1>2 DEF Resumed, Leads
<1>5. Sound(b)
  BY <1>4, SoundAlike
<1>6. Receives(x, S, b)
  BY <1>2, ReceivesAlike
<1>7. CASE m.type = "OFFER"
  <2>1. y = AssetOffered(b, m.k, m.arg[2])
    BY <1>7 DEF Processed
  <2>2. x.asset \in Offers \/ x.state # "ORPHANED"
    BY SoundFacts DEF Owner
  <2>3. OfferFits(b, m.arg[2]) /\ m.k \in Offers /\ m.k \notin Listed(b)
        /\ b.buf # NoMsg /\ b.pending = NoMsg /\ m.arg[2] \in Versions
    BY <1>2, <1>4, <1>7, <2>2, OfferKept DEF Fits, Alike, SameBut, Listed
  <2>. HIDE DEF y
  <2>4. PICK k \in Offers : k = m.k
    BY <2>3
  <2>5. PICK v \in Versions : v = m.arg[2]
    BY <2>3
  <2>6. /\ y \in Accessory /\ Sent(b, y) /\ Sound(y) /\ Buffers(y)
        /\ Listed(y) \subseteq Listed(b) \cup {k}
    BY <1>4, <1>5, <2>1, <2>3, <2>4, <2>5, AssetOfferedSound
  <2>7. Receives(b, S, y)
    BY <1>7, <2>4, <2>6 DEF Receives, Leads
  <2>. QED  BY <1>3, <1>6, <2>7, ReceivesTrans
<1>8. CASE m.type = "RESCIND"
  <2>1. y = AssetRescinded(b, m.k)
    BY <1>8 DEF Processed
  <2>2. RescindFits(b, m.k)
    BY <1>4, <1>8, RescindKept DEF Fits
  <2>3. Rescinded(b, y)
    BY <1>4, <1>5, <2>1, <2>2, AssetRescindedSound
  <2>. HIDE DEF y
  <2>4. Receives(b, S, y)
    BY <1>4, <2>3 DEF Receives, Rescinded, Buffers, Silent, Listed
  <2>. QED  BY <1>3, <1>6, <2>4, ReceivesTrans
<1>9. CASE m.type = "PAUSE"
  <2>1. y = [b EXCEPT !.allowed = FALSE]
    BY <1>9 DEF Processed
  <2>2. Resumed(b, y)
    BY <1>4, <2>1, AllowedAlike
  <2>3. Receives(b, S, y)
    BY <1>4, <1>5, <2>2, ReceivesAlike
  <2>. QED  BY <1>3, <1>6, <2>3, ReceivesTrans
<1>10. CASE m.type = "RESUME"
  <2>1. y = b \/ y = DataTransferResume(b)
    BY <1>10 DEF Processed
  <2>2. Resumed(b, DataTransferResume(b))
    BY <1>4, <1>5, ResumeSound
  <2>3. Receives(b, S, y)
    BY <1>4, <1>5, <2>1, <2>2, ReceivesAlike, ReceivesHere
  <2>. QED  BY <1>3, <1>6, <2>3, ReceivesTrans
<1>. QED  BY <1>7, <1>8, <1>9, <1>10

(* uarpAccessoryRecvMessage(): every message that fits leaves a sound       *)
(* accessory, and buffers that agree.                                       *)
LEMMA MessageReceives ==
  ASSUME NEW x \in Accessory, Sound(x), Buffers(x), NEW m, Fits(x, m)
  PROVE  Receives(x, IF m.type = "OFFER" THEN {m.k} ELSE {}, RecvMessage(x, m))
<1>. DEFINE y == RecvMessage(x, m)
            S == IF m.type = "OFFER" THEN {m.k} ELSE {}
<1>1. CASE m.type \in {"OFFER", "RESCIND", "PAUSE", "RESUME"}
  <2>1. y = Acknowledged(x, m)
    BY <1>1 DEF RecvMessage
  <2>. QED  BY <1>1, <2>1, AcknowledgedReceives
<1>2. CASE m.type = "INFO"
  <2>1. y = Reply(x, "ACK", None)
    BY <1>2 DEF RecvMessage
  <2>2. None \in Int
    BY DEF None
  <2>3. Resumed(x, y)
    BY <2>1, <2>2, SoundFacts, ReplySound
  <2>. QED  BY <2>3, ReceivesAlike
<1>3. CASE m.type = "APPLY"
  <2>. DEFINE b == apply_staged_assets(x)
  <2>1. y = Reply(b, "ACK", None)
    BY <1>3 DEF RecvMessage
  <2>2. None \in Int
    BY DEF None
  <2>3. Receives(x, {}, b)
    BY AppliedReceives
  <2>. HIDE DEF b
  <2>4. b \in Accessory /\ Sound(b) /\ Buffers(b)
    BY <2>3 DEF Receives, Leads
  <2>5. Resumed(b, y)
    BY <2>1, <2>2, <2>4, SoundFacts, ReplySound
  <2>. HIDE DEF y
  <2>6. Receives(b, {}, y)
    BY <2>4, <2>5, ReceivesAlike
  <2>7. Receives(x, {}, y)
    BY <2>3, <2>6, ReceivesTrans
  <2>. QED  BY <1>3, <2>7 DEF y
<1>4. CASE m.type = "DATA"
  <2>1. CASE FoundById(x, m.k) = {}
    <3>1. y = x
      BY <1>4, <2>1 DEF RecvMessage
    <3>. QED  BY <3>1, ReceivesHere
  <2>2. CASE FoundById(x, m.k) # {}
    <3>. DEFINE k == CHOOSE k \in FoundById(x, m.k) : TRUE
    <3>1. y = AssetDataResponse(x, k, m.arg)
      BY <1>4, <2>2 DEF RecvMessage
    <3>2. k \in FoundById(x, m.k)
      BY <2>2
    <3>3. k \in Offers /\ x.obj[k].ctrl
      BY <3>2, OwnAsset DEF FoundById
    <3>4. PICK i \in Offers : i = k
      BY <3>3
    <3>. HIDE DEF k, y
    <3>5. Within(m.arg[1], m.arg[2], m.arg[3])
      BY <1>4 DEF Fits
    <3>6. Reaches(x, y)
      BY <3>1, <3>3, <3>4, <3>5, DataReaches
    <3>7. Leads(x, y)
      BY <3>1, <3>4, DataLeads
    <3>8. Receives(x, S, y)
      BY <3>6, <3>7 DEF Reaches, Receives, Listed
    <3>. QED  BY <3>8 DEF y
  <2>. QED  BY <2>1, <2>2
<1>5. CASE m.type \notin {"OFFER", "RESCIND", "PAUSE", "RESUME", "INFO", "APPLY", "DATA"}
  <2>1. y = x
    BY <1>5 DEF RecvMessage
  <2>. QED  BY <2>1, ReceivesHere
<1>. QED  BY <1>1, <1>2, <1>3, <1>4, <1>5

-----------------------------------------------------------------------------
(* The service around the accessory. *)

(* fmna_uarp_controller_add()                                               *)
LEMMA AddReceives ==
  ASSUME NEW x \in Accessory, Sound(x), Buffers(x)
  PROVE  Resumed(x, controller_add(x))
<1>. DEFINE b == [x EXCEPT !.allowed = TRUE]
<1>1. controller_add(x) = Reply(b, "SYNC", None) /\ None \in Int
  BY DEF controller_add, None
<1>2. Resumed(x, b)
  BY AllowedAlike
<1>. HIDE DEF b
<1>3. b \in Accessory /\ Sound(b) /\ Buffers(b)
  BY <1>2, SoundAlike DEF Resumed, Leads
<1>4. Resumed(b, Reply(b, "SYNC", None))
  BY <1>1, <1>3, SoundFacts, ReplySound
<1>. QED  BY <1>1, <1>2, <1>4, AlikeTrans, LeadsTrans DEF Resumed

(* The accessory as the next event finds it. *)
Settled(x) == [x EXCEPT !.kick = FALSE, !.io = TRUE, !.status = TRUE]

(* What an event leaves behind says nothing of the asset.                   *)
LEMMA SettledSound ==
  ASSUME NEW x \in Accessory, Sound(x), Buffers(x)
  PROVE  LET y == Settled(x) IN
         /\ y \in Accessory /\ Sound(y) /\ Buffers(y) /\ ~y.kick
         /\ y.sending = x.sending /\ Listed(y) = Listed(x)
<1>. DEFINE b == [x EXCEPT !.kick = FALSE]
            c == [b EXCEPT !.io = TRUE]
            y == Settled(x)
<1>1. y = [c EXCEPT !.status = TRUE]
  BY DEF Settled
<1>2. b \in Accessory
  BY FieldTyped
<1>. HIDE DEF b
<1>3. c \in Accessory
  BY <1>2, FieldTyped
<1>. HIDE DEF c
<1>4. y \in Accessory
  BY <1>1, <1>3, FieldTyped
<1>5. /\ SameBut(x, y) /\ y.obj = x.obj /\ Buffers(y) /\ ~y.kick /\ y.sending = x.sending
  BY DEF Settled, SameBut, Buffers, Accessory
<1>. HIDE DEF y
<1>6. Alike(x, y)
  BY <1>5 DEF Alike, SameAsset, SameRequest
<1>7. Sound(y) /\ Listed(y) = Listed(x)
  BY <1>6, SoundAlike DEF Alike, SameBut, Listed
<1>. QED  BY <1>4, <1>5, <1>7 DEF y

(* The flash may work or not.                                               *)
LEMMA FlashSound ==
  ASSUME NEW x \in Accessory, Sound(x), Buffers(x), NEW io \in BOOLEAN
  PROVE  LET y == [x EXCEPT !.io = io] IN
         Leads(x, y) /\ Alike(x, y) /\ Buffers(y) /\ y.buf = x.buf
<1>. DEFINE y == [x EXCEPT !.io = io]
<1>1. y \in Accessory /\ Sent(x, y)
  BY FieldTyped, SentField, AccessoryBuffers
<1>2. SameBut(x, y) /\ y.obj = x.obj /\ Buffers(y) /\ y.buf = x.buf
  BY DEF SameBut, Buffers, Accessory
<1>. QED  BY <1>1, <1>2 DEF Leads, Alike, SameAsset, SameRequest

(* fmna_uarp_send_message_complete(): the message that waited is next.      *)
LEMMA CompleteSound ==
  ASSUME NEW x \in Accessory, Sound(x), Buffers(x), ~x.kick
  PROVE  LET y == send_message_complete(x) IN
         /\ y \in Accessory /\ Sound(y) /\ Buffers(y) /\ Listed(y) = Listed(x)
         /\ y.sending = IF y.kick THEN "new" ELSE "none"
<1>. DEFINE y == send_message_complete(x)
<1>1. CASE x.pending = NoMsg
  <2>. DEFINE b == [x EXCEPT !.buf = NoMsg]
  <2>1. y = [b EXCEPT !.sending = "none"]
    BY <1>1 DEF send_message_complete
  <2>2. b \in Accessory
    BY FieldTyped, NoMsgTyped
  <2>3. SameBut(x, y) /\ y.obj = x.obj /\ y.buf = NoMsg /\ y.pending = NoMsg
        /\ y.sending = "none" /\ ~y.kick
    BY <1>1, <2>1 DEF SameBut, Accessory
  <2>. HIDE DEF b, y
  <2>4. y \in Accessory
    BY <2>1, <2>2, FieldTyped
  <2>5. Buffers(y)
    BY <2>3 DEF Buffers, Asks, NoMsg, Msg
  <2>6. Alike(x, y)
    BY <2>3 DEF Alike, SameAsset, SameRequest
  <2>7. Sound(y) /\ Listed(y) = Listed(x)
    BY <2>6, SoundAlike DEF Alike, SameBut, Listed
  <2>. QED  BY <2>3, <2>4, <2>5, <2>7 DEF y
<1>2. CASE x.pending # NoMsg
  <2>. DEFINE b == [x EXCEPT !.buf = x.pending]
              c == [b EXCEPT !.pending = NoMsg]
              d == [c EXCEPT !.sending = "new"]
  <2>1. y = [d EXCEPT !.kick = TRUE]
    BY <1>2 DEF send_message_complete
  <2>2. SameBut(x, y) /\ y.obj = x.obj /\ y.buf = x.pending /\ y.pending = NoMsg
        /\ y.sending = "new" /\ y.kick = TRUE
    BY <2>1 DEF SameBut, Accessory
  <2>3. x.pending \in Message
    BY DEF Accessory
  <2>4. b \in Accessory
    BY <2>3, FieldTyped
  <2>. HIDE DEF b, y
  <2>5. c \in Accessory
    BY <2>4, FieldTyped, NoMsgTyped
  <2>. HIDE DEF c
  <2>6. d \in Accessory
    BY <2>5, FieldTyped
  <2>. HIDE DEF d
  <2>7. y \in Accessory
    BY <2>1, <2>6, FieldTyped
  <2>8. Buffers(y)
    BY <1>2, <2>2 DEF Buffers, Asks, NoMsg, Msg
  <2>9. Alike(x, y)
    BY <2>2 DEF Alike, SameAsset, SameRequest
  <2>10. Sound(y) /\ Listed(y) = Listed(x)
    BY <2>9, SoundAlike DEF Alike, SameBut, Listed
  <2>. QED  BY <2>2, <2>7, <2>8, <2>10 DEF y
<1>. QED  BY <1>1, <1>2

(* The indication is under way.                                             *)
LEMMA SendingSound ==
  ASSUME NEW x \in Accessory, Sound(x), Buffers(x), x.sending = "new"
  PROVE  LET y == [x EXCEPT !.sending = "sent"] IN
         /\ y \in Accessory /\ Sound(y) /\ Buffers(y) /\ Listed(y) = Listed(x)
         /\ y.sending = "sent" /\ y.kick = x.kick
<1>. DEFINE y == [x EXCEPT !.sending = "sent"]
<1>1. y \in Accessory
  BY FieldTyped
<1>2. SameBut(x, y) /\ y.obj = x.obj /\ Buffers(y) /\ y.sending = "sent" /\ y.kick = x.kick
  BY DEF SameBut, Buffers, Accessory
<1>. HIDE DEF y
<1>3. Alike(x, y)
  BY <1>2 DEF Alike, SameAsset, SameRequest
<1>4. Sound(y) /\ Listed(y) = Listed(x)
  BY <1>3, SoundAlike DEF Alike, SameBut, Listed
<1>. QED  BY <1>1, <1>2, <1>4 DEF y

(* fmna_uarp_controller_remove() frees the buffers; the assets of the       *)
(* controller are orphaned or freed.                                        *)
LEMMA DisconnectedSound ==
  ASSUME NEW x \in Accessory, Sound(x)
  PROVE  LET y == [controller_remove(x) EXCEPT !.sending = "none"] IN
         /\ y \in Accessory /\ Sound(y) /\ Buffers(y) /\ Listed(y) \subseteq Listed(x)
         /\ y.sending = "none" /\ y.kick = x.kick
<1>. DEFINE w == [x EXCEPT !.buf = NoMsg]
            b == [w EXCEPT !.pending = NoMsg]
            z == controller_remove(x)
            y == [z EXCEPT !.sending = "none"]
<1>1. z = CleanupFor(b, TRUE)
  BY DEF controller_remove
<1>2. w \in Accessory
  BY FieldTyped, NoMsgTyped
<1>3. SameBut(x, b) /\ b.obj = x.obj /\ b.buf = NoMsg /\ b.pending = NoMsg /\ b.kick = x.kick
  BY DEF SameBut, Accessory
<1>. HIDE DEF w
<1>4. b \in Accessory
  BY <1>2, FieldTyped, NoMsgTyped
<1>. HIDE DEF b, z
<1>5. Alike(x, b)
  BY <1>3 DEF Alike, SameAsset, SameRequest
<1>6. Sound(b) /\ Listed(b) = Listed(x)
  BY <1>5, SoundAlike DEF Alike, SameBut, Listed
<1>7. Sound(z) /\ Silent(b, z) /\ Listed(z) \subseteq Listed(b)
  BY <1>1, <1>4, <1>6, CleanupForSound
<1>8. z \in Accessory
  BY <1>1, <1>4, CleanupForTyped
<1>9. y \in Accessory
  BY <1>8, FieldTyped
<1>10. /\ SameBut(z, y) /\ y.obj = z.obj /\ y.sending = "none" /\ y.kick = x.kick
       /\ y.buf = NoMsg /\ y.pending = NoMsg
  BY <1>3, <1>7, <1>8 DEF SameBut, Accessory, Silent
<1>. HIDE DEF y
<1>11. Buffers(y)
  BY <1>10 DEF Buffers, Asks, NoMsg, Msg
<1>12. Alike(z, y)
  BY <1>10 DEF Alike, SameAsset, SameRequest
<1>13. Sound(y) /\ Listed(y) = Listed(z)
  BY <1>7, <1>8, <1>12, SoundAlike DEF Alike, SameBut, Listed
<1>. QED  BY <1>6, <1>7, <1>9, <1>10, <1>11, <1>13 DEF y, z

-----------------------------------------------------------------------------
(* What a step of the asset k leaves of the others, and what it hands over. *)

Calm(x) == x \in Accessory /\ x.state # "ORPHANED"

SameIds(x, y) ==
  y.order = x.order /\ \A j \in Offers : y.obj[j].id = x.obj[j].id /\ y.obj[j].ctrl = x.obj[j].ctrl

Utters(m, id) == m.type = "NOTIFICATION" \/ (m.type = "REQUEST" /\ m.k = id)

(* A message goes where there was none. *)
Says(x, y, id) ==
  /\ y.buf = x.buf \/ (x.buf = NoMsg /\ Utters(y.buf, id))
  /\ y.pending = x.pending \/ (x.pending = NoMsg /\ Utters(y.pending, id))

Moves(x, y, k) ==
  /\ Calm(y) /\ SameIds(x, y) /\ y.allowed = x.allowed
  /\ y.state = "ACTIVE" => x.state = "ACTIVE" /\ y.asset = x.asset
  /\ Says(x, y, x.obj[k].id)

SameBuffers(x, y) == y.buf = x.buf /\ y.pending = x.pending

Quiet(x, y, k) == Moves(x, y, k) /\ (y.state = "ACTIVE" => SameBuffers(x, y))

(* The request for the next unit of the asset k. *)
TokenOf(x, k) ==
  LET r == x.obj[k].req IN Msg("REQUEST", x.obj[k].id, <<r.type, r.of, r.rel + r.got>>)

Adds(x, y, m) ==
  IF x.buf = NoMsg THEN y.buf = m /\ y.pending = x.pending ELSE y.buf = x.buf /\ y.pending = m

(* The next unit of the asset k is asked for, unless nothing is left to ask *)
(* for or it may not be.                                                    *)
Asked(x, y, k) ==
  /\ Moves(x, y, k)
  /\ y.state = "ACTIVE" /\ x.pending = NoMsg =>
       \/ Adds(x, y, TokenOf(y, k))
       \/ SameBuffers(x, y) /\ (~x.allowed \/ y.obj[k].req.left = 0)

(* Steps add up.                                                            *)
LEMMA MovesTrans ==
  ASSUME NEW x, NEW y, NEW z, NEW k \in Offers, Moves(x, y, k), Moves(y, z, k)
  PROVE  Moves(x, z, k)
<1>1. y.obj[k].id = x.obj[k].id
  BY DEF Moves, SameIds
<1>2. \A m, i : Utters(m, i) => m # NoMsg
  BY DEF Utters, NoMsg, Msg
<1>3. Says(x, z, x.obj[k].id)
  BY <1>1, <1>2 DEF Moves, Says
<1>. QED  BY <1>3 DEF Moves, SameIds

(* So do those that hand over nothing.                                      *)
LEMMA QuietTrans ==
  ASSUME NEW x, NEW y, NEW z, NEW k \in Offers, Quiet(x, y, k), Quiet(y, z, k)
  PROVE  Quiet(x, z, k)
BY MovesTrans DEF Quiet, SameBuffers, Moves

(* After a step that hands over nothing, the next unit is still asked for.  *)
LEMMA QuietAsked ==
  ASSUME NEW x, NEW y, NEW z, NEW k \in Offers, Quiet(x, y, k), Asked(y, z, k)
  PROVE  Asked(x, z, k)
<1>1. Moves(x, z, k)
  BY MovesTrans DEF Quiet, Asked
<1>2. ASSUME z.state = "ACTIVE", x.pending = NoMsg
      PROVE  \/ Adds(x, z, TokenOf(z, k))
             \/ SameBuffers(x, z) /\ (~x.allowed \/ z.obj[k].req.left = 0)
  <2>1. y.state = "ACTIVE" /\ SameBuffers(x, y) /\ y.allowed = x.allowed
    BY <1>2 DEF Quiet, Asked, Moves
  <2>2. \/ Adds(y, z, TokenOf(z, k))
        \/ SameBuffers(y, z) /\ (~y.allowed \/ z.obj[k].req.left = 0)
    BY <1>2, <2>1 DEF Asked, SameBuffers
  <2>. QED  BY <2>1, <2>2 DEF Adds, SameBuffers
<1>. QED  BY <1>1, <1>2 DEF Asked

(* Other fields of the accessory, and of its assets, say nothing.           *)
LEMMA FieldsQuiet ==
  ASSUME NEW x, Calm(x), NEW y \in Accessory, NEW k,
         y.state = x.state \/ y.state \in {"NONE", "FAILED", "STAGED", "APPLIED"},
         y.asset = x.asset \/ y.state # "ACTIVE",
         y.allowed = x.allowed, SameIds(x, y), SameBuffers(x, y)
  PROVE  Quiet(x, y, k)
BY DEF Quiet, Moves, Calm, Says, SameBuffers

(* Nothing is handed over where nothing is done.                            *)
LEMMA QuietHere == ASSUME NEW x, Calm(x), NEW k PROVE Quiet(x, x, k)
BY DEF Quiet, Moves, Calm, Says, SameBuffers, SameIds

SameCourse(x, y) ==
  /\ y.state = x.state /\ y.asset = x.asset /\ y.allowed = x.allowed /\ y.order = x.order
  /\ y.obj = x.obj /\ y.buf = x.buf /\ y.pending = x.pending

(* Nor where the course of no asset changes.                                *)
LEMMA SameQuiet ==
  ASSUME NEW x, Calm(x), NEW y \in Accessory, SameCourse(x, y), NEW k
  PROVE  Quiet(x, y, k)
BY FieldsQuiet DEF SameIds, SameBuffers, SameCourse

(* Nor by an assignment of one of these fields.                             *)
LEMMA QuietField ==
  ASSUME NEW x, Calm(x), NEW k
  PROVE  /\ Quiet(x, Failing(x), k) /\ Quiet(x, Passing(x), k)
         /\ \A b \in BOOLEAN, n \in Faults : Quiet(x, Asserted(x, b, n), k)
         /\ \A v \in Int : Quiet(x, [x EXCEPT !.staged = v], k)
         /\ \A v \in Int : Quiet(x, [x EXCEPT !.current = v], k)
         /\ \A v \in BOOLEAN : Quiet(x, [x EXCEPT !.fast = v], k)
         /\ \A v \in BOOLEAN : Quiet(x, [x EXCEPT !.transfer = v], k)
         /\ \A v \in BOOLEAN : Quiet(x, [x EXCEPT !.reboot = v], k)
         /\ \A v \in [n: Int, ok: BOOLEAN] : Quiet(x, [x EXCEPT !.hash = v], k)
         /\ \A v \in {"NONE", "FAILED", "STAGED", "APPLIED"} : Quiet(x, [x EXCEPT !.state = v], k)
<1>1. \A y \in Accessory : SameCourse(x, y) => Quiet(x, y, k)
  BY SameQuiet
<1>2. x \in Accessory
  BY DEF Calm
<1>3. /\ SameCourse(x, Failing(x)) /\ SameCourse(x, Passing(x))
      /\ \A b, n : SameCourse(x, Asserted(x, b, n))
      /\ \A v : /\ SameCourse(x, [x EXCEPT !.staged = v]) /\ SameCourse(x, [x EXCEPT !.current = v])
               /\ SameCourse(x, [x EXCEPT !.fast = v]) /\ SameCourse(x, [x EXCEPT !.transfer = v])
               /\ SameCourse(x, [x EXCEPT !.reboot = v]) /\ SameCourse(x, [x EXCEPT !.hash = v])
  BY <1>2 DEF Accessory, Failing, Passing, Asserted, SameCourse
<1>4. ASSUME NEW v \in {"NONE", "FAILED", "STAGED", "APPLIED"}
      PROVE  Quiet(x, [x EXCEPT !.state = v], k)
  <2>. DEFINE y == [x EXCEPT !.state = v]
  <2>1. v \in AssetStates
    BY DEF AssetStates
  <2>2. y \in Accessory
    BY <1>2, <2>1, FieldTyped
  <2>3. y.state = v /\ y.allowed = x.allowed /\ SameIds(x, y) /\ SameBuffers(x, y)
    BY <1>2 DEF Accessory, SameIds, SameBuffers
  <2>. HIDE DEF y
  <2>4. Quiet(x, y, k)
    BY <2>2, <2>3, FieldsQuiet
  <2>. QED  BY <2>4 DEF y
<1>. QED  BY <1>1, <1>2, <1>3, <1>4, StatusTyped, AssertedTyped, FieldTyped

(* Nor by one of the asset itself, but for its identifier and its owner.    *)
LEMMA QuietAsset ==
  ASSUME NEW x, Calm(x), NEW k \in Offers, NEW o \in Asset,
         o.id = x.obj[k].id, o.ctrl = x.obj[k].ctrl
  PROVE  Quiet(x, [x EXCEPT !.obj[k] = o], k)
<1>. DEFINE y == [x EXCEPT !.obj[k] = o]
<1>1. x \in Accessory /\ y \in Accessory
  BY ObjTyped DEF Calm
<1>2. /\ y.state = x.state /\ y.asset = x.asset /\ y.allowed = x.allowed /\ SameBuffers(x, y)
      /\ SameIds(x, y)
  BY <1>1 DEF Accessory, SameIds, SameBuffers
<1>. HIDE DEF y
<1>3. Quiet(x, y, k)
  BY <1>1, <1>2, FieldsQuiet
<1>. QED  BY <1>3 DEF y

-----------------------------------------------------------------------------
(* Handing over, and the functions of the course of an asset. *)

(* send_message() hands the message over, unless two are waiting.           *)
LEMMA SendMoves ==
  ASSUME NEW x, Calm(x), NEW k \in Offers, NEW m \in Message, Utters(m, x.obj[k].id)
  PROVE  LET s == send_message(x, m) IN
         /\ Moves(x, s, k) /\ s.obj = x.obj /\ s.state = x.state
         /\ s.status => Adds(x, s, m)
         /\ x.pending = NoMsg => s.status
<1>. DEFINE s == send_message(x, m)
            b == Asserted(x, x.sending = "none", "dangling buffer")
            d == [b EXCEPT !.buf = m, !.sending = "new", !.kick = TRUE]
            p == [x EXCEPT !.pending = m]
<1>1. x \in Accessory /\ s \in Accessory
  BY SendTyped DEF Calm
<1>2. s = IF x.buf = NoMsg THEN Passing(d) ELSE IF x.pending = NoMsg THEN Passing(p) ELSE Failing(x)
  BY Zenon DEF send_message
<1>3. /\ b \in Accessory /\ b.obj = x.obj /\ b.state = x.state /\ b.order = x.order
      /\ b.allowed = x.allowed /\ b.pending = x.pending /\ b.asset = x.asset
  <2>1. (x.sending = "none") \in BOOLEAN /\ "dangling buffer" \in Faults
    BY DEF Faults
  <2>2. b \in Accessory
    BY <1>1, <2>1, AssertedTyped
  <2>. QED  BY <1>1, <2>2 DEF Asserted, Accessory
<1>. HIDE DEF b
<1>4. /\ s.obj = x.obj /\ s.state = x.state /\ s.order = x.order /\ s.allowed = x.allowed
      /\ s.asset = x.asset
      /\ \/ x.buf = NoMsg /\ s.buf = m /\ s.pending = x.pending /\ s.status
         \/ x.buf # NoMsg /\ x.pending = NoMsg /\ s.buf = x.buf /\ s.pending = m /\ s.status
         \/ x.buf # NoMsg /\ x.pending # NoMsg /\ s.buf = x.buf /\ s.pending = x.pending /\ ~s.status
  <2>. HIDE DEF s
  <2>. QED  BY <1>1, <1>2, <1>3 DEF Accessory, Passing, Failing
<1>. HIDE DEF s
<1>5. /\ Moves(x, s, k)
      /\ s.status => Adds(x, s, m)
      /\ x.pending = NoMsg => s.status
  BY <1>1, <1>4 DEF Moves, SameIds, Says, Calm, Adds
<1>. QED  BY <1>4, <1>5 DEF s

(* uarpPlatform...Notification: a message of its own.                       *)
LEMMA NotificationMoves ==
  ASSUME NEW x, Calm(x), NEW k \in Offers, NEW w \in Texts
  PROVE  LET s == Notification(x, k, w) IN Moves(x, s, k) /\ s.obj = x.obj /\ s.state = x.state
<1>1. x.obj[k].id \in Int
  BY ObjTyped DEF Asset, Calm
<1>2. "NOTIFICATION" \in Types /\ <<w, 0, 0>> \in Texts \X Int \X Int
  BY DEF Types
<1>3. \A i, g : Utters(Msg("NOTIFICATION", i, g), i)
  BY DEF Utters, Msg
<1>. QED  BY <1>1, <1>2, <1>3, MessageTyped, SendMoves DEF Notification

(* uarpPlatformAssetRequestDataContinue()                                   *)
LEMMA ContinueAsks ==
  ASSUME NEW x, Calm(x), NEW k \in Offers
  PROVE  Asked(x, RequestDataContinue(x, k), k)
<1>. DEFINE m == TokenOf(x, k)
            s == send_message(x, m)
            y == [s EXCEPT !.obj[k].req.out = TRUE]
            c == RequestDataContinue(x, k)
<1>1. x \in Accessory /\ x.obj[k] \in Asset /\ c \in Accessory
  BY ObjTyped, ContinueTyped DEF Calm
<1>2. m \in Message /\ Utters(m, x.obj[k].id)
  <2>. DEFINE r == x.obj[k].req
              g == <<r.type, r.of, r.rel + r.got>>
  <2>1. r \in Request /\ x.obj[k].id \in Int
    BY <1>1 DEF Asset
  <2>2. m = Msg("REQUEST", x.obj[k].id, g)
    BY DEF TokenOf
  <2>. HIDE DEF r, m
  <2>3. g \in Texts \X Int \X Int /\ "REQUEST" \in Types
    BY <2>1 DEF Request, Texts, Types
  <2>4. \A i, t : Utters(Msg("REQUEST", i, t), i)
    BY DEF Utters, Msg
  <2>. QED  BY <2>1, <2>2, <2>3, <2>4, MessageTyped
<1>3. c = IF x.obj[k].req.left = 0 \/ ~x.allowed THEN Passing(x) ELSE IF s.status THEN y ELSE s
  BY Zenon DEF RequestDataContinue, TokenOf
<1>4. /\ Moves(x, s, k) /\ s.obj = x.obj /\ s.state = x.state /\ (s.status => Adds(x, s, m))
      /\ x.pending = NoMsg => s.status
  BY <1>2, SendMoves
<1>. HIDE DEF s
<1>5. CASE c = Passing(x) /\ (x.obj[k].req.left = 0 \/ ~x.allowed)
  <2>1. Quiet(x, c, k)
    BY <1>5, QuietField
  <2>2. c.obj = x.obj /\ SameBuffers(x, c)
    <3>. HIDE DEF c
    <3>. QED  BY <1>1, <1>5 DEF Passing, Accessory, SameBuffers
  <2>. QED  BY <1>5, <2>1, <2>2 DEF Asked, Quiet
<1>6. CASE c = s /\ ~s.status
  BY <1>4, <1>6 DEF Asked
<1>7. CASE c = y /\ s.status
  <2>1. s \in Accessory /\ s.obj[k] \in Asset
    BY <1>4, ObjTyped DEF Moves, Calm
  <2>. DEFINE o == [s.obj[k] EXCEPT !.req.out = TRUE]
  <2>2. o \in Asset /\ o.id = s.obj[k].id /\ o.ctrl = s.obj[k].ctrl
    <3>1. o \in Asset
      BY <2>1, AssetField
    <3>. QED  BY <2>1, <3>1 DEF Asset
  <2>3. SameRequest(s.obj[k].req, o.req)
    <3>. DEFINE q == s.obj[k].req
    <3>1. q \in Request /\ o.req = [q EXCEPT !.out = TRUE]
      BY <2>1 DEF Asset
    <3>. HIDE DEF q, o
    <3>2. SameRequest(q, [q EXCEPT !.out = TRUE])
      BY <3>1 DEF SameRequest, Request
    <3>. QED  BY <3>1, <3>2 DEF q
  <2>4. y = [s EXCEPT !.obj[k] = o]
    BY <2>1 DEF Accessory
  <2>. HIDE DEF o
  <2>5. Quiet(s, y, k) /\ y.obj[k] = o /\ y.state = s.state /\ SameBuffers(s, y)
    <3>1. Calm(s)
      BY <1>4 DEF Moves
    <3>. QED  BY <2>1, <2>2, <2>4, <3>1, QuietAsset DEF Accessory, SameBuffers
  <2>. HIDE DEF y
  <2>6. TokenOf(y, k) = m
    BY <1>4, <2>2, <2>3, <2>5 DEF TokenOf, SameRequest
  <2>7. Adds(x, y, m)
    BY <1>4, <1>7, <2>5 DEF Adds, SameBuffers
  <2>. QED  BY <1>4, <1>7, <2>5, <2>6, <2>7, MovesTrans DEF Asked, Quiet
<1>. QED  BY <1>3, <1>5, <1>6, <1>7

(* uarpPlatformAssetRequestData(): a request that is not admitted leaves    *)
(* what was left of the last one.                                           *)
LEMMA RequestAsks ==
  ASSUME NEW x, Calm(x), NEW k \in Offers, NEW t \in RequestTypes, NEW rel \in Int, NEW n \in Int
  PROVE  LET y == RequestData(x, k, t, rel, n) IN
         Moves(x, y, k) /\ (y.status \/ x.obj[k].req.left = 0 => Asked(x, y, k))
<1>. DEFINE o == x.obj[k]
            r == Opened(x, k, t, rel, n)
            u == [r EXCEPT !.left = o.req.left]
            z(q) == [x EXCEPT !.obj[k].req = q]
            y == RequestData(x, k, t, rel, n)
<1>1. x \in Accessory /\ o \in Asset /\ o.req \in Request
  BY ObjTyped DEF Calm, Asset
<1>2. r \in Request /\ u \in Request /\ u.left = o.req.left
  <2>1. r \in Request
    BY <1>1, OpenedTyped
  <2>. HIDE DEF o, r
  <2>. QED  BY <1>1, <2>1 DEF Request
<1>3. y = IF o.req.out THEN Failing(x) ELSE IF ~Known(o, t) THEN Failing(z(u))
          ELSE RequestDataContinue(z(r), k)
  BY Zenon DEF RequestData, Opened
<1>. HIDE DEF r, u
<1>4. ASSUME NEW q \in Request
      PROVE  Quiet(x, z(q), k) /\ z(q).obj[k].req = q /\ SameBuffers(x, z(q)) /\ Calm(z(q))
  <2>. DEFINE p == [o EXCEPT !.req = q]
  <2>1. p \in Asset /\ p.id = o.id /\ p.ctrl = o.ctrl /\ p.req = q
    BY <1>1, AssetField DEF Asset
  <2>2. z(q) = [x EXCEPT !.obj[k] = p] /\ z(q).obj[k] = p
    BY <1>1 DEF Accessory
  <2>. HIDE DEF p
  <2>3. Quiet(x, [x EXCEPT !.obj[k] = p], k)
    BY <2>1, QuietAsset
  <2>4. SameBuffers(x, z(q))
    BY <1>1 DEF Accessory, SameBuffers
  <2>. HIDE DEF z
  <2>. QED  BY <2>1, <2>2, <2>3, <2>4 DEF Quiet, Moves
<1>. HIDE DEF z
<1>5. \A w \in Accessory : /\ ~Failing(w).status /\ Failing(w).obj = w.obj
                           /\ SameBuffers(w, Failing(w))
  BY DEF Failing, Accessory, SameBuffers
<1>6. ASSUME NEW w, Quiet(x, w, k), SameBuffers(x, w), w.obj[k].req.left = o.req.left, y = Failing(w)
      PROVE  Moves(x, y, k) /\ (y.status \/ x.obj[k].req.left = 0 => Asked(x, y, k))
  <2>1. Calm(w) /\ w \in Accessory
    BY <1>6 DEF Quiet, Moves, Calm
  <2>2. Quiet(w, y, k) /\ ~y.status /\ y.obj = w.obj /\ SameBuffers(w, y)
    BY <1>5, <1>6, <2>1, QuietField
  <2>3. Quiet(x, y, k) /\ SameBuffers(x, y)
    BY <1>6, <2>2, QuietTrans DEF SameBuffers
  <2>. QED  BY <1>6, <2>2, <2>3 DEF Asked, Quiet
<1>7. CASE y = Failing(x)
  BY <1>6, <1>7, QuietHere DEF SameBuffers
<1>8. CASE y = Failing(z(u))
  BY <1>2, <1>4, <1>6, <1>8
<1>9. CASE y = RequestDataContinue(z(r), k)
  <2>1. Asked(x, y, k)
    BY <1>2, <1>4, <1>9, ContinueAsks, QuietAsked
  <2>. QED  BY <2>1 DEF Asked
<1>. QED  BY <1>3, <1>7, <1>8, <1>9

(* A failure is told, and ends the transfer.                                *)
LEMMA FailureMoves ==
  ASSUME NEW x, Calm(x), NEW k \in Offers
  PROVE  LET y == report_failure(x, k) IN
         Moves(x, y, k) /\ y.state # "ACTIVE" /\ y.obj = x.obj
<1>. DEFINE f == [x EXCEPT !.state = "FAILED"]
            y == report_failure(x, k)
<1>1. Quiet(x, f, k) /\ f.state = "FAILED" /\ f.obj = x.obj
  BY QuietField DEF Calm, Accessory
<1>2. \/ y = Notification(f, k, "COMPLETE")
      \/ y = f
      \/ x.state = "ORPHANED"
      \/ x.state # "ACTIVE" /\ y = x
  BY Zenon DEF report_failure
<1>. HIDE DEF f
<1>3. LET s == Notification(f, k, "COMPLETE") IN Moves(f, s, k) /\ s.state = "FAILED" /\ s.obj = f.obj
  <2>1. "COMPLETE" \in Texts /\ Calm(f)
    BY <1>1 DEF Texts, Quiet, Moves
  <2>. QED  BY <1>1, <2>1, NotificationMoves
<1>. HIDE DEF y
<1>4. Moves(x, y, k) /\ y.state # "ACTIVE" /\ y.obj = x.obj
  BY <1>1, <1>2, <1>3, QuietHere, MovesTrans DEF Quiet, Calm
<1>. QED  BY <1>4 DEF y

(* So a step that fails asks for nothing more.                              *)
LEMMA UnlessFailedAsks ==
  ASSUME NEW x, NEW y, NEW k \in Offers, Moves(x, y, k)
  PROVE  /\ Moves(x, UnlessFailed(y, k), k)
         /\ (y.status => Asked(x, y, k)) => Asked(x, UnlessFailed(y, k), k)
         /\ (y.status => Quiet(x, y, k)) => Quiet(x, UnlessFailed(y, k), k)
<1>. DEFINE f == report_failure(y, k)
<1>1. Moves(y, f, k) /\ f.state # "ACTIVE"
  BY FailureMoves DEF Moves
<1>2. Moves(x, f, k)
  BY <1>1, MovesTrans
<1>3. UnlessFailed(y, k) = IF y.status THEN y ELSE f
  BY DEF UnlessFailed
<1>. HIDE DEF f
<1>. QED  BY <1>1, <1>2, <1>3 DEF Asked, Quiet

-----------------------------------------------------------------------------
(* The course of an asset asks for the next unit, or ends. *)

(* The flash writer sends nothing.                                          *)
LEMMA FlashQuiet ==
  ASSUME NEW x, Calm(x), NEW k \in Offers
  PROVE  /\ Quiet(x, payload_transfer_start(x), k)
         /\ \A s \in BOOLEAN : Quiet(x, payload_transfer_finish(x, s), k)
         /\ \A v \in Int : \A at : LET y == payload_transfer_write(x, v, at) IN
              Quiet(x, y, k) /\ y.obj = x.obj
<1>1. x \in Accessory
  BY DEF Calm
<1>2. ASSUME NEW p, NEW n PROVE SameCourse(x, Asserted(x, p, n)) /\ DOMAIN Asserted(x, p, n) = DOMAIN x
  BY <1>1 DEF SameCourse, Asserted, Accessory
<1>3. \A y \in Accessory : SameCourse(x, y) => Quiet(x, y, k)
  BY SameQuiet
<1>4. SameCourse(x, payload_transfer_start(x))
  <2>. DEFINE c == Asserted(x, x.current # None, "start without payload")
              b == Asserted(c, ~x.transfer, "start while transferring")
              t == [b EXCEPT !.transfer = TRUE,
                     !.flash[b.current] = [v |-> None, n |-> 0, ok |-> TRUE, boot |-> FALSE]]
  <2>1. payload_transfer_start(x) \in {Failing(b), Passing(t)}
    BY Zenon DEF payload_transfer_start
  <2>2. SameCourse(x, c) /\ DOMAIN c = DOMAIN x
    BY <1>2
  <2>. HIDE DEF c
  <2>3. SameCourse(x, b) /\ DOMAIN b = DOMAIN x
    BY <1>1, <2>2 DEF SameCourse, Asserted, Accessory
  <2>. HIDE DEF b
  <2>. QED  BY <1>1, <2>1, <2>3 DEF SameCourse, Failing, Passing, Accessory
<1>5. ASSUME NEW s \in BOOLEAN PROVE SameCourse(x, payload_transfer_finish(x, s))
  <2>. DEFINE b == Asserted(x, x.transfer, "finish without transfer")
              t == [b EXCEPT !.transfer = FALSE, !.status = b.io,
                     !.flash[b.current].n    = IF s THEN @ ELSE 0,
                     !.flash[b.current].boot = s /\ b.io]
  <2>1. payload_transfer_finish(x, s) \in {Failing(b), t}
    BY Zenon DEF payload_transfer_finish
  <2>2. SameCourse(x, b) /\ DOMAIN b = DOMAIN x
    BY <1>2
  <2>. HIDE DEF b
  <2>3. SameCourse(x, t)
    BY <1>1, <2>2 DEF SameCourse, Accessory
  <2>. HIDE DEF t
  <2>. QED  BY <1>1, <2>1, <2>2, <2>3 DEF SameCourse, Failing, Accessory
<1>6. ASSUME NEW v \in Int, NEW at PROVE SameCourse(x, payload_transfer_write(x, v, at))
  <2>. DEFINE b == Asserted(x, x.transfer, "write without transfer")
              f == b.flash[b.current]
              t == [b EXCEPT !.flash[b.current] =
                     [f EXCEPT !.v = v, !.n = Least(f.n + 1, LENGTH + 1),
                               !.ok = f.ok /\ at = <<b.current, f.n>> /\ f.v \in {None, v}]]
  <2>1. payload_transfer_write(x, v, at) \in {Failing(b), Passing(t)}
    BY Zenon DEF payload_transfer_write
  <2>2. SameCourse(x, b) /\ DOMAIN b = DOMAIN x
    BY <1>2
  <2>. HIDE DEF b
  <2>3. SameCourse(x, t) /\ DOMAIN t = DOMAIN x
    <3>. HIDE DEF f
    <3>. QED  BY <1>1, <2>2 DEF SameCourse, Accessory
  <2>. HIDE DEF t
  <2>. QED  BY <1>1, <2>1, <2>2, <2>3 DEF SameCourse, Failing, Passing, Accessory
<1>. QED  BY <1>1, <1>3, <1>4, <1>5, <1>6, StartTyped, FinishTyped, WriteTyped DEF SameCourse

(* uarpPlatformAssetPayloadRequestData()                                    *)
LEMMA PayloadRequestAsks ==
  ASSUME NEW x, Calm(x), NEW k \in Offers
  PROVE  LET y == PayloadRequestData(x, k) IN
         Moves(x, y, k) /\ (y.status \/ x.obj[k].req.left = 0 => Asked(x, y, k))
<1>. DEFINE r == x.obj[k].recvd
            n == Least(WINDOW, LENGTH - r)
<1>1. r \in Int /\ n \in Int /\ "PAYLOAD" \in RequestTypes
  <2>1. r \in Int
    BY ObjTyped DEF Calm, Asset
  <2>. HIDE DEF r
  <2>2. LENGTH - r \in Int /\ WINDOW \in Int
    BY <2>1, LengthTypes
  <2>. QED  BY <2>1, <2>2, LeastTyped DEF RequestTypes
<1>2. PayloadRequestData(x, k) = RequestData(x, k, "PAYLOAD", r, n)
  BY DEF PayloadRequestData
<1>. HIDE DEF r, n
<1>. QED  BY <1>1, <1>2, RequestAsks

(* The next payload is asked for its header, the first unit of it.          *)
LEMMA IndexAsks ==
  ASSUME NEW x, Calm(x), NEW k \in Offers, NEW p \in Int
  PROVE  Asked(x, UnlessFailed(SetPayloadIndex(x, k, p), k), k)
<1>. DEFINE o == [x.obj[k] EXCEPT !.recvd = 0, !.index = p, !.plflags = "none"]
            z == [x EXCEPT !.obj[k].recvd = 0, !.obj[k].index = p, !.obj[k].plflags = "none"]
            y == RequestData(z, k, "PAYLOAD_HEADER", p - 1, 1)
<1>1. SetPayloadIndex(x, k, p) = y
  BY DEF SetPayloadIndex
<1>2. x \in Accessory /\ x.obj[k] \in Asset
  BY ObjTyped DEF Calm
<1>3. o \in Asset /\ o.id = x.obj[k].id /\ o.ctrl = x.obj[k].ctrl
  <2>. DEFINE u == [x.obj[k] EXCEPT !.recvd = 0]
              v == [u EXCEPT !.index = p]
  <2>1. u \in Asset /\ u.id = x.obj[k].id /\ u.ctrl = x.obj[k].ctrl
    BY <1>2, AssetField DEF Asset
  <2>2. o = [v EXCEPT !.plflags = "none"]
    OBVIOUS
  <2>. HIDE DEF u, o
  <2>3. v \in Asset /\ v.id = u.id /\ v.ctrl = u.ctrl
    BY <2>1, AssetField DEF Asset
  <2>. HIDE DEF v
  <2>4. o \in Asset /\ o.id = v.id /\ o.ctrl = v.ctrl
    BY <2>2, <2>3, AssetField DEF Asset
  <2>. QED  BY <2>1, <2>3, <2>4
<1>4. z = [x EXCEPT !.obj[k] = o]
  BY <1>2 DEF Accessory
<1>. HIDE DEF o, z
<1>5. Quiet(x, z, k) /\ Calm(z)
  BY <1>3, <1>4, QuietAsset DEF Quiet, Moves
<1>6. "PAYLOAD_HEADER" \in RequestTypes /\ p - 1 \in Int /\ 1 \in Int
  BY DEF RequestTypes
<1>7. Moves(z, y, k) /\ (y.status => Asked(z, y, k))
  BY <1>5, <1>6, RequestAsks
<1>. HIDE DEF y
<1>8. Asked(z, UnlessFailed(y, k), k)
  BY <1>7, UnlessFailedAsks
<1>. QED  BY <1>1, <1>5, <1>8, QuietAsked

(* uarpPlatformAssetSetPayloadIndex(), for the payload after the last       *)
LEMMA NextAsks ==
  ASSUME NEW x, Calm(x), NEW k \in Offers
  PROVE  Asked(x, asset_payload_index_set_next(x, k), k)
<1>1. x.obj[k].index + 1 \in Int
  BY ObjTyped DEF Calm, Asset
<1>. QED  BY <1>1, IndexAsks DEF asset_payload_index_set_next

(* and, after the metadata, for the first one.                              *)
LEMMA MetaDataCompleteAsks ==
  ASSUME NEW x, Calm(x), NEW k \in Offers
  PROVE  Asked(x, asset_meta_data_complete(x, k), k)
<1>. DEFINE z == [x EXCEPT !.staged = 0]
<1>1. Quiet(x, z, k)
  <2>1. \A v \in Int : Quiet(x, [x EXCEPT !.staged = v], k)
    BY QuietField
  <2>2. 0 \in Int
    OBVIOUS
  <2>. QED  BY <2>1, <2>2, Zenon
<1>2. asset_meta_data_complete(x, k) = UnlessFailed(SetPayloadIndex(z, k, 1), k)
  BY DEF asset_meta_data_complete
<1>. HIDE DEF z
<1>3. Asked(z, UnlessFailed(SetPayloadIndex(z, k, 1), k), k)
  BY <1>1, IndexAsks DEF Quiet, Moves
<1>. QED  BY <1>1, <1>2, <1>3, QuietAsked

(* A block of one unit is asked for.                                        *)
LEMMA UnitAsks ==
  ASSUME NEW x, Calm(x), NEW k \in Offers, NEW t \in RequestTypes
  PROVE  Asked(x, UnlessFailed(RequestData(x, k, t, 0, 1), k), k)
<1>1. LET y == RequestData(x, k, t, 0, 1) IN Moves(x, y, k) /\ (y.status => Asked(x, y, k))
  <2>1. 0 \in Int /\ 1 \in Int
    OBVIOUS
  <2>. QED  BY <2>1, RequestAsks, Zenon
<1>. QED  BY <1>1, UnlessFailedAsks

(* asset_ready()                                                            *)
LEMMA ReadyAsks ==
  ASSUME NEW x, Calm(x), NEW k \in Offers
  PROVE  Asked(x, asset_ready(x, k), k)
<1>1. "METADATA" \in RequestTypes
  BY DEF RequestTypes
<1>. QED  BY <1>1, UnitAsks, MetaDataCompleteAsks DEF asset_ready

(* What is not active asks for nothing. *)
LEMMA EndedAsks == \A x, y, k : Moves(x, y, k) /\ y.state # "ACTIVE" => Asked(x, y, k)
BY DEF Asked

(* asset_fully_staged_mark()                                                *)
LEMMA StagedAsks ==
  ASSUME NEW x, Calm(x), NEW k \in Offers
  PROVE  Asked(x, asset_fully_staged_mark(x, k), k)
<1>. DEFINE z == [x EXCEPT !.state = "STAGED"]
            n == Notification(z, k, "COMPLETE")
            f == report_failure(n, k)
<1>1. Quiet(x, z, k) /\ z.state = "STAGED"
  BY QuietField DEF Calm, Accessory
<1>2. asset_fully_staged_mark(x, k) \in {n, f}
  BY Zenon DEF asset_fully_staged_mark, UnlessFailed
<1>. HIDE DEF z
<1>3. Moves(z, n, k) /\ n.state = "STAGED"
  BY <1>1, NotificationMoves DEF Quiet, Moves, Texts
<1>. HIDE DEF n
<1>4. Moves(n, f, k) /\ f.state # "ACTIVE"
  BY <1>3, FailureMoves DEF Moves
<1>. HIDE DEF f
<1>5. Moves(x, n, k) /\ Moves(x, f, k)
  BY <1>1, <1>3, <1>4, MovesTrans DEF Quiet
<1>. QED  BY <1>2, <1>3, <1>4, <1>5, EndedAsks

(* report_failure()                                                         *)
LEMMA FailureAsks ==
  ASSUME NEW x, NEW y, NEW k \in Offers, Quiet(x, y, k)
  PROVE  Asked(x, report_failure(y, k), k)
BY FailureMoves, EndedAsks, QuietAsked DEF Quiet, Moves

(* payload_meta_data_complete()                                             *)
LEMMA PayloadMetaAsks ==
  ASSUME NEW x, Calm(x), NEW k \in Offers
  PROVE  Asked(x, payload_meta_data_complete(x, k), k)
<1>. DEFINE f == IF x.transfer THEN payload_transfer_finish(x, FALSE) ELSE Passing(x)
            g == payload_transfer_start(f)
            h == PayloadRequestData(g, k)
            y == payload_meta_data_complete(x, k)
<1>1. \/ x.state # "ACTIVE" /\ y = x
      \/ y \in {report_failure(f, k), report_failure(g, k), UnlessFailed(h, k)}
  BY Zenon DEF payload_meta_data_complete
<1>2. Quiet(x, f, k) /\ Calm(f)
  BY FlashQuiet, QuietField DEF Quiet, Moves
<1>. HIDE DEF f
<1>3. Quiet(x, g, k) /\ Calm(g)
  BY <1>2, FlashQuiet, QuietTrans DEF Quiet, Moves
<1>. HIDE DEF g
<1>4. Moves(g, h, k) /\ (h.status => Asked(g, h, k))
  BY <1>3, PayloadRequestAsks
<1>. HIDE DEF h
<1>5. Asked(x, UnlessFailed(h, k), k)
  BY <1>3, <1>4, UnlessFailedAsks, QuietAsked
<1>6. Asked(x, report_failure(f, k), k) /\ Asked(x, report_failure(g, k), k)
  BY <1>2, <1>3, FailureAsks
<1>7. Moves(x, x, k)
  BY QuietHere DEF Quiet
<1>. HIDE DEF y
<1>8. Asked(x, y, k)
  BY <1>1, <1>5, <1>6, <1>7, EndedAsks
<1>. QED  BY <1>8 DEF y

(* payload_ready()                                                          *)
LEMMA PayloadReadyAsks ==
  ASSUME NEW x, Calm(x), NEW k \in Offers
  PROVE  Asked(x, payload_ready(x, k), k)
<1>. DEFINE c == Asserted(x, ~x.transfer, "payload ready while transferring")
            d == [c EXCEPT !.current = x.obj[k].pl]
            e == [d EXCEPT !.fast = FALSE]
            h == [n |-> 0, ok |-> TRUE]
            b == [e EXCEPT !.hash = h]
            r == RequestData(b, k, "PAYLOAD_METADATA", 0, 1)
<1>1. payload_ready(x, k) \in
        {payload_meta_data_complete(b, k), UnlessFailed(r, k), report_failure(x, k),
         asset_payload_index_set_next(x, k), asset_fully_staged_mark(x, k)}
  <2>1. b = [c EXCEPT !.current = x.obj[k].pl, !.fast = FALSE, !.hash = [n |-> 0, ok |-> TRUE]]
    OBVIOUS
  <2>. HIDE DEF b
  <2>. QED  BY <2>1, Zenon DEF payload_ready
<1>2. Quiet(x, c, k) /\ Calm(c)
  <2>1. (~x.transfer) \in BOOLEAN /\ "payload ready while transferring" \in Faults
    BY DEF Faults
  <2>. QED  BY <2>1, QuietField DEF Quiet, Moves
<1>. HIDE DEF c
<1>3. x.obj[k].pl \in Int /\ h \in [n: Int, ok: BOOLEAN]
  BY ObjTyped DEF Calm, Asset
<1>. HIDE DEF h
<1>4. Quiet(x, d, k) /\ Calm(d)
  <2>1. \A v \in Int : Quiet(c, [c EXCEPT !.current = v], k)
    BY <1>2, QuietField
  <2>2. Quiet(c, d, k)
    BY <1>3, <2>1, Zenon
  <2>. HIDE DEF d
  <2>. QED  BY <1>2, <2>2, QuietTrans DEF Quiet, Moves
<1>. HIDE DEF d
<1>5. Quiet(x, e, k) /\ Calm(e)
  BY <1>4, QuietField, QuietTrans DEF Quiet, Moves
<1>. HIDE DEF e
<1>6. Quiet(x, b, k) /\ Calm(b)
  <2>1. \A v \in [n: Int, ok: BOOLEAN] : Quiet(e, [e EXCEPT !.hash = v], k)
    BY <1>5, QuietField
  <2>2. Quiet(e, b, k)
    BY <1>3, <2>1, Zenon
  <2>. HIDE DEF b
  <2>. QED  BY <1>5, <2>2, QuietTrans DEF Quiet, Moves
<1>. HIDE DEF b
<1>7. Asked(b, UnlessFailed(r, k), k) /\ Asked(b, payload_meta_data_complete(b, k), k)
  BY <1>6, UnitAsks, PayloadMetaAsks DEF RequestTypes
<1>. HIDE DEF r
<1>8. Asked(x, UnlessFailed(r, k), k) /\ Asked(x, payload_meta_data_complete(b, k), k)
  BY <1>6, <1>7, QuietAsked
<1>9. Asked(x, report_failure(x, k), k)
  BY QuietHere, FailureAsks
<1>. QED  BY <1>1, <1>8, <1>9, NextAsks, StagedAsks

-----------------------------------------------------------------------------
(* A request that is complete is followed by the next. *)

(* payload_data() sends nothing, unless it fails.                           *)
LEMMA DataQuiet ==
  ASSUME NEW x, Calm(x), NEW k \in Offers, NEW at
  PROVE  LET y == payload_data(x, k, at) IN Quiet(x, y, k) /\ y.obj = x.obj
<1>. DEFINE v == [n |-> Least(x.hash.n + 1, LENGTH + 1),
                  ok |-> x.hash.ok /\ at = <<x.current, x.hash.n>>]
            h == [x EXCEPT !.hash = v]
            w == payload_transfer_write(h, x.obj[k].v, at)
            f == report_failure(w, k)
<1>1. payload_data(x, k, at) = IF w.status THEN w ELSE f
  BY Zenon DEF payload_data, UnlessFailed
<1>2. v \in [n: Int, ok: BOOLEAN] /\ x.obj[k].v \in Int /\ x \in Accessory
  <2>1. x.hash.n + 1 \in Int /\ LENGTH + 1 \in Int
    BY LengthTypes DEF Calm, Accessory
  <2>2. Least(x.hash.n + 1, LENGTH + 1) \in Int
    BY <2>1, LeastTyped
  <2>. QED  BY <2>2, ObjTyped DEF Calm, Accessory, Asset
<1>. HIDE DEF v
<1>3. Quiet(x, h, k) /\ h.obj = x.obj
  <2>1. \A u \in [n: Int, ok: BOOLEAN] : Quiet(x, [x EXCEPT !.hash = u], k)
    BY QuietField
  <2>2. Quiet(x, h, k)
    BY <1>2, <2>1, Zenon
  <2>. QED  BY <1>2, <2>2 DEF Accessory
<1>. HIDE DEF h
<1>4. Quiet(h, w, k) /\ w.obj = h.obj
  BY <1>2, <1>3, FlashQuiet DEF Quiet, Moves
<1>. HIDE DEF w
<1>5. Quiet(x, w, k)
  BY <1>3, <1>4, QuietTrans
<1>6. Moves(w, f, k) /\ f.state # "ACTIVE" /\ f.obj = w.obj
  BY <1>5, FailureMoves DEF Quiet, Moves
<1>. HIDE DEF f
<1>7. Quiet(x, f, k)
  BY <1>5, <1>6, MovesTrans DEF Quiet
<1>. QED  BY <1>1, <1>3, <1>4, <1>5, <1>6, <1>7

(* Nor does a whole window.                                                 *)
LEMMA UnitsQuiet ==
  ASSUME NEW x, Calm(x), NEW k \in Offers
  PROVE  Quiet(x, Units(<<x, k>>), k) /\ Units(<<x, k>>).obj = x.obj
<1>. DEFINE c == <<x, k>>
            q == x.obj[k].req.asked
            s == [i \in 1..q |-> i]
            n == IF q >= 0 THEN q ELSE 0
            G == {y \in Accessory : Quiet(x, y, k) /\ y.obj = x.obj}
            P == [i \in 0..n |-> G]
<1>1. c[1] = x /\ c[2] = k
  OBVIOUS
<1>. HIDE DEF c
<1>2. Units(c) = Fold("unit", c, x, s)
  BY <1>1 DEF Units
<1>3. q \in Int
  BY ObjTyped DEF Asset, Request, Calm
<1>. HIDE DEF q
<1>4. n \in Nat /\ DOMAIN s = 1..n
  BY <1>3
<1>. HIDE DEF n
<1>5. x \in G
  BY QuietHere DEF Calm
<1>6. ASSUME NEW y \in G, NEW i PROVE FoldOp("unit", c, y, i) \in G
  <2>1. FoldOp("unit", c, y, i) = payload_data(y, k, <<x.obj[k].req.of, x.obj[k].req.rel + i - 1>>)
    BY <1>1 DEF FoldOp, UnitOp
  <2>2. \A at : LET z == payload_data(y, k, at) IN Quiet(x, z, k) /\ z.obj = x.obj /\ z \in Accessory
    BY DataQuiet, QuietTrans DEF Quiet, Moves, Calm
  <2>. QED  BY <2>1, <2>2
<1>. HIDE DEF G
<1>7. x \in P[0] /\ \A i \in 1..n : \A y \in P[i - 1] : FoldOp("unit", c, y, s[i]) \in P[i]
  BY <1>4, <1>5, <1>6
<1>. HIDE DEF P, s
<1>8. Fold("unit", c, x, s) \in P[n]
  BY <1>4, <1>7, FoldInvariant
<1>9. Units(c) \in G
  BY <1>2, <1>4, <1>8 DEF P
<1>. QED  BY <1>9 DEF c, G

(* payload_data_complete()                                                  *)
LEMMA DataCompleteAsks ==
  ASSUME NEW x, Calm(x), NEW k \in Offers
  PROVE  Asked(x, payload_data_complete(x, k), k)
<1>. DEFINE f == payload_transfer_finish(x, TRUE)
            n == Least(f.staged + 1, Payloads)
            c == [f EXCEPT !.current = None]
            b == [c EXCEPT !.staged = n]
            r == [b EXCEPT !.reboot = TRUE]
            p == [r EXCEPT !.state = "APPLIED"]
<1>1. \/ payload_data_complete(x, k) = x /\ x.state # "ACTIVE"
      \/ payload_data_complete(x, k) \in
           {report_failure(f, k), report_failure(x, k), p, asset_payload_index_set_next(b, k),
            asset_fully_staged_mark(b, k)}
  <2>1. b = [f EXCEPT !.current = None, !.staged = n] /\ p = apply_and_reboot(b)
    BY DEF apply_and_reboot
  <2>2. n = Least(f.staged + 1, Payloads)
    OBVIOUS
  <2>. HIDE DEF b, p, n
  <2>. QED  BY <2>1, <2>2, Zenon DEF payload_data_complete
<1>2. Quiet(x, f, k) /\ Calm(f) /\ f.staged \in Int
  <2>1. Quiet(x, f, k) /\ Calm(f)
    BY FlashQuiet DEF Quiet, Moves
  <2>. HIDE DEF f
  <2>. QED  BY <2>1 DEF Calm, Accessory
<1>. HIDE DEF f
<1>3. n \in Int /\ None \in Int
  <2>1. f.staged + 1 \in Int /\ Payloads \in Int
    BY <1>2, LengthTypes
  <2>2. Least(f.staged + 1, Payloads) \in Int
    BY <2>1, LeastTyped
  <2>. HIDE DEF f
  <2>. QED  BY <2>2 DEF None
<1>. HIDE DEF n
<1>4. Quiet(x, c, k) /\ Calm(c)
  <2>1. \A v \in Int : Quiet(f, [f EXCEPT !.current = v], k)
    BY <1>2, QuietField
  <2>2. Quiet(f, c, k)
    BY <1>3, <2>1, Zenon
  <2>. HIDE DEF c
  <2>. QED  BY <1>2, <2>2, QuietTrans DEF Quiet, Moves
<1>. HIDE DEF c
<1>5. Quiet(x, b, k) /\ Calm(b)
  <2>1. \A v \in Int : Quiet(c, [c EXCEPT !.staged = v], k)
    BY <1>4, QuietField
  <2>2. Quiet(c, b, k)
    BY <1>3, <2>1, Zenon
  <2>. HIDE DEF b
  <2>. QED  BY <1>4, <2>2, QuietTrans DEF Quiet, Moves
<1>. HIDE DEF b
<1>6. Quiet(x, p, k) /\ p.state # "ACTIVE"
  <2>1. Quiet(b, r, k) /\ Calm(r)
    BY <1>5, QuietField DEF Quiet, Moves
  <2>. HIDE DEF r
  <2>2. Quiet(r, p, k) /\ p.state # "ACTIVE"
    BY <2>1, QuietField DEF Calm, Accessory
  <2>. HIDE DEF p
  <2>. QED  BY <1>5, <2>1, <2>2, QuietTrans
<1>. HIDE DEF p
<1>7. Asked(x, asset_payload_index_set_next(b, k), k) /\ Asked(x, asset_fully_staged_mark(b, k), k)
  BY <1>5, NextAsks, StagedAsks, QuietAsked
<1>8. Asked(x, report_failure(f, k), k) /\ Asked(x, report_failure(x, k), k)
  BY <1>2, QuietHere, FailureAsks
<1>. QED  BY <1>1, <1>6, <1>7, <1>8, QuietHere, EndedAsks DEF Quiet

(* remove_asset() sends nothing, and no asset is being received when it has *)
(* given up the one that was.                                               *)
LEMMA RemoveQuiet ==
  ASSUME NEW x \in Accessory, NEW k \in Offers, NEW r \in BOOLEAN
  PROVE  LET y == remove_asset(x, k, r) IN
         IF x.asset # k THEN y = x
         ELSE /\ SameBuffers(x, y) /\ y.order = x.order /\ y.allowed = x.allowed
              /\ y.state = "NONE" /\ y.obj = IF r THEN AssetRelease(x, k).obj ELSE x.obj
<1>. DEFINE d == IF r THEN AssetRelease(x, k) ELSE x
            s == [d EXCEPT !.state = "NONE"]
            b == [s EXCEPT !.asset = None]
            f == IF b.transfer THEN payload_transfer_finish(b, FALSE) ELSE b
            g == [f EXCEPT !.current = None]
            y == remove_asset(x, k, r)
<1>1. d \in Accessory /\ d.obj = IF r THEN AssetRelease(x, k).obj ELSE x.obj
  BY ReleaseTyped
<1>2. d.order = x.order /\ d.allowed = x.allowed /\ SameBuffers(x, d)
  BY DEF AssetRelease, Accessory, SameBuffers
<1>3. y = IF k # x.asset THEN x ELSE g
  <2>1. b = [d EXCEPT !.state = "NONE", !.asset = None]
    BY <1>1 DEF Accessory
  <2>2. d = IF r THEN AssetRelease(x, k) ELSE x
    OBVIOUS
  <2>. HIDE DEF b, d
  <2>. QED  BY <2>1, <2>2, Zenon DEF remove_asset
<1>. HIDE DEF d
<1>4. b \in Accessory
  <2>1. s \in Accessory
    BY <1>1, FieldTyped DEF AssetStates
  <2>. HIDE DEF s
  <2>. QED  BY <2>1, FieldTyped
<1>5. /\ b.obj = d.obj /\ b.order = d.order /\ b.allowed = d.allowed /\ SameBuffers(d, b)
      /\ b.state = "NONE"
  BY <1>1 DEF Accessory, SameBuffers
<1>. HIDE DEF b
<1>6. f \in Accessory
  BY <1>4, FinishTyped
<1>7. /\ f.obj = b.obj /\ f.order = b.order /\ f.allowed = b.allowed /\ SameBuffers(b, f)
      /\ f.state = "NONE"
  BY <1>4, <1>5 DEF payload_transfer_finish, Asserted, Failing, Accessory, SameBuffers
<1>. HIDE DEF f
<1>8. /\ g.obj = f.obj /\ g.order = f.order /\ g.allowed = f.allowed /\ SameBuffers(f, g)
      /\ g.state = "NONE"
  BY <1>6, <1>7 DEF Accessory, SameBuffers
<1>. HIDE DEF g, y
<1>9. CASE k # x.asset
  BY <1>3, <1>9 DEF y
<1>10. CASE k = x.asset
  BY <1>1, <1>2, <1>3, <1>5, <1>7, <1>8, <1>10 DEF SameBuffers, y
<1>. QED  BY <1>9, <1>10 DEF y

(* So it is with asset_rescinded(),                                         *)
LEMMA RescindedQuiet ==
  ASSUME NEW x \in Accessory, NEW k \in Offers
  PROVE  LET y == asset_rescinded(x, k) IN
         /\ y \in Accessory /\ SameBuffers(x, y) /\ y.obj = x.obj /\ y.order = x.order
         /\ y.allowed = x.allowed
         /\ IF x.asset = k THEN y.state = "NONE" ELSE y.state = x.state /\ y.asset = x.asset
<1>. DEFINE c == Asserted(x, x.obj[k].delegate, "rescinded asset without delegate")
            y == asset_rescinded(x, k)
<1>1. c \in Accessory
  <2>1. x.obj[k].delegate \in BOOLEAN /\ "rescinded asset without delegate" \in Faults
    BY ObjTyped DEF Asset, Faults
  <2>. QED  BY <2>1, AssertedTyped
<1>2. /\ c.obj = x.obj /\ c.order = x.order /\ c.allowed = x.allowed /\ SameBuffers(x, c)
      /\ c.state = x.state /\ c.asset = x.asset
  BY DEF Asserted, Accessory, SameBuffers
<1>3. y = remove_asset(c, k, FALSE)
  BY DEF asset_rescinded
<1>. HIDE DEF c, y
<1>4. y \in Accessory
  BY <1>1, <1>3, RemoveTyped
<1>5. IF c.asset # k THEN y = c
      ELSE /\ SameBuffers(c, y) /\ y.order = c.order /\ y.allowed = c.allowed
           /\ y.state = "NONE" /\ y.obj = c.obj
  <2>1. IF c.asset # k THEN y = c
        ELSE /\ SameBuffers(c, y) /\ y.order = c.order /\ y.allowed = c.allowed
             /\ y.state = "NONE" /\ y.obj = IF FALSE THEN AssetRelease(c, k).obj ELSE c.obj
    BY <1>1, <1>3, RemoveQuiet, Zenon
  <2>. QED  BY <2>1
<1>. QED  BY <1>2, <1>4, <1>5 DEF SameBuffers, y

(* and with asset_orphaned(), of the asset that is handled.                 *)
LEMMA OrphanedQuiet ==
  ASSUME NEW x \in Accessory, NEW k \in Offers, x.asset = k
  PROVE  LET y == asset_orphaned(x, k) IN
         /\ y.order = x.order /\ y.allowed = x.allowed /\ y.state # "ACTIVE"
         /\ \A j \in Offers : y.obj[j].id = x.obj[j].id /\ (y.obj[j].ctrl => x.obj[j].ctrl)
<1>. DEFINE y == asset_orphaned(x, k)
            z == [x EXCEPT !.state = "ORPHANED"]
            r == remove_asset(x, k, TRUE)
<1>1. \/ y = z
      \/ y = r
      \/ y = x /\ x.state # "ACTIVE"
  BY Zenon DEF asset_orphaned
<1>2. z.order = x.order /\ z.allowed = x.allowed /\ z.state # "ACTIVE" /\ z.obj = x.obj
  BY DEF Accessory
<1>3. /\ r.order = x.order /\ r.allowed = x.allowed /\ r.state = "NONE"
      /\ r.obj = AssetRelease(x, k).obj
  BY RemoveQuiet
<1>. HIDE DEF r
<1>4. \A j \in Offers : r.obj[j].id = x.obj[j].id /\ (r.obj[j].ctrl => x.obj[j].ctrl)
  BY <1>3, ReleaseFields
<1>. QED  BY <1>1, <1>2, <1>3, <1>4

(* Each request that is complete is followed by the next, if its asset is   *)
(* received further.                                                        *)
LEMMA HeaderCompleteAsks ==
  ASSUME NEW x, Calm(x), NEW k \in Offers, x.asset = k
  PROVE  Asked(x, SuperBinaryHeaderComplete(x, k), k)
<1>. DEFINE n == Notification(x, k, "CORRUPT")
            r == asset_rescinded(n, k)
            o == [x.obj[k] EXCEPT !.hdr = TRUE]
            w == [x EXCEPT !.obj[k] = o]
<1>1. SuperBinaryHeaderComplete(x, k) \in {r, asset_ready(w, k)}
  <2>1. [x EXCEPT !.obj[k].hdr = TRUE] = w
    BY DEF Calm, Accessory
  <2>. HIDE DEF w
  <2>. QED  BY <2>1, Zenon DEF SuperBinaryHeaderComplete
<1>2. Moves(x, n, k)
  BY NotificationMoves DEF Texts
<1>. HIDE DEF n
<1>3. n \in Accessory /\ Calm(n)
  BY <1>2 DEF Moves, Calm
<1>4. Moves(n, r, k) /\ r.state # "ACTIVE"
  <2>1. /\ r \in Accessory /\ SameBuffers(n, r) /\ r.obj = n.obj /\ r.order = n.order
        /\ r.allowed = n.allowed
        /\ IF n.asset = k THEN r.state = "NONE" ELSE r.state = n.state /\ r.asset = n.asset
    BY <1>3, RescindedQuiet
  <2>. HIDE DEF r
  <2>2. r.state # "ACTIVE"
    BY <1>2, <2>1 DEF Moves
  <2>3. Calm(r)
    BY <1>3, <2>1 DEF Calm
  <2>. QED  BY <2>1, <2>2, <2>3 DEF Moves, SameIds, Says, SameBuffers
<1>. HIDE DEF r
<1>5. Asked(x, r, k)
  BY <1>2, <1>4, MovesTrans, EndedAsks
<1>6. Quiet(x, w, k)
  <2>1. x.obj[k] \in Asset
    BY ObjTyped DEF Calm
  <2>2. o \in Asset
    BY <2>1, AssetField
  <2>3. o.id = x.obj[k].id /\ o.ctrl = x.obj[k].ctrl
    BY <2>1 DEF Asset
  <2>. HIDE DEF o
  <2>. QED  BY <2>2, <2>3, QuietAsset
<1>. HIDE DEF w
<1>7. Asked(x, asset_ready(w, k), k)
  BY <1>6, ReadyAsks, QuietAsked DEF Quiet, Moves
<1>. QED  BY <1>1, <1>5, <1>7

LEMMA MetaDataAsks ==
  ASSUME NEW x, Calm(x), NEW k \in Offers
  PROVE  Asked(x, UpdateSuperBinaryMetaData(x, k), k)
<1>. DEFINE o == [x.obj[k] EXCEPT !.meta = TRUE]
            w == [x EXCEPT !.obj[k] = o]
<1>1. UpdateSuperBinaryMetaData(x, k) = asset_meta_data_complete(w, k)
  <2>1. [x EXCEPT !.obj[k].meta = TRUE] = w
    BY DEF Calm, Accessory
  <2>. HIDE DEF w
  <2>. QED  BY <2>1 DEF UpdateSuperBinaryMetaData
<1>2. Quiet(x, w, k)
  <2>1. x.obj[k] \in Asset
    BY ObjTyped DEF Calm
  <2>2. o \in Asset
    BY <2>1, AssetField
  <2>3. o.id = x.obj[k].id /\ o.ctrl = x.obj[k].ctrl
    BY <2>1 DEF Asset
  <2>. HIDE DEF o
  <2>. QED  BY <2>2, <2>3, QuietAsset
<1>. HIDE DEF w
<1>. QED  BY <1>1, <1>2, MetaDataCompleteAsks, QuietAsked DEF Quiet, Moves

LEMMA PayloadHeaderAsks ==
  ASSUME NEW x, Calm(x), NEW k \in Offers
  PROVE  Asked(x, PayloadHeaderComplete(x, k), k)
<1>. DEFINE g == IF x.obj[k].v \in PlainVersions THEN "none" ELSE "needs"
            p == x.obj[k].req.of
            u == [x.obj[k] EXCEPT !.pl = p]
            o == [u EXCEPT !.plflags = g]
            w == [x EXCEPT !.obj[k] = o]
<1>1. PayloadHeaderComplete(x, k) = payload_ready(w, k)
  <2>1. [x EXCEPT !.obj[k].pl = p, !.obj[k].plflags = g] = w
    <3>1. x.obj \in [Offers -> Asset]
      BY DEF Calm, Accessory
    <3>. QED  BY <3>1 DEF Calm, Accessory, Asset
  <2>. HIDE DEF w
  <2>. QED  BY <2>1 DEF PayloadHeaderComplete
<1>2. x.obj[k] \in Asset
  BY ObjTyped DEF Calm
<1>3. p \in Int /\ g \in {"none", "needs", "has"}
  BY <1>2 DEF Asset, Request
<1>. HIDE DEF p, g
<1>4. u \in Asset
  BY <1>2, <1>3, AssetField
<1>5. u.id = x.obj[k].id /\ u.ctrl = x.obj[k].ctrl
  BY <1>2 DEF Asset
<1>. HIDE DEF u
<1>6. o \in Asset
  BY <1>3, <1>4, AssetField
<1>7. o.id = x.obj[k].id /\ o.ctrl = x.obj[k].ctrl
  BY <1>4, <1>5 DEF Asset
<1>. HIDE DEF o
<1>8. Quiet(x, w, k)
  BY <1>6, <1>7, QuietAsset
<1>. HIDE DEF w
<1>. QED  BY <1>1, <1>8, PayloadReadyAsks, QuietAsked DEF Quiet, Moves

LEMMA PayloadMetaDataAsks ==
  ASSUME NEW x, Calm(x), NEW k \in Offers
  PROVE  Asked(x, UpdatePayloadMetaData(x, k), k)
<1>. DEFINE f == x.obj[k].v \in FastVersions
            u == [x.obj[k] EXCEPT !.plflags = "has"]
            o == [u EXCEPT !.meta = TRUE]
            w == [x EXCEPT !.obj[k] = o]
            z == [w EXCEPT !.fast = f]
<1>1. UpdatePayloadMetaData(x, k) = payload_meta_data_complete(z, k)
  <2>1. [x EXCEPT !.obj[k].plflags = "has", !.obj[k].meta = TRUE, !.fast = f] = z
    <3>1. x.obj \in [Offers -> Asset]
      BY DEF Calm, Accessory
    <3>. QED  BY <3>1 DEF Calm, Accessory, Asset
  <2>. HIDE DEF z
  <2>. QED  BY <2>1 DEF UpdatePayloadMetaData
<1>2. x.obj[k] \in Asset
  BY ObjTyped DEF Calm
<1>3. f \in BOOLEAN
  OBVIOUS
<1>. HIDE DEF f
<1>4. u \in Asset
  BY <1>2, AssetField
<1>5. u.id = x.obj[k].id /\ u.ctrl = x.obj[k].ctrl
  BY <1>2 DEF Asset
<1>. HIDE DEF u
<1>6. o \in Asset
  BY <1>4, AssetField
<1>7. o.id = x.obj[k].id /\ o.ctrl = x.obj[k].ctrl
  BY <1>4, <1>5 DEF Asset
<1>. HIDE DEF o
<1>8. Quiet(x, w, k) /\ Calm(w)
  BY <1>6, <1>7, QuietAsset DEF Quiet, Moves
<1>. HIDE DEF w
<1>9. Quiet(x, z, k)
  BY <1>3, <1>8, QuietField, QuietTrans
<1>. HIDE DEF z
<1>. QED  BY <1>1, <1>9, PayloadMetaAsks, QuietAsked DEF Quiet, Moves

LEMMA PayloadAsks ==
  ASSUME NEW x, Calm(x), NEW k \in Offers, x.obj[k].req.left = 0
  PROVE  Asked(x, UpdatePayloadPayload(x, k), k)
<1>. DEFINE c == <<x, k>>
            n == Least(x.obj[k].recvd + x.obj[k].req.asked, LENGTH + 1)
            u == Units(c)
            o == [u.obj[k] EXCEPT !.recvd = n]
            b == [u EXCEPT !.obj[k] = o]
<1>1. c[1] = x /\ c[2] = k
  OBVIOUS
<1>2. Quiet(x, u, k) /\ u.obj = x.obj
  BY UnitsQuiet
<1>. HIDE DEF c
<1>3. UpdatePayloadPayload(x, k) \in {payload_data_complete(b, k), PayloadRequestData(b, k)}
  <2>1. [u EXCEPT !.obj[k].recvd = n] = b
    BY <1>2 DEF Quiet, Moves, Calm, Accessory
  <2>. HIDE DEF b
  <2>. QED  BY <1>1, <2>1, UnitsAreFold, Zenon
<1>. HIDE DEF u
<1>4. n \in Int /\ u.obj[k] \in Asset /\ Calm(u)
  <2>1. x.obj[k] \in Asset
    BY ObjTyped DEF Calm
  <2>2. x.obj[k].recvd + x.obj[k].req.asked \in Int /\ LENGTH + 1 \in Int
    BY <2>1, LengthTypes DEF Asset, Request
  <2>3. n \in Int
    BY <2>2, LeastTyped
  <2>. HIDE DEF n
  <2>. QED  BY <1>2, <2>1, <2>3 DEF Quiet, Moves
<1>. HIDE DEF n
<1>5. o \in Asset
  BY <1>4, AssetField
<1>6. o.id = u.obj[k].id /\ o.ctrl = u.obj[k].ctrl /\ o.req = u.obj[k].req
  BY <1>4 DEF Asset
<1>. HIDE DEF o
<1>7. Quiet(u, b, k) /\ b.obj[k].req.left = 0
  BY <1>2, <1>4, <1>5, <1>6, QuietAsset DEF Calm, Accessory
<1>. HIDE DEF b
<1>8. Quiet(x, b, k) /\ Calm(b)
  BY <1>2, <1>7, QuietTrans DEF Quiet, Moves
<1>9. Asked(b, payload_data_complete(b, k), k) /\ Asked(b, PayloadRequestData(b, k), k)
  BY <1>7, <1>8, DataCompleteAsks, PayloadRequestAsks
<1>. QED  BY <1>3, <1>8, <1>9, QuietAsked

(* uarpPlatformDataRequestComplete()                                        *)
LEMMA RequestCompleteAsks ==
  ASSUME NEW x, Calm(x), NEW k \in Offers, x.asset = k, x.obj[k].req.left = 0
  PROVE  Asked(x, DataRequestComplete(x, k), k)
<1>1. DataRequestComplete(x, k) \in
        {SuperBinaryHeaderComplete(x, k), UpdateSuperBinaryMetaData(x, k),
         PayloadHeaderComplete(x, k), UpdatePayloadMetaData(x, k),
         UpdatePayloadPayload(x, k), Failing(x)}
  BY Zenon DEF DataRequestComplete
<1>2. Asked(x, Failing(x), k)
  <2>1. Quiet(x, Failing(x), k) /\ Failing(x).obj = x.obj
    BY QuietField DEF Calm, Accessory, Failing
  <2>. QED  BY <2>1 DEF Quiet, Asked
<1>. QED  BY <1>1, <1>2, HeaderCompleteAsks, MetaDataAsks, PayloadHeaderAsks, PayloadMetaDataAsks,
             PayloadAsks

(* uarpPlatformAssetDataResponse(): a unit that is not the one asked for    *)
(* changes nothing, and that one is followed by the next.                   *)
LEMMA DataAsks ==
  ASSUME NEW x, Calm(x), NEW k \in Offers, x.asset = k, NEW g,
         x.obj[k].req.left = x.obj[k].req.asked - x.obj[k].req.got
  PROVE  LET y == AssetDataResponse(x, k, g) IN
         IF x.obj[k].marked \/ g # TokenOf(x, k).arg THEN y = x ELSE Asked(x, y, k)
<1>. DEFINE q == x.obj[k].req
            g1 == q.got + 1
            l1 == q.left - 1
            r == [q EXCEPT !.got = g1, !.left = l1, !.out = FALSE]
            o == [x.obj[k] EXCEPT !.req = r]
            b == [x EXCEPT !.obj[k] = o]
            y == AssetDataResponse(x, k, g)
<1>1. x.obj[k] \in Asset /\ q \in Request
  BY ObjTyped DEF Calm, Asset
<1>2. y = IF x.obj[k].marked \/ g # <<q.type, q.of, q.rel + q.got>> THEN x
          ELSE IF r.got = r.asked THEN DataRequestComplete(b, k) ELSE RequestDataContinue(b, k)
  <2>1. [x EXCEPT !.obj[k].req = r] = b
    <3>. HIDE DEF r
    <3>. QED  BY DEF Calm, Accessory
  <2>2. r = [q EXCEPT !.got = q.got + 1, !.left = q.left - 1, !.out = FALSE]
    OBVIOUS
  <2>. HIDE DEF b, r
  <2>. QED  BY <2>1, <2>2, Zenon DEF AssetDataResponse
<1>3. TokenOf(x, k).arg = <<q.type, q.of, q.rel + q.got>>
  BY DEF TokenOf, Msg
<1>4. g1 \in Int /\ l1 \in Int /\ (g1 = q.asked => l1 = 0)
  <2>. HIDE DEF q
  <2>1. q.got \in Int /\ q.left \in Int /\ q.asked \in Int
    BY <1>1 DEF Request
  <2>. QED  BY <2>1 DEF q
<1>. HIDE DEF g1, l1
<1>5. r \in Request /\ r.got = g1 /\ r.left = l1 /\ r.asked = q.asked
  <2>. HIDE DEF q
  <2>. QED  BY <1>1, <1>4 DEF Request
<1>. HIDE DEF r
<1>6. o \in Asset
  BY <1>1, <1>5, AssetField
<1>7. o.id = x.obj[k].id /\ o.ctrl = x.obj[k].ctrl /\ o.req = r
  BY <1>1 DEF Asset
<1>. HIDE DEF o
<1>8. Quiet(x, b, k) /\ Calm(b) /\ b.asset = k /\ b.obj[k].req = r
  BY <1>6, <1>7, QuietAsset DEF Quiet, Moves, Calm, Accessory
<1>. HIDE DEF b
<1>9. Asked(x, RequestDataContinue(b, k), k)
  BY <1>8, ContinueAsks, QuietAsked
<1>10. r.got = r.asked => Asked(x, DataRequestComplete(b, k), k)
  BY <1>4, <1>5, <1>8, RequestCompleteAsks, QuietAsked
<1>. QED  BY <1>2, <1>3, <1>9, <1>10

(* What a unit changes of a sound accessory.                                *)
LEMMA DataAnswered ==
  ASSUME NEW x \in Accessory, Sound(x), NEW k \in Offers, x.obj[k].ctrl,
         NEW g, Within(g[1], g[2], g[3])
  PROVE  LET y == AssetDataResponse(x, k, g) IN
         \/ y = x /\ (x.state = "ACTIVE" /\ x.asset = k => g # TokenOf(x, k).arg)
         \/ x.asset = k /\ g = TokenOf(x, k).arg /\ Asked(x, y, k)
<1>. DEFINE o == x.obj[k]
            q == o.req
            y == AssetDataResponse(x, k, g)
<1>1. o \in Asset /\ q \in Request /\ RequestSound(q)
  BY ObjTyped, SoundFacts DEF Asset
<1>2. TokenOf(x, k).arg = <<q.type, q.of, q.rel + q.got>>
  BY DEF TokenOf, Msg
<1>3. o.marked \/ g # TokenOf(x, k).arg => y = x
  BY <1>2, Zenon DEF AssetDataResponse
<1>4. ~o.marked /\ g = TokenOf(x, k).arg => x.asset = k
  BY <1>1, <1>2, NothingLeft DEF Sound, Sturdy, Rest, Requests
<1>5. x.asset = k => Calm(x) /\ ~o.marked
  BY DEF Sound, Sturdy, Rest, Owner, Offers, None, Calm
<1>6. ASSUME x.asset = k, g = TokenOf(x, k).arg
      PROVE  Asked(x, y, k)
  <2>1. q.left = q.asked - q.got
    BY <1>1 DEF RequestSound
  <2>. QED  BY <1>5, <1>6, <2>1, DataAsks
<1>. QED  BY <1>3, <1>4, <1>5, <1>6

-----------------------------------------------------------------------------
(* What an offer changes. *)

(* send_message(), of any message.                                          *)
LEMMA SendEffect ==
  ASSUME NEW x \in Accessory, NEW m
  PROVE  LET s == send_message(x, m) IN
         /\ s.obj = x.obj /\ s.state = x.state /\ s.asset = x.asset /\ s.order = x.order
         /\ s.allowed = x.allowed
         /\ IF x.buf = NoMsg THEN s.buf = m /\ s.pending = x.pending /\ s.status
            ELSE IF x.pending = NoMsg THEN s.buf = x.buf /\ s.pending = m /\ s.status
            ELSE SameBuffers(x, s) /\ ~s.status
<1>. DEFINE s == send_message(x, m)
            b == Asserted(x, x.sending = "none", "dangling buffer")
            d == [b EXCEPT !.buf = m, !.sending = "new", !.kick = TRUE]
            p == [x EXCEPT !.pending = m]
<1>1. s = IF x.buf = NoMsg THEN Passing(d) ELSE IF x.pending = NoMsg THEN Passing(p) ELSE Failing(x)
  BY Zenon DEF send_message
<1>2. /\ b.obj = x.obj /\ b.state = x.state /\ b.asset = x.asset /\ b.order = x.order
      /\ b.allowed = x.allowed /\ b.pending = x.pending /\ DOMAIN b = DOMAIN x
  BY DEF Asserted, Accessory
<1>3. /\ "buf" \in DOMAIN x /\ "status" \in DOMAIN x /\ "pending" \in DOMAIN x
      /\ "allowed" \in DOMAIN x
  BY DEF Accessory
<1>. HIDE DEF b
<1>4. LET y == Passing(d) IN
      /\ y.obj = x.obj /\ y.state = x.state /\ y.asset = x.asset /\ y.order = x.order
      /\ y.allowed = x.allowed /\ y.buf = m /\ y.pending = x.pending /\ y.status
  BY <1>2, <1>3 DEF Passing
<1>5. LET y == Passing(p) IN
      /\ y.obj = x.obj /\ y.state = x.state /\ y.asset = x.asset /\ y.order = x.order
      /\ y.allowed = x.allowed /\ y.buf = x.buf /\ y.pending = m /\ y.status
  BY <1>3 DEF Passing
<1>6. LET y == Failing(x) IN
      /\ y.obj = x.obj /\ y.state = x.state /\ y.asset = x.asset /\ y.order = x.order
      /\ y.allowed = x.allowed /\ SameBuffers(x, y) /\ ~y.status
  BY <1>3 DEF Failing, SameBuffers
<1>. HIDE DEF s, d, p
<1>. QED  BY <1>1, <1>4, <1>5, <1>6 DEF s

(* Passing() does not change what was asked for.                            *)
LEMMA PassingAsked ==
  ASSUME NEW x, NEW y, NEW k \in Offers, Asked(x, y, k)
  PROVE  Asked(x, Passing(y), k)
<1>1. y \in Accessory /\ Passing(y) \in Accessory
  BY StatusTyped DEF Asked, Moves, Calm
<1>2. SameCourse(y, Passing(y))
  BY <1>1 DEF Passing, Accessory, SameCourse
<1>. DEFINE z == Passing(y)
<1>. HIDE DEF z
<1>3. SameCourse(y, z) /\ z \in Accessory
  BY <1>1, <1>2 DEF z
<1>4. Moves(x, z, k)
  BY <1>3 DEF Asked, Moves, Calm, SameCourse, SameIds, Says
<1>5. TokenOf(z, k) = TokenOf(y, k)
  BY <1>3 DEF TokenOf, SameCourse
<1>6. Asked(x, z, k)
  BY <1>3, <1>4, <1>5 DEF Asked, SameCourse, Adds, SameBuffers
<1>. QED  BY <1>6 DEF z

(* uarpPlatformAssetAccept(): the asset goes on where it was.               *)
LEMMA AcceptAsks ==
  ASSUME NEW x, Calm(x), NEW k \in Offers
  PROVE  LET y == AssetAccept(x, k) IN Moves(x, y, k) /\ (y.status => Asked(x, y, k))
<1>. DEFINE y == AssetAccept(x, k)
<1>1. y \in
        {RequestData(x, k, "HEADER", 0, 1), RequestData(x, k, "METADATA", 0, 1),
         Passing(asset_meta_data_complete(x, k)), Passing(payload_ready(x, k)),
         PayloadRequestData(x, k)}
  BY Zenon DEF AssetAccept
<1>2. ASSUME NEW t \in {"HEADER", "METADATA"}
      PROVE  LET z == RequestData(x, k, t, 0, 1) IN Moves(x, z, k) /\ (z.status => Asked(x, z, k))
  <2>1. 0 \in Int /\ 1 \in Int /\ t \in RequestTypes
    BY DEF RequestTypes
  <2>. QED  BY <2>1, RequestAsks, Zenon
<1>3. LET z == PayloadRequestData(x, k) IN Moves(x, z, k) /\ (z.status => Asked(x, z, k))
  BY PayloadRequestAsks
<1>4. /\ Asked(x, Passing(asset_meta_data_complete(x, k)), k)
      /\ Asked(x, Passing(payload_ready(x, k)), k)
  BY MetaDataCompleteAsks, PayloadReadyAsks, PassingAsked
<1>. HIDE DEF y
<1>5. Moves(x, y, k) /\ (y.status => Asked(x, y, k))
  BY <1>1, <1>2, <1>3, <1>4 DEF Asked
<1>. QED  BY <1>5 DEF y

(* Assets leave the list or their controller, and change no identifier.     *)
Fewer(x, y) ==
  /\ Listed(y) \subseteq Listed(x)
  /\ \A j \in Listed(y) : y.obj[j].id = x.obj[j].id /\ (y.obj[j].ctrl => x.obj[j].ctrl)

(* Steps add up.                                                            *)
LEMMA FewerTrans == \A x, y, z : Fewer(x, y) /\ Fewer(y, z) => Fewer(x, z)
BY DEF Fewer

(* Where all keep their controllers, none has more.                         *)
LEMMA SameFewer == \A x \in Accessory : \A y : SameIds(x, y) => Fewer(x, y)
<1>. SUFFICES ASSUME NEW x \in Accessory, NEW y, SameIds(x, y)
              PROVE  Fewer(x, y)
  OBVIOUS
<1>1. Listed(y) = Listed(x)
  BY DEF SameIds, Listed
<1>. QED  BY <1>1, ListedTyped DEF SameIds, Fewer

(* The request is on its way to be sent, or it may not be.                  *)
Pending(y, k) ==
  /\ y.asset = k /\ y.obj[k].ctrl
  /\ y.pending = TokenOf(y, k) \/ (y.pending = NoMsg /\ ~y.allowed)

(* super_binary_offered(), of an asset that may be accepted.                *)
LEMMA AcceptedAsks ==
  ASSUME NEW x \in Accessory, x.buf # NoMsg, x.pending = NoMsg, NEW k \in Offers, x.obj[k].ctrl,
         Sound(Accepted(x, k))
  PROVE  LET y == Accepted(x, k) IN
         /\ y.allowed = x.allowed /\ y.buf = x.buf /\ Fewer(x, y)
         /\ y.pending = NoMsg \/ Utters(y.pending, x.obj[k].id)
         /\ y.state = "ACTIVE" => Pending(y, k) /\ y.obj[k].id = x.obj[k].id
<1>. DEFINE p == Placed(x, k)
            b == AssetAccept(p, k)
            r == AssetRelease(b, k)
            z == [r EXCEPT !.asset = None, !.state = "NONE"]
            y == Accepted(x, k)
<1>1. y = IF b.status THEN b ELSE z
  <2>1. y = LET d == AssetAccept(p, k) IN
            IF d.status THEN d ELSE [AssetRelease(d, k) EXCEPT !.asset = None, !.state = "NONE"]
    BY Zenon DEF Accepted, Placed
  <2>. HIDE DEF p
  <2>. QED  BY <2>1
<1>2. /\ p \in Accessory /\ p.asset = k /\ p.state = "ACTIVE" /\ p.order = x.order
      /\ Silent(x, p)
      /\ \A j \in Offers : j # k => p.obj[j] = x.obj[j]
      /\ p.obj[k] = [x.obj[k] EXCEPT !.delegate = TRUE]
  BY PlacedFields
<1>3. p.allowed = x.allowed
  BY DEF Placed, Accessory
<1>. HIDE DEF p
<1>4. Calm(p) /\ SameIds(x, p)
  <2>1. x.obj[k] \in Asset
    BY ObjTyped
  <2>2. p.obj[k].id = x.obj[k].id /\ p.obj[k].ctrl = x.obj[k].ctrl
    BY <1>2, <2>1 DEF Asset
  <2>. QED  BY <1>2, <2>2 DEF Calm, SameIds
<1>5. Moves(p, b, k) /\ (b.status => Asked(p, b, k))
  BY <1>4, AcceptAsks
<1>. HIDE DEF b
<1>6. b \in Accessory /\ b.allowed = x.allowed /\ SameIds(x, b) /\ b.buf = x.buf
      /\ (b.pending = NoMsg \/ Utters(b.pending, x.obj[k].id))
  BY <1>2, <1>3, <1>4, <1>5 DEF Moves, Calm, SameIds, Says, Silent
<1>7. CASE b.status
  <2>1. y = b
    BY <1>1, <1>7
  <2>2. ASSUME b.state = "ACTIVE"
        PROVE  Pending(b, k) /\ b.obj[k].id = x.obj[k].id
    <3>1. b.asset = k /\ b.obj[k].id = x.obj[k].id /\ b.obj[k].ctrl
      BY <1>2, <1>5, <1>6, <2>2 DEF Moves, SameIds
    <3>2. p.pending = NoMsg /\ p.buf # NoMsg
      BY <1>2 DEF Silent
    <3>3. b.obj[k].req.left > 0
      BY <2>1, <2>2, <3>1 DEF Sound, Live
    <3>4. \/ Adds(p, b, TokenOf(b, k))
          \/ SameBuffers(p, b) /\ ~p.allowed
      BY <1>5, <1>7, <2>2, <3>2, <3>3 DEF Asked
    <3>. QED  BY <1>3, <1>6, <3>1, <3>2, <3>4 DEF Pending, Adds, SameBuffers
  <2>3. Fewer(x, b)
    BY <1>6, SameFewer
  <2>. QED  BY <1>6, <2>1, <2>2, <2>3
<1>8. CASE ~b.status
  <2>1. r \in Accessory
    BY <1>6, ReleaseTyped
  <2>2. /\ r.order = b.order /\ r.buf = b.buf /\ r.pending = b.pending
        /\ \A j \in Offers : r.obj[j].id = b.obj[j].id /\ (r.obj[j].ctrl => b.obj[j].ctrl)
    BY <1>6, ReleaseFields
  <2>3. r.allowed = b.allowed
    BY <1>6 DEF AssetRelease, Accessory
  <2>. HIDE DEF r
  <2>4. /\ z.order = r.order /\ z.buf = r.buf /\ z.pending = r.pending /\ z.obj = r.obj
        /\ z.allowed = r.allowed /\ z.state = "NONE"
    BY <2>1 DEF Accessory
  <2>5. y = z
    BY <1>1, <1>8
  <2>. HIDE DEF z, y
  <2>6. Listed(y) = Listed(x) /\ Listed(x) \subseteq Offers
    BY <1>6, <2>2, <2>4, <2>5, ListedTyped DEF SameIds, Listed
  <2>7. Fewer(x, y)
    BY <1>6, <2>2, <2>4, <2>5, <2>6 DEF SameIds, Fewer
  <2>. QED  BY <1>6, <2>2, <2>3, <2>4, <2>5, <2>7 DEF y
<1>. QED  BY <1>7, <1>8

(* uarpPlatformAccessoryAssetDeny()                                         *)
LEMMA DenyEffect ==
  ASSUME NEW x \in Accessory, x.buf # NoMsg, x.pending = NoMsg, NEW k \in Offers
  PROVE  LET y == AssetDeny(x, k) IN
         /\ y.allowed = x.allowed /\ y.buf = x.buf /\ SameIds(x, y)
         /\ y.pending.type = "NOTIFICATION" /\ y.state = x.state /\ y.asset = x.asset
         /\ \A j \in Offers : j # k => y.obj[j] = x.obj[j]
<1>. DEFINE m == Msg("NOTIFICATION", x.obj[k].id, <<"DENIED", 0, 0>>)
            b == send_message(x, m)
            o == [b.obj[k] EXCEPT !.marked = TRUE, !.delegate = FALSE]
            y == [b EXCEPT !.obj[k] = o]
<1>1. b \in Accessory /\ b.status
  <2>1. "DENIED" \in Texts
    BY DEF Texts
  <2>2. b \in Accessory
    BY <2>1, NotificationTyped DEF Notification
  <2>. HIDE DEF m
  <2>. QED  BY <2>2, SendEffect
<1>2. /\ b.obj = x.obj /\ b.state = x.state /\ b.asset = x.asset /\ b.order = x.order
      /\ b.allowed = x.allowed /\ b.buf = x.buf /\ b.pending = m
  <2>. HIDE DEF m
  <2>. QED  BY SendEffect
<1>3. m.type = "NOTIFICATION"
  BY DEF Msg
<1>4. AssetDeny(x, k) = y
  <2>1. AssetDeny(x, k) = [b EXCEPT !.obj[k].marked = TRUE, !.obj[k].delegate = FALSE]
    BY <1>1 DEF AssetDeny, Notification
  <2>. HIDE DEF b
  <2>. QED  BY <1>1, <2>1 DEF Accessory
<1>. HIDE DEF b, m
<1>5. o.id = b.obj[k].id /\ o.ctrl = b.obj[k].ctrl
  BY <1>1, ObjTyped DEF Asset
<1>. HIDE DEF o
<1>6. /\ y.state = b.state /\ y.asset = b.asset /\ y.order = b.order
      /\ y.allowed = b.allowed /\ y.buf = b.buf /\ y.pending = b.pending
      /\ \A j \in Offers : j # k => y.obj[j] = b.obj[j]
      /\ y.obj[k] = o
  BY <1>1 DEF Accessory
<1>. HIDE DEF y
<1>. QED  BY <1>2, <1>3, <1>4, <1>5, <1>6 DEF SameIds

(* The cleanup gives no asset another owner, and the one that is received   *)
(* further is not among those given up.                                     *)
LEMMA CleanupKeeps ==
  ASSUME NEW x \in Accessory, Sound(x), NEW S \in SUBSET Listed(x)
  PROVE  LET y == CleanupAssets(x, S) IN
         /\ Fewer(x, y) /\ y.allowed = x.allowed /\ SameBuffers(x, y)
         /\ y.state = "ACTIVE" =>
              /\ x.state = "ACTIVE" /\ y.asset = x.asset /\ x.asset \in Offers \ S
              /\ y.obj[x.asset] = x.obj[x.asset]
<1>. DEFINE y == CleanupAssets(x, S)
<1>1. PICK b : GivenUp(x, S, b) /\ y = IF x.asset \in S \ Freed(x, S)
                                       THEN asset_orphaned(b, x.asset) ELSE b
  BY CleanupFields
<1>. HIDE DEF y
<1>2. Listed(x) \subseteq Offers /\ Listed(b) \subseteq Listed(x)
  BY <1>1, ListedTyped DEF GivenUp
<1>3. Fewer(x, b)
  <2>1. ASSUME NEW j \in Listed(b)
        PROVE  b.obj[j].id = x.obj[j].id /\ (b.obj[j].ctrl => x.obj[j].ctrl)
    <3>1. j \in Offers /\ j \notin Freed(x, S)
      BY <1>1, <1>2, <2>1 DEF GivenUp
    <3>2. b.obj[j] = [x.obj[j] EXCEPT !.ctrl = FALSE] \/ b.obj[j] = x.obj[j]
      BY <1>1, <3>1 DEF GivenUp
    <3>3. x.obj[j] \in Asset
      BY <3>1, ObjTyped
    <3>. QED  BY <3>2, <3>3 DEF Asset
  <2>. QED  BY <1>2, <2>1 DEF Fewer
<1>4. b \in Accessory /\ b.allowed = x.allowed /\ SameBuffers(x, b) /\ b.state = x.state
      /\ b.asset = x.asset
  BY <1>1 DEF GivenUp, Silent, SameBuffers
<1>5. CASE x.asset \in S \ Freed(x, S)
  <2>1. x.asset \in Offers
    BY <1>2, <1>5
  <2>2. /\ y.order = b.order /\ y.allowed = b.allowed /\ y.state # "ACTIVE"
        /\ \A j \in Offers : y.obj[j].id = b.obj[j].id /\ (y.obj[j].ctrl => b.obj[j].ctrl)
    BY <1>1, <1>4, <1>5, <2>1, OrphanedQuiet
  <2>3. Fewer(b, y)
    BY <1>2, <2>2 DEF Fewer, Listed
  <2>4. SameBuffers(b, y)
    <3>1. ~b.obj[x.asset].ctrl
      <4>1. b.obj[x.asset] = [x.obj[x.asset] EXCEPT !.ctrl = FALSE]
        BY <1>1, <1>5, <2>1 DEF GivenUp
      <4>2. x.obj[x.asset] \in Asset
        BY <2>1, ObjTyped
      <4>. QED  BY <4>1, <4>2 DEF Asset
    <3>2. Sound(b)
      BY <1>1, GivenUpSound DEF GivenUp
    <3>. QED  BY <1>1, <1>4, <1>5, <2>1, <3>1, <3>2, OrphanedSound DEF Silent, SameBuffers
  <2>5. Fewer(x, y)
    BY <1>3, <2>3, FewerTrans
  <2>. QED  BY <1>4, <2>2, <2>4, <2>5 DEF SameBuffers, y
<1>6. CASE x.asset \notin S \ Freed(x, S)
  <2>1. y = b
    BY <1>1, <1>6
  <2>2. ASSUME x.state = "ACTIVE"
        PROVE  x.asset \in Offers \ S /\ b.obj[x.asset] = x.obj[x.asset]
    <3>1. x.asset \in Offers /\ ~x.obj[x.asset].marked
      BY <2>2, SoundFacts DEF Owner
    <3>2. x.asset \notin S
      BY <1>6, <3>1 DEF Freed
    <3>. QED  BY <1>1, <3>1, <3>2 DEF GivenUp, Freed
  <2>. QED  BY <1>3, <1>4, <2>1, <2>2 DEF y
<1>. QED  BY <1>5, <1>6

(* The identifier k is that of one asset of the controller, t. *)
Renamed(x, y, k, t) ==
  \A j \in Listed(y) :
    \/ y.obj[j].id = k /\ (y.obj[j].ctrl => j = t)
    \/ j # k /\ j \in Listed(x) /\ y.obj[j].id = x.obj[j].id /\ (y.obj[j].ctrl => x.obj[j].ctrl)

(* The offer of k has been accepted or denied. *)
Resolved(x, y, k) ==
  /\ y.allowed = x.allowed /\ y.buf = x.buf
  /\ y.pending = NoMsg \/ Utters(y.pending, k)
  /\ \E t \in Offers : Renamed(x, y, k, t)
  /\ y.state = "ACTIVE" =>
       \/ /\ x.state = "ACTIVE" /\ y.asset = x.asset /\ x.asset \in Offers \ {k}
          /\ y.obj[x.asset] = x.obj[x.asset] /\ y.pending.type = "NOTIFICATION"
       \/ y.asset \in Offers /\ Pending(y, y.asset) /\ y.obj[y.asset].id = k

(* An asset may be accepted, whichever it is.                               *)
LEMMA AcceptedResolves ==
  ASSUME NEW x \in Accessory, NEW m \in Accessory, m.buf = x.buf, m.allowed = x.allowed,
         x.buf # NoMsg, m.pending = NoMsg, NEW k \in Offers, NEW t \in Offers, m.obj[t].ctrl,
         m.obj[t].id = k, Renamed(x, m, k, t), Sound(Accepted(m, t))
  PROVE  Resolved(x, Accepted(m, t), k)
<1>. DEFINE y == Accepted(m, t)
<1>1. /\ y.allowed = m.allowed /\ y.buf = m.buf /\ Fewer(m, y)
      /\ y.pending = NoMsg \/ Utters(y.pending, m.obj[t].id)
      /\ y.state = "ACTIVE" => Pending(y, t) /\ y.obj[t].id = m.obj[t].id
  BY AcceptedAsks
<1>. HIDE DEF y
<1>2. Renamed(x, y, k, t)
  BY <1>1 DEF Renamed, Fewer
<1>. QED  BY <1>1, <1>2 DEF Resolved, Pending, y

(* super_binary_offered(), in each of its cases: what is received then is   *)
(* asked for, or was received before.                                       *)
LEMMA SuperBinaryResolves ==
  ASSUME NEW x, NEW k, NEW v, Offered(x, k, v)
  PROVE  Resolved(x, super_binary_offered(x, k), k)
<1>. DEFINE j == x.asset
            m == SuperBinaryMerge(x, k)
            r == AssetRelease(x, j)
            y == super_binary_offered(x, k)
<1>1. /\ x \in Accessory /\ k \in Offers /\ v \in Versions /\ x.buf # NoMsg /\ x.pending = NoMsg
      /\ Owner(x) /\ j # k /\ x.obj[k].v = v /\ x.obj[k].id = k /\ x.obj[k].ctrl
  BY NewAssetFields DEF Offered
<1>2. x.state # "NONE" => j \in Offers
  BY <1>1 DEF Owner, Accessory
<1>3. Sound(y) /\ Listed(x) \subseteq Offers
  BY <1>1, SuperBinaryReaches, OwnAsset DEF Reaches
<1>4. CASE v \in OldVersions \/ x.state \notin {"NONE", "ORPHANED"}
  <2>1. y = AssetDeny(x, k)
    BY <1>1, <1>4 DEF super_binary_offered
  <2>2. /\ y.allowed = x.allowed /\ y.buf = x.buf /\ SameIds(x, y)
        /\ y.pending.type = "NOTIFICATION" /\ y.state = x.state /\ y.asset = x.asset
        /\ \A i \in Offers : i # k => y.obj[i] = x.obj[i]
    BY <1>1, <2>1, DenyEffect
  <2>. HIDE DEF y
  <2>3. Renamed(x, y, k, k)
    BY <1>1, <1>3, <2>2 DEF Renamed, SameIds, Listed
  <2>. QED  BY <1>1, <1>2, <2>2, <2>3 DEF Resolved, Utters, y
<1>5. CASE v \notin OldVersions /\ x.state = "NONE"
  <2>1. y = Accepted(x, k)
    BY <1>1, <1>5 DEF super_binary_offered
  <2>2. Renamed(x, x, k, k)
    BY <1>1 DEF Renamed
  <2>. HIDE DEF y
  <2>. QED  BY <1>1, <1>3, <2>1, <2>2, AcceptedResolves DEF y
<1>6. CASE v \notin OldVersions /\ x.state = "ORPHANED" /\ x.obj[j].v = v
  <2>1. y = Accepted(m, j)
    BY <1>1, <1>6 DEF super_binary_offered
  <2>2. m \in Accessory /\ j \in Offers
    BY <1>1, <1>2, <1>6, MergeLeads DEF Leads
  <2>3. PICK i \in Offers : i = j
    BY <2>2
  <2>4. i # k /\ x.asset \in Offers /\ k # x.asset
    BY <1>1, <2>2, <2>3
  <2>5. /\ m.order = x.order /\ m.asset = x.asset /\ Silent(x, m)
        /\ \A n \in Offers : n \notin {x.asset, k} => m.obj[n] = x.obj[n]
        /\ m.obj[x.asset] = [x.obj[x.asset] EXCEPT !.req.out = FALSE, !.ctrl = TRUE, !.id = x.obj[k].id]
        /\ m.obj[k] = [x.obj[k] EXCEPT !.marked = TRUE, !.ctrl = FALSE]
    BY <1>1, <2>4, MergeFields
  <2>6. m.allowed = x.allowed
    BY <1>1 DEF SuperBinaryMerge, Accessory
  <2>. HIDE DEF m, y, j
  <2>7. m.obj[i].id = k /\ m.obj[i].ctrl /\ m.obj[k].id = k /\ ~m.obj[k].ctrl
    <3>1. x.obj[i] \in Asset /\ x.obj[k] \in Asset /\ x.asset = i
      BY <1>1, <2>3, ObjTyped DEF j
    <3>2. m.obj[i] = [x.obj[i] EXCEPT !.req.out = FALSE, !.ctrl = TRUE, !.id = x.obj[k].id]
      BY <2>5, <3>1
    <3>. QED  BY <1>1, <2>5, <3>1, <3>2 DEF Asset
  <2>8. \A n \in Offers : n \notin {i, k} => m.obj[n] = x.obj[n]
    BY <2>3, <2>5 DEF j
  <2>9. Renamed(x, m, k, i)
    <3>1. ASSUME NEW n \in Listed(m)
          PROVE  \/ m.obj[n].id = k /\ (m.obj[n].ctrl => n = i)
                 \/ /\ n # k /\ n \in Listed(x) /\ m.obj[n].id = x.obj[n].id
                    /\ m.obj[n].ctrl => x.obj[n].ctrl
      <4>1. n \in Listed(x)
        BY <2>5, <3>1 DEF Listed
      <4>2. CASE n \in {i, k}
        BY <2>7, <4>2
      <4>3. CASE n \notin {i, k}
        BY <1>3, <2>8, <4>1, <4>3
      <4>. QED  BY <4>2, <4>3
    <3>. QED  BY <3>1 DEF Renamed
  <2>10. m.buf = x.buf /\ m.pending = NoMsg
    BY <1>1, <2>5 DEF Silent
  <2>11. y = Accepted(m, i)
    BY <2>1, <2>3
  <2>. QED  BY <1>1, <1>3, <2>2, <2>6, <2>7, <2>9, <2>10, <2>11, AcceptedResolves DEF y
<1>7. CASE v \notin OldVersions /\ x.state = "ORPHANED" /\ x.obj[j].v # v
  <2>1. y = Accepted(r, k)
    BY <1>1, <1>7 DEF super_binary_offered
  <2>2. r \in Accessory /\ j \in Offers
    BY <1>1, <1>2, <1>7, ReleaseTyped
  <2>3. /\ r.order = x.order /\ r.pending = x.pending /\ r.buf = x.buf
        /\ \A i \in Offers : i # j => r.obj[i] = x.obj[i]
        /\ r.obj[j].id = x.obj[j].id /\ ~r.obj[j].ctrl
    BY <1>1, <2>2, ReleaseFields
  <2>4. r.allowed = x.allowed
    BY <1>1 DEF AssetRelease, Accessory
  <2>. HIDE DEF r, y, j
  <2>5. Renamed(x, r, k, k)
    BY <1>1, <1>3, <2>2, <2>3 DEF Renamed, Listed
  <2>6. r.obj[k].ctrl /\ r.obj[k].id = k
    BY <1>1, <2>3
  <2>. QED  BY <1>1, <1>3, <2>1, <2>2, <2>3, <2>4, <2>5, <2>6, AcceptedResolves DEF y
<1>. QED  BY <1>4, <1>5, <1>6, <1>7

(* uarpPlatformAssetOffered() as a whole.                                   *)
LEMMA AssetOfferedResolves ==
  ASSUME NEW x \in Accessory, Sound(x), Buffers(x), x.buf # NoMsg, x.pending = NoMsg,
         NEW k \in Offers, k \notin Listed(x), NEW v \in Versions, OfferFits(x, v)
  PROVE  Resolved(x, AssetOffered(x, k, v), k)
<1>. DEFINE b == WithOffer(x, k, v)
            s == super_binary_offered(b, k)
            S == {j \in Listed(s) : s.obj[j].ctrl = FALSE}
            y == CleanupAssets(s, S)
<1>1. /\ Offered(b, k, v) /\ Listed(b) = Listed(x) \cup {k} /\ b.state = x.state
      /\ b.asset = x.asset /\ SameBuffers(x, b)
      /\ \A j \in Offers : j # k => b.obj[j] = x.obj[j]
  BY OfferPlaced DEF Silent, SameBuffers
<1>2. b.allowed = x.allowed
  BY DEF WithOffer, Accessory
<1>3. AssetOffered(x, k, v) = y
  BY DEF AssetOffered, WithOffer, NewAsset, CleanupFor
<1>. HIDE DEF b
<1>4. Resolved(b, s, k) /\ Sound(s) /\ s \in Accessory
  BY <1>1, SuperBinaryResolves, SuperBinaryReaches DEF Reaches
<1>. HIDE DEF s
<1>5. /\ Fewer(s, y) /\ y.allowed = s.allowed /\ SameBuffers(s, y)
      /\ y.state = "ACTIVE" =>
           /\ s.state = "ACTIVE" /\ y.asset = s.asset /\ s.asset \in Offers \ S
           /\ y.obj[s.asset] = s.obj[s.asset]
  BY <1>4, CleanupKeeps
<1>. HIDE DEF y, S
<1>6. PICK t \in Offers : Renamed(b, s, k, t)
  BY <1>4 DEF Resolved
<1>7. Renamed(x, y, k, t)
  <2>1. ASSUME NEW j \in Listed(y)
        PROVE  \/ y.obj[j].id = k /\ (y.obj[j].ctrl => j = t)
               \/ /\ j # k /\ j \in Listed(x) /\ y.obj[j].id = x.obj[j].id
                  /\ y.obj[j].ctrl => x.obj[j].ctrl
    <3>1. j \in Listed(s) /\ y.obj[j].id = s.obj[j].id /\ (y.obj[j].ctrl => s.obj[j].ctrl)
      BY <1>5, <2>1 DEF Fewer
    <3>2. \/ s.obj[j].id = k /\ (s.obj[j].ctrl => j = t)
          \/ j # k /\ j \in Listed(b) /\ s.obj[j].id = b.obj[j].id /\ (s.obj[j].ctrl => b.obj[j].ctrl)
      BY <1>6, <3>1 DEF Renamed
    <3>3. j \in Offers
      BY <1>4, <3>1, ListedTyped
    <3>. QED  BY <1>1, <3>1, <3>2, <3>3
  <2>. QED  BY <2>1 DEF Renamed
<1>8. ASSUME y.state = "ACTIVE"
      PROVE  \/ /\ x.state = "ACTIVE" /\ y.asset = x.asset /\ x.asset \in Offers \ {k}
                /\ y.obj[x.asset] = x.obj[x.asset] /\ y.pending.type = "NOTIFICATION"
             \/ y.asset \in Offers /\ Pending(y, y.asset) /\ y.obj[y.asset].id = k
  <2>1. CASE s.asset \in Offers /\ Pending(s, s.asset) /\ s.obj[s.asset].id = k
    BY <1>5, <1>8, <2>1 DEF Pending, SameBuffers, TokenOf
  <2>2. CASE /\ b.state = "ACTIVE" /\ s.asset = b.asset /\ b.asset \in Offers \ {k}
             /\ s.obj[b.asset] = b.obj[b.asset] /\ s.pending.type = "NOTIFICATION"
    BY <1>1, <1>5, <1>8, <2>2 DEF SameBuffers
  <2>. QED  BY <1>4, <1>5, <1>8, <2>1, <2>2 DEF Resolved
<1>9. y.allowed = x.allowed /\ y.buf = x.buf /\ (y.pending = NoMsg \/ Utters(y.pending, k))
  BY <1>1, <1>2, <1>4, <1>5 DEF Resolved, SameBuffers
<1>. QED  BY <1>3, <1>7, <1>8, <1>9 DEF Resolved

-----------------------------------------------------------------------------
(* What the other commands change. *)

(* The assets keep their owners, and one that is received is received as    *)
(* before.                                                                  *)
Noted(x, y) ==
  /\ SameIds(x, y)
  /\ y.state = "ACTIVE" =>
       /\ x.state = "ACTIVE" /\ y.asset = x.asset /\ x.asset \in Offers
       /\ y.obj[x.asset] = x.obj[x.asset]

(* The acknowledgement is queued, if there is room for it. *)
Room(x) == x.buf = NoMsg \/ x.pending = NoMsg
Confirmed(x, y) ==
  IF x.buf = NoMsg THEN y.buf.type = "ACK" /\ y.pending = x.pending
  ELSE /\ y.buf = x.buf
       /\ IF x.pending = NoMsg THEN y.pending.type = "ACK" ELSE y.pending = x.pending

LEMMA NotedTrans == \A x, y, z : Noted(x, y) /\ Noted(y, z) => Noted(x, z)
<1>. SUFFICES ASSUME NEW x, NEW y, NEW z, Noted(x, y), Noted(y, z)
              PROVE  Noted(x, z)
  OBVIOUS
<1>1. SameIds(x, z)
  BY DEF Noted, SameIds
<1>. QED  BY <1>1, Zenon DEF Noted

LEMMA ActiveAsset == \A x \in Accessory : Sound(x) /\ x.state = "ACTIVE" => x.asset \in Offers
<1>. SUFFICES ASSUME NEW x \in Accessory, Sound(x), x.state = "ACTIVE"
              PROVE  x.asset \in Offers
  OBVIOUS
<1>1. x.asset # None
  BY SoundFacts DEF Owner
<1>. QED  BY <1>1 DEF Accessory

(* The acknowledgement of a message.                                        *)
LEMMA ReplyNoted ==
  ASSUME NEW x \in Accessory, Sound(x), NEW k
  PROVE  LET y == Reply(x, "ACK", k) IN
         /\ Noted(x, y) /\ Confirmed(x, y) /\ y.allowed = x.allowed /\ (y.status <=> Room(x))
         /\ y.obj = x.obj /\ y.state = x.state /\ y.asset = x.asset /\ y.order = x.order
<1>. DEFINE m == Msg("ACK", k, NoArg)
            y == send_message(x, m)
<1>1. /\ y.obj = x.obj /\ y.state = x.state /\ y.asset = x.asset /\ y.order = x.order
      /\ y.allowed = x.allowed
      /\ IF x.buf = NoMsg THEN y.buf = m /\ y.pending = x.pending /\ y.status
         ELSE IF x.pending = NoMsg THEN y.buf = x.buf /\ y.pending = m /\ y.status
         ELSE SameBuffers(x, y) /\ ~y.status
  BY SendEffect
<1>2. Reply(x, "ACK", k) = y
  BY DEF Reply
<1>3. m.type = "ACK"
  BY DEF Msg
<1>. HIDE DEF y, m
<1>4. Noted(x, y)
  BY <1>1, ActiveAsset DEF Noted, SameIds
<1>5. Confirmed(x, y) /\ (y.status <=> Room(x))
  BY <1>1, <1>3 DEF Confirmed, Room, SameBuffers
<1>. QED  BY <1>1, <1>2, <1>4, <1>5

(* One asset is given up: if it was the one received none is received.      *)
LEMMA RescindNoted ==
  ASSUME NEW x \in Accessory, NEW k \in Offers, x.state = "ACTIVE" => x.asset \in Offers
  PROVE  LET y == Rescind(x, k) IN
         y \in Accessory /\ Noted(x, y) /\ SameBuffers(x, y) /\ y.allowed = x.allowed
<1>. DEFINE o == [x.obj[k] EXCEPT !.req.out = FALSE, !.marked = TRUE]
            z == [x EXCEPT !.obj[k] = o]
            y == asset_rescinded(z, k)
<1>1. o \in Asset /\ o.id = x.obj[k].id /\ o.ctrl = x.obj[k].ctrl
  <2>. DEFINE p == [x.obj[k] EXCEPT !.req.out = FALSE]
  <2>1. p \in Asset /\ p.id = x.obj[k].id /\ p.ctrl = x.obj[k].ctrl
    <3>1. x.obj[k] \in Asset
      BY ObjTyped
    <3>2. p \in Asset
      BY <3>1, AssetField
    <3>. QED  BY <3>1, <3>2 DEF Asset
  <2>2. o = [p EXCEPT !.marked = TRUE]
    OBVIOUS
  <2>. HIDE DEF p, o
  <2>3. o \in Asset
    BY <2>1, <2>2, AssetField
  <2>. QED  BY <2>1, <2>2, <2>3 DEF Asset
<1>2. [x EXCEPT !.obj[k].req.out = FALSE, !.obj[k].marked = TRUE] = z
  BY DEF Accessory
<1>3. Rescind(x, k) = y
  BY <1>2 DEF Rescind
<1>. HIDE DEF o
<1>4. z \in Accessory
  BY <1>1, ObjTyped
<1>5. /\ z.state = x.state /\ z.asset = x.asset /\ z.order = x.order /\ z.allowed = x.allowed
      /\ SameBuffers(x, z) /\ z.obj[k] = o /\ \A j \in Offers : j # k => z.obj[j] = x.obj[j]
  BY DEF Accessory, SameBuffers
<1>. HIDE DEF z
<1>6. /\ y \in Accessory /\ SameBuffers(z, y) /\ y.obj = z.obj /\ y.order = z.order
      /\ y.allowed = z.allowed
      /\ IF z.asset = k THEN y.state = "NONE" ELSE y.state = z.state /\ y.asset = z.asset
  BY <1>4, RescindedQuiet
<1>. HIDE DEF y
<1>7. SameIds(x, y)
  BY <1>1, <1>5, <1>6 DEF SameIds
<1>8. Noted(x, y)
  BY <1>5, <1>6, <1>7 DEF Noted
<1>. QED  BY <1>3, <1>5, <1>6, <1>8 DEF SameBuffers

(* So with all that are rescinded.                                          *)
LEMMA AssetRescindedNoted ==
  ASSUME NEW w \in Accessory, Sound(w), NEW id
  PROVE  LET y == AssetRescinded(w, id) IN
         Noted(w, y) /\ SameBuffers(w, y) /\ y.allowed = w.allowed
<1>. DEFINE c == <<w, id>>
            n == Len(w.order)
            P == [i \in 0..n |->
                    {y \in Accessory : Noted(w, y) /\ SameBuffers(w, y) /\ y.allowed = w.allowed}]
<1>1. c[1] = w /\ c[2] = id
  OBVIOUS
<1>. HIDE DEF c
<1>2. n \in Nat /\ DOMAIN w.order = 1..n /\ \A i \in 1..n : w.order[i] \in Offers
  BY LenProperties, ElementOfSeq DEF Accessory
<1>. HIDE DEF n
<1>3. w \in P[0]
  BY <1>2, ActiveAsset DEF Noted, SameIds, SameBuffers
<1>4. ASSUME NEW i \in 1..n, NEW x \in P[i - 1]
      PROVE  FoldOp("rescind", c, x, w.order[i]) \in P[i]
  <2>. DEFINE k == w.order[i]
              y == Rescind(x, k)
  <2>1. x \in Accessory /\ Noted(w, x) /\ SameBuffers(w, x) /\ x.allowed = w.allowed
    BY <1>2
  <2>2. k \in Offers
    BY <1>2
  <2>3. FoldOp("rescind", c, x, k) = x \/ FoldOp("rescind", c, x, k) = y
    BY DEF FoldOp, RescindOp
  <2>. HIDE DEF k
  <2>4. y \in Accessory /\ Noted(x, y) /\ SameBuffers(x, y) /\ y.allowed = x.allowed
    BY <2>1, <2>2, RescindNoted DEF Noted
  <2>. HIDE DEF y
  <2>5. Noted(w, y) /\ SameBuffers(w, y) /\ y.allowed = w.allowed
    BY <2>1, <2>4, NotedTrans DEF SameBuffers
  <2>6. i \in 0..n
    BY <1>2
  <2>. QED  BY <2>1, <2>3, <2>4, <2>5, <2>6 DEF k
<1>5. Fold("rescind", c, w, w.order) \in P[n]
  <2>. HIDE DEF P
  <2>. QED  BY <1>2, <1>3, <1>4, FoldInvariant
<1>6. AssetRescinded(c[1], c[2]) = Fold("rescind", c, c[1], c[1].order)
  BY RescindedIsFold
<1>. QED  BY <1>1, <1>2, <1>5, <1>6

(* Every command but an offer and the one to resume: the transfer goes on,  *)
(* pauses or ends, and the controller has an answer if there is room.       *)
LEMMA CommandNoted ==
  ASSUME NEW x \in Accessory, Sound(x), Buffers(x), NEW m \in Message,
         m.type \in {"INFO", "APPLY", "PAUSE", "RESCIND"}
  PROVE  LET y == RecvMessage(x, m) IN
         /\ Noted(x, y) /\ Confirmed(x, y)
         /\ IF m.type = "PAUSE" /\ Room(x) THEN ~y.allowed ELSE y.allowed = x.allowed
<1>. DEFINE y == RecvMessage(x, m)
            b == Reply(x, "ACK", m.k)
<1>1. /\ Noted(x, b) /\ Confirmed(x, b) /\ b.allowed = x.allowed /\ (b.status <=> Room(x))
      /\ b.obj = x.obj /\ b.state = x.state /\ b.asset = x.asset /\ b.order = x.order
  BY ReplyNoted
<1>2. b \in Accessory /\ Sound(b)
  <2>1. Resumed(x, b)
    BY ReplySound, SoundFacts DEF Message
  <2>. QED  BY <2>1, SoundAlike DEF Resumed, Leads
<1>3. CASE m.type = "INFO"
  <2>1. y = Reply(x, "ACK", None)
    BY <1>3 DEF RecvMessage
  <2>. QED  BY <1>3, <2>1, ReplyNoted
<1>4. CASE m.type = "APPLY"
  <2>. DEFINE z == apply_staged_assets(x)
  <2>1. y = Reply(z, "ACK", None)
    BY <1>4 DEF RecvMessage
  <2>2. z \in Accessory /\ Sound(z)
    BY AppliedReceives DEF Receives, Leads
  <2>3. /\ z.obj = x.obj /\ z.order = x.order /\ SameBuffers(x, z) /\ z.allowed = x.allowed
        /\ z = x \/ z.state = "APPLIED"
    BY DEF apply_staged_assets, apply_and_reboot, Accessory, SameBuffers
  <2>. HIDE DEF z, y
  <2>4. Noted(x, z)
    BY <2>3, ActiveAsset DEF Noted, SameIds
  <2>5. Noted(z, y) /\ Confirmed(z, y) /\ y.allowed = z.allowed
    BY <2>1, <2>2, ReplyNoted
  <2>. QED  BY <1>4, <2>3, <2>4, <2>5, NotedTrans DEF Confirmed, SameBuffers, y
<1>5. CASE m.type = "PAUSE"
  <2>. DEFINE z == [b EXCEPT !.allowed = FALSE]
  <2>1. y = IF b.status THEN z ELSE b
    BY <1>5, Zenon DEF RecvMessage, Acknowledged, Processed
  <2>2. /\ z.obj = b.obj /\ z.order = b.order /\ z.buf = b.buf /\ z.pending = b.pending
        /\ ~z.allowed /\ z.state = b.state /\ z.asset = b.asset
    BY <1>2 DEF Accessory
  <2>. HIDE DEF z, b, y
  <2>3. Noted(x, z)
    BY <1>1, <2>2 DEF Noted, SameIds
  <2>. QED  BY <1>1, <1>5, <2>1, <2>2, <2>3 DEF Confirmed, y
<1>6. CASE m.type = "RESCIND"
  <2>. DEFINE z == AssetRescinded(b, m.k)
  <2>1. y = IF b.status THEN z ELSE b
    BY <1>6, Zenon DEF RecvMessage, Acknowledged, Processed
  <2>2. Noted(b, z) /\ SameBuffers(b, z) /\ z.allowed = b.allowed
    BY <1>2, AssetRescindedNoted
  <2>. HIDE DEF z, b, y
  <2>3. Noted(x, z)
    BY <1>1, <2>2, NotedTrans
  <2>. QED  BY <1>1, <1>6, <2>1, <2>2, <2>3 DEF Confirmed, SameBuffers, y
<1>. QED  BY <1>3, <1>4, <1>5, <1>6

-----------------------------------------------------------------------------
(* Data transfer is resumed. *)

(* No request is open of an asset that was rescinded. *)
NoneRescinded(x) == \A k \in Offers : x.obj[k].ctrl /\ x.obj[k].marked => ~(x.obj[k].req.left > 0)

(* Only handed-over flags differ. *)
SameTokens(x, y) ==
  /\ y.order = x.order /\ y.state = x.state /\ y.asset = x.asset /\ y.allowed = x.allowed
  /\ y.buf = x.buf
  /\ \A j \in Offers : /\ y.obj[j].id = x.obj[j].id /\ y.obj[j].ctrl = x.obj[j].ctrl
                       /\ y.obj[j].req.left = x.obj[j].req.left
                       /\ TokenOf(y, j) = TokenOf(x, j)

LEMMA ContinueEffect ==
  ASSUME NEW x \in Accessory, x.allowed, x.buf # NoMsg, NEW k \in Offers
  PROVE  LET y == RequestDataContinue(x, k) IN
         /\ y \in Accessory /\ SameTokens(x, y)
         /\ y.pending = IF x.obj[k].req.left = 0 \/ x.pending # NoMsg THEN x.pending
                        ELSE TokenOf(x, k)
<1>. DEFINE r == x.obj[k].req
            m == Msg("REQUEST", x.obj[k].id, <<r.type, r.of, r.rel + r.got>>)
            s == send_message(x, m)
            p == [s.obj[k] EXCEPT !.req.out = TRUE]
            z == [s EXCEPT !.obj[k] = p]
            y == RequestDataContinue(x, k)
<1>1. y \in Accessory
  BY ContinueTyped
<1>2. CASE r.left = 0
  <2>1. y = Passing(x)
    BY <1>2 DEF RequestDataContinue
  <2>. HIDE DEF y
  <2>2. SameTokens(x, y) /\ y.pending = x.pending
    BY <2>1 DEF Passing, Accessory, SameTokens, TokenOf
  <2>. QED  BY <1>1, <1>2, <2>2 DEF y
<1>3. CASE r.left # 0
  <2>1. /\ s.obj = x.obj /\ s.state = x.state /\ s.asset = x.asset /\ s.order = x.order
        /\ s.allowed = x.allowed /\ s.buf = x.buf
        /\ s.pending = IF x.pending = NoMsg THEN m ELSE x.pending
    <3>. HIDE DEF m
    <3>. QED  BY SendEffect DEF SameBuffers
  <2>2. s \in Accessory
    <3>1. m \in Message
      <4>1. x.obj[k] \in Asset
        BY ObjTyped
      <4>2. x.obj[k].id \in Int /\ r.type \in Texts /\ r.of \in Int /\ r.rel + r.got \in Int
        BY <4>1 DEF Asset, Request, Texts
      <4>. HIDE DEF r
      <4>. QED  BY <4>2, MessageTyped DEF Types
    <3>. HIDE DEF m
    <3>. QED  BY <3>1, SendTyped
  <2>3. y = IF s.status THEN [s EXCEPT !.obj[k].req.out = TRUE] ELSE s
    BY <1>3, Zenon DEF RequestDataContinue
  <2>. HIDE DEF s, m
  <2>4. [s EXCEPT !.obj[k].req.out = TRUE] = z
    BY <2>2 DEF Accessory
  <2>5. /\ p.id = x.obj[k].id /\ p.ctrl = x.obj[k].ctrl /\ p.req.left = r.left
        /\ p.req.type = r.type /\ p.req.of = r.of /\ p.req.rel = r.rel /\ p.req.got = r.got
    <3>1. s.obj[k] \in Asset
      BY <2>2, ObjTyped
    <3>2. /\ p.id = s.obj[k].id /\ p.ctrl = s.obj[k].ctrl /\ p.req.left = s.obj[k].req.left
          /\ p.req.type = s.obj[k].req.type /\ p.req.of = s.obj[k].req.of
          /\ p.req.rel = s.obj[k].req.rel /\ p.req.got = s.obj[k].req.got
      BY <3>1 DEF Asset, Request
    <3>. QED  BY <2>1, <3>2
  <2>. HIDE DEF p
  <2>6. /\ z.state = s.state /\ z.asset = s.asset /\ z.order = s.order
        /\ z.allowed = s.allowed /\ z.buf = s.buf /\ z.pending = s.pending
        /\ z.obj[k] = p /\ \A j \in Offers : j # k => z.obj[j] = s.obj[j]
    BY <2>2 DEF Accessory
  <2>. HIDE DEF z, y
  <2>7. SameTokens(x, s)
    BY <2>1 DEF SameTokens, TokenOf
  <2>8. SameTokens(x, z)
    <3>1. \A j \in Offers : /\ z.obj[j].id = x.obj[j].id /\ z.obj[j].ctrl = x.obj[j].ctrl
                            /\ z.obj[j].req.left = x.obj[j].req.left
                            /\ TokenOf(z, j) = TokenOf(x, j)
      BY <2>1, <2>5, <2>6 DEF TokenOf
    <3>. QED  BY <2>1, <2>6, <3>1 DEF SameTokens
  <2>9. m = TokenOf(x, k)
    BY DEF m, TokenOf
  <2>. QED  BY <1>1, <1>3, <2>1, <2>3, <2>4, <2>6, <2>7, <2>8, <2>9 DEF y
<1>. QED  BY <1>2, <1>3

(* DataTransferResume(): the request of the asset that is received is sent  *)
(* again, and no other: none is open, or it was rescinded with one.         *)
LEMMA ResumeAsks ==
  ASSUME NEW w \in Accessory, Sound(w), w.buf # NoMsg, w.pending = NoMsg, NoneRescinded(w)
  PROVE  LET y == DataTransferResume(w) IN
         /\ y.allowed /\ y.buf = w.buf /\ SameIds(w, y) /\ y.state = w.state /\ y.asset = w.asset
         /\ \A j \in Offers : TokenOf(y, j) = TokenOf(w, j)
         /\ y.pending = NoMsg \/ (w.asset \in Listed(w) /\ y.pending = TokenOf(w, w.asset))
         /\ w.state = "ACTIVE" /\ w.obj[w.asset].ctrl => y.pending = TokenOf(w, w.asset)
<1>. DEFINE n == Len(w.order)
            z == [w EXCEPT !.allowed = TRUE]
            T == TokenOf(w, w.asset)
            Q(y, i) ==
              /\ SameTokens(z, y)
              /\ y.pending = NoMsg \/ (w.asset \in Listed(w) /\ y.pending = T)
              /\ (\E j \in 1..i : w.order[j] = w.asset) /\ w.state = "ACTIVE"
                   /\ w.obj[w.asset].ctrl => y.pending = T
            P == [i \in 0..n |-> {y \in Accessory : Q(y, i)}]
            y == Fold("resume", w, z, w.order)
<1>1. n \in Nat /\ DOMAIN w.order = 1..n
      /\ \A i \in 1..n : w.order[i] \in Offers /\ w.order[i] \in Listed(w)
  BY LenProperties, ElementOfSeq DEF Accessory, Listed
<1>2. \A i \in 1..n : i \in 0..n /\ i - 1 \in 0..n /\ \A j \in 1..i : j = i \/ j \in 1..i - 1
  BY <1>1
<1>3. z \in Accessory
  BY FieldTyped
<1>4. /\ z.order = w.order /\ z.state = w.state /\ z.asset = w.asset /\ z.buf = w.buf
      /\ z.pending = w.pending /\ z.obj = w.obj /\ z.allowed
  BY DEF Accessory
<1>. HIDE DEF z
<1>5. \A j \in Offers : TokenOf(z, j) = TokenOf(w, j)
  BY <1>4 DEF TokenOf
<1>6. z \in P[0]
  <2>1. SameTokens(z, z)
    BY DEF SameTokens
  <2>2. 0 \in 0..n /\ ~ \E j \in 1..0 : w.order[j] = w.asset
    BY <1>1
  <2>. QED  BY <1>3, <1>4, <2>1, <2>2
<1>. HIDE DEF n
<1>7. ASSUME NEW i \in 1..n, NEW x \in P[i - 1]
      PROVE  FoldOp("resume", w, x, w.order[i]) \in P[i]
  <2>. DEFINE k == w.order[i]
              v == RequestDataContinue(x, k)
  <2>1. x \in Accessory /\ Q(x, i - 1)
    BY <1>2
  <2>2. k \in Offers /\ k \in Listed(w)
    BY <1>1
  <2>3. FoldOp("resume", w, x, k) = IF x.obj[k].ctrl THEN v ELSE x
    BY DEF FoldOp, ResumeOp
  <2>. HIDE DEF P, k
  <2>4. /\ x.obj[k].ctrl = w.obj[k].ctrl /\ x.obj[k].req.left = w.obj[k].req.left
        /\ x.allowed /\ x.buf # NoMsg /\ TokenOf(x, k) = TokenOf(w, k)
    BY <1>4, <1>5, <2>1, <2>2 DEF SameTokens
  <2>5. /\ v \in Accessory /\ SameTokens(x, v)
        /\ v.pending = IF x.obj[k].req.left = 0 \/ x.pending # NoMsg THEN x.pending
                       ELSE TokenOf(x, k)
    BY <2>1, <2>2, <2>4, ContinueEffect
  <2>. HIDE DEF v
  <2>6. SameTokens(z, v)
    BY <2>1, <2>5 DEF SameTokens
  <2>7. T # NoMsg
    BY DEF TokenOf, Msg, NoMsg
  <2>. HIDE DEF T
  <2>8. CASE k # w.asset
    <3>1. (\E j \in 1..i : w.order[j] = w.asset) => \E j \in 1..i - 1 : w.order[j] = w.asset
      BY <1>2, <2>8 DEF k
    <3>2. w.obj[k].ctrl => w.obj[k].req.left = 0
      <4>1. w.obj[k].req.left \in Int /\ w.obj[k].req.left >= 0
        <5>1. w.obj[k] \in Asset /\ RequestSound(w.obj[k].req)
          BY <2>2, ObjTyped, SoundFacts
        <5>. QED  BY <5>1 DEF Asset, Request, RequestSound
      <4>2. ~w.obj[k].marked => w.obj[k].req.left = 0
        BY <2>2, <2>8, SoundFacts DEF Requests
      <4>. QED  BY <2>2, <4>1, <4>2 DEF NoneRescinded
    <3>3. x.obj[k].ctrl => v.pending = x.pending
      BY <2>4, <2>5, <3>2
    <3>4. Q(x, i)
      BY <2>1, <3>1
    <3>5. x.obj[k].ctrl => Q(v, i)
      BY <2>6, <3>3, <3>4
    <3>. HIDE DEF Q
    <3>. QED  BY <1>2, <2>1, <2>3, <2>5, <3>4, <3>5 DEF P, k
  <2>9. CASE k = w.asset
    <3>1. TokenOf(x, k) = T
      BY <2>4, <2>9 DEF T
    <3>2. CASE x.obj[k].ctrl
      <4>1. v.pending = NoMsg \/ v.pending = T
        BY <2>1, <2>5, <3>1
      <4>2. w.state = "ACTIVE" => v.pending = T
        <5>1. w.state = "ACTIVE" => x.obj[k].req.left # 0
          <6>1. w.obj[k].req.left \in Int
            <7>1. w.obj[k] \in Asset
              BY <2>2, ObjTyped
            <7>. QED  BY <7>1 DEF Asset, Request
          <6>. QED  BY <2>4, <2>9, <6>1 DEF Sound, Live
        <5>. QED  BY <2>1, <2>5, <3>1, <5>1
      <4>3. Q(v, i)
        BY <2>2, <2>6, <2>9, <4>1, <4>2
      <4>. HIDE DEF Q
      <4>. QED  BY <1>2, <2>3, <2>5, <3>2, <4>3 DEF P, k
    <3>3. CASE ~x.obj[k].ctrl
      <4>1. Q(x, i)
        BY <2>1, <2>4, <2>9, <3>3
      <4>. HIDE DEF Q
      <4>. QED  BY <1>2, <2>1, <2>3, <3>3, <4>1 DEF P, k
    <3>. QED  BY <3>2, <3>3
  <2>. QED  BY <2>8, <2>9
<1>8. y \in P[n]
  <2>. HIDE DEF P
  <2>. QED  BY <1>1, <1>6, <1>7, FoldInvariant
<1>9. Q(y, n)
  BY <1>1, <1>8
<1>10. DataTransferResume(w) = y
  BY ResumeIsFold DEF z
<1>. HIDE DEF y, P
<1>11. w.state = "ACTIVE" => \E j \in 1..n : w.order[j] = w.asset
  <2>1. w.state = "ACTIVE" => w.asset \in Listed(w)
    BY SoundFacts DEF Owner
  <2>. QED  BY <2>1 DEF Listed, n
<1>12. SameIds(w, y) /\ y.allowed /\ y.state = w.state /\ y.asset = w.asset /\ y.buf = w.buf
       /\ \A j \in Offers : TokenOf(y, j) = TokenOf(w, j)
  BY <1>4, <1>5, <1>9 DEF SameTokens, SameIds
<1>. QED  BY <1>9, <1>10, <1>11, <1>12

-----------------------------------------------------------------------------
(* What messages change, seen from the service. *)

(* The command to resume, to an accessory that is silent.                   *)
LEMMA ResumeAnswered ==
  ASSUME NEW x \in Accessory, Sound(x), Buffers(x), x.buf = NoMsg, ~x.allowed, NoneRescinded(x),
         NEW m \in Message, m.type = "RESUME"
  PROVE  LET y == RecvMessage(x, m) IN
         /\ y.allowed /\ y.buf.type = "ACK"
         /\ SameIds(x, y) /\ y.state = x.state /\ y.asset = x.asset
         /\ \A j \in Offers : TokenOf(y, j) = TokenOf(x, j)
         /\ y.pending = NoMsg \/ (x.asset \in Listed(x) /\ y.pending = TokenOf(x, x.asset))
         /\ x.state = "ACTIVE" /\ x.obj[x.asset].ctrl => y.pending = TokenOf(x, x.asset)
<1>. DEFINE b == Reply(x, "ACK", m.k)
            y == RecvMessage(x, m)
<1>1. /\ Confirmed(x, b) /\ b.allowed = x.allowed /\ (b.status <=> Room(x))
      /\ b.obj = x.obj /\ b.state = x.state /\ b.asset = x.asset /\ b.order = x.order
  BY ReplyNoted
<1>2. b \in Accessory /\ Sound(b) /\ b.buf # NoMsg /\ b.pending = NoMsg
  <2>1. Resumed(x, b) /\ b.buf # NoMsg /\ b.pending = NoMsg
    BY ReplySound, SoundFacts DEF Message
  <2>. QED  BY <2>1, SoundAlike DEF Resumed, Leads
<1>3. y = IF b.status THEN IF b.allowed THEN b ELSE DataTransferResume(b) ELSE b
  BY Zenon DEF RecvMessage, Acknowledged, Processed
<1>. HIDE DEF b, y
<1>4. y = DataTransferResume(b)
  BY <1>1, <1>3 DEF Room
<1>5. /\ b.buf.type = "ACK" /\ NoneRescinded(b) /\ Listed(b) = Listed(x)
      /\ \A j : TokenOf(b, j) = TokenOf(x, j)
  BY <1>1 DEF Confirmed, NoneRescinded, Listed, TokenOf
<1>6. /\ y.allowed /\ y.buf = b.buf /\ SameIds(b, y) /\ y.state = b.state /\ y.asset = b.asset
      /\ \A j \in Offers : TokenOf(y, j) = TokenOf(b, j)
      /\ y.pending = NoMsg \/ (b.asset \in Listed(b) /\ y.pending = TokenOf(b, b.asset))
      /\ b.state = "ACTIVE" /\ b.obj[b.asset].ctrl => y.pending = TokenOf(b, b.asset)
  BY <1>2, <1>4, <1>5, ResumeAsks
<1>. QED  BY <1>1, <1>5, <1>6 DEF SameIds, y

(* An offer, to an accessory that is silent.                                *)
LEMMA OfferAnswered ==
  ASSUME NEW x \in Accessory, Sound(x), Buffers(x), NEW m, m.type = "OFFER", Fits(x, m)
  PROVE  \E b : /\ b.obj = x.obj /\ b.order = x.order /\ b.state = x.state /\ b.asset = x.asset
                /\ b.allowed = x.allowed /\ b.buf.type = "ACK"
                /\ Resolved(b, RecvMessage(x, m), m.k)
<1>. DEFINE b == Reply(x, "ACK", m.k)
            y == RecvMessage(x, m)
<1>1. /\ m \in Message /\ x.buf = NoMsg /\ m.k \in Offers \ Listed(x)
      /\ m.arg[2] \in Versions /\ OfferFits(x, m.arg[2])
  BY DEF Fits
<1>2. /\ Confirmed(x, b) /\ b.allowed = x.allowed /\ (b.status <=> Room(x))
      /\ b.obj = x.obj /\ b.state = x.state /\ b.asset = x.asset /\ b.order = x.order
  BY ReplyNoted
<1>3. /\ b \in Accessory /\ Sound(b) /\ Buffers(b) /\ b.buf # NoMsg /\ b.pending = NoMsg
      /\ Alike(x, b)
  <2>1. Resumed(x, b) /\ b.buf # NoMsg /\ b.pending = NoMsg
    BY <1>1, ReplySound, SoundFacts DEF Message
  <2>. QED  BY <2>1, SoundAlike DEF Resumed, Leads
<1>4. y = IF b.status THEN AssetOffered(b, m.k, m.arg[2]) ELSE b
  BY Zenon DEF RecvMessage, Acknowledged, Processed
<1>. HIDE DEF b, y
<1>5. OfferFits(b, m.arg[2])
  <2>1. x.asset \in Offers \/ x.state # "ORPHANED"
    BY SoundFacts DEF Owner
  <2>. QED  BY <1>1, <1>3, <2>1, OfferKept
<1>6. m.k \notin Listed(b)
  BY <1>1, <1>2 DEF Listed
<1>7. Resolved(b, AssetOffered(b, m.k, m.arg[2]), m.k)
  BY <1>1, <1>3, <1>5, <1>6, AssetOfferedResolves
<1>8. b.buf.type = "ACK" /\ b.status
  BY <1>1, <1>2 DEF Confirmed, Room
<1>. QED  BY <1>2, <1>4, <1>7, <1>8 DEF y

(* No asset changes its owner, and no other is received. *)
Owned(x, y) ==
  SameIds(x, y) /\ (y.state = "ACTIVE" => x.state = "ACTIVE" /\ y.asset = x.asset)

LEMMA OwnedAlike == \A x, y : Alike(x, y) => Owned(x, y)
BY DEF Alike, SameBut, SameAsset, Owned, SameIds

LEMMA OwnedTrans == \A x, y, z : Owned(x, y) /\ Owned(y, z) => Owned(x, z)
<1>. SUFFICES ASSUME NEW x, NEW y, NEW z, Owned(x, y), Owned(y, z)
              PROVE  Owned(x, z)
  OBVIOUS
<1>1. SameIds(x, z)
  BY DEF Owned, SameIds
<1>. QED  BY <1>1, Zenon DEF Owned

(* By no message but an offer.                                              *)
LEMMA MessageOwned ==
  ASSUME NEW x \in Accessory, Sound(x), Buffers(x), NEW m, Fits(x, m), m.type # "OFFER"
  PROVE  Owned(x, RecvMessage(x, m))
<1>. DEFINE y == RecvMessage(x, m)
<1>1. m \in Message
  BY DEF Fits
<1>2. CASE m.type \in {"INFO", "APPLY", "PAUSE", "RESCIND"}
  BY <1>1, <1>2, CommandNoted DEF Noted, Owned
<1>3. CASE m.type = "RESUME"
  <2>. DEFINE b == Reply(x, "ACK", m.k)
  <2>1. y = IF b.status THEN IF b.allowed THEN b ELSE DataTransferResume(b) ELSE b
    BY <1>3, Zenon DEF RecvMessage, Acknowledged, Processed
  <2>2. Resumed(x, b)
    BY <1>1, ReplySound, SoundFacts DEF Message
  <2>. HIDE DEF b, y
  <2>3. b \in Accessory /\ Sound(b) /\ Buffers(b) /\ Alike(x, b)
    BY <2>2, SoundAlike DEF Resumed, Leads
  <2>4. Alike(b, DataTransferResume(b))
    BY <2>3, ResumeSound DEF Resumed
  <2>. QED  BY <2>1, <2>3, <2>4, OwnedAlike, AlikeTrans DEF y
<1>4. CASE m.type = "DATA" /\ FoundById(x, m.k) # {}
  <2>. DEFINE k == CHOOSE k \in FoundById(x, m.k) : TRUE
  <2>1. k \in Offers /\ x.obj[k].ctrl
    BY <1>4, ListedTyped DEF FoundById
  <2>2. y = AssetDataResponse(x, k, m.arg)
    BY <1>4 DEF RecvMessage
  <2>3. Within(m.arg[1], m.arg[2], m.arg[3])
    BY <1>4 DEF Fits
  <2>. HIDE DEF k, y
  <2>4. y = x \/ Asked(x, y, k)
    BY <2>1, <2>2, <2>3, DataAnswered
  <2>. QED  BY <2>4 DEF Asked, Moves, Owned, SameIds, y
<1>5. CASE m.type = "DATA" /\ FoundById(x, m.k) = {}
  BY <1>5 DEF RecvMessage, Owned, SameIds
<1>6. CASE m.type \notin {"INFO", "APPLY", "PAUSE", "RESCIND", "RESUME", "DATA"}
  <2>1. y = x
    BY <1>6, Zenon DEF RecvMessage
  <2>. QED  BY <2>1 DEF Owned, SameIds
<1>. QED  BY <1>2, <1>3, <1>4, <1>5, <1>6

(* fmna_uarp_controller_add(): the controller is greeted, and data transfer *)
(* allowed.                                                                 *)
LEMMA AddOwned ==
  ASSUME NEW x \in Accessory, Sound(x), Buffers(x), x.sending = "none"
  PROVE  LET y == controller_add(x) IN
         Owned(x, y) /\ y.buf.type = "SYNC" /\ y.pending = NoMsg
<1>. DEFINE z == [x EXCEPT !.allowed = TRUE]
            m == Msg("SYNC", None, NoArg)
            y == send_message(z, m)
<1>1. Owned(x, controller_add(x))
  BY AddReceives, OwnedAlike DEF Resumed
<1>2. z \in Accessory /\ z.buf = NoMsg /\ z.pending = NoMsg
  <2>1. z \in Accessory
    BY FieldTyped
  <2>2. z.buf = x.buf /\ z.pending = x.pending
    BY DEF Accessory
  <2>3. x.buf = NoMsg /\ x.pending = NoMsg
    BY DEF Buffers
  <2>. QED  BY <2>1, <2>2, <2>3
<1>3. controller_add(x) = y
  BY DEF controller_add, Reply
<1>4. m.type = "SYNC"
  BY DEF Msg
<1>. HIDE DEF z, m
<1>5. y.buf = m /\ y.pending = NoMsg
  BY <1>2, SendEffect
<1>. QED  BY <1>1, <1>3, <1>4, <1>5

(* fmna_uarp_controller_remove(): nothing is received without a controller. *)
LEMMA RemoveOwned ==
  ASSUME NEW x \in Accessory, Sound(x), x.state = "ACTIVE" => x.obj[x.asset].ctrl
  PROVE  LET y == controller_remove(x) IN Fewer(x, y) /\ y.state # "ACTIVE"
<1>. DEFINE z == [x EXCEPT !.buf = NoMsg, !.pending = NoMsg]
            S == {k \in Listed(z) : z.obj[k].ctrl = TRUE}
            y == CleanupAssets(z, S)
<1>1. /\ z \in Accessory /\ z.state = x.state /\ z.asset = x.asset /\ z.order = x.order
      /\ z.obj = x.obj
  BY NoMsgTyped DEF Accessory
<1>2. Sound(z)
  <2>1. Alike(x, z)
    BY DEF Alike, SameBut, SameAsset, SameRequest, Accessory
  <2>. QED  BY <2>1, SoundAlike
<1>3. controller_remove(x) = y
  BY DEF controller_remove, CleanupFor
<1>. HIDE DEF z
<1>4. /\ Fewer(z, y)
      /\ y.state = "ACTIVE" => z.state = "ACTIVE" /\ z.asset \in Offers \ S
  BY <1>1, <1>2, CleanupKeeps
<1>5. y.state # "ACTIVE"
  <2>1. SUFFICES ASSUME y.state = "ACTIVE" PROVE FALSE
    OBVIOUS
  <2>2. z.asset \in Listed(z) /\ z.obj[z.asset].ctrl
    BY <1>1, <1>2, <1>4, <2>1, SoundFacts DEF Owner
  <2>3. z.obj[z.asset].ctrl = TRUE
    <3>1. z.obj[z.asset] \in Asset
      BY <1>1, <1>4, <2>1, ObjTyped
    <3>. QED  BY <2>2, <3>1 DEF Asset
  <2>. QED  BY <1>4, <2>1, <2>2, <2>3
<1>. HIDE DEF y, S
<1>6. Fewer(x, y)
  <2>1. Listed(z) = Listed(x)
    BY <1>1 DEF Listed
  <2>. QED  BY <1>1, <1>4, <2>1 DEF Fewer
<1>. QED  BY <1>3, <1>5, <1>6

=============================================================================
