----------------------------- MODULE FmnaUarp ------------------------------
(***************************************************************************)
(* Firmware update over the air: the UARP service (fmna_uarp_service.c),   *)
(* whose events are handled one after the other, around the accessory of   *)
(* FmnaUarpAsset, and a controller that connects, offers superbinaries and *)
(* answers data requests as the one of tests/uarp_update/src/uarp.py does. *)
(* The link may be lost at any moment; messages already written are still  *)
(* handled, before the disconnection.                                      *)
(***************************************************************************)
EXTENDS FmnaUarpAsset

CONSTANTS
  BT_MAX_CONN,   \* Connection objects of the Bluetooth host
  MaxLinks,      \* Bound: connections in a run
  MaxCommands,   \* Bound: commands of the controller, offers apart
  Races          \* What a controller of the model does not do otherwise:
                 \* "header_orphan": it offers an orphan again that was left
                 \*   while the header of one of its payloads was requested;
                 \* "new_offer": it offers another version while the transfer
                 \*   of an orphan is open;
                 \* "rescind_denied": it rescinds an asset that was denied;
                 \* "rescind_applied": or one that was applied;
                 \* "rescind_resume": it resumes after rescinding an asset with
                 \*   an open request

ASSUME ServiceAssumption ==
  /\ BT_MAX_CONN \in Nat \ {0} /\ MaxLinks \in Nat /\ MaxCommands \in Nat
  /\ Races \subseteq {"header_orphan", "new_offer", "rescind_denied",
                      "rescind_applied", "rescind_resume"}

VARIABLES
  a,          \* The accessory
  active,     \* active_conn
  fifo,       \* rx_buf_fifo
  rx_buf,     \* The static buffer of handle_write() holds the first part of a message
  link,       \* The controller's connection, and
  leaving,    \* connections whose PEER_DISCONNECTED has still to be handled
  in_flight,  \* An indication waits for its confirmation
  ctl,        \* The controller
  links, offers, commands,  \* Counters of the bounds
  torn        \* History: a message was put together of parts of two

serviceVars == <<active, fifo, rx_buf, torn>>
linkVars    == <<link, leaving>>
countVars   == <<links, offers, commands>>
vars == <<a, serviceVars, linkVars, in_flight, ctl, countVars>>

Slots == 1..BT_MAX_CONN

NewController ==
  [greeted |-> 0, awaiting |-> FALSE, paused |-> FALSE, half |-> FALSE,
   wanted |-> <<>>, ids |-> {}]

Event(id, c, part, m) == [id |-> id, conn |-> c, part |-> part, msg |-> m]
Ack(c, err)           == Event("ACK", c, IF err THEN "error" ELSE "ok", NoMsg)
Disconnect(c)         == Event("DISCONNECT", c, "ok", NoMsg)
Write(part, m)        == Event("WRITE", link, part, m)

Init ==
  /\ a = NewAccessory
  /\ active = None /\ fifo = <<>> /\ rx_buf = FALSE /\ torn = FALSE
  /\ link = None /\ leaving = {}
  /\ in_flight = FALSE
  /\ ctl = NewController
  /\ links = 0 /\ offers = 0 /\ commands = 0

-----------------------------------------------------------------------------
(* The controller. *)

Connect ==
  /\ link = None /\ links < MaxLinks
  /\ \E c \in Slots :
       /\ c \notin leaving /\ c # active
       /\ \A i \in 1..Len(fifo) : fifo[i].conn # c
       /\ link' = c
  /\ links' = links + 1
  /\ ctl' = NewController
  /\ UNCHANGED <<a, serviceVars, leaving, in_flight, offers, commands>>

(* data_cp_write(), by an owner, of a whole message or of a part of it.    *)
data_cp_write(part, m) ==
  /\ link # None
  /\ fifo' = Append(fifo, Write(part, m))
  /\ UNCHANGED <<a, active, rx_buf, torn, linkVars, in_flight, links>>

Idle == ctl.greeted = 2 /\ ~ctl.awaiting /\ ~ctl.half

(* Sync, then the version discovery request, whose response is awaited.    *)
Greet ==
  /\ ctl.greeted < 2
  /\ data_cp_write("whole", Msg(IF ctl.greeted = 0 THEN "SYNC" ELSE "INFO", None, NoArg))
  /\ ctl' = [ctl EXCEPT !.greeted = @ + 1, !.awaiting = ctl.greeted = 1]
  /\ UNCHANGED <<offers, commands>>

Command(m) ==
  /\ Idle /\ commands < MaxCommands
  /\ data_cp_write("whole", m)
  /\ commands' = commands + 1
  /\ UNCHANGED offers

(* A request still open when its asset was rescinded. *)
RescindedRequest == \E k \in Offers : a.obj[k].ctrl /\ a.obj[k].marked /\ a.obj[k].req.left > 0

Pause ==
  /\ ~ctl.paused
  /\ Command(Msg("PAUSE", None, NoArg))
  /\ ctl' = [ctl EXCEPT !.awaiting = TRUE, !.paused = TRUE, !.wanted = <<>>]

Resume ==
  /\ ctl.paused
  /\ RescindedRequest => "rescind_resume" \in Races
  /\ Command(Msg("RESUME", None, NoArg))
  /\ ctl' = [ctl EXCEPT !.awaiting = TRUE, !.paused = FALSE]

Rescindable(id) ==
  /\ \A k \in FoundById(a, id) :
       /\ a.obj[k].marked => "rescind_denied" \in Races
       /\ (k = a.asset /\ a.reboot) => "rescind_applied" \in Races
  /\ fifo = <<>>

RescindAsset ==
  \E id \in ctl.ids :
    /\ Rescindable(id)
    /\ Command(Msg("RESCIND", id, NoArg))
    /\ ctl' = [ctl EXCEPT !.awaiting = TRUE, !.ids = @ \ {id}]

RescindAll ==
  /\ \A id \in Offers : Rescindable(id)
  /\ Command(Msg("RESCIND", None, NoArg))
  /\ ctl' = [ctl EXCEPT !.awaiting = TRUE, !.ids = {}]

Query ==
  \E type \in {"INFO", "APPLY"} :
    /\ Command(Msg(type, None, NoArg))
    /\ ctl' = [ctl EXCEPT !.awaiting = TRUE]

Offerable(v) ==
  a.state = "ORPHANED" =>
    LET o == a.obj[a.asset] IN
    /\ (o.v = v /\ o.hdr /\ o.index # o.pl) => "header_orphan" \in Races
    /\ (o.v # v /\ a.transfer) => "new_offer" \in Races

(* Offers are made while the accessory is silent. *)
Offer ==
  \E v \in Versions :
    /\ Idle /\ ~ctl.paused /\ offers < MaxOffers
    /\ fifo = <<>> /\ a.buf = NoMsg
    /\ Offerable(v)
    /\ data_cp_write("whole", Msg("OFFER", offers + 1, <<"VERSION", v, 0>>))
    /\ ctl' = [ctl EXCEPT !.awaiting = TRUE, !.ids = @ \cup {offers + 1}]
    /\ offers' = offers + 1
    /\ UNCHANGED commands

(* asset_processing_loop() of uarp.py: the answer to a data request, which *)
(* may take two writes.                                                    *)
Answer ==
  /\ ctl.wanted # <<>>
  /\ LET m == [Head(ctl.wanted) EXCEPT !.type = "DATA"] IN
     \/ /\ Idle /\ data_cp_write("whole", m)
        /\ ctl' = [ctl EXCEPT !.wanted = Tail(@)]
     \/ /\ Idle /\ data_cp_write("first", m)
        /\ ctl' = [ctl EXCEPT !.half = TRUE]
     \/ /\ ctl.half /\ data_cp_write("last", m)
        /\ ctl' = [ctl EXCEPT !.half = FALSE, !.wanted = Tail(@)]
  /\ UNCHANGED <<offers, commands>>

(* The indication arrives and is confirmed (indication_ack_cb). *)
Heard(m) ==
  [ctl EXCEPT !.awaiting = @ /\ m.type # "ACK",
              !.wanted = IF m.type = "REQUEST" /\ ~ctl.paused THEN Append(@, m) ELSE @]

Confirm ==
  /\ in_flight /\ link = active
  /\ in_flight' = FALSE
  /\ ctl' = Heard(a.buf)
  /\ fifo' = Append(fifo, Ack(link, FALSE))
  /\ UNCHANGED <<a, active, rx_buf, torn, linkVars, countVars>>

(* The host gives up the indication before it reports the disconnection.   *)
LinkLost ==
  /\ link # None
  /\ link' = None
  /\ leaving' = leaving \cup {link}
  /\ in_flight' = FALSE
  /\ fifo' = IF in_flight THEN Append(fifo, Ack(link, TRUE)) ELSE fifo
  /\ ctl' = NewController
  /\ UNCHANGED <<a, active, rx_buf, torn, countVars>>

(* FMNA_EVENT_PEER_DISCONNECTED reaches the service. *)
submit_event_disconnect ==
  \E c \in leaving :
    /\ leaving' = leaving \ {c}
    /\ fifo' = Append(fifo, Disconnect(c))
    /\ UNCHANGED <<a, active, rx_buf, torn, link, in_flight, ctl, countVars>>

-----------------------------------------------------------------------------
(* The service handles the first event of rx_buf_fifo. *)

(* The event handled leaves b, and another event when a message is to go.  *)
Handled(b) ==
  /\ a' = [b EXCEPT !.kick = FALSE, !.io = TRUE, !.status = TRUE]
  /\ fifo' = IF b.kick THEN Append(Tail(fifo), Ack(active', FALSE)) ELSE Tail(fifo)
  /\ UNCHANGED <<linkVars, ctl, countVars>>

IgnoredEvent ==
  /\ UNCHANGED <<active, rx_buf, torn, in_flight>>
  /\ Handled(a)

(* The first event of the fifo is an id. *)
Handles(id) == fifo # <<>> /\ Head(fifo).id = id

sending_kept == controller_remove(a)  \* mutant
Disconnected == [controller_remove(a) EXCEPT !.sending = "none"]

handle_disconnect ==
  /\ Handles("DISCONNECT")
  /\ \/ /\ Head(fifo).conn = active
        /\ active' = None
        /\ Handled(Disconnected)
        /\ UNCHANGED <<rx_buf, torn, in_flight>>
     \/ Head(fifo).conn # active /\ IgnoredEvent

handle_indication_ack ==
  /\ Handles("ACK")
  /\ \/ /\ Head(fifo).conn = active /\ a.sending # "none"
        /\ UNCHANGED <<active, rx_buf, torn>>
        /\ \/ /\ a.sending = "sent" \/ Head(fifo).part = "error" \/ link # active
              /\ Handled(send_message_complete(a))
              /\ UNCHANGED in_flight
           \/ /\ a.sending = "new" /\ Head(fifo).part = "ok" /\ link = active
              /\ Handled([a EXCEPT !.sending = "sent"])
              /\ in_flight' = TRUE
     \/ (Head(fifo).conn # active \/ a.sending = "none") /\ IgnoredEvent

half_kept == rx_buf  \* mutant
(* What rx_buf holds before a write is collected. *)
Collected == active # None /\ rx_buf

handle_write ==
  LET e == Head(fifo)
      b == IF active = None THEN controller_add(a) ELSE a
  IN
  /\ Handles("WRITE")
  /\ \/ /\ active \in {None, e.conn}
        /\ active' = e.conn
        /\ rx_buf' = (e.part = "first")
        /\ torn' = (torn \/ Collected # (e.part = "last"))
        /\ IF e.part = "first" THEN Handled(b)
           ELSE \E io \in BOOLEAN : Handled(RecvMessage([b EXCEPT !.io = io], e.msg))
        /\ UNCHANGED in_flight
     \/ active \notin {None, e.conn} /\ IgnoredEvent

-----------------------------------------------------------------------------
Controller ==
  \/ Connect \/ Greet \/ Pause \/ Resume \/ RescindAsset \/ RescindAll \/ Query
  \/ Offer \/ Answer \/ Confirm \/ LinkLost

Service ==
  \/ submit_event_disconnect \/ handle_disconnect
  \/ handle_indication_ack \/ handle_write

Next == Controller \/ Service

Spec == Init /\ [][Next]_vars

-----------------------------------------------------------------------------
(* Properties *)

RequestOK(r) ==
  /\ r.type \in RequestTypes /\ r.of \in 0..Payloads
  /\ {r.rel, r.asked, r.got, r.left} \subseteq 0..LENGTH /\ r.out \in BOOLEAN

AssetOK(o) ==
  /\ o.id \in 0..MaxOffers /\ o.v \in Versions \cup {None}
  /\ {o.ctrl, o.marked, o.delegate, o.hdr, o.meta} \subseteq BOOLEAN
  /\ o.index \in 0..Payloads /\ o.pl \in 0..Payloads
  /\ o.plflags \in {"none", "needs", "has"}
  /\ o.recvd \in 0..LENGTH
  /\ RequestOK(o.req)

(* Every variable has its type: payloads are indexed within the superbinary *)
(* and no more of one is received than it has (selectedPayloadIndex and     *)
(* lengthPayloadRecvd of struct uarpPlatformAsset).                         *)
TypeOK ==
  /\ a.state \in AssetStates /\ a.asset \in 0..MaxOffers
  /\ Listed(a) \subseteq Offers
  /\ \A k \in Offers : AssetOK(a.obj[k])
  /\ a.current \in AppPayloads \cup {None} /\ a.staged \in 0..Payloads
  /\ a.sending \in {"none", "new", "sent"}
  /\ active \in Slots \cup {None} /\ link \in Slots \cup {None}
  /\ rx_buf \in BOOLEAN /\ in_flight \in BOOLEAN /\ leaving \subseteq Slots

(* No assertion of fmna_uarp.c fails: payload data come only during a       *)
(* transfer, one transfer runs at a time, and an asset that is rescinded or *)
(* orphaned has its delegate.                                               *)
AssertionsHold == a.fault = "none"

(* Payload data are written only while a payload transfer is in progress,   *)
(* as __ASSERT_NO_MSG(accessory->transfer_in_progress) of                   *)
(* payload_transfer_write() says; checked where an orphan left between two  *)
(* payloads is offered again.                                               *)
DataOnlyInTransfer == a.fault # "write without transfer"

(* While a superbinary is being received and data transfer is allowed,      *)
(* somebody has the next step: an event waits, an indication is on its way, *)
(* or the controller owes an answer (RequestDataContinue, DataTransferResume *)
(* and SuperBinaryMerge of CoreUARPPlatformAccessory.c).                    *)
TransferNotStuck ==
  ~ /\ a.state = "ACTIVE" /\ a.allowed
    /\ link # None /\ link = active
    /\ fifo = <<>> /\ ~in_flight
    /\ ctl.wanted = <<>> /\ ~ctl.paused

(* An update is staged, applied or booted only when each application payload *)
(* that was processed is in the flash as a whole, in order, of one version,  *)
(* with its hash verified, and marked for the boot loader                    *)
(* (payload_data_complete() and apply_and_reboot() of fmna_uarp.c).          *)
AppliedWhole ==
  (a.state \in {"STAGED", "APPLIED"} \/ a.reboot) =>
    /\ a.asset # None
    /\ \A p \in AppPayloads \cap 1..a.obj[a.asset].index :
         LET f == a.flash[p] IN
         /\ f.n = LENGTH /\ f.ok /\ f.boot
         /\ f.v = a.obj[a.asset].v /\ f.v \notin BadHashVersions \cup PlainVersions

(* Across disconnections, what the flash holds of an open transfer, what has *)
(* been hashed and what will be requested next agree, in length and content  *)
(* (lengthPayloadRecvd, hash_ctx and the stream of the flash writer).        *)
ResumePoint ==
  (a.transfer /\ a.state \in {"ACTIVE", "ORPHANED"}) =>
    LET o == a.obj[a.asset]
        f == a.flash[a.current]
    IN /\ o.recvd = f.n /\ o.recvd = a.hash.n
       /\ f.ok /\ a.hash.ok /\ a.current = o.index
       /\ f.v \in {None, o.v}

(* A message handed to the accessory is made of the writes of one message    *)
(* only, though a link may be lost between two of them (handle_write()).     *)
MessagesWhole == ~torn

(* The service sends exactly what the accessory has handed over: sending_buf *)
(* is set while accessory.buf is, and an indication is in flight only for it *)
(* (fmna_uarp_service.c and fmna_uarp.c, which free each other's buffers).   *)
BuffersAgree ==
  /\ (a.sending = "none") = (a.buf = NoMsg)
  /\ a.buf = NoMsg => a.pending = NoMsg
  /\ in_flight => a.sending = "sent"
=============================================================================
