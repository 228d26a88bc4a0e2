--------------------------- MODULE FmnaUarpAsset ----------------------------
(***************************************************************************)
(* The firmware update accessory as functions of its state, the record a:  *)
(* fmna_uarp.c with the UARP kit below it (CoreUARPAccessory.c and         *)
(* CoreUARPPlatformAccessory.c) and the flash writer.  FmnaUarp adds the   *)
(* GATT service, the link and the controller.                              *)
(*                                                                         *)
(* An asset is known by the number of its offer, a version by a number     *)
(* whose properties are constants.  One data message carries one unit; the *)
(* superbinary header, a payload header and a metadata block are one unit  *)
(* each, a payload is LENGTH units and a window WINDOW of them.            *)
(***************************************************************************)
EXTENDS Integers, Sequences, SequencesExt

CONSTANTS
  MaxOffers,        \* Bound: assets offered in a run
  Versions,         \* Versions a controller may offer, numbers
  OldVersions,      \* those that are not newer than the running image
  CorruptVersions,  \* with an invalid superbinary header
  MetaVersions,     \* with superbinary metadata
  PlainVersions,    \* without payload metadata, so without a hash
  BadHashVersions,  \* whose payload data do not match their hash
  FastVersions,     \* whose metadata ask for APPLY_FLAGS_FAST_RESET
  Payloads,         \* Payloads in a superbinary
  AppPayloads,      \* those with a tag registered by FMNA_UARP_PAYLOAD_REGISTER
  LENGTH, WINDOW    \* Units in a payload, and in a payload window

ASSUME UarpAssumption ==
  /\ MaxOffers \in Nat \ {0} /\ Payloads \in Nat \ {0}
  /\ LENGTH \in Nat \ {0} /\ WINDOW \in Nat \ {0}
  /\ Versions \subseteq Nat \ {0}
  /\ AppPayloads \subseteq 1..Payloads

Offers == 1..MaxOffers
None   == 0   \* No offer, no version, no payload: NULL, or kUARPPayloadIndexInvalid

AssetStates == {"NONE", "ACTIVE", "ORPHANED", "STAGED", "APPLIED", "FAILED"}
RequestTypes ==
  {"NOTHING", "HEADER", "METADATA", "PAYLOAD_HEADER", "PAYLOAD_METADATA", "PAYLOAD"}

(* A message of the UARP protocol, either way: its type, the asset it is    *)
(* about, and what it says of it.                                           *)
Msg(type, k, arg) == [type |-> type, k |-> k, arg |-> arg]
NoArg == <<"NOTHING", 0, 0>>
NoMsg == Msg("NOTHING", None, NoArg)

NoRequest ==
  [type |-> "NOTHING", of |-> None, rel |-> 0, asked |-> 0, got |-> 0,
   left |-> 0, out |-> FALSE]

(* struct uarpPlatformAsset; index and pl count payloads from 1, and pl is  *)
(* the payload whose header the asset holds.                                *)
NoAsset ==
  [id |-> None, v |-> None, ctrl |-> FALSE, marked |-> FALSE, delegate |-> FALSE,
   hdr |-> FALSE, meta |-> FALSE, index |-> None, pl |-> None,
   plflags |-> "none", recvd |-> 0, req |-> NoRequest]

NewAccessory ==
  [state |-> "NONE", asset |-> None, order |-> <<>>,
   obj |-> [k \in Offers |-> NoAsset],
   current |-> None, transfer |-> FALSE, staged |-> 0, fast |-> FALSE,
   hash |-> [n |-> 0, ok |-> TRUE],
   flash |-> [p \in AppPayloads |-> [v |-> None, n |-> 0, ok |-> TRUE, boot |-> FALSE]],
   buf |-> NoMsg, pending |-> NoMsg, sending |-> "none",
   allowed |-> FALSE, reboot |-> FALSE,
   io |-> TRUE, kick |-> FALSE, status |-> TRUE, fault |-> "none"]

(* __ASSERT(): the first that fails is remembered. *)
Asserted(a, holds, name) ==
  IF holds \/ a.fault # "none" THEN a ELSE [a EXCEPT !.fault = name]

Failing(a) == [a EXCEPT !.status = FALSE]
Passing(a) == [a EXCEPT !.status = TRUE]

-----------------------------------------------------------------------------
(* Transmission: one message in the service's hands, one waiting. *)

(* send_message() of fmna_uarp.c and uarp_send_message() of the service,   *)
(* which posts an acknowledgement event to start (kick).  A third message  *)
(* is refused with kUARPStatusNoResources.                                 *)
send_message(a, m) ==
  IF a.buf = NoMsg
  THEN Passing([Asserted(a, a.sending = "none", "dangling buffer")
                  EXCEPT !.buf = m, !.sending = "new", !.kick = TRUE])
  ELSE IF a.pending = NoMsg
  THEN Passing([a EXCEPT !.pending = m])
  ELSE Failing(a)

(* fmna_uarp_send_message_complete(), after the service let go of the buffer *)
send_message_complete(a) ==
  IF a.pending = NoMsg
  THEN [a EXCEPT !.buf = NoMsg, !.sending = "none"]
  ELSE [a EXCEPT !.buf = a.pending, !.pending = NoMsg, !.sending = "new", !.kick = TRUE]

Reply(a, type, k)        == send_message(a, Msg(type, k, NoArg))
Notification(a, k, what) == send_message(a, Msg("NOTIFICATION", a.obj[k].id, <<what, 0, 0>>))

-----------------------------------------------------------------------------
(* Data requests. *)

(* uarpPlatformAssetRequestDataContinue(): the next unit of the request.   *)
RequestDataContinue(a, k) ==
  LET r == a.obj[k].req
      sent == send_message(a, Msg("REQUEST", a.obj[k].id, <<r.type, r.of, r.rel + r.got>>))
  IN IF r.left = 0 \/ ~a.allowed THEN Passing(a)
     ELSE IF sent.status THEN [sent EXCEPT !.obj[k].req.out = TRUE]
     ELSE sent

(* What the length checks of uarpPlatformAssetRequestData() admit.  *)
Known(o, type) == type \in {"PAYLOAD", "PAYLOAD_METADATA"} => o.pl # None

RequestData(a, k, type, rel, units) ==
  LET o == a.obj[k]
      r == [type |-> type, rel |-> rel, asked |-> units, got |-> 0,
            left |-> units, out |-> FALSE,
            of |-> CASE type = "PAYLOAD_HEADER" -> o.index
                     [] type \in {"PAYLOAD", "PAYLOAD_METADATA"} -> o.pl
                     [] OTHER -> None]
  IN IF o.req.out THEN Failing(a)
     ELSE IF ~Known(o, type)
     THEN Failing([a EXCEPT !.obj[k].req = [r EXCEPT !.left = o.req.left]])
     ELSE RequestDataContinue([a EXCEPT !.obj[k].req = r], k)

Least(m, n) == IF m < n THEN m ELSE n

full_window(a, k) ==  \* mutant
  RequestData(a, k, "PAYLOAD", a.obj[k].recvd, WINDOW)
PayloadRequestData(a, k) ==
  LET recvd == a.obj[k].recvd
  IN RequestData(a, k, "PAYLOAD", recvd, Least(WINDOW, LENGTH - recvd))

SetPayloadIndex(a, k, p) ==
  RequestData([a EXCEPT !.obj[k].recvd = 0, !.obj[k].index = p, !.obj[k].plflags = "none"],
              k, "PAYLOAD_HEADER", p - 1, 1)

-----------------------------------------------------------------------------
(* The flash writer, through payload_transfer_start/write/finish(). *)

payload_transfer_start(a) ==
  LET b == Asserted(Asserted(a, a.current # None, "start without payload"),
                    ~a.transfer, "start while transferring")
  IN IF b.fault # "none" \/ ~b.io THEN Failing(b)
     ELSE Passing([b EXCEPT !.transfer = TRUE,
            !.flash[b.current] = [v |-> None, n |-> 0, ok |-> TRUE, boot |-> FALSE]])

(* Unit at, of version v, is appended; the history ok says that every unit  *)
(* is in its place.                                                         *)
payload_transfer_write(a, v, at) ==
  LET b == Asserted(a, a.transfer, "write without transfer")
      f == b.flash[b.current]
  IN IF b.fault # "none" \/ ~b.io THEN Failing(b)
     ELSE Passing([b EXCEPT !.flash[b.current] =
            [f EXCEPT !.v = v, !.n = Least(f.n + 1, LENGTH + 1),
                      !.ok = f.ok /\ at = <<b.current, f.n>> /\ f.v \in {None, v}]])

payload_transfer_finish(a, success) ==
  LET b == Asserted(a, a.transfer, "finish without transfer")
  IN IF b.fault # "none" THEN Failing(b)
     ELSE [b EXCEPT !.transfer = FALSE, !.status = b.io,
             !.flash[b.current].n    = IF success THEN @ ELSE 0,
             !.flash[b.current].boot = success /\ b.io]

-----------------------------------------------------------------------------
(* Giving an asset up. *)

(* uarpPlatformAccessoryAssetAbandon() and ...Release(), of an asset whose *)
(* controller has left or is not told.                                     *)
AssetRelease(a, k) ==
  [a EXCEPT !.obj[k].req.out = FALSE, !.obj[k].marked = TRUE, !.obj[k].ctrl = FALSE]

transfer_left(a, k, release) ==  \* mutant
  IF k # a.asset THEN a
  ELSE [IF release THEN AssetRelease(a, k) ELSE a
          EXCEPT !.state = "NONE", !.asset = None, !.current = None]
remove_asset(a, k, release) ==
  LET b == [IF release THEN AssetRelease(a, k) ELSE a
              EXCEPT !.state = "NONE", !.asset = None]
  IN IF k # a.asset THEN a
     ELSE [IF b.transfer THEN payload_transfer_finish(b, FALSE) ELSE b
             EXCEPT !.current = None]

(* asset_rescinded() and asset_corrupt(). *)
asset_rescinded(a, k) ==
  LET b == Asserted(a, a.obj[k].delegate, "rescinded asset without delegate")
  IN remove_asset(b, k, FALSE)

asset_orphaned(a, k) ==
  IF k # a.asset THEN a
  ELSE CASE a.state = "ACTIVE" -> [a EXCEPT !.state = "ORPHANED"]
         [] a.state \in {"STAGED", "FAILED"} -> remove_asset(a, k, TRUE)
         [] OTHER -> a

report_failure(a, k) ==
  CASE a.state = "ACTIVE" -> Notification([a EXCEPT !.state = "FAILED"], k, "COMPLETE")
    [] a.state = "STAGED" -> [a EXCEPT !.state = "FAILED"]
    [] a.state = "ORPHANED" -> remove_asset(a, k, TRUE)
    [] OTHER -> a

UnlessFailed(a, k) == IF a.status THEN a ELSE report_failure(a, k)

(* What the loop of the cleanup keeps it puts before what it kept already. *)
Kept(order, freed) ==
  FoldLeft(LAMBDA list, k : IF k \in freed THEN list ELSE <<k>> \o list, <<>>, order)

(* uarpPlatformCleanupAssetsForController(): the assets S of one           *)
(* controller are freed when marked and orphaned otherwise; the list is    *)
(* turned around.                                                          *)
CleanupAssets(a, S) ==
  LET freed  == {k \in S : a.obj[k].marked}
      orphan == S \ freed
      b == [Asserted(a, \A k \in orphan : a.obj[k].delegate, "orphan without delegate")
              EXCEPT !.order = Kept(a.order, freed),
                     !.obj = [k \in Offers |->
                                IF k \in freed THEN NoAsset
                                ELSE IF k \in orphan THEN [a.obj[k] EXCEPT !.ctrl = FALSE]
                                ELSE a.obj[k]]]
  IN IF a.asset \in orphan THEN asset_orphaned(b, a.asset) ELSE b

Listed(a) == {a.order[i] : i \in 1..Len(a.order)}

(* uarpPlatformAssetFindByAssetID(), among the assets of the controller.   *)
FoundById(a, id) == {k \in Listed(a) : a.obj[k].ctrl /\ a.obj[k].id = id}

CleanupFor(a, ctrl) == CleanupAssets(a, {k \in Listed(a) : a.obj[k].ctrl = ctrl})

-----------------------------------------------------------------------------
(* The course of an asset: header, metadata, then every payload. *)

asset_meta_data_complete(a, k) ==
  UnlessFailed(SetPayloadIndex([a EXCEPT !.staged = 0], k, 1), k)

asset_ready(a, k) ==
  IF a.obj[k].v \in MetaVersions
  THEN UnlessFailed(RequestData(a, k, "METADATA", 0, 1), k)
  ELSE asset_meta_data_complete(a, k)

asset_payload_index_set_next(a, k) ==
  UnlessFailed(SetPayloadIndex(a, k, a.obj[k].index + 1), k)

asset_fully_staged_mark(a, k) ==
  UnlessFailed(Notification([a EXCEPT !.state = "STAGED"], k, "COMPLETE"), k)

payload_meta_data_complete(a, k) ==
  LET finished == IF a.transfer THEN payload_transfer_finish(a, FALSE) ELSE Passing(a)
      started  == payload_transfer_start(finished)
  IN IF a.state # "ACTIVE" THEN a
     ELSE IF ~finished.status THEN report_failure(finished, k)
     ELSE IF ~started.status THEN report_failure(started, k)
     ELSE UnlessFailed(PayloadRequestData(started, k), k)

More(a, k) == a.obj[k].index < Payloads

payload_ready(a, k) ==
  LET o == a.obj[k]
      b == [Asserted(a, ~a.transfer, "payload ready while transferring")
              EXCEPT !.current = o.pl, !.fast = FALSE, !.hash = [n |-> 0, ok |-> TRUE]]
  IN IF o.pl \in AppPayloads /\ o.v \notin OldVersions
     THEN IF o.v \in PlainVersions
          THEN payload_meta_data_complete(b, k)
          ELSE UnlessFailed(RequestData(b, k, "PAYLOAD_METADATA", 0, 1), k)
     ELSE IF More(a, k) THEN asset_payload_index_set_next(a, k)
     ELSE IF a.staged > 0 THEN asset_fully_staged_mark(a, k)
     ELSE report_failure(a, k)

(* payload_data(), for the unit received for the place at. *)
payload_data(a, k, at) ==
  LET o == a.obj[k]
      h == [a EXCEPT !.hash = [n |-> Least(@.n + 1, LENGTH + 1),
                               ok |-> @.ok /\ at = <<a.current, @.n>>]]
  IN UnlessFailed(payload_transfer_write(h, o.v, at), k)

any_hash(a, k) == a.hash.n > 0  \* mutant
HashMatches(a, k) ==
  /\ a.hash.ok /\ a.hash.n = LENGTH
  /\ a.obj[k].v \notin BadHashVersions \cup PlainVersions

apply_and_reboot(a) == [a EXCEPT !.reboot = TRUE, !.state = "APPLIED"]

payload_data_complete(a, k) ==
  LET finished == payload_transfer_finish(a, TRUE)
      b == [finished EXCEPT !.current = None, !.staged = Least(@ + 1, Payloads)]
  IN IF a.state # "ACTIVE" THEN a
     ELSE IF ~HashMatches(a, k) \/ ~finished.status
     THEN report_failure(IF HashMatches(a, k) THEN finished ELSE a, k)
     ELSE IF b.fast THEN apply_and_reboot(b)
     ELSE IF More(b, k) THEN asset_payload_index_set_next(b, k)
     ELSE asset_fully_staged_mark(b, k)

-----------------------------------------------------------------------------
(* Completed requests (uarpPlatformDataRequestComplete and its helpers). *)

SuperBinaryHeaderComplete(a, k) ==
  IF a.obj[k].v \in CorruptVersions
  THEN asset_rescinded(Notification(a, k, "CORRUPT"), k)
  ELSE asset_ready([a EXCEPT !.obj[k].hdr = TRUE], k)

PayloadHeaderComplete(a, k) ==
  LET o == a.obj[k]
  IN payload_ready([a EXCEPT !.obj[k].pl = o.req.of,
                     !.obj[k].plflags = IF o.v \in PlainVersions THEN "none" ELSE "needs"], k)

UpdateSuperBinaryMetaData(a, k) ==
  asset_meta_data_complete([a EXCEPT !.obj[k].meta = TRUE], k)

UpdatePayloadMetaData(a, k) ==
  payload_meta_data_complete(
    [a EXCEPT !.obj[k].plflags = "has", !.obj[k].meta = TRUE,
              !.fast = a.obj[k].v \in FastVersions], k)

(* A window is there: every unit of it, from recvd on, goes to the flash.  *)
UpdatePayloadPayload(a, k) ==
  LET o == a.obj[k]
      unit(x, i) == payload_data(x, k, <<o.req.of, o.req.rel + i - 1>>)
      b == [FoldLeft(unit, a, [i \in 1..o.req.asked |-> i])
              EXCEPT !.obj[k].recvd = Least(o.recvd + o.req.asked, LENGTH + 1)]
  IN IF b.obj[k].recvd = LENGTH
     THEN payload_data_complete(b, k)
     ELSE PayloadRequestData(b, k)

DataRequestComplete(a, k) ==
  LET type == a.obj[k].req.type
  IN CASE type = "HEADER"           -> SuperBinaryHeaderComplete(a, k)
       [] type = "METADATA"         -> UpdateSuperBinaryMetaData(a, k)
       [] type = "PAYLOAD_HEADER"   -> PayloadHeaderComplete(a, k)
       [] type = "PAYLOAD_METADATA" -> UpdatePayloadMetaData(a, k)
       [] type = "PAYLOAD"          -> UpdatePayloadPayload(a, k)
       [] OTHER                     -> Failing(a)

(* uarpPlatformAssetDataResponse(): arg names the unit that came; one that  *)
(* is not at the current offset of the request is refused.                  *)
AssetDataResponse(a, k, arg) ==
  LET o == a.obj[k]
      r == [o.req EXCEPT !.got = @ + 1, !.left = @ - 1, !.out = FALSE]
      b == [a EXCEPT !.obj[k].req = r]
  IN IF o.marked \/ arg # <<o.req.type, o.req.of, o.req.rel + o.req.got>> THEN a
     ELSE IF r.got = r.asked THEN DataRequestComplete(b, k)
     ELSE RequestDataContinue(b, k)

-----------------------------------------------------------------------------
(* Offers. *)

AssetAccept(a, k) ==
  LET o == a.obj[k]
  IN IF ~o.hdr THEN RequestData(a, k, "HEADER", 0, 1)
     ELSE IF o.v \in MetaVersions /\ ~o.meta THEN RequestData(a, k, "METADATA", 0, 1)
     ELSE IF o.index = None THEN Passing(asset_meta_data_complete(a, k))
     ELSE IF o.plflags = "needs" THEN Passing(payload_ready(a, k))
     ELSE PayloadRequestData(a, k)

(* uarpPlatformAccessoryAssetDeny() *)
AssetDeny(a, k) ==
  LET b == Notification(a, k, "DENIED")
  IN IF b.status THEN [b EXCEPT !.obj[k].marked = TRUE, !.obj[k].delegate = FALSE] ELSE b

recvd_reset(a, k) ==  \* mutant
  [a EXCEPT !.obj[a.asset].req.out = FALSE, !.obj[a.asset].ctrl = TRUE,
            !.obj[a.asset].id = a.obj[k].id, !.obj[a.asset].recvd = 0, !.obj[k].marked = TRUE, !.obj[k].ctrl = FALSE]
(* uarpPlatformAccessorySuperBinaryMerge(): the orphan takes the place of   *)
(* the offer k, with its asset ID.                                          *)
SuperBinaryMerge(a, k) ==
  [a EXCEPT !.obj[a.asset].req.out = FALSE, !.obj[a.asset].ctrl = TRUE,
            !.obj[a.asset].id = a.obj[k].id,
            !.obj[k].marked = TRUE, !.obj[k].ctrl = FALSE]

(* super_binary_offered(), for an asset that may be accepted as asset x. *)
Accepted(a, x) ==
  LET b == AssetAccept([a EXCEPT !.asset = x, !.state = "ACTIVE", !.obj[x].delegate = TRUE], x)
  IN IF b.status THEN b ELSE [AssetRelease(b, x) EXCEPT !.asset = None, !.state = "NONE"]

super_binary_offered(a, k) ==
  LET v == a.obj[k].v
  IN IF v \in OldVersions \/ a.state \notin {"NONE", "ORPHANED"} THEN AssetDeny(a, k)
     ELSE IF a.state = "NONE" THEN Accepted(a, k)
     ELSE IF a.obj[a.asset].v = v THEN Accepted(SuperBinaryMerge(a, k), a.asset)
     ELSE Accepted(AssetRelease(a, a.asset), k)

(* uarpPlatformAssetOffered() *)
AssetOffered(a, k, v) ==
  LET b == [a EXCEPT !.obj[k] = [NoAsset EXCEPT !.id = k, !.v = v, !.ctrl = TRUE],
                     !.order = <<k>> \o @]
  IN CleanupFor(super_binary_offered(b, k), FALSE)

-----------------------------------------------------------------------------
(* Messages (uarpAccessoryRecvMessage and uarpAccessoryProcess...). *)

Rescind(a, k) ==
  asset_rescinded([a EXCEPT !.obj[k].req.out = FALSE, !.obj[k].marked = TRUE], k)

(* uarpPlatformAssetRescinded(); None stands for kUARPAssetIDAllAssets. *)
AssetRescinded(a, id) ==
  FoldLeft(LAMBDA x, k : IF x.obj[k].ctrl /\ id \in {None, x.obj[k].id}
                         THEN Rescind(x, k) ELSE x,
           a, a.order)

never_repeats(a) == [a EXCEPT !.allowed = TRUE]  \* mutant
(* uarpPlatformDataTransferResume(): requests dropped meanwhile are sent    *)
(* again, those of every asset of the controller.                           *)
DataTransferResume(a) ==
  FoldLeft(LAMBDA x, k : IF x.obj[k].ctrl THEN RequestDataContinue(x, k) ELSE x,
           [a EXCEPT !.allowed = TRUE], a.order)

apply_staged_assets(a) == IF a.state = "STAGED" THEN apply_and_reboot(a) ELSE a

Processed(a, m) ==
  CASE m.type = "OFFER"   -> AssetOffered(a, m.k, m.arg[2])
    [] m.type = "RESCIND" -> AssetRescinded(a, m.k)
    [] m.type = "PAUSE"   -> [a EXCEPT !.allowed = FALSE]
    [] m.type = "RESUME"  -> IF a.allowed THEN a ELSE DataTransferResume(a)

(* A message is processed only when its acknowledgement could be queued.   *)
Acknowledged(a, m) ==
  LET b == Reply(a, "ACK", m.k) IN IF b.status THEN Processed(b, m) ELSE b

RecvMessage(a, m) ==
  CASE m.type \in {"OFFER", "RESCIND", "PAUSE", "RESUME"} -> Acknowledged(a, m)
    [] m.type = "INFO"    -> Reply(a, "ACK", None)
    [] m.type = "APPLY"   -> Reply(apply_staged_assets(a), "ACK", None)
    [] m.type = "DATA"    -> IF FoundById(a, m.k) = {} THEN a
                             ELSE AssetDataResponse(a, CHOOSE k \in FoundById(a, m.k) : TRUE, m.arg)
    [] OTHER              -> a

-----------------------------------------------------------------------------
(* The controller comes and goes. *)

(* fmna_uarp_controller_add(), down to uarpAccessoryTxSync() *)
controller_add(a) == Reply([a EXCEPT !.allowed = TRUE], "SYNC", None)

(* fmna_uarp_controller_remove() *)
controller_remove(a) ==
  CleanupFor([a EXCEPT !.buf = NoMsg, !.pending = NoMsg], TRUE)

=============================================================================
