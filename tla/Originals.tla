------------------------------ MODULE Originals ------------------------------
(***************************************************************************)
(* Originals of documents and notifications (the handlers of worker.ts     *)
(* that persist originals and tell the store, putImmutableObject of        *)
(* storage.ts, sendSms of popbill.ts, downloadDocument of service.ts).     *)
(*                                                                         *)
(* The handler of an event keeps the original of the row the event is      *)
(* about - rendered from the row, or fetched from the provider of tax      *)
(* invoices - under a key made of the row's id and version: an object that *)
(* may not be overwritten, then a row that names it.  It then tells the    *)
(* store on every channel, with a row per event and channel.  Nothing of   *)
(* this is one transaction: a handler may fail or die after any step, the  *)
(* event is then handled again, and one whose lease ran out by two         *)
(* handlers at once.                                                       *)
(***************************************************************************)
EXTENDS Naturals, Sequences

CONSTANTS
    Tellings,          \* events whose handlers keep an original and notify
    Tellers,           \* handlers at work at once
    ChannelList,       \* app, email and sms in this order, those switched on
    OriginalOf,        \* none, rendered from the row, or fetched from the provider
    MaxRowVersion,     \* bound: versions of the row of an event
    MaxTries,          \* bound: handlings of the events
    MaxTellFailures    \* bound: calls and commits that fail

ASSUME TellingAssumption ==
    /\ OriginalOf \in [Tellings -> {"none", "rendered", "fetched"}]
    /\ ChannelList \in Seq({"app", "email", "sms"})
    /\ MaxRowVersion \in Nat \ {0}

VARIABLES
    rowVersion,   \* version of the row each event is about
    objects,      \* the bucket: versions of the object under each key
    onTheirWay,   \* puts given up by a time limit that may still arrive
    originals,    \* the document rows: what they say of the object
    notices,      \* the notification rows
    reached,      \* at the providers: messages accepted at least once
    teller,       \* the handler each worker is in
    tries,        \* handlings of the events
    toldEvents,         \* events whose handling returned
    tellFailures  \* counted for the bound

originalsVars == <<rowVersion, objects, onTheirWay, originals, notices, reached,
                   teller, tries, toldEvents, tellFailures>>

ObjectKeys == Tellings \X (1 .. MaxRowVersion)
(* The PDF is a function of the row; what the provider returns for one     *)
(* invoice need not be the same bytes twice.                               *)
RenderedEditions == {1}
FetchedEditions == {1, 2}
Editions(e) == IF OriginalOf[e] = "fetched" THEN FetchedEditions ELSE RenderedEditions
(* The handlers of invoices keep the original and tell nobody. *)
ChannelsOf(e) == IF OriginalOf[e] = "fetched" THEN <<>> ELSE ChannelList
Channels == {ChannelList[i] : i \in DOMAIN ChannelList}
NoOriginal == [edition |-> 0, objectVersion |-> 0]
NoNotice == [status |-> "absent", version |-> 0]

TellerIdle == [at |-> "idle"]
TellerAt(w, at) == teller[w].at = at
Step(w, at) == teller' = [teller EXCEPT ![w].at = at]
(* The handler throws: the event is left to be handled again. *)
GivesUp(w) == teller' = [teller EXCEPT ![w] = TellerIdle]
MayFail == tellFailures < MaxTellFailures /\ tellFailures' = tellFailures + 1
KeyOfTeller(w) == <<teller[w].event, teller[w].row>>

OriginalsInit ==
    /\ rowVersion = [e \in Tellings |-> 1]
    /\ objects = [k \in ObjectKeys |-> <<>>]
    /\ onTheirWay = {}
    /\ originals = [k \in ObjectKeys |-> NoOriginal]
    /\ notices = [e \in Tellings |-> [c \in Channels |-> NoNotice]]
    /\ reached = {}
    /\ teller = [w \in Tellers |-> TellerIdle]
    /\ tries = 0
    /\ toldEvents = {}
    /\ tellFailures = 0

-----------------------------------------------------------------------------
(* The original.                                                           *)

(* The row changes: the next handler of its event makes another original.  *)
ChangeRow(e) ==
    /\ rowVersion[e] < MaxRowVersion
    /\ rowVersion' = [rowVersion EXCEPT ![e] = @ + 1]
    /\ UNCHANGED <<objects, onTheirWay, originals, notices, reached, teller, tries, toldEvents, tellFailures>>

(* handle: a claimed event; the row is read with its present version. *)
Handle(w, e) ==
    /\ TellerAt(w, "idle") /\ e \notin toldEvents /\ tries < MaxTries
    /\ tries' = tries + 1
    /\ teller' = [teller EXCEPT ![w] =
           [at |-> IF OriginalOf[e] = "none" THEN "tell" ELSE "find",
            event |-> e, row |-> rowVersion[e], original |-> NoOriginal,
            channels |-> ChannelsOf(e), seen |-> NoNotice]]
    /\ UNCHANGED <<rowVersion, objects, onTheirWay, originals, notices, reached, toldEvents, tellFailures>>

(* findOriginalDocument: nothing more to do when the row of the document is *)
(* there, else render the bytes or fetch them.                              *)
FindOriginal(w) ==
    /\ TellerAt(w, "find")
    /\ IF originals[KeyOfTeller(w)] # NoOriginal
       THEN Step(w, "tell")
       ELSE \E edition \in Editions(teller[w].event) :
              teller' = [teller EXCEPT ![w].at = "put", ![w].original.edition = edition]
    /\ UNCHANGED <<rowVersion, objects, onTheirWay, originals, notices, reached, tries, toldEvents, tellFailures>>

(* PutObject with If-None-Match: the bucket keeps the first object only.   *)
PutAlways(k, edition) == [objects EXCEPT ![k] = Append(@, edition)]
PutIfNoneMatch(k, edition) ==
    IF objects[k] = <<>> THEN [objects EXCEPT ![k] = <<edition>>] ELSE objects

(* headImmutableObject: the newest version of what the bucket holds. *)
HeadImmutable(held) == Len(held)

(* putImmutableObject: the object is written, or the same bytes are there  *)
(* already; other bytes under the key are IMMUTABLE_OBJECT_CONFLICT.       *)
PutOriginal(w) ==
    /\ TellerAt(w, "put")
    /\ LET k == KeyOfTeller(w)
           after == PutIfNoneMatch(k, teller[w].original.edition)
           latest == HeadImmutable(after[k])
       IN /\ objects' = after
          /\ IF after[k][latest] = teller[w].original.edition
             THEN teller' = [teller EXCEPT ![w].at = "record", ![w].original.objectVersion = latest]
             ELSE GivesUp(w)
    /\ UNCHANGED <<rowVersion, onTheirWay, originals, notices, reached, tries, toldEvents, tellFailures>>

(* The storage answers too late or not at all: the handler gives up, its   *)
(* put may arrive later (withTimeout does not stop the call).              *)
PutTimesOut(w) ==
    /\ TellerAt(w, "put") /\ MayFail
    /\ onTheirWay' = onTheirWay \union {[key |-> KeyOfTeller(w), edition |-> teller[w].original.edition]}
    /\ GivesUp(w)
    /\ UNCHANGED <<rowVersion, objects, originals, notices, reached, tries, toldEvents>>

PutArrives ==
    \E put \in onTheirWay :
      /\ objects' = PutIfNoneMatch(put.key, put.edition)
      /\ onTheirWay' = onTheirWay \ {put}
      /\ UNCHANGED <<rowVersion, originals, notices, reached, teller, tries, toldEvents, tellFailures>>

(* The document row; a row of another handler is accepted when it names    *)
(* the same bytes and the same version of the object.                      *)
RecordOriginal(w) ==
    /\ TellerAt(w, "record")
    /\ LET k == KeyOfTeller(w)
       IN IF originals[k] = NoOriginal
          THEN /\ originals' = [originals EXCEPT ![k] = teller[w].original]
               /\ Step(w, "tell")
          ELSE /\ UNCHANGED originals
               /\ IF originals[k] = teller[w].original THEN Step(w, "tell") ELSE GivesUp(w)
    /\ UNCHANGED <<rowVersion, objects, onTheirWay, notices, reached, tries, toldEvents, tellFailures>>

(* downloadDocument, getImmutableObject: the bytes a reader of the document *)
(* row gets.                                                                *)
getImmutableObject(k, version) == objects[k][version]
Downloaded(k) == getImmutableObject(k, originals[k].objectVersion)

-----------------------------------------------------------------------------
(* The notifications (sendStoreNotifications).                             *)

Channel(w) == Head(teller[w].channels)
Notice(w) == notices[teller[w].event][Channel(w)]
SetNotice(w, status) ==
    notices' = [notices EXCEPT ![teller[w].event][Channel(w)] =
                   [status |-> status, version |-> teller[w].seen.version + 1]]
NoticeReached(w) == <<teller[w].event, Channel(w)>>

(* The next channel: nothing to send when its row says sent. *)
LookUpNotice(w) ==
    /\ TellerAt(w, "tell") /\ teller[w].channels # <<>>
    /\ teller' = [teller EXCEPT ![w] =
           IF Notice(w).status = "sent" THEN [@ EXCEPT !.channels = Tail(teller[w].channels)]
           ELSE [@ EXCEPT !.at = IF Notice(w) = NoNotice THEN "create" ELSE "send",
                          !.seen = Notice(w)]]
    /\ UNCHANGED <<rowVersion, objects, onTheirWay, originals, notices, reached, tries, toldEvents, tellFailures>>

(* The pending row; the handler throws when another one made it meanwhile. *)
CreateNotice(w) ==
    /\ TellerAt(w, "create")
    /\ IF Notice(w) = NoNotice
       THEN /\ SetNotice(w, "pending")
            /\ teller' = [teller EXCEPT ![w].at = "send", ![w].seen = [status |-> "pending", version |-> 1]]
       ELSE UNCHANGED notices /\ GivesUp(w)
    /\ UNCHANGED <<rowVersion, objects, onTheirWay, originals, reached, tries, toldEvents, tellFailures>>

(* The message goes out; a notification in the app is its row. *)
SendNotice(w) ==
    /\ TellerAt(w, "send")
    /\ reached' = reached \union {NoticeReached(w)}
    /\ Step(w, "mark")
    /\ UNCHANGED <<rowVersion, objects, onTheirWay, originals, notices, tries, toldEvents, tellFailures>>

(* A refusal, a time limit or an answer without a receipt; the provider    *)
(* may have accepted the message nevertheless.                             *)
SendFails(w) ==
    /\ TellerAt(w, "send") /\ Channel(w) # "app" /\ MayFail
    /\ reached' \in {reached, reached \union {NoticeReached(w)}}
    /\ Step(w, "fail")
    /\ UNCHANGED <<rowVersion, objects, onTheirWay, originals, notices, tries, toldEvents>>

(* commit compares the version of the row with the one the handler read.   *)
NoticeAnyVersion(w) == TRUE
NoticeCurrent(w) == Notice(w).version = teller[w].seen.version

MarkSent(w) ==
    /\ TellerAt(w, "mark")
    /\ IF NoticeCurrent(w)
       THEN /\ SetNotice(w, "sent")
            /\ teller' = [teller EXCEPT ![w].at = "tell", ![w].channels = Tail(@)]
       ELSE UNCHANGED notices /\ Step(w, "fail")
    /\ UNCHANGED <<rowVersion, objects, onTheirWay, originals, reached, tries, toldEvents, tellFailures>>

(* The commit of the sent row fails, with or without effect. *)
MarkFails(w) ==
    /\ TellerAt(w, "mark") /\ MayFail
    /\ \/ UNCHANGED notices
       \/ NoticeCurrent(w) /\ SetNotice(w, "sent")
    /\ Step(w, "fail")
    /\ UNCHANGED <<rowVersion, objects, onTheirWay, originals, reached, tries, toldEvents>>

(* The failed row, against the version read before the send; the handler   *)
(* throws whether that commit succeeds or not.                             *)
MarkFailed(w) ==
    /\ TellerAt(w, "fail")
    /\ IF NoticeCurrent(w) THEN SetNotice(w, "failed") ELSE UNCHANGED notices
    /\ GivesUp(w)
    /\ UNCHANGED <<rowVersion, objects, onTheirWay, originals, reached, tries, toldEvents, tellFailures>>

Returned(w) ==
    /\ TellerAt(w, "tell") /\ teller[w].channels = <<>>
    /\ toldEvents' = toldEvents \union {teller[w].event}
    /\ GivesUp(w)
    /\ UNCHANGED <<rowVersion, objects, onTheirWay, originals, notices, reached, tries, tellFailures>>

(* The worker dies, or a read or a commit fails, between two steps. *)
Dies(w) ==
    /\ ~TellerAt(w, "idle") /\ MayFail
    /\ GivesUp(w)
    /\ UNCHANGED <<rowVersion, objects, onTheirWay, originals, notices, reached, tries, toldEvents>>

-----------------------------------------------------------------------------
OriginalsNext ==
    \/ \E e \in Tellings : ChangeRow(e) \/ (\E w \in Tellers : Handle(w, e))
    \/ PutArrives
    \/ \E w \in Tellers :
         \/ FindOriginal(w) \/ PutOriginal(w) \/ PutTimesOut(w) \/ RecordOriginal(w)
         \/ LookUpNotice(w) \/ CreateNotice(w) \/ SendNotice(w) \/ SendFails(w)
         \/ MarkSent(w) \/ MarkFails(w) \/ MarkFailed(w) \/ Returned(w) \/ Dies(w)

OriginalsSpec == OriginalsInit /\ [][OriginalsNext]_originalsVars

-----------------------------------------------------------------------------
(* An event whose handling returned has kept an original of its row, and   *)
(* its store was reached on every channel and the row says so - for good:  *)
(* a second handler of the same event that fails, or is late, does not     *)
(* turn a sent notification into a failed one.                             *)
ToldIsSent ==
    \A e \in toldEvents :
      /\ OriginalOf[e] # "none" => \E v \in 1 .. rowVersion[e] : originals[<<e, v>>] # NoOriginal
      /\ \A i \in DOMAIN ChannelsOf(e) :
           notices[e][ChannelsOf(e)[i]].status = "sent" /\ <<e, ChannelsOf(e)[i]>> \in reached

(* What a document says of its original stays true: the bucket holds one   *)
(* version of the object under its key, and a reader gets the bytes whose  *)
(* hash the document records, whatever arrives late or was made twice.     *)
OriginalsAreFixed ==
    \A k \in ObjectKeys :
      originals[k] # NoOriginal =>
        Len(objects[k]) = 1 /\ Downloaded(k) = originals[k].edition

=============================================================================
