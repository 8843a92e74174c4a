---------------------------- MODULE DeliveryPhotos ----------------------------
(***************************************************************************)
(* The photo that proves a delivery (storage.ts; createDeliveryUpload and  *)
(* completeDelivery of service.ts).                                        *)
(*                                                                         *)
(* The driver asks for a ticket, puts the picture under its key straight   *)
(* into the bucket and then completes the delivery, which looks at what is *)
(* there in two remote calls.  The signed address may be used again until  *)
(* it runs out, also between those calls and by a second completion: the   *)
(* bucket keeps every version.  In the mock mode the server takes the      *)
(* picture itself, once.                                                   *)
(***************************************************************************)
EXTENDS Naturals, Sequences, SequencesExt

CONSTANTS
    Deliveries,     \* shipments that are out for delivery
    Completions,    \* requests to complete a delivery
    Pictures,       \* contents: what image they are, whether they fit, which
    PhotoTypes,     \* image/jpeg, image/png and image/webp
    OtherTypes,     \* content types that are not asked for
    MaxTickets,     \* bound: tickets issued
    MaxUploads,     \* bound: pictures put under one key
    PhotoTtl,       \* how long a ticket is valid: 15 minutes
    MaxClock        \* bound: moments

ASSUME PhotoAssumption ==
    /\ Pictures \subseteq [is : PhotoTypes \union OtherTypes, fits : BOOLEAN, which : Nat]
    /\ PhotoTtl \in Nat

VARIABLES
    storageMode,   \* mock or s3, as configured
    clock,
    tickets,       \* the upload sessions, with what the ticket allows
    bucket,        \* versions of the object under the key of each ticket
    delivery,      \* the shipments: version, and the proof once delivered
    completion     \* what each request to complete has done so far

photosVars == <<storageMode, clock, tickets, bucket, delivery, completion>>

NoProof == [ticket |-> 0, version |-> 0, checksum |-> "none"]
NoCompletion == [at |-> "idle"]

assertPhotoType(type) == type \in PhotoTypes
(* The type told by the first bytes; none when they are not of an image. *)
detectImageMime(picture) == IF picture.is \in PhotoTypes THEN picture.is ELSE "none"
Delivered(d) == delivery[d].proof.ticket # 0
Valid(t) == clock <= tickets[t].expires
Object(type, picture) == [declared |-> type, picture |-> picture]

PhotosInit ==
    /\ storageMode \in {"mock", "s3"}
    /\ clock = 0
    /\ tickets = <<>>
    /\ bucket = <<>>
    /\ delivery = [d \in Deliveries |-> [version |-> 1, proof |-> NoProof]]
    /\ completion = [c \in Completions |-> NoCompletion]

PhotoClock ==
    /\ clock < MaxClock /\ clock' = clock + 1
    /\ UNCHANGED <<storageMode, tickets, bucket, delivery, completion>>

-----------------------------------------------------------------------------
(* The ticket and the upload.                                              *)

TicketFor(d, type) == [delivery |-> d, type |-> type, expires |-> clock + PhotoTtl,
                       status |-> "issued", version |-> 1]

createDeliveryUpload(d, type) ==
    /\ Len(tickets) < MaxTickets
    /\ ~Delivered(d) /\ assertPhotoType(type)
    /\ tickets' = Append(tickets, TicketFor(d, type))
    /\ bucket' = Append(bucket, <<>>)
    /\ UNCHANGED <<storageMode, clock, delivery, completion>>

(* A put at the signed address, as often as wanted while it is valid. *)
PutSigned(t, type, picture) ==
    /\ storageMode = "s3" /\ Valid(t) /\ Len(bucket[t]) < MaxUploads
    /\ bucket' = [bucket EXCEPT ![t] = Append(@, Object(type, picture))]
    /\ UNCHANGED <<storageMode, clock, tickets, delivery, completion>>

recordMockUpload(t, type, picture) ==
    /\ storageMode = "mock" /\ Valid(t)
    /\ type = tickets[t].type /\ bucket[t] = <<>>
    /\ picture.fits /\ detectImageMime(picture) = type
    /\ bucket' = [bucket EXCEPT ![t] = <<Object(type, picture)>>]
    /\ UNCHANGED <<storageMode, clock, tickets, delivery, completion>>

-----------------------------------------------------------------------------
(* completeDelivery.                                                       *)

CompletionRefused(c) ==
    /\ completion' = [completion EXCEPT ![c] = NoCompletion]
    /\ UNCHANGED delivery

(* The shipment and the upload session are read. *)
StartCompletion(c, d, t) ==
    /\ completion[c].at = "idle"
    /\ ~Delivered(d)
    /\ tickets[t].delivery = d /\ tickets[t].status = "issued" /\ Valid(t)
    /\ completion' = [completion EXCEPT ![c] =
           [at |-> "head", delivery |-> d, seen |-> delivery[d].version, ticket |-> t, proof |-> NoProof]]
    /\ UNCHANGED <<storageMode, clock, tickets, bucket, delivery>>

ProofOf(t, v, held) == [ticket |-> t, version |-> v, checksum |-> held.picture]

(* The mock: one look at the ticket. *)
VerifyMock(c) ==
    /\ completion[c].at = "head" /\ storageMode = "mock"
    /\ LET t == completion[c].ticket
       IN IF Valid(t) /\ bucket[t] # <<>>
          THEN /\ completion' = [completion EXCEPT ![c].at = "commit", ![c].proof = ProofOf(t, 1, bucket[t][1])]
               /\ UNCHANGED delivery
          ELSE CompletionRefused(c)
    /\ UNCHANGED <<storageMode, clock, tickets, bucket>>

(* HeadObject: the newest version and what is declared of it. *)
HeadObject(c) ==
    /\ completion[c].at = "head" /\ storageMode = "s3"
    /\ LET t == completion[c].ticket
       IN IF bucket[t] # <<>> /\ Valid(t)
             /\ assertPhotoType(Last(bucket[t]).declared) /\ Last(bucket[t]).picture.fits
          THEN /\ completion' = [completion EXCEPT ![c].at = "get", ![c].proof.ticket = t,
                                                   ![c].proof.version = Len(bucket[t])]
               /\ UNCHANGED delivery
          ELSE CompletionRefused(c)
    /\ UNCHANGED <<storageMode, clock, tickets, bucket>>

(* Variant: the object is fetched without naming the version looked at. *)
NewestObject(t, v) == Last(bucket[t])
ObjectVersion(t, v) == bucket[t][v]

(* GetObject: the bytes must be what the head declared. *)
GetObject(c) ==
    /\ completion[c].at = "get"
    /\ LET t == completion[c].ticket
           v == completion[c].proof.version
           bytes == ObjectVersion(t, v).picture
       IN IF detectImageMime(bytes) = bucket[t][v].declared
          THEN /\ completion' = [completion EXCEPT ![c].at = "commit", ![c].proof.checksum = bytes]
               /\ UNCHANGED delivery
          ELSE CompletionRefused(c)
    /\ UNCHANGED <<storageMode, clock, tickets, bucket>>

(* The shipment and the session are written, each at the version read. *)
CommitProof(c) ==
    /\ completion[c].at = "commit"
    /\ LET me == completion[c]
       IN IF delivery[me.delivery].version = me.seen /\ tickets[me.ticket].version = 1
          THEN /\ delivery' = [delivery EXCEPT ![me.delivery] = [version |-> me.seen + 1, proof |-> me.proof]]
               /\ tickets' = [tickets EXCEPT ![me.ticket].status = "completed", ![me.ticket].version = 2]
               /\ completion' = [completion EXCEPT ![c] = NoCompletion]
          ELSE CompletionRefused(c) /\ UNCHANGED tickets
    /\ UNCHANGED <<storageMode, clock, bucket>>

(* The answer of the bucket is an error, or the process ends. *)
VerificationFails(c) ==
    /\ completion[c].at \in {"head", "get"}
    /\ CompletionRefused(c)
    /\ UNCHANGED <<storageMode, clock, tickets, bucket>>

PhotosNext ==
    \/ PhotoClock
    \/ \E d \in Deliveries, type \in PhotoTypes : createDeliveryUpload(d, type)
    \/ \E t \in DOMAIN tickets, type \in PhotoTypes \union OtherTypes, picture \in Pictures :
          PutSigned(t, type, picture) \/ recordMockUpload(t, type, picture)
    \/ \E c \in Completions :
          \/ \E d \in Deliveries, t \in DOMAIN tickets : StartCompletion(c, d, t)
          \/ VerifyMock(c) \/ HeadObject(c) \/ GetObject(c) \/ CommitProof(c) \/ VerificationFails(c)

PhotosSpec == PhotosInit /\ [][PhotosNext]_photosVars

-----------------------------------------------------------------------------
(* The proof of a delivered shipment is the version of its own ticket's    *)
(* object that was looked at: the checksum is that version's, and it is a  *)
(* photo that fits, whatever was put under the key between the calls of    *)
(* the verification and afterwards (completeDelivery, verifyDeliveryProof).*)
ProofIsWhatWasSeen ==
    \A d \in Deliveries :
        LET proof == delivery[d].proof IN
        Delivered(d) =>
            LET held == bucket[proof.ticket][proof.version].picture IN
            /\ tickets[proof.ticket].delivery = d
            /\ proof.checksum = held
            /\ held.fits /\ detectImageMime(held) \in PhotoTypes
=============================================================================
