------------------------------ MODULE PublicFeed ------------------------------
(***************************************************************************)
(* Public notifications (packages/integrations/src/notifications.ts).  A    *)
(* reader of a request makes a notification of what it read                *)
(* (apps/web/src/coston2.ts), notifications are collected into a feed, and  *)
(* a feed is exported.  A feed and an export carry the hash of what they    *)
(* say; every function that takes or gives one decodes it again.            *)
(*                                                                         *)
(* Hashes are ideal: a hash is what is hashed, and the sorted list of the   *)
(* hashes of distinct notifications is their set.  Event identifiers are    *)
(* sorted by request here: of one request two events never share a block.   *)
(***************************************************************************)
EXTENDS Integers, Sequences, FiniteSets

CONSTANTS
    Requests,           \* the requests are 1..Requests
    MaxNotifications,   \* MAX_NOTIFICATIONS, 256
    MaxHeard,           \* bound: notifications that are collected
    MaxFeedBlock,       \* bound: finalized blocks
    BlocksPerSecond

ASSUME FeedAssumption ==
    Requests \in Nat /\ MaxNotifications \in Nat \ {0} /\ MaxHeard \in Nat /\ MaxFeedBlock \in Nat
    /\ BlocksPerSecond \in Nat \ {0}

RequestKind == {"REQUEST_READY", "REQUEST_DENIED", "REQUEST_EXECUTED", "REQUEST_EXPIRED"}
OtherKind == {"VAULT_STOPPED", "FUNDING_DELAYED", "EVIDENCE_VERIFIED"}

NoRequestId == 0      \* the zero hash
NoHash == [hash |-> "zero"]
Refused == [refused |-> TRUE]   \* the function throws

\* A record with one more field.
With(record, field, value) ==
    [f \in DOMAIN record \union {field} |-> IF f = field THEN value ELSE record[f]]

expectedSeverity(kind) ==
    IF kind \in {"REQUEST_DENIED", "REQUEST_EXPIRED", "VAULT_STOPPED", "FUNDING_DELAYED"}
      THEN "WARNING" ELSE "INFO"

-----------------------------------------------------------------------------
(* Notifications.                                                           *)

publicNotificationHash(n) ==
    [f \in {"chainId", "eventId", "kind", "severity", "reference", "requestId",
            "blockNumber", "observedAt"} |-> n[f]]

validateNotificationBody(n) ==
    /\ n.chainId > 0 /\ n.blockNumber > 0 /\ n.observedAt > 0
    /\ n.kind \in RequestKind <=> n.requestId # NoRequestId
    /\ n.severity = expectedSeverity(n.kind)

\* What decodePublicNotification, and so encodePublicNotification, lets pass.
Decodes(n) ==
    /\ n.kind \in RequestKind \union OtherKind /\ n.reference # NoRequestId
    /\ validateNotificationBody(n) /\ n.notificationHash = publicNotificationHash(n)

assertUniqueNotifications(ns) ==
    \A i, j \in DOMAIN ns : i # j =>
        ns[i].eventId # ns[j].eventId /\ ns[i].notificationHash # ns[j].notificationHash

\* (A mutant: of one second, the blocks are not told apart.)
Precedes_AnyBlock(left, right) ==
    \/ left.observedAt > right.observedAt
    \/ /\ left.observedAt = right.observedAt
       /\ left.reference < right.reference

Precedes(left, right) ==
    \/ left.observedAt > right.observedAt
    \/ /\ left.observedAt = right.observedAt
       /\ \/ left.blockNumber > right.blockNumber
          \/ left.blockNumber = right.blockNumber /\ left.reference < right.reference

\* Array.prototype.sort is stable: what compares equal stays in its order.
UpTo(ns, i) ==
    {j \in DOMAIN ns : Precedes(ns[j], ns[i]) \/ (~ Precedes(ns[i], ns[j]) /\ j <= i)}

sortPublicNotifications(ns) ==
    [k \in 1..Len(ns) |-> ns[CHOOSE i \in DOMAIN ns : Cardinality(UpTo(ns, i)) = k]]

Hashes(ns) == {ns[i].notificationHash : i \in DOMAIN ns}

-----------------------------------------------------------------------------
(* Feeds: [chainId, generatedAt, notifications, feedHash].                  *)

validateFeedInput(feed) ==
    /\ feed.chainId # 0 /\ Len(feed.notifications) <= MaxNotifications
    /\ assertUniqueNotifications(feed.notifications)
    /\ \A i \in DOMAIN feed.notifications :
          LET n == feed.notifications[i] IN
          /\ Decodes(n) /\ n.chainId = feed.chainId /\ n.observedAt <= feed.generatedAt

publicNotificationFeedHash(feed) ==
    [chainId |-> feed.chainId, generatedAt |-> feed.generatedAt, hashes |-> Hashes(feed.notifications)]

\* What is encoded is decoded first, so that encoding, too, sorts or throws.
decodePublicNotificationFeed(feed) ==
    IF validateFeedInput(feed) /\ feed.feedHash = publicNotificationFeedHash(feed)
      THEN [feed EXCEPT !.notifications = sortPublicNotifications(@)]
      ELSE Refused

buildPublicNotificationFeed(chain, generatedAt, ns) ==
    LET body == [chainId |-> chain, generatedAt |-> generatedAt, notifications |-> sortPublicNotifications(ns)]
    IN  decodePublicNotificationFeed(With(body, "feedHash", publicNotificationFeedHash(body)))

-----------------------------------------------------------------------------
(* Exports.                                                                 *)

validateExportBody(e) ==
    /\ e.generatedAt <= e.exportedAt
    /\ e.status = "AVAILABLE" =>
         /\ e.reason = "null" /\ e.chainId # 0 /\ e.feedHash # NoHash
         /\ decodePublicNotificationFeed([chainId |-> e.chainId, generatedAt |-> e.generatedAt,
              notifications |-> e.notifications, feedHash |-> e.feedHash]) # Refused
    /\ e.status = "UNAVAILABLE" =>
         /\ e.reason # "null" /\ e.chainId = 0 /\ e.generatedAt = 0 /\ e.feedHash = NoHash
         /\ e.notifications = <<>>

publicNotificationExportHash(e) ==
    [of |-> [f \in {"chainId", "generatedAt", "feedHash", "exportedAt", "status", "reason"} |-> e[f]],
     hashes |-> Hashes(e.notifications)]

decodePublicNotificationExport(e) ==
    IF validateExportBody(e) /\ e.exportHash = publicNotificationExportHash(e)
      THEN [e EXCEPT !.notifications = sortPublicNotifications(@)]
      ELSE Refused

SealedExport(body) ==
    decodePublicNotificationExport(With(body, "exportHash", publicNotificationExportHash(body)))

buildPublicNotificationExport(feed, exportedAt) ==
    LET canonical == decodePublicNotificationFeed(feed) IN
    IF exportedAt < canonical.generatedAt THEN Refused
    ELSE SealedExport([chainId |-> canonical.chainId, generatedAt |-> canonical.generatedAt,
                       notifications |-> canonical.notifications, feedHash |-> canonical.feedHash,
                       exportedAt |-> exportedAt, status |-> "AVAILABLE", reason |-> "null"])

buildUnavailableNotificationExport(reason, exportedAt) ==
    SealedExport([chainId |-> 0, generatedAt |-> 0, notifications |-> <<>>, feedHash |-> NoHash,
                  exportedAt |-> exportedAt, status |-> "UNAVAILABLE", reason |-> reason])

-----------------------------------------------------------------------------
(* The reader.                                                              *)

VARIABLES
    progress,   \* progress[b]: the status of each request at block b
    heard,      \* the notifications a collector has, as they came
    feed,       \* its feed
    exported    \* and the export of it

feedVars == <<progress, heard, feed, exported>>

ChainId == 114

TimeOf(block) == 1 + block \div BlocksPerSecond

\* The reader looks at one finalized block.
notificationStateFromRequest(request, block) ==
    LET status == progress[block][request]
        kind == CASE status = "ALLOWED" -> "REQUEST_READY"
                  [] status = "DENIED" -> "REQUEST_DENIED"
                  [] status = "EXECUTED" -> "REQUEST_EXECUTED"
                  [] status = "EXPIRED" -> "REQUEST_EXPIRED"
                  [] OTHER -> "EVIDENCE_VERIFIED"
        body == [chainId |-> ChainId, eventId |-> <<request, block, kind>>, kind |-> kind,
                 severity |-> IF kind \in {"REQUEST_DENIED", "REQUEST_EXPIRED"} THEN "WARNING" ELSE "INFO",
                 reference |-> request,
                 requestId |-> IF kind = "EVIDENCE_VERIFIED" THEN NoRequestId ELSE request,
                 blockNumber |-> block, observedAt |-> TimeOf(block)]
    IN  buildPublicNotificationFeed(ChainId, TimeOf(block),
                                    <<With(body, "notificationHash", publicNotificationHash(body))>>)

FeedInit ==
    /\ progress = <<[r \in 1..Requests |-> "PENDING"]>>
    /\ heard = <<>> /\ feed = Refused /\ exported = Refused

NextStatus == [PENDING |-> {"ALLOWED", "DENIED", "EXPIRED", "CANCELLED"},
               ALLOWED |-> {"EXECUTED", "EXPIRED", "CANCELLED"}]

LastBlock == Len(progress)

\* A block in which one request may go on.
AddBlock ==
    /\ exported = Refused /\ LastBlock < MaxFeedBlock
    /\ \/ progress' = Append(progress, progress[LastBlock])
       \/ \E r \in 1..Requests :
             /\ progress[LastBlock][r] \in DOMAIN NextStatus
             /\ \E status \in NextStatus[progress[LastBlock][r]] :
                   progress' = Append(progress, [progress[LastBlock] EXCEPT ![r] = status])
    /\ UNCHANGED <<heard, feed, exported>>

\* Notifications reach a collector late, twice, and in any order.
Hear(r, block) ==
    /\ feed = Refused /\ Len(heard) < MaxHeard
    /\ heard' = Append(heard, notificationStateFromRequest(r, block).notifications[1])
    /\ UNCHANGED <<progress, feed, exported>>

\* One feed and one export: they do not depend on each other.
Publish ==
    /\ feed = Refused /\ heard # <<>>
    /\ feed' = buildPublicNotificationFeed(ChainId, TimeOf(LastBlock), heard)
    /\ UNCHANGED <<progress, heard, exported>>

Export(reason) ==
    /\ exported = Refused
    /\ exported' = IF feed = Refused THEN buildUnavailableNotificationExport(reason, TimeOf(LastBlock))
                   ELSE buildPublicNotificationExport(feed, TimeOf(LastBlock))
    /\ UNCHANGED <<progress, heard, feed>>

FeedNext ==
    \/ AddBlock \/ Publish
    \/ \E r \in 1..Requests, block \in 1..LastBlock : Hear(r, block)
    \/ \E reason \in {"RPC_UNAVAILABLE", "FEED_INVALID"} : Export(reason)

FeedSpec == FeedInit /\ [][FeedNext]_feedVars

-----------------------------------------------------------------------------
(* Properties.                                                              *)

\* The ways in which one thing of a feed or an export differs.
Shortened(w) == {[w EXCEPT !.notifications = SubSeq(@, 1, k - 1) \o SubSeq(@, k + 1, Len(@))] :
                     k \in DOMAIN w.notifications}
Relabelled(w) ==
    LET kinds == [k \in DOMAIN w.notifications |-> RequestKind \ {w.notifications[k].kind}] IN
    (UNION {{[w EXCEPT !.notifications[k].kind = kind] : kind \in kinds[k]} : k \in DOMAIN w.notifications})
    \union {[w EXCEPT !.notifications[k].blockNumber = @ + 1] : k \in DOMAIN w.notifications}
Altered(w) ==
    {[w EXCEPT !.generatedAt = @ + 1], [w EXCEPT !.chainId = @ + 1]} \union Shortened(w) \union Relabelled(w)
AlteredExport(e) ==
    {[e EXCEPT !.exportedAt = @ + 1], [e EXCEPT !.reason = "FEED_UNFINALIZED"],
     [e EXCEPT !.status = IF @ = "AVAILABLE" THEN "UNAVAILABLE" ELSE "AVAILABLE"]} \union Altered(e)

\* A feed, and an export, says the same whatever the order in which its
\* notifications came; the first of a request is its latest, although
\* blocks share a second; each is decoded to itself, and to nothing once a
\* single thing in it differs (notifications.ts:203-353).
FeedIsCanonical ==
    /\ feed # Refused =>
         LET ns == feed.notifications IN
         /\ \A p \in {q \in [DOMAIN ns -> DOMAIN ns] : \A i, j \in DOMAIN ns : q[i] = q[j] => i = j} :
               decodePublicNotificationFeed([feed EXCEPT !.notifications = [i \in DOMAIN ns |-> ns[p[i]]]]) = feed
         /\ \A i, j \in DOMAIN ns :
               ns[i].reference = ns[j].reference /\ i < j => ns[i].blockNumber > ns[j].blockNumber
         /\ \A w \in Altered(feed) : decodePublicNotificationFeed(w) = Refused
    /\ exported # Refused =>
         /\ decodePublicNotificationExport(exported) = exported
         /\ \A w \in AlteredExport(exported) : decodePublicNotificationExport(w) = Refused
         /\ exported.status = "AVAILABLE" => exported.notifications = feed.notifications
=============================================================================
