----------------------------- MODULE RepositoryStream -----------------------------
(***************************************************************************)
(* The streaming clients: a goroutine fetches page after page and sends    *)
(* the repositories into a channel of BufferSize, which a consumer reads   *)
(* until it is closed.  GitLab's consumer (ListGroupProjectsWithCache)     *)
(* collects a list and caches it; GitHub's (RefreshAllOptimized) works     *)
(* through the stream.                                                     *)
(***************************************************************************)
EXTENDS Naturals, Sequences

CONSTANTS
    Total,      \* how many repositories the organization or group has
    PageSize,   \* config.PageSize
    BufferSize, \* config.BufferSize
    NoList      \* the cache has no entry

ASSUME StreamAssumption ==
    /\ Total \in Nat
    /\ PageSize \in Nat \ {0}
    /\ BufferSize \in Nat \ {0}

Entries == 1 .. Total
StreamError == 0  \* what is in the channel for an element with Error set

VARIABLES
    streamKind, \* "gitlab" or "github"
    streamPC,   \* the consumer: "idle", reading, or how its call ended
    producer,   \* the goroutine: before a page, sending one, or "closed" with its channel
    page,       \* the page it fetches next, or is sending
    toSend,     \* what it has still to send of that page
    chan,       \* resultChan
    got,        \* what the consumer has received
    repeated,   \* it has received something twice
    cached,     \* the list in the cache of the GitLab client
    streamCtxDone, \* ctx is cancelled
    cut         \* history: a producer has ended early and its consumer was not told

streamVars == <<streamKind, streamPC, producer, page, toSend, chan, got, repeated, cached, streamCtxDone, cut>>

StreamInit ==
    /\ streamKind = "gitlab"
    /\ streamPC = "idle"
    /\ producer = "closed"
    /\ page = 1
    /\ toSend = <<>>
    /\ chan = <<>>
    /\ got = {}
    /\ repeated = FALSE
    /\ cached = NoList
    /\ streamCtxDone = FALSE
    /\ cut = FALSE

StreamBegins ==
    /\ streamPC # "run"
    /\ producer = "closed"
    /\ streamKind' \in {"github"} \union (IF cached = NoList THEN {"gitlab"} ELSE {})
    /\ streamPC' = "run"
    /\ producer' = "fetch"
    /\ page' = 1
    /\ toSend' = <<>>
    /\ chan' = <<>>
    /\ got' = {}
    /\ repeated' = FALSE
    /\ streamCtxDone' = FALSE
    /\ UNCHANGED <<cached, cut>>

\* A cached list is the answer; it has no age.
CacheHit ==
    /\ streamPC # "run"
    /\ producer = "closed"
    /\ cached # NoList
    /\ streamKind' = "gitlab"
    /\ streamPC' = "ok"
    /\ got' = cached
    /\ repeated' = FALSE
    /\ UNCHANGED <<producer, page, toSend, chan, cached, streamCtxDone, cut>>

-----------------------------------------------------------------------------
(* The producer *)

\* How many entries the first p pages hold.
UpToPage(p) == IF p * PageSize < Total THEN p * PageSize ELSE Total

\* The entries of page p, the last one perhaps short.
PageOf(p) == [i \in 1 .. UpToPage(p) - (p - 1) * PageSize |-> (p - 1) * PageSize + i]

FetchPage ==
    /\ producer = "fetch"
    /\ ~streamCtxDone
    /\ toSend' = PageOf(page)
    /\ producer' = "send"
    /\ UNCHANGED <<streamKind, streamPC, page, chan, got, repeated, cached, streamCtxDone, cut>>

\* Memory, rate limit or request: the error is sent if there is room for it,
\* else it is dropped, and the channel is closed in either case.
FetchFails ==
    /\ producer = "fetch"
    /\ producer' = "closed"
    /\ IF Len(chan) < BufferSize
         THEN chan' = Append(chan, StreamError) /\ UNCHANGED cut
         ELSE cut' = TRUE /\ UNCHANGED chan
    /\ UNCHANGED <<streamKind, streamPC, page, toSend, got, repeated, cached, streamCtxDone>>

SendEntry ==
    /\ producer = "send"
    /\ toSend # <<>>
    /\ Len(chan) < BufferSize
    /\ chan' = Append(chan, Head(toSend))
    /\ toSend' = Tail(toSend)
    /\ UNCHANGED <<streamKind, streamPC, producer, page, got, repeated, cached, streamCtxDone, cut>>

\* Mutation: the last page is taken for none.
PageDoneEarly ==
    /\ producer = "send"
    /\ toSend = <<>>
    /\ IF streamKind = "gitlab" /\ (page + 1) * PageSize >= Total
         THEN producer' = "closed" /\ UNCHANGED page
         ELSE producer' = "fetch" /\ page' = IF streamKind = "gitlab" THEN page + 1 ELSE page
    /\ UNCHANGED <<streamKind, streamPC, toSend, chan, got, repeated, cached, streamCtxDone, cut>>

\* GitHub's parseLinkPagination does not read the Link header: there is always
\* a next page, and it is the first one again.
PageDone ==
    /\ producer = "send"
    /\ toSend = <<>>
    /\ IF streamKind = "gitlab"
         THEN IF page * PageSize < Total
                THEN page' = page + 1 /\ producer' = "fetch"
                ELSE producer' = "closed" /\ UNCHANGED page
         ELSE producer' = "fetch" /\ UNCHANGED page
    /\ UNCHANGED <<streamKind, streamPC, toSend, chan, got, repeated, cached, streamCtxDone, cut>>

\* Seen before a page and while waiting to send: the channel is just closed.
ProducerLeaves ==
    /\ streamCtxDone
    /\ producer = "fetch" \/ (producer = "send" /\ toSend # <<>>)
    /\ producer' = "closed"
    /\ cut' = TRUE
    /\ UNCHANGED <<streamKind, streamPC, page, toSend, chan, got, repeated, cached, streamCtxDone>>

-----------------------------------------------------------------------------
(* The consumer *)

Receives(e) == streamPC = "run" /\ chan # <<>> /\ Head(chan) = e

ReceiveEntry ==
    /\ \E e \in Entries :
         /\ Receives(e)
         /\ got' = got \union {e}
         /\ repeated' = (repeated \/ e \in got)
    /\ chan' = Tail(chan)
    /\ UNCHANGED <<streamKind, streamPC, producer, page, toSend, cached, streamCtxDone, cut>>

\* GitLab's consumer returns the error; GitHub's keeps it among its details.
ReceiveError ==
    /\ Receives(StreamError)
    /\ chan' = Tail(chan)
    /\ streamPC' = IF streamKind = "gitlab" THEN "error" ELSE "run"
    /\ UNCHANGED <<streamKind, producer, page, toSend, got, repeated, cached, streamCtxDone, cut>>

\* The channel is closed and empty; GitLab's list goes to the cache.
StreamIsOver ==
    /\ streamPC = "run"
    /\ chan = <<>>
    /\ producer = "closed"
    /\ streamPC' = "ok"
    /\ cached' = IF streamKind = "gitlab" THEN got ELSE cached
    /\ UNCHANGED <<streamKind, producer, page, toSend, chan, got, repeated, streamCtxDone, cut>>

\* Only GitHub's consumer watches ctx itself.
ConsumerLeaves ==
    /\ streamPC = "run"
    /\ streamKind = "github"
    /\ streamCtxDone
    /\ streamPC' = "error"
    /\ UNCHANGED <<streamKind, producer, page, toSend, chan, got, repeated, cached, streamCtxDone, cut>>

CancelStream ==
    /\ streamPC = "run"
    /\ streamCtxDone' = TRUE
    /\ UNCHANGED <<streamKind, streamPC, producer, page, toSend, chan, got, repeated, cached, cut>>

ProducerStep ==
    \/ FetchPage
    \/ FetchFails
    \/ SendEntry
    \/ PageDone
    \/ ProducerLeaves

ConsumerStep ==
    \/ ReceiveEntry
    \/ ReceiveError
    \/ StreamIsOver
    \/ ConsumerLeaves

StreamNext ==
    \/ StreamBegins
    \/ CacheHit
    \/ ProducerStep
    \/ ConsumerStep
    \/ CancelStream

\* Requests return, and both goroutines run on.
StreamFairness ==
    /\ WF_streamVars(ProducerStep)
    /\ WF_streamVars(ConsumerStep)

StreamTypeOK ==
    /\ streamKind \in {"gitlab", "github"}
    /\ streamPC \in {"idle", "run", "ok", "error"}
    /\ producer \in {"fetch", "send", "closed"}
    /\ page \in Nat \ {0} /\ (page - 1) * PageSize <= Total
    /\ toSend \in Seq(Entries)
    /\ chan \in Seq(Entries \union {StreamError}) /\ Len(chan) <= BufferSize
    /\ got \subseteq Entries
    /\ repeated \in BOOLEAN
    /\ cached = NoList \/ cached \subseteq Entries
    /\ streamCtxDone \in BOOLEAN
    /\ cut \in BOOLEAN

(***************************************************************************)
(* A GitLab stream that no cancellation and no dropped error has cut short *)
(* delivers every project of the group exactly once before it ends well,   *)
(* whatever the page size, the buffer and the pace of the consumer.        *)
(***************************************************************************)
StreamIsExact ==
    streamPC = "ok" /\ streamKind = "gitlab" /\ ~cut => got = Entries /\ ~repeated

\* A GitLab stream ends by itself, and any stream ends once cancelled: the
\* consumer returns and the producer does not stay behind, blocked in a send.
StreamsEnd ==
    streamPC = "run" /\ (streamKind = "gitlab" \/ streamCtxDone)
        ~> streamPC # "run" /\ producer = "closed"
================================================================================
