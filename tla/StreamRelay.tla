---------------------------- MODULE StreamRelay ----------------------------
(***************************************************************************)
(* One chat.stream on its way from the extension to a page: the provider   *)
(* injected into the page (inpage-provider.ts) with the timers of the SDK  *)
(* (transport.ts), the content script that relays it (content-script.ts)   *)
(* and the extension's service worker (transport/runtime.ts).              *)
(*                                                                         *)
(* Every stream has a request id and a port of its own, so that one stream *)
(* is enough.  A step is one event: a window message, a message or the end *)
(* of the port, a timer, an abort, a chunk of the provider.  A chunk is    *)
(* its number; the envelope of a "done" message counts as one more.  The   *)
(* "start" event, which the page ignores, is left out.                     *)
(***************************************************************************)
EXTENDS Naturals, Sequences

CONSTANTS
    MaxChunks,      \* bound on the chunks of the provider
    MaxBuffered     \* MAX_BUFFERED_STREAM_ENTRIES

ASSUME StreamRelayAssumption == MaxChunks \in Nat /\ MaxBuffered \in Nat \ {0}

VARIABLES
    page,           \* the pending stream of the page and the reader of it
    port,           \* activeStreamPorts: "none", "open" or "closed"
    route,          \* "none", "live" over the port, or "buffered"
    worker,         \* the service worker's side
    toWorker,       \* what the content script posted to the port
    toContent,      \* what the worker posted to the port, or its response
    toPage          \* window messages of the content script

rvars == <<page, port, route, worker, toWorker, toContent, toPage>>

Value(n) == [kind |-> "value", n |-> n]
Done == [kind |-> "done", n |-> 0]
Failure(why) == [kind |-> why, n |-> 0]
Failures == {"error", "cancelled", "timeout", "overflow"}

\* A message of the worker, as the content script relays it.
Event(kind, n) == [kind |-> kind, n |-> n]

Working == {"setup", "streaming", "flushing"}

RInit ==
    /\ page = [open |-> FALSE, complete |-> FALSE, queue |-> <<>>,
               reader |-> "idle", returning |-> FALSE, aborted |-> FALSE,
               got |-> 0, outcome |-> "none", out |-> <<>>]
    /\ port = "none" /\ route = "none"
    /\ worker = [at |-> "none", aborted |-> FALSE, made |-> 0]
    /\ toWorker = <<>> /\ toContent = <<>> /\ toPage = <<>>

---------------------------------------------------------------------------
(* The page *)

Cancel(p) == [p EXCEPT !.out = Append(@, "cancel")]

\* Mutant: leaving the loop does not cancel the stream.
FinishSilently(p, outcome) ==
    [p EXCEPT !.open = FALSE, !.complete = TRUE, !.reader = "ended", !.outcome = outcome]

\* The generator's finally.
Finish(p, outcome) ==
    LET q == IF p.open /\ ~p.complete THEN Cancel(p) ELSE p
    IN  [q EXCEPT !.open = FALSE, !.complete = q.complete \/ p.open,
                  !.reader = "ended", !.outcome = outcome]

\* An entry reaches the reader; one that is already returning drops a value.
Hand(p, e) ==
    IF p.returning \/ p.aborted
    THEN Finish(p, IF p.aborted THEN "cancelled" ELSE "left")
    ELSE IF e.kind = "value"
    THEN [p EXCEPT !.reader = "holding", !.got = e.n]
    ELSE Finish(p, e.kind)

Deliver(p, e) ==
    IF p.reader = "waiting" THEN Hand(p, e) ELSE [p EXCEPT !.queue = Append(@, e)]

\* Mutant: a value too many is dropped, and the stream goes on.
EnqueueDropping(p, e) ==
    IF e.kind = "value" /\ (p.complete \/ Len(p.queue) >= MaxBuffered)
    THEN p
    ELSE Deliver(IF e.kind = "value" THEN p ELSE [p EXCEPT !.complete = TRUE], e)

\* Mutant: the queue has no limit.
EnqueueUnbounded(p, e) ==
    IF p.complete /\ e.kind = "value"
    THEN p
    ELSE Deliver(IF e.kind = "value" THEN p ELSE [p EXCEPT !.complete = TRUE], e)

\* enqueueStreamEntry
Enqueue(p, e) ==
    IF p.complete /\ e.kind = "value"
    THEN p
    ELSE IF e.kind = "value" /\ Len(p.queue) >= MaxBuffered
    THEN Deliver(Cancel([p EXCEPT !.complete = TRUE]), Failure("overflow"))
    ELSE Deliver(IF e.kind = "value" THEN p ELSE [p EXCEPT !.complete = TRUE], e)

EnqueueAll(p, entries) ==
    LET after[i \in 0..Len(entries)] ==
            IF i = 0 THEN p ELSE Enqueue(after[i - 1], entries[i])
    IN  after[Len(entries)]

Detach(p) == [p EXCEPT !.open = FALSE]

\* The timer or the signal ends a stream that is pending: the reader is told
\* at once, and a cancellation follows.
Terminate(p, why) == Cancel(Enqueue([Detach(p) EXCEPT !.complete = TRUE], Failure(why)))

\* bridge.stream, and the first next of its reader in the same turn.
Start ==
    /\ page.reader = "idle"
    /\ page' = [page EXCEPT !.open = TRUE, !.reader = "waiting", !.out = <<"start">>]
    /\ UNCHANGED <<port, route, worker, toWorker, toContent, toPage>>

\* The reader asks for the next entry; after an abort it is refused one.
Ask ==
    /\ page.reader = "holding"
    /\ page' = IF page.aborted
               THEN Finish(page, "cancelled")
               ELSE IF page.queue = <<>>
               THEN [page EXCEPT !.reader = "waiting"]
               ELSE Hand([page EXCEPT !.queue = Tail(@)], Head(page.queue))
    /\ UNCHANGED <<port, route, worker, toWorker, toContent, toPage>>

\* The reader breaks out of its loop.
Leave ==
    /\ page.reader = "holding"
    /\ page' = Finish(page, "left")
    /\ UNCHANGED <<port, route, worker, toWorker, toContent, toPage>>

\* withStreamTimeout gives up; iterator.return() waits behind the pending next.
SdkTimeout ==
    /\ page.reader = "waiting" /\ ~page.returning
    /\ page' = [page EXCEPT !.returning = TRUE]
    /\ UNCHANGED <<port, route, worker, toWorker, toContent, toPage>>

\* Mutant: the waiting reader is not told.
TimerForgetsReader ==
    /\ page.open
    /\ page' = Cancel([Detach(page) EXCEPT !.complete = TRUE])
    /\ UNCHANGED <<port, route, worker, toWorker, toContent, toPage>>

TimerFires ==
    /\ page.open
    /\ page' = Terminate(page, "timeout")
    /\ UNCHANGED <<port, route, worker, toWorker, toContent, toPage>>

Abort ==
    /\ page.reader \in {"waiting", "holding"} /\ ~page.aborted
    /\ LET p == [page EXCEPT !.aborted = TRUE]
       IN  page' = IF page.open THEN Terminate(p, "cancelled") ELSE p
    /\ UNCHANGED <<port, route, worker, toWorker, toContent, toPage>>

\* Mutant: the envelope of a "done" event is not a value of the stream.
LiveEntriesShort(e) == CASE e.kind = "chunk" -> <<Value(e.n)>>
                         [] e.kind = "done" -> <<Done>>
                         [] OTHER -> <<Failure(e.kind)>>

LiveEntries(e) == CASE e.kind = "chunk" -> <<Value(e.n)>>
                    [] e.kind = "done" -> <<Value(e.n), Done>>
                    [] OTHER -> <<Failure(e.kind)>>

\* consumeLiveStreamEvent
Live(p, e) ==
    IF ~p.open \/ p.complete
    THEN p
    ELSE EnqueueAll(IF e.kind = "chunk" THEN p ELSE Detach(p), LiveEntries(e))

\* consumeBufferedStreamResponse: all the envelopes at once.
Buffered(p, e) ==
    IF ~p.open
    THEN p
    ELSE EnqueueAll(Detach(p), IF e.kind = "whole"
                               THEN [i \in 1..e.n |-> Value(i)] \o <<Done>>
                               ELSE <<Failure("error")>>)

PageReceives ==
    /\ toPage # <<>>
    /\ toPage' = Tail(toPage)
    /\ LET e == Head(toPage)
       IN  page' = IF e.kind \in {"whole", "failed"} THEN Buffered(page, e) ELSE Live(page, e)
    /\ UNCHANGED <<port, route, worker, toWorker, toContent>>

---------------------------------------------------------------------------
(* The content script *)

\* relayLiveStreamToBackground: over a port, or by one message if that fails;
\* once the extension is reloaded the message throws and is lost.
Relay ==
    /\ page.out # <<>> /\ Head(page.out) = "start"
    /\ page' = [page EXCEPT !.out = Tail(@)]
    /\ \/ route' = "live" /\ port' = "open" /\ toWorker' = <<"start">>
       \/ route' = "buffered" /\ toWorker' = <<"start">> /\ UNCHANGED port
       \/ UNCHANGED <<route, port, toWorker>>
    /\ UNCHANGED <<worker, toContent, toPage>>

\* Mutant: the port is neither forgotten nor disconnected.
CleanupKept(events) ==
    /\ toPage' = toPage \o events
    /\ UNCHANGED <<port, toWorker>>

\* The page is told, the port forgotten and disconnected.
Cleanup(events) ==
    /\ toPage' = toPage \o events
    /\ port' = "closed"
    /\ toWorker' = Append(toWorker, "bye")

RelayCancel ==
    /\ page.out # <<>> /\ Head(page.out) = "cancel"
    /\ page' = [page EXCEPT !.out = Tail(@)]
    /\ IF port # "open"
       THEN /\ toPage' = Append(toPage, Event("cancelled", 0))
            /\ UNCHANGED <<port, toWorker, toContent>>
       ELSE IF worker.at = "dead"
       THEN Cleanup(<<Event("error", 0)>>) /\ toContent' = <<>>
       ELSE toWorker' = Append(toWorker, "cancel") /\ UNCHANGED <<port, toPage, toContent>>
    /\ UNCHANGED <<route, worker>>

\* A message of the port, its disconnection ("bye"), or the response.
RelayEvent ==
    /\ toContent # <<>>
    /\ LET e == Head(toContent) IN
       IF e.kind \in {"chunk", "whole", "failed"}
       THEN /\ toPage' = Append(toPage, e) /\ toContent' = Tail(toContent)
            /\ UNCHANGED <<port, toWorker>>
       ELSE /\ Cleanup(<<IF e.kind = "bye" THEN Event("error", 0) ELSE e>>)
            /\ toContent' = <<>>
    /\ UNCHANGED <<page, route, worker>>

\* The user disconnects the app: the ports are closed.  The window message
\* "app-disconnected" has no listener in the page.
AppDisconnected ==
    /\ port = "open"
    /\ Cleanup(<<>>) /\ toContent' = <<>>
    /\ UNCHANGED <<page, route, worker>>

---------------------------------------------------------------------------
(* The service worker *)

\* What is posted to a port that the content script has closed is lost.
Post(kind, n) ==
    toContent' = IF route = "live" /\ port # "open"
                 THEN toContent
                 ELSE Append(toContent, Event(kind, n))

\* The request is over; a plain message has one response only.
End(kind, n) ==
    /\ worker' = [worker EXCEPT !.at = "gone"]
    /\ IF route = "buffered"
       THEN Post(IF kind = "done" THEN "whole" ELSE "failed", n)
       ELSE Post(kind, n)

WorkerStarts ==
    /\ toWorker # <<>> /\ Head(toWorker) = "start" /\ worker.at = "none"
    /\ worker' = [worker EXCEPT !.at = "setup"]
    /\ toWorker' = Tail(toWorker)
    /\ UNCHANGED <<page, port, route, toContent, toPage>>

WorkerBye ==
    /\ toWorker # <<>> /\ Head(toWorker) = "bye"
    /\ toWorker' = Tail(toWorker)
    /\ worker' = [worker EXCEPT !.aborted = worker.at \in Working]
    /\ UNCHANGED <<page, port, route, toContent, toPage>>

WorkerCancel ==
    /\ toWorker # <<>> /\ Head(toWorker) = "cancel"
    /\ toWorker' = Tail(toWorker)
    /\ IF worker.at \in Working
       THEN worker' = [worker EXCEPT !.aborted = TRUE] /\ UNCHANGED toContent
       ELSE IF worker.at = "gone"
       THEN Post("cancelled", 0) /\ UNCHANGED worker
       ELSE UNCHANGED <<worker, toContent>>
    /\ UNCHANGED <<page, port, route, toPage>>

\* The wallet was read and the provider accepted the request, or refused it.
SetupEnds ==
    /\ worker.at = "setup"
    /\ \/ End("error", 0)
       \/ worker.aborted /\ End("cancelled", 0)
       \/ /\ ~worker.aborted
          /\ worker' = [worker EXCEPT !.at = "streaming"]
          /\ UNCHANGED toContent
    /\ UNCHANGED <<page, port, route, toWorker, toPage>>

\* The provider's next delta, where an abort is noticed.
Delta ==
    /\ worker.at = "streaming"
    /\ IF worker.aborted
       THEN End("cancelled", 0)
       ELSE /\ worker.made < MaxChunks
            /\ worker' = [worker EXCEPT !.made = @ + 1]
            /\ IF route = "live" THEN Post("chunk", worker.made + 1) ELSE UNCHANGED toContent
    /\ UNCHANGED <<page, port, route, toWorker, toPage>>

\* The provider's stream ends or breaks; usage is recorded before "done".
ProviderEnds ==
    /\ worker.at = "streaming"
    /\ \/ worker' = [worker EXCEPT !.at = "flushing"] /\ UNCHANGED toContent
       \/ End("error", 0)
    /\ UNCHANGED <<page, port, route, toWorker, toPage>>

FlushEnds ==
    /\ worker.at = "flushing"
    /\ IF worker.aborted THEN End("cancelled", 0) ELSE End("done", worker.made + 1)
    /\ UNCHANGED <<page, port, route, toWorker, toPage>>

\* The browser ends the service worker: the port closes, a message fails.
WorkerDies ==
    /\ worker.at \in Working
    /\ worker' = [worker EXCEPT !.at = "dead"]
    /\ Post(IF route = "live" THEN "bye" ELSE "failed", 0)
    /\ toWorker' = <<>>
    /\ UNCHANGED <<page, port, route, toPage>>

---------------------------------------------------------------------------

Reader == Start \/ Ask \/ Leave \/ SdkTimeout \/ Abort
Page == PageReceives \/ TimerFires
Content == Relay \/ RelayCancel \/ RelayEvent
WorkerReceives == WorkerStarts \/ WorkerBye \/ WorkerCancel
Provider == SetupEnds \/ Delta \/ ProviderEnds \/ FlushEnds

RNext == Reader \/ Page \/ Content \/ WorkerReceives \/ Provider
        \/ AppDisconnected \/ WorkerDies

\* Messages arrive, the armed timer fires, the provider goes on or gives up
\* (its requests have time limits) and the reader does not stop reading.
Fairness ==
    /\ WF_rvars(Ask) /\ WF_rvars(TimerFires) /\ WF_rvars(PageReceives)
    /\ WF_rvars(Content) /\ WF_rvars(WorkerReceives) /\ WF_rvars(Provider)

RSpec == RInit /\ [][RNext]_rvars

RFairSpec == RSpec /\ Fairness

---------------------------------------------------------------------------
(* Properties *)

\* The shape of the state; the page buffers MaxBuffered entries and its errors.
RTypeOK ==
    /\ page.open \in BOOLEAN /\ page.complete \in BOOLEAN
    /\ page.returning \in BOOLEAN /\ page.aborted \in BOOLEAN
    /\ page.reader \in {"idle", "waiting", "holding", "ended"}
    /\ page.got \in 0..(MaxChunks + 1)
    /\ page.outcome \in {"none", "done", "left"} \cup Failures
    /\ \A i \in DOMAIN page.queue :
          page.queue[i] \in {Value(n) : n \in 1..(MaxChunks + 1)} \cup {Done}
                            \cup {Failure(f) : f \in Failures}
    /\ Len(page.queue) <= MaxBuffered + 2
    /\ port \in {"none", "open", "closed"} /\ route \in {"none", "live", "buffered"}
    /\ worker.at \in Working \cup {"none", "gone", "dead"}
    /\ worker.made \in 0..MaxChunks

\* The reader receives the chunks of the provider in their order and none is
\* left out before another one, whatever is buffered, dropped or cancelled
\* between the worker and it.
ChunksInOrder == [][page'.got # page.got => page'.got = page.got + 1]_rvars

\* A loop that ends without an error has received the whole stream of a
\* provider that finished: an overflow, a disconnection or a cancellation is
\* never shown as the regular end (consumeLiveStreamEvent, Enqueue).
DoneMeansAll ==
    page.outcome = "done" => worker.at = "gone" /\ page.got = worker.made + 1

\* Once the page has no use for a stream any more and its messages have
\* arrived, the worker's request for it is aborted: no way out of the loop
\* (break, timeout, abort, overflow, disconnected app) leaves a worker that
\* goes on reading for nobody.  The signal ends the fetch of a local provider;
\* what a cloud or CLI chat runs in the bridge does not hear of it, and runs
\* on unread to its own end.
AbandonedIsAborted ==
    /\ page.reader = "ended" /\ route = "live"
    /\ page.out = <<>> /\ toWorker = <<>> /\ worker.at \in Working
    => worker.aborted

\* A reader that started hears of the end of its stream, although ports,
\* workers and messages get lost.
StreamSettles == (page.reader # "idle") ~> (page.reader = "ended")

\* After that the content script's port and the worker's request are released
\* for good.
WorkReleased == (page.reader = "ended") ~> [](port # "open" /\ worker.at \notin Working)

=============================================================================
