-------------------------------- MODULE LiveFeed --------------------------------
(***************************************************************************)
(* What a browser sees of a running task: its events (the timeline) or its    *)
(* logs (the console).                                                        *)
(*                                                                            *)
(* A writer stores an entry and then hands it to the hub, which offers it to  *)
(* the channel of the connected stream and drops it when the channel is full. *)
(* A stream subscribes first, reads the entries stored so far, sends them,    *)
(* sends what a goroutine buffered meanwhile, and then sends what comes.  The *)
(* browser reconnects when the connection breaks, and for logs reads          *)
(* everything once the job has ended.                                         *)
(*                                                                            *)
(* Entries are numbered in the order they are stored: the sequence number of  *)
(* an event, the identity of a log.                                           *)
(***************************************************************************)
EXTENDS Integers, FiniteSets, Sequences, Sublists

CONSTANTS
    ChanCap,        \* capacity of a subscriber's channel (100 in the code)
    TailLimit,      \* logs a stream starts with (500), events the timeline asks for (100)
    MaxBufferedLogs,\* logs the browser keeps (5000)
    Lines,          \* lines of output tried: type, sizes of its texts, whether it reports a failure
    MaxTailBytes,   \* size a text is cut to (5120)
    MaxPayloadBytes,\* size of the largest payload stored (8192)
    MaxEntries,     \* bound: entries written
    MaxBreaks       \* bound: broken connections and reruns of the job

ASSUME FeedAssumption ==
    /\ {ChanCap, TailLimit, MaxBufferedLogs} \subseteq Nat \ {0}
    /\ MaxPayloadBytes \in Nat \ {0} /\ {MaxTailBytes, MaxEntries, MaxBreaks} \subseteq Nat
    /\ \A l \in Lines : {l.out, l.err, l.escape} \subseteq Nat

VARIABLES
    feed,     \* which feed: "event", or "log" kept in the "db" or in a "file"
    stored,   \* number of entries stored
    artifacts,\* number of outputs stored beside the events
    lines,    \* lines logged
    unsent,   \* entries stored and not yet handed to the hub
    stream,   \* the server's side: pc, cursor, channel, buffer, rest of the history, last sent
    wire,     \* sent and not yet received
    page,     \* the browser: pc, entries shown, cursor, start of the first page, dropped count, breaks, last full read
    excused   \* history: entries dropped at a full channel or overtaken by a later one

feedVars == <<feed, stored, artifacts, lines, unsent, stream, wire, page, excused>>

MaxOfSet(S) == IF S = {} THEN 0 ELSE CHOOSE x \in S : \A y \in S : y <= x
ShownIn(seq) == {seq[i] : i \in DOMAIN seq}
NoStream == [pc |-> "off", ch |-> <<>>, buf |-> <<>>, hist |-> <<>>, maxSeq |-> -1, after |-> 0]

FeedInit ==
    /\ feed \in {"event", "db", "file"}
    /\ stored = 0 /\ artifacts = 0 /\ lines = 0 /\ unsent = {} /\ stream = NoStream /\ wire = <<>> /\ excused = {}
    /\ page = [pc |-> IF feed = "event" THEN "loading" ELSE "connect", shown |-> <<>>, cursor |-> 0,
               first |-> 0, dropped |-> 0, breaks |-> 0, read |-> 0]

--------------------------------------------------------------------------------
\* The hub

\* Mutant: the stream subscribes when it has sent the history.
OfferedLate(e) ==
    IF stream.pc \notin {"off", "catchup", "history"} /\ Len(stream.ch) < ChanCap
    THEN [stream EXCEPT !.ch = Append(@, e)] ELSE stream

\* Broadcast: the subscriber's channel takes the entry or the entry is dropped.
Offered(e) ==
    IF stream.pc # "off" /\ Len(stream.ch) < ChanCap
    THEN [stream EXCEPT !.ch = Append(@, e)] ELSE stream

Excused(e) ==
    IF stream.pc # "off" /\ Len(stream.ch) = ChanCap THEN {e}
    ELSE IF \E f \in 1..stored : f > e /\ f \notin unsent THEN {e} ELSE {}

\* ProcessLine: the payload of the event a line becomes.  A line logged inside a step
\* carries the step's name in front and parses as nothing; texts other than outputs,
\* summaries and messages are not cut.
TruncateTail(n) == IF n <= MaxTailBytes THEN n ELSE MaxTailBytes + 1

PayloadSize(l) ==
    CASE l.inStep \/ l.type \in {"plain", "other"} -> TruncateTail(l.out) * l.escape
      [] ~l.inStep /\ l.type = "reasoning"          -> TruncateTail(l.out) * l.escape
      [] ~l.inStep /\ l.type = "command_finished"   -> (TruncateTail(l.out) + TruncateTail(l.err)) * l.escape
      [] ~l.inStep /\ l.type = "test_result"        -> 1
      [] OTHER                                      -> l.out * l.escape

\* A payload still too large is replaced by a remark.
EmitSimple(l) == IF PayloadSize(l) > MaxPayloadBytes THEN 1 ELSE PayloadSize(l)

\* The output of a failed command or test run is kept whole in an artifact.
WritesArtifact(l) ==
    /\ ~l.inStep /\ l.type \in {"command_finished", "test_result"}
    /\ l.failed /\ l.out + l.err > MaxTailBytes

\* TaskEventService.Emit refuses a payload above the limit.
Emitted(l) == EmitSimple(l) <= MaxPayloadBytes

\* A log kept in a file is written and broadcast under one lock, one kept in the
\* database is committed first.
CreateLog ==
    /\ feed # "event" /\ lines < MaxEntries
    /\ lines' = lines + 1 /\ stored' = stored + 1
    /\ IF feed = "db" THEN unsent' = unsent \cup {stored + 1} /\ UNCHANGED <<stream, excused>>
       ELSE /\ stream' = Offered(stored + 1) /\ excused' = excused \cup Excused(stored + 1)
            /\ UNCHANGED unsent
    /\ UNCHANGED <<feed, artifacts, wire, page>>

\* The artifact first, then the event with the next number; the broadcast comes after
\* the commit.
CreateEvent ==
    /\ feed = "event" /\ lines < MaxEntries
    /\ lines' = lines + 1
    /\ \E l \in Lines :
         /\ artifacts' = IF WritesArtifact(l) THEN artifacts + 1 ELSE artifacts
         /\ IF Emitted(l) THEN stored' = stored + 1 /\ unsent' = unsent \cup {stored + 1}
                          ELSE UNCHANGED <<stored, unsent>>
    /\ UNCHANGED <<feed, stream, wire, page, excused>>

Broadcast ==
    /\ \E e \in unsent :
         /\ unsent' = unsent \ {e}
         /\ stream' = Offered(e)
         /\ excused' = excused \cup Excused(e)
    /\ UNCHANGED <<feed, stored, artifacts, lines, wire, page>>

--------------------------------------------------------------------------------
\* The stream: streamEventsLoop and streamLogsLoop

Subscribe ==
    /\ page.pc = "connect" /\ stream.pc = "off"
    /\ stream' = [NoStream EXCEPT !.pc = "catchup", !.after = page.cursor]
    /\ page' = [page EXCEPT !.pc = "connected"]
    /\ UNCHANGED <<feed, stored, artifacts, lines, unsent, wire, excused>>

\* What is stored after a cursor, the last n of it and all of it.
ListByTaskIDAfter(after) == [i \in 1..(stored - after) |-> after + i]
TailLogs(n) == ListByTaskIDAfter(MaxOfSet({0, stored - n}))
ListLogs == ListByTaskIDAfter(0)
ListByTaskIDPaginated(n) == TailLogs(n)

Catchup ==
    /\ stream.pc = "catchup"
    /\ stream' = [stream EXCEPT !.pc = "history",
                                !.hist = IF feed = "event" THEN ListByTaskIDAfter(stream.after)
                                         ELSE TailLogs(TailLimit)]
    /\ UNCHANGED <<feed, stored, artifacts, lines, unsent, wire, page, excused>>

\* The goroutine that buffers the channel until it is told to stop; for events it
\* empties the channel first, for logs it may leave entries to the live loop.
BufferReceive ==
    /\ stream.pc \in {"catchup", "history", "stopping"} /\ stream.ch # <<>>
    /\ stream' = [stream EXCEPT !.buf = Append(@, Head(stream.ch)), !.ch = Tail(@)]
    /\ UNCHANGED <<feed, stored, artifacts, lines, unsent, wire, page, excused>>

EmitHistory ==
    /\ stream.pc = "history"
    /\ IF stream.hist = <<>> THEN stream' = [stream EXCEPT !.pc = "stopping"] /\ UNCHANGED wire
       ELSE /\ stream' = [stream EXCEPT !.hist = Tail(@), !.maxSeq = MaxOfSet({@, Head(stream.hist)})]
            /\ wire' = Append(wire, Head(stream.hist))
    /\ UNCHANGED <<feed, stored, artifacts, lines, unsent, page, excused>>

BufferDetached ==
    /\ stream.pc = "stopping"
    /\ feed = "event" => stream.ch = <<>>
    /\ stream' = [stream EXCEPT !.pc = "buffer"]
    /\ UNCHANGED <<feed, stored, artifacts, lines, unsent, wire, page, excused>>

\* Events of the buffer that the history had are not sent again.
EmitBuffer ==
    /\ stream.pc = "buffer"
    /\ IF stream.buf = <<>> THEN stream' = [stream EXCEPT !.pc = "live"] /\ UNCHANGED wire
       ELSE LET e == Head(stream.buf)
                send == feed # "event" \/ e > stream.maxSeq
            IN  /\ stream' = [stream EXCEPT !.buf = Tail(@), !.maxSeq = IF send THEN e ELSE @]
                /\ wire' = IF send THEN Append(wire, e) ELSE wire
    /\ UNCHANGED <<feed, stored, artifacts, lines, unsent, page, excused>>

EmitLive ==
    /\ stream.pc = "live" /\ stream.ch # <<>>
    /\ stream' = [stream EXCEPT !.ch = Tail(@)]
    /\ wire' = Append(wire, Head(stream.ch))
    /\ UNCHANGED <<feed, stored, artifacts, lines, unsent, page, excused>>

\* The connection breaks, or reading the stored entries fails: what is on the wire may
\* still arrive in part, and the browser connects again after a delay.
Disconnect ==
    /\ stream.pc # "off" /\ page.pc = "connected" /\ page.breaks < MaxBreaks
    /\ stream' = NoStream /\ wire' = <<>>
    /\ page' = [page EXCEPT !.pc = "connect", !.breaks = @ + 1]
    /\ UNCHANGED <<feed, stored, artifacts, lines, unsent, excused>>

--------------------------------------------------------------------------------
\* The browser

\* mergeEvents: a plain append when in order, else sorted without duplicates.
MergeEvents(shown, e) ==
    IF shown = <<>> \/ e > shown[Len(shown)] THEN Append(shown, e)
    ELSE InOrder(ShownIn(shown) \cup {e})

\* Mutant: whatever arrives is appended.
AppendAllLogs(shown, new) == [shown |-> shown \o new, over |-> 0]

\* appendUniqueLogs: unseen ones at the end, the oldest shown ones cut off.
AppendUniqueLogs(shown, new) ==
    LET all == shown \o Sublist(new, {i \in DOMAIN new : new[i] \notin ShownIn(shown)})
        over == MaxOfSet({0, Len(all) - MaxBufferedLogs})
    IN  [shown |-> SubSeq(all, over + 1, Len(all)), over |-> over]

WithLogs(new) ==
    LET added == AppendUniqueLogs(page.shown, new)
    IN  [page EXCEPT !.shown = added.shown, !.dropped = @ + added.over]

\* The first page of the timeline: the latest events; the stream starts after them.
LoadTimeline ==
    /\ page.pc = "loading"
    /\ LET latest == ListByTaskIDPaginated(TailLimit)
       IN  \/ page' = [page EXCEPT !.pc = "connect", !.first = stored - Len(latest), !.cursor = stored,
                                   !.shown = latest]
           \/ page' = [page EXCEPT !.pc = "connect"]
    /\ UNCHANGED <<feed, stored, artifacts, lines, unsent, stream, wire, excused>>

Receive ==
    /\ page.pc = "connected" /\ wire # <<>>
    /\ wire' = Tail(wire)
    /\ page' = IF feed = "event"
               THEN [page EXCEPT !.shown = MergeEvents(@, Head(wire)), !.cursor = Head(wire)]
               ELSE WithLogs(<<Head(wire)>>)
    /\ UNCHANGED <<feed, stored, artifacts, lines, unsent, stream, excused>>

\* The job has ended: the stream is given up and all logs are read and appended.
TerminalLogs ==
    /\ feed # "event" /\ page.pc \in {"connect", "connected"}
    /\ stream' = NoStream /\ wire' = <<>>
    /\ page' = [WithLogs(ListLogs) EXCEPT !.pc = "ended", !.read = stored]
    /\ UNCHANGED <<feed, stored, artifacts, lines, unsent, excused>>

\* The job runs again (a retry): the stream is opened again.
RunsAgain ==
    /\ page.pc = "ended" /\ page.breaks < MaxBreaks
    /\ page' = [page EXCEPT !.pc = "connect", !.breaks = @ + 1]
    /\ UNCHANGED <<feed, stored, artifacts, lines, unsent, stream, wire, excused>>

\* reloadFullLogs: everything stored replaces what is shown.
ReloadFullLogs ==
    /\ feed # "event"
    /\ page' = [page EXCEPT !.shown = ListLogs, !.dropped = 0, !.read = stored]
    /\ UNCHANGED <<feed, stored, artifacts, lines, unsent, stream, wire, excused>>

FeedNext ==
    \/ CreateLog \/ CreateEvent \/ Broadcast \/ Subscribe \/ Catchup \/ BufferReceive \/ EmitHistory \/ BufferDetached
    \/ EmitBuffer \/ EmitLive \/ Disconnect \/ LoadTimeline \/ Receive \/ TerminalLogs \/ RunsAgain \/ ReloadFullLogs

FeedSpec == FeedInit /\ [][FeedNext]_feedVars

--------------------------------------------------------------------------------
Quiet == stream.pc = "live" /\ stream.ch = <<>> /\ wire = <<>> /\ unsent = {} /\ page.pc = "connected"

\* Every line logged has become an event, however long it is (ProcessLine, Emit), the
\* timeline shows its events once each and in order, and when nothing
\* is under way it shows every event since its first page, through any number of broken connections
\* (CreateEvent, streamEventsLoop, streamEvents, mergeEvents); what it may miss was
\* dropped at a full channel or broadcast after a later event.
TimelineComplete ==
    feed = "event" =>
        /\ stored = lines
        /\ \A i, j \in DOMAIN page.shown : i < j => page.shown[i] < page.shown[j]
        /\ Quiet => (page.first + 1)..stored \subseteq ShownIn(page.shown) \cup excused

\* The console shows no log twice, and it shows every log of the last full read unless
\* it says that some were dropped (CreateLog, streamLogsLoop, appendUniqueLogs).
LogsComplete ==
    feed # "event" =>
        /\ \A i, j \in DOMAIN page.shown : i # j => page.shown[i] # page.shown[j]
        /\ 1..page.read \subseteq ShownIn(page.shown) \/ page.dropped > 0
================================================================================
