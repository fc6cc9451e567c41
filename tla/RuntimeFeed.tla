----------------------------- MODULE RuntimeFeed -----------------------------
(***************************************************************************)
(* `mawf bridge serve` (src/workspace/cli.js, bridge.js, protocol.js and   *)
(* the runtime provider of providers.js): one client speaks over a pipe to *)
(* one server.  Lines are answered in order; a poll timer, owned by the    *)
(* server, pushes an event when the session files of the workspace have    *)
(* changed.  Frames travel in order; the client may hang up at any time.   *)
(***************************************************************************)
EXTENDS Naturals, Integers, Sequences

CONSTANTS
  FileContents,   \* what the session files may hold
  MaxLines,   \* bound on the lines a client sends
  MaxChanges  \* bound on the changes of the session files

ASSUME FeedAssumption == "unread" \notin FileContents

VARIABLES
  sessionFiles,      \* the session files, and how often they have changed
  lines,      \* lines received and not yet handled; how many were sent in all
  server,     \* the BridgeServer: handshake, channel, sink and closing
  runtime,    \* the runtime provider: epoch, last reading, subscription, timer
  frames,     \* frames written and not yet read by the client
  client      \* the client: hung up, resume point, what it knows

feedVars == <<sessionFiles, lines, server, runtime, frames, client>>

Unread == "unread"
Hellos == {"hello", "oldVersion", "badWorkspace"}
Requests == {"describe", "snapshot", "subscribe", "unsubscribe"}
Junk == {"junk"}  \* blank, oversized, malformed, of an unknown type or method, no client id

FeedInit ==
  /\ sessionFiles \in [holds : FileContents, changes : {0}]
  /\ lines = [queue |-> <<>>, sent |-> 0]
  /\ server = [handshaked |-> FALSE, refused |-> FALSE, closed |-> FALSE, seq |-> -1]
  /\ runtime = [epoch |-> 0, state |-> Unread, subscribed |-> FALSE, timer |-> FALSE]
  /\ frames = <<>>
  /\ client = [hungUp |-> FALSE, resume |-> <<>>, knows |-> <<>>, verdict |-> "none"]

ChannelEpoch == 0  \* nobody calls BridgeServer.snapshot, which would set it

NoData == [epoch |-> -1]
Frame(type, a, b) == [type |-> type, a |-> a, b |-> b]
Error == Frame("error", NoData, 0)
Write(frame) == frames' = Append(frames, frame)
Answer(frame) == /\ lines' = [lines EXCEPT !.queue = Tail(@)]
                 /\ Write(frame)

(***************************************************************************)
(* The session files and the client.                                       *)
(***************************************************************************)
FilesChange ==
  /\ sessionFiles.changes < MaxChanges
  /\ \E c \in FileContents \ {sessionFiles.holds} : sessionFiles' = [holds |-> c, changes |-> sessionFiles.changes + 1]
  /\ UNCHANGED <<lines, server, runtime, frames, client>>

ClientSends ==
  /\ ~client.hungUp
  /\ lines.sent < MaxLines
  /\ \E line \in Hellos \cup Requests \cup Junk :
       lines' = [queue |-> Append(lines.queue, line), sent |-> lines.sent + 1]
  /\ UNCHANGED <<sessionFiles, server, runtime, frames, client>>

HangUp ==
  /\ ~client.hungUp
  /\ client' = [client EXCEPT !.hungUp = TRUE]
  /\ UNCHANGED <<sessionFiles, lines, server, runtime, frames>>

ResumeDecision(event, resume) ==
  IF resume = <<>> THEN "resync"
  ELSE IF resume[1].epoch # ChannelEpoch THEN "resync"
  ELSE IF event.b <= resume[1].cursor THEN "duplicate"
  ELSE IF event.b > resume[1].cursor + 1 THEN "resync" ELSE "apply"

(* What a client does with a frame.  An event carries the data epoch and   *)
(* the sessions, so whatever the verdict the client learns them.           *)
ClientReads ==
  /\ frames # <<>>
  /\ frames' = Tail(frames)
  /\ LET f == Head(frames) IN
     client' = CASE f.type = "event" ->
                      [client EXCEPT !.verdict = ResumeDecision(f, client.resume),
                                     !.resume = IF @ = <<>> THEN @ ELSE <<[@[1] EXCEPT !.cursor = f.b]>>,
                                     !.knows = <<f.a>>]
                 [] f.type = "snapshot" -> [client EXCEPT !.knows = <<f.a>>]
                 [] f.type = "subscribed" -> [client EXCEPT !.resume = <<f.a>>]
                 [] f.type = "unsubscribed" -> [client EXCEPT !.resume = <<>>]
                 [] OTHER -> client
  /\ UNCHANGED <<sessionFiles, lines, server, runtime>>

(***************************************************************************)
(* handleLine: a hello comes first; the rest needs an accepted handshake.  *)
(***************************************************************************)
Next1 == lines.queue # <<>>
Line == Head(lines.queue)

HandleHello ==
  /\ Next1 /\ Line \in Hellos
  /\ CASE Line = "oldVersion" ->
            server' = [server EXCEPT !.refused = TRUE] /\ Answer(Frame("refused", NoData, 0))
       [] Line # "oldVersion" /\ server.handshaked -> UNCHANGED server /\ Answer(Error)
       [] Line = "badWorkspace" /\ ~server.handshaked ->
            server' = [server EXCEPT !.handshaked = TRUE, !.refused = TRUE]
            /\ Answer(Frame("refused", NoData, 0))
       [] Line = "hello" /\ ~server.handshaked ->
            server' = [server EXCEPT !.handshaked = TRUE] /\ Answer(Frame("accepted", NoData, 0))
  /\ UNCHANGED <<sessionFiles, runtime, client>>

Serves == server.handshaked /\ ~server.refused

HandleRefused ==
  /\ Next1 /\ Line \notin Hellos
  /\ ~Serves \/ Line \in Junk
  /\ Answer(Error)
  /\ UNCHANGED <<sessionFiles, server, runtime, client>>

Describe ==
  /\ Next1 /\ Line = "describe" /\ Serves
  /\ Answer(Frame("described", NoData, 0))
  /\ UNCHANGED <<sessionFiles, server, runtime, client>>

(***************************************************************************)
(* The runtime provider.  Everyone who reads refreshes: a change noticed   *)
(* by a snapshot or by a subscription is not noticed again by the poll.    *)
(***************************************************************************)
(* Mutant: the first change after the baseline is taken for the baseline.  *)
LateEpoch == [runtime EXCEPT !.state = sessionFiles.holds,
                             !.epoch = IF runtime.state \notin {Unread, sessionFiles.holds} /\ runtime.timer
                                       THEN @ + 1 ELSE @]

RefreshedFeed == [runtime EXCEPT !.state = sessionFiles.holds,
                             !.epoch = IF runtime.state \notin {Unread, sessionFiles.holds} THEN @ + 1 ELSE @]
KnownChange(r) == [epoch |-> r.epoch, state |-> r.state]

RuntimeSnapshot ==
  /\ Next1 /\ Line = "snapshot" /\ Serves
  /\ runtime' = RefreshedFeed
  /\ Answer(Frame("snapshot", KnownChange(RefreshedFeed), 0))
  /\ UNCHANGED <<sessionFiles, server, client>>

(* Mutant: closing is not looked at.                                       *)
SubscribesAnyway ==
  /\ Next1 /\ Line = "subscribe" /\ Serves
  /\ runtime' = [RefreshedFeed EXCEPT !.subscribed = TRUE, !.timer = TRUE]
  /\ Answer(Frame("subscribed", [epoch |-> RefreshedFeed.epoch, cursor |-> server.seq], 0))
  /\ UNCHANGED <<sessionFiles, server, client>>

(* The epoch in the answer is that of the data, the cursor that of the     *)
(* channel.                                                                *)
Subscribe ==
  /\ Next1 /\ Line = "subscribe" /\ Serves
  /\ IF server.closed
     THEN UNCHANGED runtime /\ Answer(Error)
     ELSE /\ runtime' = [RefreshedFeed EXCEPT !.subscribed = TRUE, !.timer = TRUE]
          /\ Answer(Frame("subscribed", [epoch |-> RefreshedFeed.epoch, cursor |-> server.seq], 0))
  /\ UNCHANGED <<sessionFiles, server, client>>

Unsubscribe ==
  /\ Next1 /\ Line = "unsubscribe" /\ Serves
  /\ runtime' = [runtime EXCEPT !.subscribed = FALSE, !.timer = FALSE]
  /\ Answer(Frame("unsubscribed", NoData, 0))
  /\ UNCHANGED <<sessionFiles, server, client>>

(* Mutant: every poll takes a sequence number.                             *)
CountsEveryPoll ==
  /\ runtime.timer /\ ~server.closed
  /\ runtime' = RefreshedFeed
  /\ server' = [server EXCEPT !.seq = @ + 1]
  /\ IF RefreshedFeed.epoch # runtime.epoch
     THEN Write(Frame("event", KnownChange(RefreshedFeed), server.seq + 1)) ELSE UNCHANGED frames
  /\ UNCHANGED <<sessionFiles, lines, client>>

(* pollRuntime: one event for a change, on the channel's own epoch.        *)
PollRuntime ==
  /\ runtime.timer
  /\ IF runtime.subscribed /\ RefreshedFeed.epoch # runtime.epoch
     THEN /\ runtime' = RefreshedFeed
          /\ server' = [server EXCEPT !.seq = @ + 1]
          /\ IF server.closed THEN UNCHANGED frames
             ELSE Write(Frame("event", KnownChange(RefreshedFeed), server.seq + 1))
     ELSE UNCHANGED <<runtime, server, frames>>
  /\ UNCHANGED <<sessionFiles, lines, client>>

(* End of input: owned timers are cleared and the sink is detached; lines  *)
(* already read are still answered.                                        *)
CloseServer ==
  /\ client.hungUp /\ ~server.closed
  /\ server' = [server EXCEPT !.closed = TRUE]
  /\ runtime' = [runtime EXCEPT !.timer = FALSE]
  /\ UNCHANGED <<sessionFiles, lines, frames, client>>

HandleLine == \/ HandleHello \/ HandleRefused \/ Describe
              \/ RuntimeSnapshot \/ Subscribe \/ Unsubscribe

FeedNext == \/ FilesChange \/ ClientSends \/ HangUp \/ ClientReads
            \/ HandleLine \/ PollRuntime \/ CloseServer

FeedSpec == FeedInit /\ [][FeedNext]_feedVars

(***************************************************************************)
(* The client reads, the server handles its lines and polls.               *)
(***************************************************************************)
FeedFairness == /\ WF_feedVars(ClientReads) /\ WF_feedVars(HandleLine)
                /\ WF_feedVars(PollRuntime)

-----------------------------------------------------------------------------

(* A subscribed client never sees a hole in the numbers, through any       *)
(* number of subscriptions, snapshots and refused lines.                   *)
NoEventIsMissing ==
  \A i \in 1..Len(frames) :
    frames[i].type = "event" =>
      LET before == {j \in 1..(i-1) : frames[j].type \in {"event", "subscribed"}}
          last == CHOOSE j \in before : \A k \in before : k <= j
          cursor == IF before = {} THEN IF client.resume = <<>> THEN -9 ELSE client.resume[1].cursor
                    ELSE IF frames[last].type = "event" THEN frames[last].b
                    ELSE frames[last].a.cursor
      IN frames[i].b = cursor + 1

(* An epoch names one reading: a client that knows the server's epoch      *)
(* knows the server's reading, whichever of poll, snapshot and             *)
(* subscription noticed the last change.                                   *)
EpochNamesReading ==
  \A i \in 1..Len(frames) \cup {0} :
    LET known == IF i = 0 THEN client.knows
                 ELSE IF frames[i].type \in {"event", "snapshot"} THEN <<frames[i].a>> ELSE <<>>
    IN known # <<>> /\ known[1].epoch = runtime.epoch => known[1].state = runtime.state

(* Nothing polls for nobody: the timer runs only for a subscriber of an    *)
(* open server, also when a subscription is handled after the input ended. *)
TimerHasASubscriber == runtime.timer => runtime.subscribed /\ ~server.closed

(* A subscriber that has read a state learns the final one, or from the    *)
(* epoch its subscription was answered with that it must read again,       *)
(* unless it unsubscribes or hangs up.                                     *)
MustReadAgain == client.resume # <<>> /\ client.resume[1].epoch > client.knows[1].epoch
ChangesArrive ==
  (runtime.subscribed /\ client.knows # <<>>)
    ~> \/ client.hungUp \/ ~runtime.subscribed
       \/ client.knows # <<>> /\ (client.knows[1].state = sessionFiles.holds \/ MustReadAgain)

(* What a client may believe of a subscription, through resumptions and    *)
(* hang-ups (providers.js).                                                *)
FeedIsTrue ==
  NoEventIsMissing /\ EpochNamesReading /\ TimerHasASubscriber
=============================================================================
