---------------------------- MODULE SshTransport ----------------------------
(***************************************************************************)
(* src/workspace/ssh.js: one transport owns one ssh child.  Its output is  *)
(* noise up to a budget, a hello, then frames, which wait in a bounded     *)
(* queue for a scheduled pump; requests have timers; timeout, failure,     *)
(* close() and the end of the child race with one another.                 *)
(***************************************************************************)
EXTENDS Naturals, Sequences, FiniteSets, SequencesExt

CONSTANTS
  Calls,      \* the requests a client makes
  MaxFrames,  \* bound on the lines the helper writes
  MaxQueue,   \* MAX_QUEUE_FRAMES
  Watermark,  \* RESUME_WATERMARK
  MaxNoise    \* maxPreHelloBytes, in lines

ASSUME QueueAssumption == MaxQueue \in Nat /\ Watermark \in Nat /\ Watermark < MaxQueue

VARIABLES
  link,     \* the connection: its promise, flags and hello timer
  child,    \* the ssh process, what it was asked and has written
  stream,   \* received lines: kept back, queued; pausing and the pump
  callFate,    \* the fate of each request
  timers,   \* the requests whose timer runs
  forgotten, \* _fireForget: cancellations whose answer is not awaited
  warned    \* answers reported as unknown

sshVars == <<link, child, stream, callFate, timers, forgotten, warned>>

Id(c) == [call |-> c, cancel |-> FALSE]
CancelOf(c) == [call |-> c, cancel |-> TRUE]
Waiting == {c \in Calls : callFate[c] = "waiting"}

SshInit ==
  /\ link = [promise |-> "none", ready |-> FALSE, closed |-> FALSE, failed |-> FALSE,
             helloTimer |-> FALSE]
  /\ child = [is |-> "none", asked |-> <<>>, wrote |-> 0, wire |-> <<>>, greeted |-> FALSE]
  /\ stream = [noise |-> 0, kept |-> <<>>, queue |-> <<>>, paused |-> FALSE, pump |-> FALSE,
               seen |-> 0]
  /\ callFate = [c \in Calls |-> "new"]
  /\ timers = {}
  /\ forgotten = {}
  /\ warned = {}

FramesWritten(type, id, n) == [type |-> type, id |-> id, n |-> n]

(***************************************************************************)
(* The helper at the other end: it answers in order and may say anything.  *)
(***************************************************************************)
Says(type, id) == [child EXCEPT !.wire = Append(@, FramesWritten(type, id, child.wrote + 1)),
                                !.wrote = @ + 1]

HelperWrites ==
  /\ child.is = "alive" /\ child.wrote < MaxFrames
  /\ \/ /\ ~child.greeted
        /\ \E type \in {"banner", "refusal", "event"} : child' = Says(type, <<>>)
     \/ ~child.greeted /\ child' = [Says("hello", <<>>) EXCEPT !.greeted = TRUE]
     \/ /\ child.greeted
        /\ \E type \in {"event", "broken"} : child' = Says(type, <<>>)
     \/ /\ child.asked # <<>>
        /\ child' = [Says("answer", <<Head(child.asked)>>) EXCEPT !.asked = Tail(@)]
  /\ UNCHANGED <<link, stream, callFate, timers, forgotten, warned>>

ChildExits ==
  /\ child.is \in {"alive", "killed"}
  /\ child' = [child EXCEPT !.is = "exited", !.asked = <<>>]
  /\ UNCHANGED <<link, stream, callFate, timers, forgotten, warned>>

Asked(id) == IF child.is = "alive" THEN [child EXCEPT !.asked = Append(@, id)] ELSE child

(***************************************************************************)
(* close and _fail, which end everything at once.                          *)
(***************************************************************************)
(* Mutant: the timers of the requests are left running.                    *)
LeavesTimers(failing) ==
  /\ link' = [link EXCEPT !.closed = TRUE, !.helloTimer = FALSE, !.failed = @ \/ failing,
                          !.promise = IF failing /\ @ = "pending" THEN "rejected" ELSE @]
  /\ callFate' = [c \in Calls |-> IF c \in Waiting THEN "failed" ELSE callFate[c]]
  /\ UNCHANGED timers

(* close(): the promise of connect is left to the end of the child.        *)
CloseLink(failing) ==
  /\ link' = [link EXCEPT !.closed = TRUE, !.helloTimer = FALSE, !.failed = @ \/ failing,
                          !.promise = IF failing /\ @ = "pending" THEN "rejected" ELSE @]
  /\ callFate' = [c \in Calls |-> IF c \in Waiting THEN "failed" ELSE callFate[c]]
  /\ timers' = {}

ChildKilled(process) == [process EXCEPT !.is = IF @ = "alive" THEN "killed" ELSE @]
Emptied == [stream EXCEPT !.queue = <<>>]

UserCloses ==
  /\ ~link.closed
  /\ CloseLink(FALSE)
  /\ child' = ChildKilled(child)
  /\ stream' = Emptied
  /\ UNCHANGED <<forgotten, warned>>

HelloTimeout ==
  /\ link.helloTimer
  /\ CloseLink(TRUE)
  /\ child' = ChildKilled(child)
  /\ stream' = Emptied
  /\ UNCHANGED <<forgotten, warned>>

(* The process cannot be started, or its pipe breaks.                      *)
ChildError ==
  /\ child.is = "alive" /\ ~link.failed /\ ~link.closed
  /\ CloseLink(TRUE)
  /\ child' = ChildKilled(child)
  /\ stream' = Emptied
  /\ UNCHANGED <<forgotten, warned>>

Connect ==
  /\ ~link.closed /\ child.is = "none"
  /\ \/ /\ link' = [link EXCEPT !.promise = "pending", !.helloTimer = TRUE]
        /\ child' = [child EXCEPT !.is = "alive"]
     \/ link' = [link EXCEPT !.promise = "rejected"] /\ UNCHANGED child  \* spawn throws
  /\ UNCHANGED <<stream, callFate, timers, forgotten, warned>>

(***************************************************************************)
(* Output of the child.                                                    *)
(***************************************************************************)
(* Mutant: new lines are queued ahead of those kept from the hello's chunk.*)
NewLinesFirst(chunk) ==
  [stream EXCEPT !.kept = <<>>, !.queue = @ \o chunk \o stream.kept, !.pump = TRUE,
                 !.paused = @ \/ Len(stream.queue \o stream.kept \o chunk) >= MaxQueue]

Enqueued(chunk) ==
  [stream EXCEPT !.kept = <<>>, !.queue = @ \o stream.kept \o chunk, !.pump = TRUE,
                 !.paused = @ \/ Len(stream.queue \o stream.kept \o chunk) >= MaxQueue]

(* Lines after the hello, with those kept; one bad line loses them all.    *)
Decode(chunk) ==
  IF \E i \in DOMAIN (stream.kept \o chunk) : (stream.kept \o chunk)[i].type = "broken"
  THEN CloseLink(TRUE) /\ stream' = Emptied
  ELSE stream' = Enqueued(chunk) /\ UNCHANGED <<link, callFate, timers>>

(* Lines up to the hello; what follows it in the same chunk becomes the    *)
(* rest of the decoder, and is looked at when the next chunk comes.        *)
BeforeHello(chunk) ==
  LET Noise == {"banner", "broken"}
      first == CHOOSE i \in 1..(Len(chunk) + 1) :
                 /\ i > Len(chunk) \/ chunk[i].type \notin Noise
                 /\ \A j \in 1..(i-1) : chunk[j].type \in Noise
      noise == stream.noise + first - 1
  IN IF noise > MaxNoise \/ (first <= Len(chunk) /\ chunk[first].type # "hello")
     THEN CloseLink(TRUE) /\ stream' = Emptied
     ELSE IF first > Len(chunk)
     THEN stream' = [stream EXCEPT !.noise = noise] /\ UNCHANGED <<link, callFate, timers>>
     ELSE /\ stream' = [stream EXCEPT !.noise = 0, !.seen = chunk[first].n,
                                      !.kept = SubSeq(chunk, first + 1, Len(chunk))]
          /\ link' = [link EXCEPT !.ready = TRUE, !.helloTimer = FALSE,
                                  !.promise = IF @ = "pending" THEN "resolved" ELSE @]
          /\ UNCHANGED <<callFate, timers>>

(* A pause stops the data until the child has exited: then it is flushed.  *)
DataArrives ==
  /\ child.is # "none" /\ (stream.paused => child.is = "exited")
  /\ \E k \in 1..Len(child.wire) :
       LET chunk == SubSeq(child.wire, 1, k)
           read == [child EXCEPT !.wire = SubSeq(@, k + 1, Len(@))] IN
       /\ IF link.closed \/ link.failed THEN UNCHANGED <<link, stream, callFate, timers>>
          ELSE IF link.ready THEN Decode(chunk) ELSE BeforeHello(chunk)
       /\ child' = IF link'.closed THEN ChildKilled(read) ELSE read
  /\ UNCHANGED <<forgotten, warned>>

(* What is dispatched settles calls, is consumed, or is reported.          *)
Answers(lines) == {lines[i].id[1] : i \in {j \in DOMAIN lines : lines[j].type = "answer"}}
CallSettled(lines) == [c \in Calls |-> IF Id(c) \in Answers(lines) /\ c \in Waiting
                                   THEN "answered" ELSE callFate[c]]
Unknown(lines) == {id \in Answers(lines) : /\ id \notin forgotten
                                           /\ id.cancel \/ id.call \notin Waiting}

(* Mutant: the stream is resumed only when the queue is below the mark at  *)
(* the start.                                                              *)
ForgetsToResume ==
  /\ stream.pump
  /\ IF link.closed
     THEN stream' = [Emptied EXCEPT !.pump = FALSE] /\ UNCHANGED <<callFate, timers, forgotten, warned>>
     ELSE /\ stream' = [stream EXCEPT !.queue = <<>>, !.pump = FALSE, !.seen = @ + Len(stream.queue),
                                      !.paused = @ /\ Len(stream.queue) > Watermark]
          /\ callFate' = CallSettled(stream.queue)
          /\ timers' = timers \ {c \in Calls : Id(c) \in Answers(stream.queue)}
          /\ forgotten' = forgotten \ Answers(stream.queue)
          /\ warned' = warned \cup Unknown(stream.queue)
  /\ UNCHANGED <<link, child>>

(* _pump: the whole queue is dispatched, unless a listener calls close().  *)
Pump ==
  /\ stream.pump
  /\ IF link.closed
     THEN /\ stream' = [Emptied EXCEPT !.pump = FALSE]
          /\ UNCHANGED <<link, child, callFate, timers, forgotten, warned>>
     ELSE \E k \in 0..Len(stream.queue) :
            LET lines == SubSeq(stream.queue, 1, k)
                calledClose == k < Len(stream.queue) IN
            /\ k = 0 => stream.queue = <<>>
            /\ stream' = [stream EXCEPT !.queue = <<>>, !.pump = FALSE, !.seen = @ + k,
                                        !.paused = @ /\ Len(stream.queue) - k > Watermark]
            /\ callFate' = [c \in Calls |-> IF calledClose /\ CallSettled(lines)[c] = "waiting"
                                         THEN "failed" ELSE CallSettled(lines)[c]]
            /\ timers' = IF calledClose THEN {}
                         ELSE timers \ {c \in Calls : Id(c) \in Answers(lines)}
            /\ forgotten' = forgotten \ Answers(lines)
            /\ warned' = warned \cup Unknown(lines)
            /\ link' = [link EXCEPT !.closed = calledClose]
            /\ child' = IF calledClose THEN ChildKilled(child) ELSE child

(***************************************************************************)
(* Requests.                                                               *)
(***************************************************************************)
(* Mutant: only an idle transport sets a timer.                            *)
TimesTheFirst(c) ==
  /\ callFate[c] = "new" /\ child.is # "none"
  /\ IF ~link.ready \/ link.closed
     THEN callFate' = [callFate EXCEPT ![c] = "failed"] /\ UNCHANGED <<timers, child>>
     ELSE /\ callFate' = [callFate EXCEPT ![c] = "waiting"]
          /\ timers' = IF stream.queue = <<>> THEN timers \cup {c} ELSE timers
          /\ child' = Asked(Id(c))
  /\ UNCHANGED <<link, stream, forgotten, warned>>

Request(c) ==
  /\ callFate[c] = "new" /\ child.is # "none"
  /\ IF ~link.ready \/ link.closed
     THEN callFate' = [callFate EXCEPT ![c] = "failed"] /\ UNCHANGED <<timers, child>>
     ELSE /\ callFate' = [callFate EXCEPT ![c] = "waiting"]
          /\ timers' = timers \cup {c}
          /\ child' = Asked(Id(c))
  /\ UNCHANGED <<link, stream, forgotten, warned>>

(* Mutant: the cancellation is sent as any request.                        *)
AwaitsCancel(c) ==
  /\ c \in timers
  /\ timers' = timers \ {c}
  /\ callFate' = [callFate EXCEPT ![c] = IF @ = "waiting" THEN "failed" ELSE @]
  /\ child' = IF link.ready /\ ~link.closed THEN Asked(CancelOf(c)) ELSE child
  /\ UNCHANGED <<link, stream, forgotten, warned>>

(* The timer rejects the request, then asks the server to cancel it.       *)
RequestTimeout(c) ==
  /\ c \in timers
  /\ timers' = timers \ {c}
  /\ callFate' = [callFate EXCEPT ![c] = IF @ = "waiting" THEN "failed" ELSE @]
  /\ IF link.ready /\ ~link.closed
     THEN child' = Asked(CancelOf(c)) /\ forgotten' = forgotten \cup {CancelOf(c)}
     ELSE UNCHANGED <<child, forgotten>>
  /\ UNCHANGED <<link, stream, warned>>

(* Mutant: a promise is rejected only by a transport still open.           *)
RejectsIfOpen ==
  /\ child.is = "exited" /\ child.wire = <<>>
  /\ child' = [child EXCEPT !.is = "gone"]
  /\ link' = [link EXCEPT !.helloTimer = FALSE, !.ready = FALSE, !.closed = TRUE,
                          !.promise = IF @ = "pending" /\ ~link.closed THEN "rejected" ELSE @]
  /\ callFate' = [c \in Calls |-> IF c \in Waiting THEN "failed" ELSE callFate[c]]
  /\ timers' = {}
  /\ stream' = Emptied
  /\ UNCHANGED <<forgotten, warned>>

(* _onChildClose: all output has been read; what was queued is dropped.    *)
ChildCloses ==
  /\ child.is = "exited" /\ child.wire = <<>>
  /\ child' = [child EXCEPT !.is = "gone"]
  /\ link' = [link EXCEPT !.helloTimer = FALSE, !.ready = FALSE, !.closed = TRUE,
                          !.promise = IF @ = "pending" THEN "rejected" ELSE @]
  /\ callFate' = [c \in Calls |-> IF c \in Waiting THEN "failed" ELSE callFate[c]]
  /\ timers' = {}
  /\ stream' = Emptied
  /\ UNCHANGED <<forgotten, warned>>

SshNext ==
  \/ Connect \/ UserCloses \/ HelloTimeout \/ ChildError \/ DataArrives \/ Pump \/ ChildCloses
  \/ \E c \in Calls : Request(c) \/ RequestTimeout(c)
  \/ HelperWrites \/ ChildExits

SshSpec == SshInit /\ [][SshNext]_sshVars

(* Timers expire, the event loop goes on, a killed child ends (SIGKILL     *)
(* follows SIGTERM); the helper owes nothing.                              *)
SshFairness ==
  /\ WF_sshVars(HelloTimeout) /\ WF_sshVars(DataArrives) /\ WF_sshVars(Pump)
  /\ WF_sshVars(ChildCloses) /\ WF_sshVars(child.is = "killed" /\ ChildExits)
  /\ \A c \in Calls : WF_sshVars(RequestTimeout(c))

-----------------------------------------------------------------------------
(* Between the child and the listeners no line is lost, repeated or moved, *)
(* whatever the chunks, the pauses and the line kept from the hello's      *)
(* chunk.                                                                  *)
DeliveredInOrder ==
  link.ready /\ ~link.closed =>
    LET held == stream.queue \o stream.kept \o child.wire
    IN \A i \in DOMAIN held : held[i].n = stream.seen + i

(* A paused stream has a pump coming that will resume it: the two ends     *)
(* never wait for each other.                                              *)
PausedIsPumped == stream.paused /\ ~link.closed => stream.pump

(* However a transport ends, no request is left without an answer and no   *)
(* timer without a request.                                                *)
NothingOutlivesClose ==
  /\ timers = Waiting
  /\ link.closed => Waiting = {} /\ ~link.helloTimer

(* An answer is reported as unknown only when its request has timed out:   *)
(* answers to cancellations are recognised.                                *)
OnlyLateAnswersWarn == \A id \in warned : ~id.cancel /\ callFate[id.call] = "failed"

(* connect() is answered, by a hello, its timer or the end of the child.   *)
ConnectSettles == link.promise = "pending" ~> link.promise \in {"resolved", "rejected"}

(* Every request is answered or rejected, even by a silent helper.         *)
CallsSettle == \A c \in Calls : callFate[c] = "waiting" ~> callFate[c] \in {"answered", "failed"}

(* The four invariants of a connection whose child, timers and requests    *)
(* end in any order (ssh.js).                                              *)
TransportIsSound ==
  DeliveredInOrder /\ PausedIsPumped /\ NothingOutlivesClose /\ OnlyLateAnswersWarn
=============================================================================
