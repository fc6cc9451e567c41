---------------------------- MODULE SessionRecord ----------------------------
(***************************************************************************)
(* src/workspace/sessions.js: the hooks of a host start, refresh and stop  *)
(* one session's record.  A writer takes a directory as a lock, reads the  *)
(* record, checks it, writes a temporary file and renames it.  The lock of *)
(* a writer that died stays: nobody breaks it, later writers give up.      *)
(***************************************************************************)
EXTENDS Naturals

CONSTANTS SessionWriters, MaxMoment

NoOne == "nobody"
ASSUME SessionWritersAssumption == NoOne \notin SessionWriters /\ MaxMoment \in Nat

VARIABLES
  session,   \* the record: absent, active or stopped, when it was started
  dirLock,   \* whose lock directory exists
  writers,   \* writer -> where it is, its action, its moment, the status it read
  moment     \* the clock

sessionVars == <<session, dirLock, writers, moment>>

ResetWriter == [at |-> "idle", does |-> "none", now |-> 0, read |-> [status |-> "absent", started |-> 0]]

SessionInit ==
  /\ session = [status |-> "absent", started |-> 0]
  /\ dirLock = NoOne /\ moment = 0
  /\ writers = [w \in SessionWriters |-> ResetWriter]

(* recordSession: the moment is taken before the lock.                     *)
CallSession(w) ==
  /\ writers[w].at = "idle" /\ moment < MaxMoment
  /\ \E action \in {"start", "heartbeat", "stop"} :
       writers' = [writers EXCEPT ![w] = [ResetWriter EXCEPT !.at = "waiting", !.does = action, !.now = moment]]
  /\ moment' = moment + 1
  /\ UNCHANGED <<session, dirLock>>

(* Mutant: the lock of another writer is broken when it is in the way.     *)
BreaksLock(w) ==
  /\ writers[w].at = "waiting" /\ dirLock' = w
  /\ writers' = [writers EXCEPT ![w].at = "locked"]
  /\ UNCHANGED <<session, moment>>

(* mkdir wins, or the deadline passes with the lock still there.           *)
LockSession(w) ==
  /\ writers[w].at = "waiting"
  /\ \/ dirLock = NoOne /\ dirLock' = w /\ writers' = [writers EXCEPT ![w].at = "locked"]
     \/ dirLock # NoOne /\ UNCHANGED dirLock /\ writers' = [writers EXCEPT ![w] = ResetWriter]
  /\ UNCHANGED <<session, moment>>

UnlockSession == dirLock' = NoOne

(* updateSession reads; a heartbeat does not bring a stopped session back. *)
ReadSession(w) ==
  /\ writers[w].at = "locked"
  /\ IF writers[w].does = "heartbeat" /\ session.status = "stopped"
     THEN writers' = [writers EXCEPT ![w] = ResetWriter] /\ UnlockSession
     ELSE /\ writers' = [writers EXCEPT ![w].at = "writing", ![w].read = session]
          /\ UNCHANGED dirLock
  /\ UNCHANGED <<session, moment>>

WriteSession(w) ==
  /\ writers[w].at = "writing"
  /\ LET job == writers[w] IN
     session' = [status |-> IF job.does = "stop" THEN "stopped" ELSE "active",
                 started |-> IF job.does = "start" \/ job.read.status = "absent" THEN job.now
                             ELSE job.read.started]
  /\ writers' = [writers EXCEPT ![w] = ResetWriter] /\ UnlockSession
  /\ UNCHANGED moment

WriterDies(w) ==
  /\ writers[w].at # "dead" /\ writers' = [writers EXCEPT ![w].at = "dead"]
  /\ UNCHANGED <<session, dirLock, moment>>

SessionNext ==
  \E w \in SessionWriters :
    CallSession(w) \/ LockSession(w) \/ ReadSession(w) \/ WriteSession(w) \/ WriterDies(w)

SessionSpec == SessionInit /\ [][SessionNext]_sessionVars

(***************************************************************************)
(* Properties                                                              *)
(***************************************************************************)
(* A stopped session comes back only by a start, though a heartbeat hook   *)
(* may have read the record before the session was stopped; and only a     *)
(* start moves the moment the session began (sessions.js:41, :46).         *)
OnlyStartRevives ==
  [][\/ session.status = "absent"
     \/ \E w \in SessionWriters : writers[w].does = "start" /\ writers[w].at = "writing" /\ dirLock = w
     \/ /\ session'.started = session.started
        /\ ~(session.status = "stopped" /\ session'.status = "active")]_sessionVars
=============================================================================
