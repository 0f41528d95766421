--------------------------- MODULE HTTPLogTarget ---------------------------
(***************************************************************************)
(* The HTTP logger target (src/pkg/logger/target/http/http.go): a         *)
(* buffered channel logCh of QueueSize entries, an atomic status flag     *)
(* (1 = running), a WaitGroup, and one worker goroutine that ranges over  *)
(* logCh and POSTs every entry (logEntry).                                *)
(*                                                                         *)
(* Goroutines modelled:                                                    *)
(*   - the caller of Init: probes the endpoint; on success sets status to *)
(*     1 and starts `go h.startHTTPLogger()`;                              *)
(*   - startHTTPLogger: wg.Add(1), then starts the worker;                 *)
(*   - the worker: `for entry := range h.logCh { h.logEntry(entry) }`,     *)
(*     then wg.Done();                                                     *)
(*   - the Senders: each calls Send up to MaxSends times, with a fresh     *)
(*     entry each time: load status, then a non-blocking send on logCh;   *)
(*   - the caller of Cancel: CAS status 1 -> 0, close(logCh), wg.Wait().  *)
(* A send on a closed channel panics, and an unrecovered panic ends the    *)
(* process: `crashed` then disables every step.                            *)
(*                                                                         *)
(* What logEntry does with an entry (marshal, POST, LogOnce on failure)   *)
(* changes no state of the target, so it is one step that records the     *)
(* entry as handed over.                                                   *)
(***************************************************************************)
EXTENDS Naturals, Sequences

CONSTANTS
  Senders,    \* goroutines calling Send
  MaxSends,   \* Send calls per sender
  QueueSize   \* config.QueueSize, the capacity of logCh

ASSUME TargetAssumption ==
  /\ MaxSends \in Nat
  /\ QueueSize \in Nat \ {0}

\* The entries: the k-th entry sent by sender s.
Entries == Senders \X (1..MaxSends)

NoEntry == <<>>

VARIABLES
  status,     \* h.status
  logCh,      \* the buffered entries of h.logCh
  closed,     \* whether close(h.logCh) has run
  wg,         \* the counter of h.wg
  initPc,     \* the caller of Init: "new", "failed", "ok"
  starterPc,  \* the startHTTPLogger goroutine: "none", "pending", "done"
  workerPc,   \* the worker: "none", "recv", "log", "exited"
  current,    \* the entry the worker is logging
  sendPc,     \* per sender: "idle" or "select" (status seen as 1)
  sendCount,  \* per sender: Send calls made
  cancelPc,   \* the caller of Cancel: "idle", "close", "wait", "done"
  accepted,   \* history: entries whose select returned nil, in order
  logged,     \* history: entries handed to logEntry, in order
  crashed     \* a goroutine panicked

vars == <<status, logCh, closed, wg, initPc, starterPc, workerPc, current,
          sendPc, sendCount, cancelPc, accepted, logged, crashed>>

\* New(config) has returned; no method has been called yet.
Init ==
  /\ status = 0
  /\ logCh = <<>>
  /\ closed = FALSE
  /\ wg = 0
  /\ initPc = "new"
  /\ starterPc = "none"
  /\ workerPc = "none"
  /\ current = NoEntry
  /\ sendPc = [s \in Senders |-> "idle"]
  /\ sendCount = [s \in Senders |-> 0]
  /\ cancelPc = "idle"
  /\ accepted = <<>>
  /\ logged = <<>>
  /\ crashed = FALSE

(* Init: the probe POST fails or is answered with a status that is not    *)
(* accepted (return err), or succeeds: h.status = 1 and the logger is      *)
(* started on a new goroutine.                                             *)
TargetInit ==
  /\ ~crashed
  /\ initPc = "new"
  /\ \/ /\ initPc' = "failed"
        /\ UNCHANGED <<status, starterPc>>
     \/ /\ initPc' = "ok"
        /\ status' = 1
        /\ starterPc' = "pending"
  /\ UNCHANGED <<logCh, closed, wg, workerPc, current, sendPc, sendCount,
                 cancelPc, accepted, logged, crashed>>

\* Faulty variant: wg.Add(1) left out; the worker's deferred Done still runs.
StartHTTPLoggerNoAdd ==
  /\ ~crashed
  /\ starterPc = "pending"
  /\ starterPc' = "done"
  /\ workerPc' = "recv"
  /\ UNCHANGED <<status, logCh, closed, wg, initPc, current, sendPc,
                 sendCount, cancelPc, accepted, logged, crashed>>

\* startHTTPLogger: h.wg.Add(1), then `go func() {...}()`.
StartHTTPLogger ==
  /\ ~crashed
  /\ starterPc = "pending"
  /\ starterPc' = "done"
  /\ wg' = wg + 1
  /\ workerPc' = "recv"
  /\ UNCHANGED <<status, logCh, closed, initPc, current, sendPc, sendCount,
                 cancelPc, accepted, logged, crashed>>

\* Faulty variant: the worker stops at close without draining the buffer.
WorkerExitUndrained ==
  /\ ~crashed
  /\ workerPc = "recv"
  /\ closed
  /\ workerPc' = "exited"
  /\ wg' = wg - 1
  /\ UNCHANGED <<status, logCh, closed, initPc, starterPc, current, sendPc,
                 sendCount, cancelPc, accepted, logged, crashed>>

(* The worker's range receives the next entry, or, on a closed and        *)
(* drained channel, leaves the loop and runs the deferred wg.Done().      *)
WorkerReceive ==
  /\ ~crashed
  /\ workerPc = "recv"
  /\ logCh # <<>>
  /\ current' = Head(logCh)
  /\ logCh' = Tail(logCh)
  /\ workerPc' = "log"
  /\ UNCHANGED <<status, closed, wg, initPc, starterPc, sendPc, sendCount,
                 cancelPc, accepted, logged, crashed>>

WorkerExit ==
  /\ ~crashed
  /\ workerPc = "recv"
  /\ logCh = <<>>
  /\ closed
  /\ workerPc' = "exited"
  /\ wg' = wg - 1
  /\ UNCHANGED <<status, logCh, closed, initPc, starterPc, current, sendPc,
                 sendCount, cancelPc, accepted, logged, crashed>>

\* logEntry(entry): the POST is made (or fails and is reported by LogOnce).
LogEntry ==
  /\ ~crashed
  /\ workerPc = "log"
  /\ logged' = Append(logged, current)
  /\ current' = NoEntry
  /\ workerPc' = "recv"
  /\ UNCHANGED <<status, logCh, closed, wg, initPc, starterPc, sendPc,
                 sendCount, cancelPc, accepted, crashed>>

\* Faulty variant: the status check dropped, Send always goes on to send.
SendLoadStatusIgnoresStatus(s) ==
  /\ ~crashed
  /\ sendPc[s] = "idle"
  /\ sendCount[s] < MaxSends
  /\ sendCount' = [sendCount EXCEPT ![s] = @ + 1]
  /\ sendPc' = [sendPc EXCEPT ![s] = "select"]
  /\ UNCHANGED <<status, logCh, closed, wg, initPc, starterPc, workerPc,
                 current, cancelPc, accepted, logged, crashed>>

(* Send, first half: atomic.LoadInt32(&h.status).  A 0 returns nil and    *)
(* the entry is dropped ("closed or used before init").                    *)
SendLoadStatus(s) ==
  /\ ~crashed
  /\ sendPc[s] = "idle"
  /\ sendCount[s] < MaxSends
  /\ sendCount' = [sendCount EXCEPT ![s] = @ + 1]
  /\ sendPc' = [sendPc EXCEPT ![s] = IF status = 0 THEN "idle" ELSE "select"]
  /\ UNCHANGED <<status, logCh, closed, wg, initPc, starterPc, workerPc,
                 current, cancelPc, accepted, logged, crashed>>

(* Faulty variant: the `default:` branch returns nil, so Send reports a   *)
(* dropped entry as accepted.                                              *)
SendSelectDropsSilently(s) ==
  /\ ~crashed
  /\ sendPc[s] = "select"
  /\ sendPc' = [sendPc EXCEPT ![s] = "idle"]
  /\ \/ /\ closed
        /\ crashed' = TRUE
        /\ UNCHANGED <<logCh, accepted>>
     \/ /\ ~closed
        /\ Len(logCh) < QueueSize
        /\ logCh' = Append(logCh, <<s, sendCount[s]>>)
        /\ accepted' = Append(accepted, <<s, sendCount[s]>>)
        /\ UNCHANGED crashed
     \/ /\ ~closed
        /\ Len(logCh) = QueueSize
        /\ accepted' = Append(accepted, <<s, sendCount[s]>>)
        /\ UNCHANGED <<logCh, crashed>>
  /\ UNCHANGED <<status, closed, wg, initPc, starterPc, workerPc, current,
                 sendCount, cancelPc, logged>>

(* Send, second half: select { case h.logCh <- entry: ; default: }.  On a *)
(* closed channel the send panics; on a full one it returns "log buffer   *)
(* full".                                                                  *)
SendSelect(s) ==
  /\ ~crashed
  /\ sendPc[s] = "select"
  /\ sendPc' = [sendPc EXCEPT ![s] = "idle"]
  /\ \/ /\ closed
        /\ crashed' = TRUE
        /\ UNCHANGED <<logCh, accepted>>
     \/ /\ ~closed
        /\ Len(logCh) < QueueSize
        /\ logCh' = Append(logCh, <<s, sendCount[s]>>)
        /\ accepted' = Append(accepted, <<s, sendCount[s]>>)
        /\ UNCHANGED crashed
     \/ /\ ~closed
        /\ Len(logCh) = QueueSize
        /\ UNCHANGED <<logCh, accepted, crashed>>
  /\ UNCHANGED <<status, closed, wg, initPc, starterPc, workerPc, current,
                 sendCount, cancelPc, logged>>

\* Faulty variant: the CAS succeeds but the channel is never closed.
CancelCASNoClose ==
  /\ ~crashed
  /\ cancelPc = "idle"
  /\ initPc # "new"
  /\ IF status = 1
       THEN status' = 0
       ELSE UNCHANGED status
  /\ cancelPc' = "wait"
  /\ UNCHANGED <<logCh, closed, wg, initPc, starterPc, workerPc, current,
                 sendPc, sendCount, accepted, logged, crashed>>

(* Cancel: if atomic.CompareAndSwapInt32(&h.status, 1, 0) { close(...) }. *)
(* A target is cancelled by its owner after its Init has returned.         *)
CancelCAS ==
  /\ ~crashed
  /\ cancelPc = "idle"
  /\ initPc # "new"
  /\ IF status = 1
       THEN /\ status' = 0
            /\ cancelPc' = "close"
       ELSE /\ cancelPc' = "wait"
            /\ UNCHANGED status
  /\ UNCHANGED <<logCh, closed, wg, initPc, starterPc, workerPc, current,
                 sendPc, sendCount, accepted, logged, crashed>>

CancelClose ==
  /\ ~crashed
  /\ cancelPc = "close"
  /\ closed' = TRUE
  /\ cancelPc' = "wait"
  /\ UNCHANGED <<status, logCh, wg, initPc, starterPc, workerPc, current,
                 sendPc, sendCount, accepted, logged, crashed>>

\* h.wg.Wait() returns once the counter is zero.
CancelWait ==
  /\ ~crashed
  /\ cancelPc = "wait"
  /\ wg = 0
  /\ cancelPc' = "done"
  /\ UNCHANGED <<status, logCh, closed, wg, initPc, starterPc, workerPc,
                 current, sendPc, sendCount, accepted, logged, crashed>>

Next ==
  \/ TargetInit
  \/ StartHTTPLogger
  \/ WorkerReceive
  \/ WorkerExit
  \/ LogEntry
  \/ \E s \in Senders : SendLoadStatus(s) \/ SendSelect(s)
  \/ CancelCAS
  \/ CancelClose
  \/ CancelWait

(* Calling Init, Send or Cancel is up to the target's users, so those     *)
(* first steps are not fair.  Once a goroutine is inside the code it is   *)
(* scheduled: the Go runtime runs every runnable goroutine eventually.    *)
Fairness ==
  /\ WF_vars(StartHTTPLogger)
  /\ WF_vars(WorkerReceive)
  /\ WF_vars(WorkerExit)
  /\ WF_vars(LogEntry)
  /\ \A s \in Senders : WF_vars(SendSelect(s))
  /\ WF_vars(CancelClose)
  /\ WF_vars(CancelWait)

Spec == Init /\ [][Next]_vars /\ Fairness

-----------------------------------------------------------------------------
(***************************************************************************)
(* Properties                                                              *)
(***************************************************************************)

LogTypeOK ==
  /\ status \in {0, 1}
  /\ logCh \in Seq(Entries) /\ Len(logCh) <= QueueSize
  /\ closed \in BOOLEAN
  /\ wg \in Nat
  /\ initPc \in {"new", "failed", "ok"}
  /\ starterPc \in {"none", "pending", "done"}
  /\ workerPc \in {"none", "recv", "log", "exited"}
  /\ current \in Entries \cup {NoEntry}
  /\ sendPc \in [Senders -> {"idle", "select"}]
  /\ sendCount \in [Senders -> 0..MaxSends]
  /\ cancelPc \in {"idle", "close", "wait", "done"}
  /\ accepted \in Seq(Entries)
  /\ logged \in Seq(Entries)
  /\ crashed \in BOOLEAN

\* The entry the worker holds between receiving it and logging it.
InFlight == IF workerPc = "log" THEN <<current>> ELSE <<>>

(* Entries leave the target in the order Send accepted them, none lost    *)
(* and none twice: the entries for which Send's select returned nil are   *)
(* exactly what the worker has logged, then the entry it is logging, then *)
(* what is still buffered.  A Send that reported success for an entry it  *)
(* did not enqueue (the full-buffer branch) would break it.               *)
LoggedInOrder == accepted = logged \o InFlight \o logCh

\* e occurs in the sequence q.
Holds(q, e) == \E i \in DOMAIN q : q[i] = e

(* Every entry Send accepted is eventually handed to logEntry, also when  *)
(* Cancel closes the channel meanwhile, unless the process crashed.       *)
EveryAcceptedEntryLogged ==
  \A e \in Entries : Holds(accepted, e) ~> (Holds(logged, e) \/ crashed)

(* A call of Cancel returns: wg.Wait() is not left waiting for a worker    *)
(* that never leaves its loop.                                             *)
CancelReturns ==
  (cancelPc \in {"close", "wait"}) ~> (cancelPc = "done" \/ crashed)

(* The status check in Send (`Channel was closed or used before init`)     *)
(* keeps Send from sending on the channel Cancel closed.  The check and   *)
(* the send are two steps, and Cancel can close the channel between them. *)
NoSendOnClosedChannel == ~crashed

(* Spec 9, drain-on-close: when Cancel returns, every entry Send accepted *)
(* has been handed to logEntry.  wg.Add(1) runs on the goroutine that Init *)
(* starts, so Cancel's wg.Wait() can return before it.                     *)
CancelDrains == (cancelPc = "done" /\ ~crashed) => logged = accepted


(* The abstract state of the target: new until Init succeeded, then open  *)
(* until Cancel closed logCh.                                              *)
TargetState ==
  IF initPc # "ok" THEN "new" ELSE IF closed THEN "closed" ELSE "open"

LQ == INSTANCE LogQueue WITH Items <- Entries, Capacity <- QueueSize + 1,
        sent <- accepted, delivered <- logged, state <- TargetState,
        halted <- crashed

(* The target implements the log queue: Send accepts only after Init      *)
(* succeeded and before the close, never the same entry twice, never more *)
(* than the buffer and the worker's entry can hold; the worker delivers in *)
(* acceptance order and, under the scheduling of its goroutines, delivers *)
(* every accepted entry; the panic of Send comes only after the close.     *)
ImplementsLogQueue == LQ!QSpec

=============================================================================
