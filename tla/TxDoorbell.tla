----------------------------- MODULE TxDoorbell -----------------------------
(***************************************************************************)
(* The TX doorbell of an AF_XDP socket.  send publishes descriptors, then  *)
(* reads XDP_RING_NEED_WAKEUP and calls sendto only if the kernel asked    *)
(* for it or an earlier call failed; notify_tx always calls it.  The       *)
(* kernel sets the flag after it has found the ring empty and goes to      *)
(* sleep, so the two sides race.                                           *)
(*                                                                         *)
(* Frames are counted: `held' by the application, on the TX `ring', in     *)
(* `comp' transmitted and not drained, the rest in the pool.               *)
(***************************************************************************)
EXTENDS Integers

CONSTANTS
    Frames,      \* TX frames of the socket
    TxSize,      \* config.rings.tx_size
    Flushes,     \* the application calls notify_tx as well as send
    Outcomes     \* what sendto may do, see Doorbell

ASSUME DoorbellAssumption ==
    /\ Frames \in Nat \ {0} /\ TxSize \in Nat \ {0}
    /\ Flushes \in BOOLEAN
    /\ Outcomes \subseteq {"rang", "swallowed", "failed"}

VARIABLES
    held, ring, comp,
    need_wakeup,       \* XDP_RING_NEED_WAKEUP in the TX ring's flags
    tx_wake_pending,
    pc,                \* where the owner thread is inside send
    kernel,            \* "polling", "checked" (found the ring empty), "parked"
    bell               \* what became of the latest doorbell decision

vars == <<held, ring, comp, need_wakeup, tx_wake_pending, pc, kernel, bell>>

Init ==
    /\ held = 0 /\ ring = 0 /\ comp = 0
    /\ need_wakeup = TRUE /\ kernel = "parked"
    /\ tx_wake_pending = FALSE
    /\ pc = "idle" /\ bell = "none"

Pool == Frames - held - ring - comp

Smaller(a, b) == IF a < b THEN a ELSE b

\* allocate_tx_batch: the completions are drained when the pool cannot serve
\* the batch, and may be under pressure.
Allocate ==
    /\ pc = "idle"
    /\ \E max \in 1 .. Frames : \E drained \in {0, comp} :
        /\ Pool < max => drained = comp
        /\ held' = held + Smaller(max, Pool + drained)
        /\ comp' = comp - drained
    /\ UNCHANGED <<ring, need_wakeup, tx_wake_pending, pc, kernel, bell>>

DrainTxCompletions ==
    /\ pc = "idle" /\ comp' = 0
    /\ UNCHANGED <<held, ring, need_wakeup, tx_wake_pending, pc, kernel, bell>>

\* Mutant of Publish: the batch is not cut to the room on the ring.
PublishAll ==
    \E n \in 0 .. held :
        /\ ring' = ring + n /\ held' = held - n
        /\ pc' = IF n = 0 THEN "idle" ELSE "gate"

\* Prepare, enqueue and commit a prefix of the batch: as much as fits the
\* ring, less from the first slot that cannot be prepared.  With nothing
\* prepared the call returns here.
Publish ==
    \E n \in 0 .. Smaller(held, TxSize - ring) :
        /\ ring' = ring + n /\ held' = held - n
        /\ pc' = IF n = 0 THEN "idle" ELSE "gate"

\* send_udp_inner (send_inner and the endpoint sends ring alike) up to the
\* first look at the TX ring: drain under pressure, and when the ring is full.
Send ==
    /\ pc = "idle"
    /\ \/ /\ ring < TxSize
          /\ Publish
          /\ comp' \in {0, comp}
       \/ /\ ring = TxSize
          /\ comp' = 0 /\ pc' = "full"
          /\ UNCHANGED <<ring, held>>
    /\ UNCHANGED <<need_wakeup, tx_wake_pending, kernel, bell>>

\* The second look, after the drain: a ring still full ends the call.
SendRetry ==
    /\ pc = "full"
    /\ Publish
    /\ UNCHANGED <<comp, need_wakeup, tx_wake_pending, kernel, bell>>

\* needs_wake = tx_wake_pending || tx_needs_wakeup()
Gate ==
    /\ pc = "gate"
    /\ IF tx_wake_pending \/ need_wakeup
       THEN pc' = "wake" /\ UNCHANGED bell
       ELSE /\ pc' = "idle"
            /\ bell' = IF kernel = "checked" THEN "window" ELSE "skipped"
    /\ UNCHANGED <<held, ring, comp, need_wakeup, tx_wake_pending, kernel>>

\* wake_tx and what its callers do with the result.  "rang": the kernel
\* polls.  "swallowed": a transient errno, reported as Ok.  "failed": an
\* error, remembered in tx_wake_pending.
Doorbell(outcome) ==
    /\ kernel' = IF outcome = "rang" THEN "polling" ELSE kernel
    /\ tx_wake_pending' = (outcome = "failed")
    /\ bell' = outcome
    /\ pc' = "idle"
    /\ UNCHANGED <<held, ring, comp, need_wakeup>>

SendWake == pc = "wake" /\ \E o \in Outcomes : Doorbell(o)

\* Mutant of NotifyTx: it rings only when the kernel asks for it.
NotifyTxGated ==
    /\ Flushes /\ pc = "idle"
    /\ IF need_wakeup
       THEN \E o \in Outcomes : Doorbell(o)
       ELSE /\ bell' = "skipped" /\ tx_wake_pending' = FALSE
            /\ UNCHANGED <<held, ring, comp, need_wakeup, pc, kernel>>

\* Mutant of NotifyTx: it rings only when an earlier doorbell failed.
NotifyTxOwed ==
    Flushes /\ pc = "idle" /\ tx_wake_pending /\ \E o \in Outcomes : Doorbell(o)

NotifyTx == Flushes /\ pc = "idle" /\ \E o \in Outcomes : Doorbell(o)

-----------------------------------------------------------------------------
(* The kernel's transmit side.                                             *)

KernelTake ==
    /\ kernel = "polling" /\ ring > 0
    /\ ring' = ring - 1 /\ comp' = comp + 1
    /\ need_wakeup' = FALSE
    /\ UNCHANGED <<held, tx_wake_pending, pc, kernel, bell>>

KernelFindsEmpty ==
    /\ kernel = "polling" /\ ring = 0 /\ kernel' = "checked"
    /\ UNCHANGED <<held, ring, comp, need_wakeup, tx_wake_pending, pc, bell>>

KernelParks ==
    /\ kernel = "checked" /\ kernel' = "parked"
    /\ need_wakeup' = TRUE
    /\ UNCHANGED <<held, ring, comp, tx_wake_pending, pc, bell>>

Kernel == KernelTake \/ KernelFindsEmpty \/ KernelParks

Next ==
    \/ Allocate \/ DrainTxCompletions \/ Send \/ SendRetry \/ Gate \/ SendWake
    \/ NotifyTx \/ Kernel

Spec == Init /\ [][Next]_vars

\* A sustained sender: it keeps allocating, and sending what it holds (a call
\* that publishes, or looks again at a full ring); a call it has begun goes
\* on; sendto, called again and again, at some time succeeds.  An application
\* that flushes keeps calling notify_tx.  The kernel does its part.
Rings == kernel' = "polling"

FairSpec ==
    /\ Spec
    /\ WF_vars(Allocate) /\ SF_vars(Send /\ pc' # "idle")
    /\ WF_vars(SendRetry) /\ WF_vars(Gate) /\ WF_vars(SendWake)
    /\ WF_vars(NotifyTx)
    /\ SF_vars(SendWake /\ Rings) /\ SF_vars(NotifyTx /\ Rings)
    /\ WF_vars(Kernel)

-----------------------------------------------------------------------------

\* The frames held, on the ring and completed never exceed the socket's, and
\* the ring never holds more descriptors than its size.
TypeOK ==
    /\ held \in 0 .. Frames /\ ring \in 0 .. TxSize /\ comp \in 0 .. Frames
    /\ Pool \in 0 .. Frames
    /\ need_wakeup \in BOOLEAN /\ tx_wake_pending \in BOOLEAN
    /\ pc \in {"idle", "full", "gate", "wake"}
    /\ kernel \in {"polling", "checked", "parked"}
    /\ bell \in {"none", "skipped", "window", "rang", "swallowed", "failed"}

\* Descriptors are on the ring, the kernel sleeps, and no call that could
\* wake it is under way.
Stalled == kernel = "parked" /\ ring > 0 /\ pc \in {"idle", "full"}

\* Gating the doorbell on NEED_WAKEUP can strand published descriptors in
\* three ways only: the kernel was between finding the ring empty and setting
\* the flag when send read it, a transient sendto errno was taken for success,
\* or a failed doorbell is remembered as owed.  In particular none is stranded
\* once a notify_tx that reached the kernel has followed the last send.
StallExplained ==
    Stalled => bell \in {"window", "swallowed"} \/ tx_wake_pending

\* Published descriptors are not parked for ever: a sleeping kernel with
\* descriptors on its ring is woken.  The comment in send_inner claims this of
\* a sustained sender ("re-evaluates the gate on the next batch and recovers
\* within one iteration"); with notify_tx it needs no further send.
StallEnds == (kernel = "parked" /\ ring > 0) ~> (kernel = "polling")
=============================================================================
