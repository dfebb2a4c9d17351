--------------------------- MODULE ValidatorClient ---------------------------
(***************************************************************************)
(* The validator client's slot loop (run_vc_loop in                        *)
(* crates/pharos-validator/src/run.rs), the doppelganger guard that gates  *)
(* it and the doppelganger poll loop that runs beside it (doppelganger.rs),*)
(* over restarts (main.rs).                                                *)
(*                                                                         *)
(* Time is counted in slots.  One validator stands for all of them: the    *)
(* guard gives every key of a session the same clear epoch.  Whether the   *)
(* beacon node is healthy, has the duties of the epoch cached, answers a   *)
(* poll or produces a block is a choice of the environment.                *)
(***************************************************************************)
EXTENDS Integers, FiniteSets

CONSTANTS
    SlotsPerEpoch,
    Enabled,        \* --doppelganger-protection
    NodeAnswers,    \* the liveness endpoint answers every poll, and at once
    Elsewhere,      \* choices of the set of epochs another instance is live in
    MaxSlot,        \* bound on the wall clock
    MaxSessions     \* bound on starts of the process

ASSUME EpochAssumption == SlotsPerEpoch \in Nat \ {0}
ASSUME FlagAssumption == Enabled \in BOOLEAN /\ NodeAnswers \in BOOLEAN
ASSUME BoundAssumption == MaxSlot \in Nat /\ MaxSessions \in Nat /\ SlotsPerEpoch - 1 <= MaxSlot

HOLDOFF_EPOCHS == 2

VARIABLES
    now,        \* wall clock, in slots since genesis
    session,    \* number of starts so far
    pc,         \* where run_vc_loop is
    start,      \* startup_epoch of this session
    clear,      \* clear_epoch of the guard
    cleared,    \* the guard's state is Cleared
    slot,       \* current_slot of the loop
    poll,       \* check_epoch of run_doppelganger_loop
    wake,       \* wall-clock slot at which its sleep ends
    quiet,      \* epochs a poll of this session found the validator not live in
    missed,     \* epochs whose poll failed
    other,      \* epochs in which another instance signs for the validator
    signed      \* which session signed something for which slot (history)

vars == <<now, session, pc, start, clear, cleared, slot, poll, wake, quiet, missed, other, signed>>
guard == <<clear, cleared>>
poller == <<poll, wake, quiet, missed>>

Epoch(s) == s \div SlotsPerEpoch
MaxEpoch == Epoch(MaxSlot) + HOLDOFF_EPOCHS
Up == pc \notin {"off", "aborted"}

-----------------------------------------------------------------------------
Init ==
    /\ now \in 0..(SlotsPerEpoch - 1)
    /\ session = 0
    /\ pc = "off"
    /\ start = 0
    /\ clear = 0 /\ cleared = FALSE
    /\ slot = 0
    /\ poll = 0 /\ wake = 0 /\ quiet = {} /\ missed = {}
    /\ other \in Elsewhere
    /\ signed = {}

(* The poll loop has slept its epoch and an epoch is left to check. *)
Polling == Up /\ Enabled /\ poll < start + HOLDOFF_EPOCHS /\ now >= wake

Tick ==
    /\ now < MaxSlot
    /\ NodeAnswers => ~Polling
    /\ now' = now + 1
    /\ UNCHANGED <<session, pc, start, guard, slot, poller, other, signed>>

(* main: startup_epoch from the wall clock, and the poll loop is spawned. *)
Start ==
    /\ pc \in {"off", "aborted"} /\ session < MaxSessions
    /\ session' = session + 1
    /\ pc' = "starting"
    /\ start' = Epoch(now)
    /\ poll' = IF Epoch(now) = 0 THEN 0 ELSE Epoch(now) - 1
    /\ wake' = now
    /\ quiet' = {} /\ missed' = {}
    /\ UNCHANGED <<now, guard, slot, other, signed>>

(* Mutant: the guard counts the startup epoch as a whole one. *)
EnterLoopShort ==
    /\ pc = "starting"
    /\ \E e \in start..Epoch(now) : clear' = e + HOLDOFF_EPOCHS - 1
    /\ cleared' = ~Enabled
    /\ pc' = "align"
    /\ UNCHANGED <<now, session, start, slot, poller, other, signed>>

(* run_vc_loop begins: DoppelgangerGuard::new with the epoch on the watch channel, which is   *)
(* startup_epoch or a later one that the duty refresh loop has sent.                          *)
EnterLoop ==
    /\ pc = "starting"
    /\ \E e \in start..Epoch(now) : clear' = e + HOLDOFF_EPOCHS
    /\ cleared' = ~Enabled
    /\ pc' = "align"
    /\ UNCHANGED <<now, session, start, slot, poller, other, signed>>

(* Mutant: the loop aims at the slot after the next. *)
AlignPastNextSlot ==
    /\ pc = "align"
    /\ slot' = now + 2
    /\ pc' = "sleep"
    /\ UNCHANGED <<now, session, start, guard, poller, other, signed>>

(* Mutant: the loop serves the slot it is in. *)
AlignToCurrentSlot ==
    /\ pc = "align"
    /\ slot' = now
    /\ pc' = "sleep"
    /\ UNCHANGED <<now, session, start, guard, poller, other, signed>>

(* The head of the loop: the next slot boundary. *)
AlignToNextSlot ==
    /\ pc = "align"
    /\ slot' = now + 1
    /\ pc' = "sleep"
    /\ UNCHANGED <<now, session, start, guard, poller, other, signed>>

(* The slot has begun: doppelganger.advance(current_epoch). *)
SlotBegins ==
    /\ pc = "sleep" /\ now >= slot
    /\ cleared' = (cleared \/ Epoch(slot) >= clear)
    /\ pc' = "health"
    /\ UNCHANGED <<now, session, start, clear, slot, poller, other, signed>>

(* The node is syncing, optimistic or away, its fork version is unknown, or no duties are     *)
(* cached for the epoch: the slot is skipped.                                                 *)
SkipSlot ==
    /\ pc = "health"
    /\ pc' = "align"
    /\ UNCHANGED <<now, session, start, guard, slot, poller, other, signed>>

NodeHealthy ==
    /\ pc = "health"
    /\ pc' = "propose"
    /\ UNCHANGED <<now, session, start, guard, slot, poller, other, signed>>

(* Mutant: the guard is asked about the epoch after the one served. *)
MaySignEarly == ~Enabled \/ cleared \/ Epoch(slot) + 1 >= clear

MaySign == ~Enabled \/ cleared \/ Epoch(slot) >= clear

Signature == [session |-> session, start |-> start, slot |-> slot]

(* A duty of the slot: signed if there is one and the guard allows it, else passed over.  It  *)
(* awaits the node and the signer, so the wall clock may have moved on when it ends.          *)
Duty(from, to) ==
    /\ pc = from
    /\ pc' = to
    /\ signed' \in {signed} \cup (IF MaySign THEN {signed \cup {Signature}} ELSE {})
    /\ UNCHANGED <<now, session, start, guard, slot, poller, other>>

RunProposer == Duty("propose", "attest")
RunAttester == Duty("attest", "sync")
RunSyncCommittee == Duty("sync", "align")

-----------------------------------------------------------------------------
(* The validator was seen live in epoch e: by another instance, or by an earlier session. *)
LiveIn(e) == e \in other \/ \E s \in signed : Epoch(s.slot) = e /\ s.session < session

(* One pass of run_doppelganger_loop, and then a sleep of one epoch. *)
NextPoll == poll' = poll + 1 /\ wake' = now + SlotsPerEpoch

PollFindsQuiet ==
    /\ Polling /\ ~LiveIn(poll)
    /\ quiet' = quiet \cup {poll}
    /\ NextPoll
    /\ UNCHANGED <<now, session, pc, start, guard, slot, missed, other, signed>>

(* Mutant: a live answer is only logged. *)
PollFindsLiveAndWarns ==
    /\ Polling /\ LiveIn(poll)
    /\ NextPoll
    /\ UNCHANGED <<now, session, pc, start, guard, slot, quiet, missed, other, signed>>

(* DOPPELGANGER DETECTED: exit(1). *)
PollFindsLive ==
    /\ Polling /\ LiveIn(poll)
    /\ pc' = "aborted"
    /\ UNCHANGED <<now, session, start, guard, slot, poller, other, signed>>

(* The poll fails: a warning, and the loop goes on with the next epoch. *)
PollFails ==
    /\ ~NodeAnswers
    /\ Polling
    /\ missed' = missed \cup {poll}
    /\ NextPoll
    /\ UNCHANGED <<now, session, pc, start, guard, slot, quiet, other, signed>>

(* The process stops: SIGTERM, or a crash. *)
Stop ==
    /\ Up
    /\ pc' = "off"
    /\ UNCHANGED <<now, session, start, guard, slot, poller, other, signed>>

Loop == EnterLoop \/ AlignToNextSlot \/ SlotBegins \/ SkipSlot \/ NodeHealthy
        \/ RunProposer \/ RunAttester \/ RunSyncCommittee
Poll == PollFindsQuiet \/ PollFindsLive \/ PollFails

Next == Tick \/ Start \/ Loop \/ Poll \/ Stop

(* Time passes and the poll task is scheduled; nothing else is owed. *)
Fairness == WF_vars(Tick) /\ WF_vars(Poll)

Spec == Init /\ [][Next]_vars /\ Fairness

-----------------------------------------------------------------------------
(* Every variable keeps its type. *)
TypeOK ==
    /\ now \in 0..MaxSlot /\ session \in 0..MaxSessions
    /\ pc \in {"off", "aborted", "starting", "align", "sleep", "health", "propose", "attest", "sync"}
    /\ start \in 0..MaxEpoch /\ clear \in 0..MaxEpoch /\ cleared \in BOOLEAN
    /\ slot \in 0..(MaxSlot + 1)
    /\ poll \in 0..MaxEpoch /\ wake \in 0..(MaxSlot + SlotsPerEpoch)
    /\ quiet \subseteq 0..MaxEpoch /\ missed \subseteq 0..MaxEpoch
    /\ signed \subseteq [session : 1..MaxSessions, start : 0..MaxEpoch, slot : 0..MaxSlot]

(* The safety invariant of doppelganger.rs: nothing is signed before two epochs after the     *)
(* startup epoch, whatever the loop, the watch channel and the clock do in between.           *)
HoldOffRespected ==
    Enabled => \A s \in signed : Epoch(s.slot) >= s.start + HOLDOFF_EPOCHS

(* Two sessions never sign close to each other: what a later session signs is at least two    *)
(* epochs after everything an earlier one signed, however quickly the client was restarted.   *)
SessionsApart ==
    Enabled => \A s, t \in signed :
        s.session < t.session => Epoch(t.slot) >= Epoch(s.slot) + HOLDOFF_EPOCHS

(* Within a session the slots the loop serves strictly increase.                              *)
SlotsIncrease ==
    [][pc = "align" /\ pc' = "sleep" => \A s \in signed : s.session = session => s.slot < slot']_vars

(* A doppelganger ends the process: if the other instance is live in the epoch that is to be  *)
(* polled next, the session ends unless a poll of it fails ("performs a FATAL abort").        *)
DoppelgangerStopsClient ==
    (Enabled /\ Up /\ poll \in other /\ poll < start + HOLDOFF_EPOCHS /\ wake <= MaxSlot)
        ~> (~Up \/ missed # {})

(* "A validator is past the hold-off after it has been observed as non-live for at least 2    *)
(* consecutive epochs starting from the epoch at which the VC started" (doppelganger.rs).      *)
ObservedBeforeSigning ==
    [][signed' # signed => \A e \in start..(start + HOLDOFF_EPOCHS - 1) : e \in quiet]_vars
=============================================================================
