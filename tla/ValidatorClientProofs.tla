------------------------ MODULE ValidatorClientProofs ------------------------
(***************************************************************************)
(* For every length of an epoch, any number of restarts and whatever the   *)
(* beacon node, the polls and the clock do: the doppelganger hold-off is   *)
(* kept, and two sessions of the client sign far apart.                    *)
(*                                                                         *)
(* The guard is set from the watch channel, an epoch that may be later     *)
(* than the startup epoch but not earlier, and it clears for good when a   *)
(* slot of a late epoch begins.  The invariant says that the slot which    *)
(* cleared it is not ahead of the slot being served, and that whatever is  *)
(* signed lies in the past: so a session that starts now starts after it.  *)
(***************************************************************************)
EXTENDS ValidatorClient, TLAPS

Serving == {"health", "propose", "attest", "sync"}
InLoop == {"align", "sleep"} \cup Serving

Typed ==
    /\ now \in Nat /\ session \in Nat /\ start \in Nat /\ clear \in Nat /\ slot \in Nat
    /\ cleared \in BOOLEAN
    /\ pc \in {"off", "aborted", "starting"} \cup InLoop
    /\ signed \subseteq [session : Nat, start : Nat, slot : Nat]

(* The guard of a session in the slot loop. *)
Guarded ==
    pc \in InLoop /\ Enabled => /\ start + HOLDOFF_EPOCHS <= clear
                                /\ cleared => clear <= Epoch(slot)

(* The slot being served has begun; so has the one that cleared the guard. *)
Begun == pc \in Serving \/ (pc = "align" /\ Enabled /\ cleared) => slot <= now

(* Nothing is signed ahead of the clock or of the session, and nothing that an earlier session *)
(* signed is later than the start of this one.                                                 *)
Past ==
    /\ \A s \in signed : s.slot <= now /\ s.session <= session
    /\ Up => \A s \in signed : s.session < session => Epoch(s.slot) <= start

IInv == Typed /\ Guarded /\ Begun /\ Past /\ HoldOffRespected /\ SessionsApart

-----------------------------------------------------------------------------
LEMMA ProductMonotone ==
    ASSUME NEW n \in Nat, NEW x \in Nat, NEW y \in Nat, x <= y
    PROVE  n * x <= n * y
BY SMT

LEMMA EpochBounds ==
    ASSUME NEW a \in Nat
    PROVE  /\ Epoch(a) \in Nat
           /\ SlotsPerEpoch * Epoch(a) <= a /\ a < SlotsPerEpoch * (Epoch(a) + 1)
<1>1. /\ Epoch(a) \in Nat /\ a % SlotsPerEpoch \in 0..(SlotsPerEpoch - 1)
      /\ a = SlotsPerEpoch * Epoch(a) + (a % SlotsPerEpoch)
  BY EpochAssumption, SMT DEF Epoch
<1>2. ASSUME NEW n \in Nat \ {0}, NEW q \in Nat, NEW m \in 0..(n - 1), a = n * q + m
      PROVE  n * q <= a /\ a < n * (q + 1)
  BY <1>2, SMT
<1> QED BY <1>1, <1>2, EpochAssumption

LEMMA EpochMonotone ==
    ASSUME NEW a \in Nat, NEW b \in Nat, a <= b
    PROVE  Epoch(a) \in Nat /\ Epoch(b) \in Nat /\ Epoch(a) <= Epoch(b)
<1> DEFINE p == Epoch(a)
           q == Epoch(b)
<1>1. p \in Nat /\ q \in Nat /\ SlotsPerEpoch * p <= a /\ b < SlotsPerEpoch * (q + 1)
  BY EpochBounds
<1> HIDE DEF p, q
<1>2. SUFFICES ASSUME q < p PROVE FALSE
  BY <1>1 DEF p, q
<1>3. SlotsPerEpoch * (q + 1) <= SlotsPerEpoch * p
  BY <1>1, <1>2, ProductMonotone, EpochAssumption
<1>4. SlotsPerEpoch * (q + 1) \in Nat /\ SlotsPerEpoch * p \in Nat
  BY <1>1, EpochAssumption
<1> QED BY <1>1, <1>3, <1>4

-----------------------------------------------------------------------------
LEMMA Starts == Init => IInv
<1> SUFFICES ASSUME Init PROVE IInv
  OBVIOUS
<1>1. Typed
  <2>1. now \in Nat
    BY EpochAssumption DEF Init
  <2>2. cleared \in BOOLEAN
    BY Zenon DEF Init
  <2>3. session \in Nat /\ start \in Nat /\ clear \in Nat /\ slot \in Nat /\ signed = {} /\ pc = "off"
    BY DEF Init
  <2> QED BY <2>1, <2>2, <2>3 DEF Typed
<1> QED BY <1>1 DEF Init, IInv, Guarded, Begun, Past, HoldOffRespected, SessionsApart,
                    Serving, InLoop, Up

(* What a step keeps that leaves the signatures, the session and its start alone. *)
LEMMA UnsignedKeeps ==
    ASSUME IInv, UNCHANGED <<session, start, signed>>, now' \in Nat, now <= now', Up' => Up
    PROVE  Past' /\ HoldOffRespected' /\ SessionsApart'
<1>1. \A s \in signed : s.slot \in Nat /\ s.slot <= now
  BY DEF IInv, Past, Typed
<1>2. \A s \in signed : s.slot <= now'
  BY <1>1 DEF IInv, Typed
<1>3. Past'
  BY <1>2 DEF IInv, Past, Epoch
<1> QED BY <1>3 DEF IInv, HoldOffRespected, SessionsApart, Epoch

(* A duty signs only what the guard allows: two epochs after the start of the session, which  *)
(* is not before anything that an earlier session signed.                                     *)
LEMMA DutyPreserves ==
    ASSUME IInv, NEW from \in Serving, NEW to \in {"attest", "sync", "align"}, Duty(from, to)
    PROVE  IInv'
<1>1. /\ pc = from /\ pc' = to
      /\ UNCHANGED <<now, session, start, clear, cleared, slot>>
  BY DEF Duty, guard
<1>2. slot <= now /\ Typed
  BY <1>1 DEF IInv, Begun, Serving
<1>3. Guarded' /\ Begun'
  <2>1. Begun'
    BY <1>1, <1>2 DEF Begun, Typed
  <2>2. Guarded'
    BY <1>1 DEF IInv, Guarded, InLoop, Serving, Epoch
  <2> QED BY <2>1, <2>2
<1>4. CASE signed' = signed
  <2>1. Typed'
    BY <1>1, <1>2, <1>4 DEF Typed, InLoop, Serving
  <2>2. Up
    BY <1>1 DEF Up, Serving
  <2>3. Past' /\ HoldOffRespected' /\ SessionsApart'
    BY <1>1, <1>2, <1>4, <2>2, UnsignedKeeps DEF Typed
  <2> QED BY <1>3, <2>1, <2>3 DEF IInv
<1>5. CASE MaySign /\ signed' = signed \cup {Signature}
  <2>1. Signature \in [session : Nat, start : Nat, slot : Nat]
    BY <1>2 DEF Signature, Typed
  <2>2. Signature.session = session /\ Signature.start = start /\ Signature.slot = slot
    BY DEF Signature
  <2>3. Typed'
    BY <1>1, <1>2, <1>5, <2>1 DEF Typed, InLoop, Serving
  <2>4. Past'
    <3>1. \A s \in signed' : s.slot <= now' /\ s.session <= session'
      BY <1>1, <1>2, <1>5, <2>2 DEF IInv, Past, Typed
    <3>2. \A s \in signed : s.session < session => Epoch(s.slot) <= start
      BY <1>1 DEF IInv, Past, Up, Serving
    <3>3. \A s \in signed' : s.session < session' => Epoch(s.slot) <= start'
      BY <1>1, <1>2, <1>5, <2>2, <3>2 DEF Typed
    <3> QED BY <3>1, <3>3 DEF Past, Epoch
  <2>5. Enabled => start + HOLDOFF_EPOCHS <= Epoch(slot)
    <3>1. Enabled => start + HOLDOFF_EPOCHS <= clear /\ clear <= Epoch(slot)
      BY <1>1, <1>5 DEF IInv, Guarded, InLoop, MaySign
    <3>2. Epoch(slot) \in Nat
      BY <1>2, EpochBounds DEF Typed
    <3> QED BY <1>2, <3>1, <3>2 DEF Typed, HOLDOFF_EPOCHS
  <2>6. HoldOffRespected'
    <3>1. Enabled => \A s \in signed' : Epoch(s.slot) >= s.start + HOLDOFF_EPOCHS
      <4>1. Enabled => Epoch(slot) >= start + HOLDOFF_EPOCHS
        BY <2>5
      <4> QED BY <1>5, <2>2, <4>1 DEF IInv, HoldOffRespected
    <3> QED BY <3>1 DEF HoldOffRespected, Epoch
  <2>7. SessionsApart'
    <3>1. SUFFICES ASSUME Enabled, NEW s \in signed', NEW t \in signed', s.session < t.session
                   PROVE  Epoch(t.slot) >= Epoch(s.slot) + HOLDOFF_EPOCHS
      BY DEF SessionsApart, Epoch
    <3>2. CASE s \in signed /\ t \in signed
      BY <3>1, <3>2 DEF IInv, SessionsApart
    <3>3. CASE s \in signed /\ t = Signature
      <4>1. Epoch(s.slot) <= start
        BY <1>1, <2>2, <3>1, <3>3 DEF IInv, Past, Up, Serving
      <4>2. Epoch(s.slot) \in Nat /\ Epoch(slot) \in Nat
        BY <1>2, <3>3, EpochBounds DEF Typed
      <4> QED BY <1>2, <2>2, <2>5, <3>1, <3>3, <4>1, <4>2 DEF Typed, HOLDOFF_EPOCHS
    <3>4. CASE s = Signature
      <4>1. t.session <= session /\ t.session \in Nat
        BY <1>1, <1>5, <2>2, <2>4, <2>3 DEF Past, Typed
      <4> QED BY <1>2, <2>2, <3>1, <3>4, <4>1 DEF Typed
    <3> QED BY <1>5, <3>1, <3>2, <3>3, <3>4
  <2> QED BY <1>3, <2>3, <2>4, <2>6, <2>7 DEF IInv
<1> QED BY <1>4, <1>5 DEF Duty

LEMMA LoopPreserves == ASSUME IInv, Loop PROVE IInv'
<1>0. Typed /\ Guarded /\ Begun
  BY DEF IInv
<1>1. CASE EnterLoop
  <2>1. pc = "starting" /\ pc' = "align" /\ UNCHANGED <<now, session, start, slot, signed>>
    BY <1>1 DEF EnterLoop
  <2>2. PICK e \in start..Epoch(now) : clear' = e + HOLDOFF_EPOCHS
    BY <1>1 DEF EnterLoop
  <2>3. clear' \in Nat /\ start + HOLDOFF_EPOCHS <= clear'
    BY <1>0, <2>2, EpochBounds DEF Typed, HOLDOFF_EPOCHS
  <2>4. cleared' = ~Enabled
    BY <1>1 DEF EnterLoop
  <2>5. Typed'
    <3>1. cleared' \in BOOLEAN
      BY <2>4, Zenon
    <3> QED BY <1>0, <2>1, <2>3, <3>1 DEF Typed, InLoop
  <2>6. Guarded' /\ Begun'
    BY <2>1, <2>3, <2>4 DEF Guarded, Begun, Serving
  <2>7. Past' /\ HoldOffRespected' /\ SessionsApart'
    BY <1>0, <2>1, UnsignedKeeps DEF Typed, Up
  <2> QED BY <2>5, <2>6, <2>7 DEF IInv
<1>2. CASE AlignToNextSlot
  <2>1. /\ pc = "align" /\ pc' = "sleep" /\ slot' = now + 1
        /\ UNCHANGED <<now, session, start, clear, cleared, signed>>
    BY <1>2 DEF AlignToNextSlot, guard
  <2>2. Typed'
    BY <1>0, <2>1 DEF Typed, InLoop
  <2>3. Enabled /\ cleared => clear <= Epoch(slot) /\ Epoch(slot) <= Epoch(slot')
    <3>1. Enabled /\ cleared => clear <= Epoch(slot) /\ slot <= now
      BY <1>0, <2>1 DEF Guarded, Begun, InLoop
    <3> QED BY <1>0, <2>1, <3>1, EpochMonotone DEF Typed
  <2>4. Guarded' /\ Begun'
    <3>1. Epoch(slot) \in Nat /\ Epoch(slot') \in Nat
      BY <1>0, <2>1, EpochBounds DEF Typed
    <3>2. Enabled /\ cleared => clear <= Epoch(slot')
      BY <1>0, <2>3, <3>1 DEF Typed
    <3> QED BY <1>0, <2>1, <3>2 DEF Guarded, Begun, InLoop, Serving, Epoch
  <2>5. Past' /\ HoldOffRespected' /\ SessionsApart'
    BY <1>0, <2>1, UnsignedKeeps DEF Typed, Up
  <2> QED BY <2>2, <2>4, <2>5 DEF IInv
<1>3. CASE SlotBegins
  <2>1. /\ pc = "sleep" /\ pc' = "health" /\ slot <= now
        /\ UNCHANGED <<now, session, start, clear, slot, signed>>
    BY <1>3 DEF SlotBegins
  <2>2. cleared' = (cleared \/ Epoch(slot) >= clear)
    BY <1>3 DEF SlotBegins
  <2>3. cleared' => cleared \/ clear <= Epoch(slot)
    BY <2>2
  <2>4. Typed'
    <3>1. cleared' \in BOOLEAN
      BY <2>2, Zenon
    <3> QED BY <1>0, <2>1, <3>1 DEF Typed, InLoop, Serving
  <2>5. Guarded' /\ Begun'
    BY <1>0, <2>1, <2>3 DEF Guarded, Begun, InLoop, Serving, Epoch
  <2>6. Past' /\ HoldOffRespected' /\ SessionsApart'
    BY <1>0, <2>1, UnsignedKeeps DEF Typed, Up
  <2> QED BY <2>4, <2>5, <2>6 DEF IInv
<1>4. CASE SkipSlot \/ NodeHealthy
  <2>1. /\ pc = "health" /\ pc' \in {"align", "propose"}
        /\ UNCHANGED <<now, session, start, clear, cleared, slot, signed>>
    BY <1>4 DEF SkipSlot, NodeHealthy, guard
  <2>2. Typed' /\ Guarded' /\ Begun'
    BY <1>0, <2>1 DEF Typed, Guarded, Begun, InLoop, Serving, Epoch
  <2>3. Past' /\ HoldOffRespected' /\ SessionsApart'
    BY <1>0, <2>1, UnsignedKeeps DEF Typed, Up
  <2> QED BY <2>2, <2>3 DEF IInv
<1>5. CASE RunProposer \/ RunAttester \/ RunSyncCommittee
  BY <1>5, DutyPreserves DEF RunProposer, RunAttester, RunSyncCommittee, Serving
<1> QED BY <1>1, <1>2, <1>3, <1>4, <1>5 DEF Loop

LEMMA StepPreserves == IInv /\ [Next]_vars => IInv'
<1> SUFFICES ASSUME IInv, [Next]_vars PROVE IInv'
  OBVIOUS
<1>0. Typed /\ Guarded /\ Begun
  BY DEF IInv
<1>1. CASE Tick
  <2>1. now' = now + 1 /\ UNCHANGED <<session, pc, start, clear, cleared, slot, signed>>
    BY <1>1 DEF Tick, guard
  <2>2. Typed' /\ Guarded' /\ Begun'
    BY <1>0, <2>1 DEF Typed, Guarded, Begun, Epoch
  <2>3. Past' /\ HoldOffRespected' /\ SessionsApart'
    BY <1>0, <2>1, UnsignedKeeps DEF Typed, Up
  <2> QED BY <2>2, <2>3 DEF IInv
<1>2. CASE Start
  <2>1. /\ session' = session + 1 /\ pc' = "starting" /\ start' = Epoch(now)
        /\ UNCHANGED <<now, clear, cleared, slot, signed>>
    BY <1>2 DEF Start, guard
  <2>2. Typed' /\ Guarded' /\ Begun'
    BY <1>0, <2>1, EpochBounds DEF Typed, Guarded, Begun, InLoop, Serving
  <2>3. \A s \in signed : s.slot <= now /\ s.slot \in Nat /\ s.session <= session /\ s.session \in Nat
    BY DEF IInv, Past, Typed
  <2>4. \A s \in signed : Epoch(s.slot) <= Epoch(now)
    BY <1>0, <2>3, EpochMonotone DEF Typed
  <2>5. Past'
    BY <1>0, <2>1, <2>3, <2>4 DEF Past, Typed, Epoch
  <2>6. HoldOffRespected' /\ SessionsApart'
    BY <2>1 DEF IInv, HoldOffRespected, SessionsApart, Epoch
  <2> QED BY <2>2, <2>5, <2>6 DEF IInv
<1>3. CASE Loop
  BY <1>3, LoopPreserves
<1>4. CASE Poll \/ Stop \/ UNCHANGED vars
  <2>1. /\ UNCHANGED <<now, session, start, clear, cleared, slot, signed>>
        /\ pc' = pc \/ pc' \in {"aborted", "off"}
    BY <1>4 DEF Poll, PollFindsQuiet, PollFindsLive, PollFails, Stop, guard, vars
  <2>2. Typed' /\ Guarded' /\ Begun'
    BY <1>0, <2>1 DEF Typed, Guarded, Begun, InLoop, Serving, Epoch
  <2>3. Past' /\ HoldOffRespected' /\ SessionsApart'
    BY <1>0, <2>1, UnsignedKeeps DEF Typed, Up
  <2> QED BY <2>2, <2>3 DEF IInv
<1> QED BY <1>1, <1>2, <1>3, <1>4 DEF Next

-----------------------------------------------------------------------------
(* Nothing is signed before the end of the second epoch after the startup epoch, however the   *)
(* slot loop, the watch channel, the polls and the wall clock interleave (DoppelgangerGuard).  *)
THEOREM HoldOffIsKept == Spec => []HoldOffRespected
<1>1. IInv => HoldOffRespected
  BY DEF IInv
<1> QED BY Starts, StepPreserves, <1>1, PTL DEF Spec

(* Over any number of restarts, what one session signs is two epochs after everything that an  *)
(* earlier session signed: a restart cannot shorten the hold-off of run_vc_loop.               *)
THEOREM RestartsStayApart == Spec => []SessionsApart
<1>1. IInv => SessionsApart
  BY DEF IInv
<1> QED BY Starts, StepPreserves, <1>1, PTL DEF Spec

(* A slot that run_vc_loop aligns to is later than every slot it has signed for: an overrun    *)
(* skips slots and repeats none.                                                               *)
THEOREM NoSlotTwice == Spec => SlotsIncrease
<1> DEFINE A == pc = "align" /\ pc' = "sleep" => \A s \in signed : s.session = session => s.slot < slot'
<1>1. IInv /\ [Next]_vars => [A]_vars
  <2> SUFFICES ASSUME IInv, Next, pc = "align", pc' = "sleep", NEW s \in signed
               PROVE  s.slot < slot'
    OBVIOUS
  <2>1. slot' = now + 1
    BY DEF Next, Tick, Start, Loop, EnterLoop, AlignToNextSlot, SlotBegins, SkipSlot, NodeHealthy,
           RunProposer, RunAttester, RunSyncCommittee, Duty, Poll, PollFindsQuiet, PollFindsLive,
           PollFails, Stop
  <2>2. s.slot <= now /\ s.slot \in Nat /\ now \in Nat
    BY DEF IInv, Past, Typed
  <2> QED BY <2>1, <2>2
<1> QED BY Starts, StepPreserves, <1>1, PTL DEF Spec, SlotsIncrease

-----------------------------------------------------------------------------
(* Every counter stays within the clock: a session is counted before it signs, and no epoch   *)
(* that is polled or waited for is more than the hold-off ahead of the clock.                 *)
Bounded == TypeOK /\ (Up => 1 <= session) /\ start <= Epoch(now)

LEMMA BoundedTypes ==
    ASSUME Bounded
    PROVE  /\ now \in Nat /\ now <= MaxSlot /\ Epoch(now) \in Nat /\ Epoch(MaxSlot) \in Nat
           /\ Epoch(now) <= Epoch(MaxSlot) /\ MaxEpoch = Epoch(MaxSlot) + 2 /\ MaxEpoch \in Nat
           /\ start \in Nat /\ start <= Epoch(now) /\ MaxSlot \in Nat /\ MaxSessions \in Nat
           /\ SlotsPerEpoch \in Nat
<1>1. now \in Nat /\ now <= MaxSlot /\ MaxSlot \in Nat
  BY BoundAssumption DEF Bounded, TypeOK
<1>2. Epoch(now) \in Nat /\ Epoch(MaxSlot) \in Nat /\ Epoch(now) <= Epoch(MaxSlot)
  BY <1>1, EpochMonotone
<1>3. MaxEpoch = Epoch(MaxSlot) + 2 /\ MaxEpoch \in Nat
  BY <1>2 DEF MaxEpoch, HOLDOFF_EPOCHS
<1>4. start \in Nat /\ start <= Epoch(now)
  BY <1>3 DEF Bounded, TypeOK
<1> QED BY <1>1, <1>2, <1>3, <1>4, BoundAssumption, EpochAssumption

LEMMA BoundedStarts == Init => Bounded
<1> SUFFICES ASSUME Init PROVE Bounded
  OBVIOUS
<1>1. now \in 0..MaxSlot /\ Epoch(now) \in Nat /\ Epoch(MaxSlot) \in Nat
  BY EpochAssumption, BoundAssumption, EpochBounds DEF Init
<1>2. MaxEpoch \in Nat
  BY <1>1 DEF MaxEpoch, HOLDOFF_EPOCHS
<1>3. cleared \in BOOLEAN
  BY Zenon DEF Init
<1>4. /\ session = 0 /\ pc = "off" /\ start = 0 /\ clear = 0 /\ slot = 0 /\ poll = 0 /\ wake = 0
      /\ quiet = {} /\ missed = {} /\ signed = {}
  BY DEF Init
<1>5. TypeOK
  BY <1>1, <1>2, <1>3, <1>4, BoundAssumption, EpochAssumption DEF TypeOK
<1> QED BY <1>1, <1>4, <1>5 DEF Bounded, Up

LEMMA BoundedLoop == ASSUME IInv, Bounded, Loop PROVE Bounded'
<1>0. TypeOK /\ Typed /\ (Up => 1 <= session)
  BY DEF IInv, Bounded
<1>1. UNCHANGED <<now, session, start, poll, wake, quiet, missed>>
  BY DEF Loop, EnterLoop, AlignToNextSlot, SlotBegins, SkipSlot, NodeHealthy, RunProposer,
         RunAttester, RunSyncCommittee, Duty, poller
<1>2. start' <= Epoch(now')
  BY <1>1, BoundedTypes
<1>3. CASE EnterLoop
  <2>1. pc = "starting" /\ pc' = "align" /\ UNCHANGED <<slot, signed>>
    BY <1>3 DEF EnterLoop
  <2>2. PICK e \in start..Epoch(now) : clear' = e + HOLDOFF_EPOCHS
    BY <1>3 DEF EnterLoop
  <2>3. clear' \in 0..MaxEpoch
    BY <2>2, BoundedTypes DEF HOLDOFF_EPOCHS
  <2>4. cleared' \in BOOLEAN
    BY <1>3, Zenon DEF EnterLoop
  <2>5. TypeOK'
    BY <1>0, <1>1, <2>1, <2>3, <2>4 DEF TypeOK, MaxEpoch, Epoch
  <2> QED BY <1>0, <1>1, <1>2, <2>1, <2>5 DEF Bounded, Up, Epoch
<1>4. CASE AlignToNextSlot
  <2>1. pc = "align" /\ pc' = "sleep" /\ slot' = now + 1 /\ UNCHANGED <<clear, cleared, signed>>
    BY <1>4 DEF AlignToNextSlot, guard
  <2>2. slot' \in 0..(MaxSlot + 1)
    BY <2>1, BoundedTypes
  <2>3. TypeOK'
    BY <1>0, <1>1, <2>1, <2>2 DEF TypeOK, MaxEpoch, Epoch
  <2> QED BY <1>0, <1>1, <1>2, <2>1, <2>3 DEF Bounded, Up, Epoch
<1>5. CASE SlotBegins
  <2>1. pc = "sleep" /\ pc' = "health" /\ UNCHANGED <<clear, slot, signed>>
    BY <1>5 DEF SlotBegins
  <2>2. cleared' \in BOOLEAN
    BY <1>5, Zenon DEF SlotBegins
  <2>3. TypeOK'
    BY <1>0, <1>1, <2>1, <2>2 DEF TypeOK, MaxEpoch, Epoch
  <2> QED BY <1>0, <1>1, <1>2, <2>1, <2>3 DEF Bounded, Up, Epoch
<1>6. CASE SkipSlot \/ NodeHealthy
  <2>1. pc = "health" /\ pc' \in {"align", "propose"} /\ UNCHANGED <<clear, cleared, slot, signed>>
    BY <1>6 DEF SkipSlot, NodeHealthy, guard
  <2>2. TypeOK'
    BY <1>0, <1>1, <2>1 DEF TypeOK, MaxEpoch, Epoch
  <2> QED BY <1>0, <1>1, <1>2, <2>1, <2>2 DEF Bounded, Up, Epoch
<1>7. CASE RunProposer \/ RunAttester \/ RunSyncCommittee
  <2>1. /\ pc \in Serving /\ pc' \in {"attest", "sync", "align"}
        /\ UNCHANGED <<clear, cleared, slot>>
        /\ signed' = signed \/ signed' = signed \cup {Signature}
    BY <1>7 DEF RunProposer, RunAttester, RunSyncCommittee, Duty, guard, Serving
  <2>2. slot \in 0..MaxSlot /\ session \in 1..MaxSessions /\ start \in 0..MaxEpoch
    <3>1. slot <= now /\ slot \in Nat /\ 1 <= session
      BY <1>0, <2>1 DEF IInv, Begun, Typed, Up, Serving
    <3> QED BY <1>0, <3>1, BoundedTypes DEF TypeOK
  <2>3. Signature \in [session : 1..MaxSessions, start : 0..MaxEpoch, slot : 0..MaxSlot]
    BY <2>2 DEF Signature
  <2>4. TypeOK'
    <3>1. signed' \subseteq [session : 1..MaxSessions, start : 0..MaxEpoch, slot : 0..MaxSlot]
      BY <1>0, <2>1, <2>3 DEF TypeOK
    <3> QED BY <1>0, <1>1, <2>1, <3>1 DEF TypeOK, MaxEpoch, Epoch
  <2> QED BY <1>0, <1>1, <1>2, <2>1, <2>4 DEF Bounded, Up, Epoch, Serving
<1> QED BY <1>3, <1>4, <1>5, <1>6, <1>7 DEF Loop

LEMMA BoundedStep == IInv /\ Bounded /\ [Next]_vars => Bounded'
<1> SUFFICES ASSUME IInv, Bounded, [Next]_vars PROVE Bounded'
  OBVIOUS
<1>0. TypeOK /\ (Up => 1 <= session)
  BY DEF Bounded
<1>1. CASE Tick
  <2>1. now < MaxSlot /\ now' = now + 1
        /\ UNCHANGED <<session, pc, start, clear, cleared, slot, poll, wake, quiet, missed, signed>>
    BY <1>1 DEF Tick, guard, poller
  <2>2. now' \in 0..MaxSlot /\ start' <= Epoch(now')
    <3>1. now' \in Nat /\ now <= now' /\ now \in Nat
      BY <2>1, BoundedTypes
    <3>2. Epoch(now) \in Nat /\ Epoch(now') \in Nat /\ Epoch(now) <= Epoch(now')
      BY <3>1, EpochMonotone
    <3> QED BY <2>1, <3>1, <3>2, BoundedTypes
  <2>3. TypeOK'
    BY <1>0, <2>1, <2>2 DEF TypeOK, MaxEpoch, Epoch
  <2> QED BY <1>0, <2>1, <2>2, <2>3 DEF Bounded, Up, Epoch
<1>2. CASE Start
  <2>1. /\ session < MaxSessions /\ session' = session + 1 /\ pc' = "starting" /\ start' = Epoch(now)
        /\ poll' = (IF Epoch(now) = 0 THEN 0 ELSE Epoch(now) - 1) /\ wake' = now
        /\ quiet' = {} /\ missed' = {} /\ UNCHANGED <<now, clear, cleared, slot, signed>>
    BY <1>2 DEF Start, guard
  <2>2. /\ session' \in 0..MaxSessions /\ 1 <= session' /\ start' \in 0..MaxEpoch
        /\ poll' \in 0..MaxEpoch /\ wake' \in 0..(MaxSlot + SlotsPerEpoch) /\ start' <= Epoch(now')
    BY <1>0, <2>1, BoundedTypes DEF TypeOK
  <2>3. TypeOK'
    BY <1>0, <2>1, <2>2 DEF TypeOK, MaxEpoch, Epoch
  <2> QED BY <2>2, <2>3 DEF Bounded, Epoch
<1>3. CASE Loop
  BY <1>3, BoundedLoop
<1>4. CASE PollFindsQuiet \/ PollFails
  <2>1. /\ poll < start + 2 /\ poll' = poll + 1 /\ wake' = now + SlotsPerEpoch
        /\ quiet' \subseteq quiet \cup {poll} /\ missed' \subseteq missed \cup {poll}
        /\ UNCHANGED <<now, session, pc, start, clear, cleared, slot, signed>>
    BY <1>4 DEF PollFindsQuiet, PollFails, Polling, NextPoll, guard, HOLDOFF_EPOCHS
  <2>2. poll' \in 0..MaxEpoch /\ wake' \in 0..(MaxSlot + SlotsPerEpoch)
    <3>1. poll \in Nat
      BY <1>0 DEF TypeOK
    <3> QED BY <2>1, <3>1, BoundedTypes
  <2>3. quiet' \subseteq 0..MaxEpoch /\ missed' \subseteq 0..MaxEpoch
    BY <1>0, <2>1 DEF TypeOK
  <2>4. TypeOK'
    BY <1>0, <2>1, <2>2, <2>3 DEF TypeOK, MaxEpoch, Epoch
  <2> QED BY <2>1, <2>4 DEF Bounded, Up, Epoch
<1>5. CASE PollFindsLive \/ Stop \/ UNCHANGED vars
  <2>1. /\ pc' = pc \/ pc' \in {"aborted", "off"}
        /\ UNCHANGED <<now, session, start, clear, cleared, slot, poll, wake, quiet, missed, signed>>
    BY <1>5 DEF PollFindsLive, Stop, guard, poller, vars
  <2>2. TypeOK'
    BY <1>0, <2>1 DEF TypeOK, MaxEpoch, Epoch
  <2> QED BY <2>1, <2>2 DEF Bounded, Up, Epoch
<1> QED BY <1>1, <1>2, <1>3, <1>4, <1>5 DEF Next, Poll

(* Every variable of the loop, the guard and the poller keeps its type: no poll and no guard   *)
(* ever waits for an epoch more than the hold-off beyond the last one of the clock.            *)
THEOREM TypeCorrect == Spec => []TypeOK
<1>1. Bounded => TypeOK
  BY DEF Bounded
<1> QED BY Starts, StepPreserves, BoundedStarts, BoundedStep, <1>1, PTL DEF Spec
==============================================================================
