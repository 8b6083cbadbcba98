---------------------------- MODULE DebuggerProofs ---------------------------
(***************************************************************************)
(* Theorems about the debugger, for every number of breakpoint slots,      *)
(* every polling period, every client and every guest.                     *)
(***************************************************************************)
EXTENDS Debugger, InterpreterProofs, FiniteSetTheorems, SequenceTheorems

-----------------------------------------------------------------------------
(* The breakpoint slots                                                    *)

(* The slots that hold an address are counted by a natural number.         *)
LEMMA SlotsFinite == \A a : IsFiniteSet(Slots(a)) /\ Cardinality(Slots(a)) \in Nat
  <1>1. IsFiniteSet(1..SLOTS)
    BY FS_Interval, DebuggerAssumption
  <1>2. \A a : Slots(a) \subseteq 1..SLOTS
    BY DEF Slots
  <1>3. \A a : IsFiniteSet(Slots(a))
    BY <1>1, <1>2, FS_Subset
  <1> QED
    BY <1>3, FS_CardinalityType

(* The client has a breakpoint at an address exactly when a slot holds it. *)
LEMMA WantedIsSlot ==
  ASSUME SlotsCounted, NEW a \in BreakAddrs
  PROVE  wanted[a] > 0 <=> \E i \in 1..SLOTS : breakpoints[i] = {a}
  <1>1. wanted[a] = Cardinality(Slots(a)) /\ IsFiniteSet(Slots(a)) /\ Cardinality(Slots(a)) \in Nat
    BY SlotsFinite DEF SlotsCounted
  <1>2. Cardinality(Slots(a)) = 0 <=> Slots(a) = {}
    BY <1>1, FS_EmptySet
  <1>3. wanted[a] > 0 <=> Slots(a) # {}
    BY <1>1, <1>2
  <1> QED
    BY <1>3 DEF Slots

(* add_sw_breakpoint counts one more for its address, and no other.        *)
LEMMA AddCounts ==
  ASSUME DebuggerTypeOK, SlotsCounted, NEW a \in BreakAddrs, AddBreakpoint(a)
  PROVE  SlotsCounted'
  <1>1. PICK i \in 1..SLOTS : breakpoints[i] = {} /\ breakpoints' = [breakpoints EXCEPT ![i] = {a}]
    BY DEF AddBreakpoint, Position
  <1>2. breakpoints \in [1..SLOTS -> {{}} \cup {{b} : b \in BreakAddrs}] /\ wanted \in [BreakAddrs -> Nat]
    BY DEF DebuggerTypeOK
  <1>3. \A j \in 1..SLOTS : breakpoints'[j] = IF j = i THEN {a} ELSE breakpoints[j]
    BY <1>1, <1>2
  <1>4. Slots(a)' = Slots(a) \cup {i} /\ i \notin Slots(a)
    BY <1>1, <1>3 DEF Slots
  <1>5. Cardinality(Slots(a)') = Cardinality(Slots(a)) + 1
    BY <1>4, SlotsFinite, FS_AddElement
  <1>6. \A b \in BreakAddrs \ {a} : Slots(b)' = Slots(b)
    BY <1>1, <1>3 DEF Slots
  <1>7. \A b \in BreakAddrs : wanted'[b] = IF b = a THEN wanted[a] + 1 ELSE wanted[b]
    BY <1>2 DEF AddBreakpoint
  <1> QED
    BY <1>5, <1>6, <1>7 DEF SlotsCounted

(* remove_sw_breakpoint counts one less, and there was one to count.       *)
LEMMA RemoveCounts ==
  ASSUME DebuggerTypeOK, SlotsCounted, NEW a \in BreakAddrs, RemoveBreakpoint(a)
  PROVE  SlotsCounted' /\ wanted[a] - 1 \in Nat
  <1>1. PICK i \in 1..SLOTS : breakpoints[i] = {a} /\ breakpoints' = [breakpoints EXCEPT ![i] = {}]
    BY DEF RemoveBreakpoint, Position
  <1>2. breakpoints \in [1..SLOTS -> {{}} \cup {{b} : b \in BreakAddrs}] /\ wanted \in [BreakAddrs -> Nat]
    BY DEF DebuggerTypeOK
  <1>3. \A j \in 1..SLOTS : breakpoints'[j] = IF j = i THEN {} ELSE breakpoints[j]
    BY <1>1, <1>2
  <1>4. Slots(a)' = Slots(a) \ {i} /\ i \in Slots(a)
    BY <1>1, <1>3 DEF Slots
  <1>5. Cardinality(Slots(a)') = Cardinality(Slots(a)) - 1 /\ Cardinality(Slots(a)) \in Nat
    BY <1>4, SlotsFinite, FS_RemoveElement
  <1>6. \A b \in BreakAddrs \ {a} : Slots(b)' = Slots(b)
    BY <1>1, <1>3 DEF Slots
  <1>7. \A b \in BreakAddrs : wanted'[b] = IF b = a THEN wanted[a] - 1 ELSE wanted[b]
    BY <1>2 DEF RemoveBreakpoint
  <1>8. wanted[a] - 1 \in Nat
    BY <1>1, <1>2, WantedIsSlot
  <1> QED
    BY <1>5, <1>6, <1>7, <1>8 DEF SlotsCounted

(* Nothing else changes what is counted.                                   *)
LEMMA OthersCount ==
  ASSUME SlotsCounted, UNCHANGED <<breakpoints, wanted>>
  PROVE  SlotsCounted'
  <1>1. \A a \in BreakAddrs : Slots(a)' = Slots(a)
    BY DEF Slots
  <1> QED
    BY <1>1 DEF SlotsCounted

-----------------------------------------------------------------------------
(* One step of the session                                                 *)

\* The inductive invariant.
DebuggerInv == DebuggerTypeOK /\ SessionConsistent

(* step() returns to wait_for_stop_reason after one instruction.           *)
LEMMA StepReturns == ASSUME call = "step", HStep PROVE call' = "idle"
  <1>1. PICK r : Finish(r)
    BY StepFinishes DEF HStep
  <1> QED
    BY <1>1 DEF Finish, LoopsAgain, Return

(* wait_for_stop_reason: the call of step().                               *)
LEMMA WaitStepInv == ASSUME DebuggerInv, WaitStep PROVE DebuggerInv'
  <1>1. /\ loop = "step" /\ loop' = "exec" /\ call' = "step"
        /\ UNCHANGED <<pc, cycles, ran, stop, input, conn, deferred, breakpoints, exec_mode, wanted, writes>>
    BY DEF WaitStep, HCall, CallRun, CallStep, guest, Goto, client
  <1>2. DebuggerTypeOK'
    BY <1>1 DEF DebuggerInv, DebuggerTypeOK, Loop, InWait
  <1>3. SlotsCounted'
    BY <1>1, OthersCount DEF DebuggerInv, SessionConsistent
  <1>4. CallMatchesLoop' /\ StepIsOne'
    BY <1>1 DEF DebuggerInv, SessionConsistent, CallMatchesLoop, StepIsOne
  <1>5. AwayFromBreakpoints'
    BY <1>1 DEF DebuggerInv, SessionConsistent, AwayFromBreakpoints, AtBreakpoint
  <1> QED
    BY <1>2, <1>3, <1>4, <1>5 DEF DebuggerInv, SessionConsistent

(* step() itself, and the match on its result.                             *)
LEMMA WaitExecInv == ASSUME DebuggerInv, WaitExec PROVE DebuggerInv'
  <1>1. /\ loop = "exec" /\ loop' \in {"check", "handle", "ended"}
        /\ stop' \in {stop, "Terminated", "TargetError"}
        /\ ran' = IF ran = 2 THEN 2 ELSE ran + 1
        /\ UNCHANGED <<cycles, input, conn, deferred, breakpoints, exec_mode, wanted, writes>>
    BY DEF WaitExec, Goto, Ended, client
  <1>2. call' = "idle"
    BY <1>1, StepReturns DEF WaitExec, DebuggerInv, SessionConsistent, CallMatchesLoop
  <1>3. DebuggerTypeOK'
    BY <1>1 DEF DebuggerInv, DebuggerTypeOK, Loop, InWait, Stops
  <1>4. SlotsCounted'
    BY <1>1, OthersCount DEF DebuggerInv, SessionConsistent
  <1>5. StepIsOne'
    BY <1>1 DEF DebuggerInv, SessionConsistent, StepIsOne
  <1> QED
    BY <1>1, <1>2, <1>3, <1>4, <1>5 DEF DebuggerInv, SessionConsistent, CallMatchesLoop,
       AwayFromBreakpoints

(* syscall() after an ecall and interrupt(0) after a wfi.                  *)
LEMMA WaitHandleInv == ASSUME DebuggerInv, WaitHandle PROVE DebuggerInv'
  <1>1. /\ loop = "handle" /\ loop' \in {"check", "ended"} /\ stop' \in {stop, "TargetError"}
        /\ UNCHANGED <<cycles, ran, input, conn, deferred, breakpoints, exec_mode, wanted, writes>>
    BY DEF WaitHandle, Goto, Ended, client
  <1>2. call' = "idle"
    BY DEF WaitHandle, Handles, Syscall, SyscallReturn, HInterrupt, Interrupt, Return
  <1>3. DebuggerTypeOK'
    BY <1>1 DEF DebuggerInv, DebuggerTypeOK, Loop, InWait, Stops
  <1>4. SlotsCounted'
    BY <1>1, OthersCount DEF DebuggerInv, SessionConsistent
  <1>5. StepIsOne'
    BY <1>1 DEF DebuggerInv, SessionConsistent, StepIsOne
  <1> QED
    BY <1>1, <1>2, <1>3, <1>4, <1>5 DEF DebuggerInv, SessionConsistent, CallMatchesLoop,
       AwayFromBreakpoints

(* What the session does to the bytes it read.                             *)
LEMMA ReadType ==
  ASSUME DebuggerTypeOK, input # <<>>
  PROVE  Tail(input) \in Seq(Bytes) /\ Len(Tail(input)) <= MaxInput
  <1>1. input \in Seq(Bytes) /\ Len(input) <= MaxInput /\ MaxInput \in Nat
    BY DebuggerAssumption DEF DebuggerTypeOK
  <1>2. Tail(input) \in Seq(Bytes) /\ Len(Tail(input)) = Len(input) - 1 /\ Len(input) \in Nat
    BY <1>1, HeadTailProperties
  <1> QED
    BY <1>1, <1>2

(* The counter of instructions wraps around.                               *)
LEMMA CycleType == ASSUME DebuggerTypeOK PROVE NextCycle \in 0..(CYCLES - 1) /\ 0 \in 0..(CYCLES - 1)
  <1>1. cycles + 1 \in Nat /\ CYCLES \in Nat /\ CYCLES > 0
    BY DebuggerAssumption DEF DebuggerTypeOK
  <1>2. \A n \in Nat, m \in Nat : m > 0 => n % m \in 0..(m - 1)
    BY SMT
  <1> QED
    BY <1>1, <1>2 DEF NextCycle

(* The end of the loop of wait_for_stop_reason: a stop, a byte read, or    *)
(* the next round.                                                         *)
LEMMA WaitCheckInv ==
  ASSUME DebuggerInv, WaitStops \/ WaitReads \/ WaitContinues PROVE DebuggerInv'
  <1>1. /\ loop = "check" /\ loop' \in {"stopped", "ended", "step"}
        /\ loop' = "step" => exec_mode = "Run" /\ ~AtBreakpoint
        /\ stop' \in {stop, "SwBreak", "DoneStep", "ConnectionError", "SIGINT"}
        /\ input' = input \/ (input # <<>> /\ input' = Tail(input))
        /\ cycles' \in {cycles, 0, NextCycle}
        /\ UNCHANGED <<hvars, ran, conn, deferred, breakpoints, exec_mode, wanted, writes>>
    BY DEF WaitStops, CheckStop, WaitReads, WaitContinues, Runs, Goto, Ended, Stopped, client
  <1>2. DebuggerTypeOK'
    BY <1>1, ReadType, CycleType DEF DebuggerInv, DebuggerTypeOK, Loop, InWait, Stops
  <1>3. SlotsCounted'
    BY <1>1, OthersCount DEF DebuggerInv, SessionConsistent
  <1>4. CallMatchesLoop' /\ StepIsOne'
    BY <1>1 DEF DebuggerInv, SessionConsistent, CallMatchesLoop, StepIsOne, hvars, vars
  <1>5. AwayFromBreakpoints'
    BY <1>1 DEF AwayFromBreakpoints, AtBreakpoint, hvars, vars
  <1> QED
    BY <1>2, <1>3, <1>4, <1>5 DEF DebuggerInv, SessionConsistent

(* While the session is not in wait_for_stop_reason the last three parts   *)
(* of the invariant ask only that no call is left open.                    *)
LEMMA OutsideWait ==
  ASSUME loop' \in {"stopped", "ended"}, call' = "idle"
  PROVE  CallMatchesLoop' /\ StepIsOne' /\ AwayFromBreakpoints'
  BY DEF CallMatchesLoop, StepIsOne, AwayFromBreakpoints

(* Packets that do not concern the breakpoints, and stray bytes.           *)
LEMMA StoppedInv ==
  ASSUME DebuggerInv, ReadsStray \/ Write \/ ReadCsr \/ BadRequest \/ Disconnect
  PROVE  DebuggerInv'
  <1>1. call = "idle"
    BY DEF ReadsStray, Write, ReadCsr, BadRequest, Disconnect, Packet, DebuggerInv,
       SessionConsistent, CallMatchesLoop
  <1>2. call' = call
    BY DEF ReadsStray, Write, ReadCsr, BadRequest, Disconnect, ClientWrites, HHostCsr, HostCsr,
       HostStore, hvars, vars
  <1>3. /\ loop = "stopped" /\ loop' \in {"stopped", "ended"}
        /\ stop' \in {stop, "ConnectionError", "TargetError", "Disconnected"}
        /\ input' = input \/ (input # <<>> /\ input' = Tail(input))
        /\ deferred' = deferred \/ deferred' = (deferred \/ Head(input) = "ctrl-c")
        /\ writes' = writes \/ (writes < MaxWrites /\ writes' = writes + 1)
        /\ UNCHANGED <<cycles, ran, conn, breakpoints, exec_mode, wanted>>
    BY DEF ReadsStray, Write, ReadCsr, BadRequest, Disconnect, Packet, Ended, client, session
  <1>4. deferred' \in BOOLEAN
    BY <1>3 DEF DebuggerInv, DebuggerTypeOK
  <1>5. writes' \in 0..MaxWrites
    BY <1>3, DebuggerAssumption DEF DebuggerInv, DebuggerTypeOK
  <1>6. input' \in Seq(Bytes) /\ Len(input') <= MaxInput
    BY <1>3, ReadType DEF DebuggerInv, DebuggerTypeOK
  <1>7. DebuggerTypeOK'
    BY <1>3, <1>4, <1>5, <1>6 DEF DebuggerInv, DebuggerTypeOK, Loop, InWait, Stops
  <1>8. SlotsCounted'
    BY <1>3, OthersCount DEF DebuggerInv, SessionConsistent
  <1> QED
    BY <1>1, <1>2, <1>3, <1>7, <1>8, OutsideWait DEF DebuggerInv, SessionConsistent

(* resume() and step() of the target.                                      *)
LEMMA ResumeInv == ASSUME DebuggerInv, NEW mode \in {"Step", "Run"}, Resume(mode) PROVE DebuggerInv'
  <1>1. /\ loop = "stopped" /\ exec_mode' = mode
        /\ \/ loop' = "stopped" /\ stop' = "SIGINT" /\ deferred' = FALSE /\ UNCHANGED <<cycles, ran>>
           \/ loop' = "step" /\ stop' = "None" /\ cycles' = 0 /\ ran' = 0 /\ UNCHANGED deferred
        /\ UNCHANGED <<call, input, conn, breakpoints, wanted, writes>>
    BY DEF Resume, Packet, Stopped, hvars, vars
  <1>2. DebuggerTypeOK'
    <2>1. DebuggerTypeOK
      BY DEF DebuggerInv
    <2>2. deferred' \in BOOLEAN
      BY <1>1, <2>1 DEF DebuggerTypeOK
    <2>3. cycles' \in 0..(CYCLES - 1) /\ ran' \in 0..2
      BY <1>1, <2>1, CycleType DEF DebuggerTypeOK
    <2>4. loop' \in Loop /\ stop' \in Stops /\ exec_mode' \in {"Step", "Run"}
      BY <1>1 DEF Loop, InWait, Stops
    <2> QED
      BY <1>1, <2>1, <2>2, <2>3, <2>4 DEF DebuggerTypeOK
  <1>3. SlotsCounted'
    BY <1>1, OthersCount DEF DebuggerInv, SessionConsistent
  <1> QED
    BY <1>1, <1>2, <1>3 DEF DebuggerInv, SessionConsistent, CallMatchesLoop, StepIsOne,
       AwayFromBreakpoints

(* add_sw_breakpoint and remove_sw_breakpoint.                             *)
LEMMA BreakpointInv ==
  ASSUME DebuggerInv, NEW a \in BreakAddrs, AddBreakpoint(a) \/ RemoveBreakpoint(a)
  PROVE  DebuggerInv'
  <1>1. loop = "stopped" /\ UNCHANGED <<call, loop, cycles, ran, stop, input, conn, deferred, exec_mode, writes>>
    BY DEF AddBreakpoint, RemoveBreakpoint, Packet, session, hvars, vars
  <1>2. /\ \E i \in 1..SLOTS, new \in {{}, {a}} : breakpoints' = [breakpoints EXCEPT ![i] = new]
        /\ \E n \in Nat : wanted' = [wanted EXCEPT ![a] = n]
        /\ SlotsCounted'
    <2>1. CASE AddBreakpoint(a)
      <3>1. wanted[a] + 1 \in Nat
        BY DEF DebuggerInv, DebuggerTypeOK
      <3> QED
        BY <2>1, <3>1, AddCounts DEF AddBreakpoint, Position, DebuggerInv, SessionConsistent
    <2>2. CASE RemoveBreakpoint(a)
      BY <2>2, RemoveCounts DEF RemoveBreakpoint, Position, DebuggerInv, SessionConsistent
    <2> QED
      BY <2>1, <2>2
  <1>3. /\ breakpoints' \in [1..SLOTS -> {{}} \cup {{b} : b \in BreakAddrs}]
        /\ wanted' \in [BreakAddrs -> Nat]
    <2> DEFINE Slot == {{}} \cup {{b} : b \in BreakAddrs}
    <2>1. breakpoints \in [1..SLOTS -> Slot] /\ wanted \in [BreakAddrs -> Nat]
      BY DEF DebuggerInv, DebuggerTypeOK
    <2>2. {} \in Slot /\ {a} \in Slot
      OBVIOUS
    <2> HIDE DEF Slot
    <2>3. breakpoints' \in [1..SLOTS -> Slot] /\ wanted' \in [BreakAddrs -> Nat]
      BY <1>2, <2>1, <2>2
    <2> QED
      BY <2>3 DEF Slot
  <1>4. DebuggerTypeOK'
    BY <1>1, <1>3 DEF DebuggerInv, DebuggerTypeOK
  <1>5. CallMatchesLoop' /\ StepIsOne' /\ AwayFromBreakpoints'
    BY <1>1, OutsideWait DEF DebuggerInv, SessionConsistent, CallMatchesLoop
  <1> QED
    BY <1>2, <1>4, <1>5 DEF DebuggerInv, SessionConsistent

(* The client sends a byte or hangs up while the target runs.              *)
LEMMA ClientInv ==
  ASSUME DebuggerInv, (\E byte \in Bytes : Send(byte)) \/ Hangup \/ UNCHANGED dvars
  PROVE  DebuggerInv'
  <1>1. /\ conn' \in {conn, "broken"}
        /\ UNCHANGED <<hvars, loop, cycles, ran, stop, deferred, breakpoints, exec_mode, wanted, writes>>
    BY DEF Send, Hangup, dvars, session, client
  <1>2. input' \in Seq(Bytes) /\ Len(input') <= MaxInput
    <2>1. input \in Seq(Bytes) /\ Len(input) \in Nat /\ Len(input) <= MaxInput /\ MaxInput \in Nat
      BY DebuggerAssumption, LenProperties DEF DebuggerInv, DebuggerTypeOK
    <2>2. ASSUME NEW byte \in Bytes, Send(byte) PROVE input' \in Seq(Bytes) /\ Len(input') <= MaxInput
      <3>1. Append(input, byte) \in Seq(Bytes) /\ Len(Append(input, byte)) = Len(input) + 1
        BY <2>1, AppendProperties
      <3> QED
        BY <2>1, <2>2, <3>1 DEF Send
    <2>3. CASE Hangup \/ UNCHANGED dvars
      BY <2>1, <2>3 DEF Hangup, dvars, session
    <2> QED
      BY <2>2, <2>3
  <1>3. DebuggerTypeOK'
    BY <1>1, <1>2 DEF DebuggerInv, DebuggerTypeOK
  <1>4. SlotsCounted'
    BY <1>1, OthersCount DEF DebuggerInv, SessionConsistent
  <1>5. CallMatchesLoop' /\ StepIsOne' /\ AwayFromBreakpoints'
    BY <1>1 DEF DebuggerInv, SessionConsistent, CallMatchesLoop, StepIsOne, AwayFromBreakpoints,
       AtBreakpoint, hvars, vars
  <1> QED
    BY <1>3, <1>4, <1>5 DEF DebuggerInv, SessionConsistent

-----------------------------------------------------------------------------
(* The session                                                             *)

(* Debugger::new.                                                          *)
LEMMA DebuggerInitInv == DInit => DebuggerInv
  <1> SUFFICES ASSUME DInit PROVE DebuggerInv
    OBVIOUS
  <1>1. input \in Seq(Bytes) /\ Len(input) = 0
    BY EmptySeq DEF DInit
  <1>2. DebuggerTypeOK
    <2>1. breakpoints \in [1..SLOTS -> {{}} \cup {{a} : a \in BreakAddrs}]
      BY DEF DInit
    <2>2. wanted \in [BreakAddrs -> Nat]
      BY DEF DInit
    <2>3. cycles \in 0..(CYCLES - 1) /\ ran \in 0..2 /\ writes \in 0..MaxWrites /\ Len(input) <= MaxInput
      BY <1>1, DebuggerAssumption DEF DInit
    <2>4. loop \in Loop /\ stop \in Stops /\ exec_mode \in {"Step", "Run"} /\ conn \in {"up", "broken"}
      BY DEF DInit, Loop, InWait, Stops
    <2>5. deferred \in BOOLEAN
      BY DEF DInit
    <2> QED
      BY <1>1, <2>1, <2>2, <2>3, <2>4, <2>5 DEF DebuggerTypeOK
  <1>3. \A a \in BreakAddrs : Slots(a) = {}
    BY DEF DInit, Slots
  <1>4. SlotsCounted
    BY <1>3, FS_EmptySet DEF DInit, SlotsCounted
  <1> QED
    BY <1>2, <1>4 DEF DebuggerInv, SessionConsistent, DInit, HInit, Init, CallMatchesLoop,
       StepIsOne, AwayFromBreakpoints

(* DebuggerInv is inductive.                                               *)
LEMMA DebuggerInductive == DebuggerInv /\ [DNext]_dvars => DebuggerInv'
  BY WaitStepInv, WaitExecInv, WaitHandleInv, WaitCheckInv, StoppedInv, ResumeInv,
     BreakpointInv, ClientInv DEF DNext, Wait

(* Debugger: the state of a session stays well formed, the counter of      *)
(* instructions included, however long the guest runs.                     *)
THEOREM DebuggerTypes == DSpec => []DebuggerTypeOK
  <1>1. DebuggerInv => DebuggerTypeOK
    BY DEF DebuggerInv
  <1> QED
    BY <1>1, DebuggerInitInv, DebuggerInductive, PTL DEF DSpec

(* Debugger: the parts of a session agree, whatever the client does.       *)
THEOREM SessionAgrees == DSpec => []SessionConsistent
  <1>1. DebuggerInv => SessionConsistent
    BY DEF DebuggerInv
  <1> QED
    BY <1>1, DebuggerInitInv, DebuggerInductive, PTL DEF DSpec

(* wait_for_stop_reason: no instruction is executed at a breakpoint, other *)
(* than the first after a resume.                                          *)
THEOREM BreakpointsStop == DSpec => NeverPassesBreakpoint
  <1> DEFINE A == loop = "exec" /\ loop' # "exec" /\ ran > 0 =>
                    \A a \in BreakAddrs : wanted[a] > 0 => pc # a
  <1>1. DebuggerInv => A
    <2> SUFFICES ASSUME DebuggerInv, loop = "exec", ran > 0,
                        NEW a \in BreakAddrs, wanted[a] > 0, pc = a
                 PROVE  FALSE
      OBVIOUS
    <2>1. ~AtBreakpoint
      BY DEF DebuggerInv, SessionConsistent, AwayFromBreakpoints
    <2>2. \E i \in 1..SLOTS : breakpoints[i] = {pc}
      BY WantedIsSlot DEF DebuggerInv, SessionConsistent
    <2> QED
      BY <2>1, <2>2 DEF AtBreakpoint
  <1> QED
    BY <1>1, DebuggerInitInv, DebuggerInductive, PTL DEF DSpec, NeverPassesBreakpoint

(* Standing at a breakpoint of the client and finding the pc in a slot are *)
(* the same.                                                               *)
LEMMA AtBreakpointIsWanted ==
  ASSUME DebuggerInv
  PROVE  AtBreakpoint <=> \E a \in BreakAddrs : wanted[a] > 0 /\ pc = a
  <1>1. ASSUME NEW i \in 1..SLOTS, breakpoints[i] = {pc} PROVE pc \in BreakAddrs
    <2>1. breakpoints[i] \in {{}} \cup {{a} : a \in BreakAddrs}
      BY DEF DebuggerInv, DebuggerTypeOK
    <2> QED
      BY <1>1, <2>1
  <1> QED
    BY <1>1, WantedIsSlot DEF AtBreakpoint, DebuggerInv, SessionConsistent

(* wait_for_stop_reason: a breakpoint is reported exactly when the program *)
(* stands at one, and a single step is one instruction.                    *)
THEOREM StopReasons == DSpec => StopReasonIsTrue
  <1> DEFINE A == loop = "check" /\ loop' = "stopped" =>
                    /\ (stop' = "SwBreak") <=> (\E a \in BreakAddrs : wanted[a] > 0 /\ pc = a)
                    /\ exec_mode = "Step" => ran = 1
                    /\ stop' = "DoneStep" => exec_mode = "Step"
  <1>1. DebuggerInv /\ [DNext]_dvars => [A]_dvars
    <2> SUFFICES ASSUME DebuggerInv, DNext, loop = "check", loop' = "stopped" PROVE A
      OBVIOUS
    <2>1. WaitStops \/ WaitReads
      BY DEF DNext, Wait, WaitStep, WaitExec, WaitHandle, WaitContinues, ReadsStray, Resume,
         AddBreakpoint, RemoveBreakpoint, Write, ReadCsr, BadRequest, Disconnect, Packet, Send,
         Hangup, Goto, Ended
    <2>2. stop' = "SwBreak" <=> AtBreakpoint
      BY <2>1 DEF WaitStops, CheckStop, WaitReads, Runs, Stopped, Ended, Goto
    <2>3. stop' = "DoneStep" => exec_mode = "Step"
      BY <2>1 DEF WaitStops, CheckStop, WaitReads, Stopped, Ended, Goto
    <2>4. exec_mode = "Step" => ran = 1
      BY DEF DebuggerInv, SessionConsistent, StepIsOne
    <2> QED
      BY <2>2, <2>3, <2>4, AtBreakpointIsWanted
  <1> QED
    BY <1>1, DebuggerInitInv, DebuggerInductive, PTL DEF DSpec, StopReasonIsTrue

-----------------------------------------------------------------------------
(* The debugger is one of the interpreter's owners                         *)

(* A step of the session does to the interpreter nothing, or one of the    *)
(* things any owner may do; it assigns registers only between two calls.   *)
LEMMA SessionSteps == DebuggerInv /\ DNext => AnyNext \/ UNCHANGED hvars
  <1> SUFFICES ASSUME DebuggerInv, DNext PROVE AnyNext \/ UNCHANGED hvars
    OBVIOUS
  <1>1. CASE WaitStep \/ WaitExec
    BY <1>1 DEF WaitStep, WaitExec, AnyNext
  <1>2. CASE WaitHandle
    <2>1. 0 \in Word
      BY SmallWords
    <2> QED
      BY <1>2, <2>1 DEF WaitHandle, Handles, AnyNext, HOther
  <1>3. CASE Write
    <2>1. Idle
      BY <1>3 DEF Write, Packet, Idle, DebuggerInv, SessionConsistent, CallMatchesLoop
    <2>2. ASSUME NEW regs \in HostRegisters, NEW target \in HostPcs, x' = regs, pc' = target,
                 UNCHANGED <<csr, mem, reservation, limit, call, budget, last, frame, lr, executed>>
          PROVE  HAssign
      BY <2>1, <2>2, HostAssumption DEF HAssign
    <2>3. ASSUME NEW o \in HostCsrOps, NEW v \in HostValues, HHostCsr(o[1], v, o[2])
          PROVE  AnyNext
      BY <2>3, HostAssumption DEF AnyNext
    <2>4. ASSUME HostStore, UNCHANGED <<frame, lr, executed>> PROVE HOther
      BY <2>4 DEF HOther
    <2> QED
      BY <1>3, <2>2, <2>3, <2>4 DEF Write, ClientWrites, AnyNext
  <1>4. CASE ReadCsr
    <2>1. 0 \in Word /\ HostCsrOps \subseteq CsrOp \X CsrName
      BY SmallWords, HostAssumption
    <2> QED
      BY <1>4, <2>1 DEF ReadCsr, AnyNext
  <1>5. CASE ~(WaitStep \/ WaitExec \/ WaitHandle \/ Write \/ ReadCsr)
    BY <1>5 DEF DNext, Wait, WaitStops, WaitReads, WaitContinues, ReadsStray,
       Resume, AddBreakpoint, RemoveBreakpoint, BadRequest, Disconnect, Send, Hangup
  <1> QED
    BY <1>1, <1>2, <1>3, <1>4, <1>5

(* The debugger implements the specification of an owner.                  *)
THEOREM DebuggerIsAnOwner == DSpec => AnySpec
  <1>1. DInit => HInit
    BY DEF DInit
  <1>2. DebuggerInv /\ [DNext]_dvars => [AnyNext]_hvars
    BY SessionSteps DEF dvars
  <1> QED
    BY <1>1, <1>2, DebuggerInitInv, DebuggerInductive, PTL DEF DSpec, AnySpec

(* So everything the interpreter promises any owner holds of a debugged    *)
(* guest too: breakpoints, single steps, reads and writes by the client    *)
(* break no trap frame, no reservation and no error report.                *)
THEOREM DebuggedGuest ==
  DSpec => /\ []TypeOK /\ []TrapFrameIntact
           /\ TrapReturnsToInterruptedCode /\ ErrorIsPrecise /\ ScSucceedsExactlyAfterLr
  BY DebuggerIsAnOwner, AnyTypeCorrect, TrapFrame, TrapReturns, PreciseErrors, ScExact, PTL

-----------------------------------------------------------------------------
(* Reads of the control and status registers                               *)

\* What trap_entry and operation() leave in mtvec.
MtvecAligned == csr.mtvec % 4 = 0

(* v & !(k - 1) is a multiple of k, and is v when v is one.                *)
LEMMA ClearLowMultiple ==
  ASSUME NEW v \in Nat, NEW k \in {2, 4}
  PROVE  ClearLow(v, k) % k = 0 /\ (v % k = 0 => ClearLow(v, k) = v)
  BY DEF ClearLow

(* operation() masks what it writes to mtvec and writes it nowhere else.   *)
LEMMA OperationKeepsAligned ==
  ASSUME NEW c \in CsrFile, c.mtvec % 4 = 0,
         NEW op \in CsrOp, NEW val \in Word, NEW a \in CsrName
  PROVE  Operation(c, op, val, a).mtvec % 4 = 0
  <1> DEFINE new == ExecuteOperation(op, val, CsrRead(c, a))
  <1>1. new \in Nat
    BY CsrReadType, ExecuteOperationType, WordIsInt
  <1> HIDE DEF new
  <1>2. Operation(c, op, val, a) = CsrWrite(c, a, new)
    BY DEF Operation, new
  <1>3. CASE a = "mtvec"
    <2>1. CsrWrite(c, a, new).mtvec = ClearLow(new, 4)
      BY <1>3 DEF CsrWrite, CsrFile
    <2> QED
      BY <1>1, <1>2, <2>1, ClearLowMultiple
  <1>4. CASE a # "mtvec"
    <2>1. CsrWrite(c, a, new).mtvec = c.mtvec
      BY <1>4 DEF CsrWrite, CsrFile, CsrName
    <2> QED
      BY <1>2, <2>1
  <1> QED
    BY <1>3, <1>4

(* An instruction leaves mtvec aligned.                                    *)
LEMMA StepKeepsAligned == ASSUME TypeOK, MtvecAligned, Step PROVE MtvecAligned'
  <1>1. CASE ~SystemMiscMem
    BY <1>1, StepKeepsCsr DEF MtvecAligned
  <1>2. CASE SystemMiscMem
    <2>1. csr \in CsrFile
      BY DEF TypeOK
    <2>2. CASE UNCHANGED csr
      BY <2>2 DEF MtvecAligned
    <2>3. CASE csr' = TrapReturn(csr)
      BY <2>1, <2>3 DEF MtvecAligned, TrapReturn, CsrFile
    <2>4. CASE CsrAccess /\ csr' # csr
      <3>1. /\ I.func \in CsrFunc
            /\ csr' = Operation(csr, CsrInstrOp(I.func, I.rs1), CsrInstrVal(I.func, I.rs1), I.csr)
        BY <2>4 DEF CsrAccess, Fail, guest
      <3>2. /\ CsrInstrOp(I.func, I.rs1) \in CsrOp
            /\ CsrInstrVal(I.func, I.rs1) \in Word /\ I.csr \in CsrName
        <4>1. I.rs1 \in Reg /\ I.csr \in CsrName /\ x \in [Reg -> Word]
          <5>1. Decoded("SystemMiscMem")
            BY <1>2 DEF SystemMiscMem
          <5> QED
            BY <5>1, OperandTypes DEF Instr, TypeOK
        <4>2. CsrInstrOp(I.func, I.rs1) \in CsrOp
          BY <3>1 DEF CsrInstrOp, CsrFunc, CsrOp
        <4>3. \A r \in Reg : r \in Word
          BY SmallWords DEF Reg
        <4> QED
          BY <4>1, <4>2, <4>3 DEF CsrInstrVal
      <3> QED
        BY <2>1, <3>1, <3>2, OperationKeepsAligned DEF MtvecAligned
    <2> QED
      BY <1>2, <2>2, <2>3, <2>4 DEF SystemMiscMem, Fail, guest
  <1> QED
    BY <1>1, <1>2

(* MtvecAligned is inductive under any owner.                              *)
LEMMA AlignedInductive == TypeOK /\ MtvecAligned /\ [AnyNext]_hvars => MtvecAligned'
  <1> SUFFICES ASSUME TypeOK, MtvecAligned, [AnyNext]_hvars PROVE MtvecAligned'
    OBVIOUS
  <1>1. csr \in CsrFile
    BY DEF TypeOK
  <1>2. CASE HStep
    BY <1>2, StepKeepsAligned DEF HStep
  <1>3. CASE HCall \/ HOther \/ HAssign \/ UNCHANGED hvars
    <2>1. UNCHANGED csr
      BY <1>3 DEF HCall, HOther, HAssign, CallRun, CallStep, Syscall, SyscallAsync, PollAsync,
         CompleteAsync, DropAsync, SetPc, SetRegisters, SetLimit, HostStore, SyscallReturn,
         guest, hvars, vars
    <2> QED
      BY <2>1 DEF MtvecAligned
  <1>4. CASE HReset
    BY <1>4 DEF HReset, Reset, MtvecAligned, DefaultCsr
  <1>5. ASSUME NEW v \in Word, HInterrupt(v) PROVE MtvecAligned'
    BY <1>1, <1>5 DEF HInterrupt, Interrupt, MtvecAligned, TrapEntry, SetInterrupt, CsrFile
  <1>6. ASSUME NEW o \in CsrOp \X CsrName, NEW v \in Word, HHostCsr(o[1], v, o[2])
        PROVE  MtvecAligned'
    <2>1. o[1] \in CsrOp /\ o[2] \in CsrName
      OBVIOUS
    <2>2. Operation(csr, o[1], v, o[2]).mtvec % 4 = 0
      BY <1>1, <2>1, OperationKeepsAligned DEF MtvecAligned
    <2> QED
      BY <1>6, <2>2 DEF HHostCsr, HostCsr, MtvecAligned
  <1> QED
    BY <1>2, <1>3, <1>4, <1>5, <1>6 DEF AnyNext

(* A flag read as a bit and masked out again is the flag.                  *)
LEMMA FlagRoundTrip ==
  ASSUME NEW f \in BOOLEAN, NEW g \in BOOLEAN
  PROVE  /\ \A w \in Nat \ {0} : BitSet(Flag(f, w), w) = f
         /\ BitSet(Flag(f, MSTATUS_MIE) + Flag(g, MSTATUS_MPIE), MSTATUS_MIE) = f
         /\ BitSet(Flag(f, MSTATUS_MIE) + Flag(g, MSTATUS_MPIE), MSTATUS_MPIE) = g
  <1>1. \A v, w : BitSet(v, w) \in BOOLEAN
    BY DEF BitSet
  <1>2. ASSUME NEW w \in Nat \ {0} PROVE BitSet(Flag(f, w), w) <=> f
    <2>1. (w \div w) % 2 = 1 /\ (0 \div w) % 2 = 0
      BY SMT
    <2>2. BitSet(w, w) /\ ~BitSet(0, w)
      BY <2>1 DEF BitSet
    <2> QED
      BY <2>2 DEF Flag
  <1>3. /\ BitSet(Flag(f, 8) + Flag(g, 128), 8) <=> f
        /\ BitSet(Flag(f, 8) + Flag(g, 128), 128) <=> g
    BY DEF BitSet, Flag
  <1> QED
    BY <1>1, <1>2, <1>3 DEF MSTATUS_MIE, MSTATUS_MPIE

(* operation() without an operand writes back what it read.                *)
LEMMA ReadKeepsCsr ==
  ASSUME NEW c \in CsrFile, c.mtvec % 4 = 0, c.mepc % 2 = 0, NEW v, NEW a \in CsrName
  PROVE  Operation(c, "none", v, a) = c
  <1>1. Operation(c, "none", v, a) = CsrWrite(c, a, CsrRead(c, a))
    BY DEF Operation, ExecuteOperation
  <1>2. /\ c.mtvec \in Nat /\ c.mepc \in Nat
        /\ c.mie \in BOOLEAN /\ c.mip \in BOOLEAN /\ c.MIE \in BOOLEAN /\ c.MPIE \in BOOLEAN
    BY WordIsInt DEF CsrFile
  <1>3. CASE a = "mtvec"
    <2>1. CsrWrite(c, a, CsrRead(c, a)) = [c EXCEPT !.mtvec = ClearLow(c.mtvec, 4)]
      BY <1>3 DEF CsrWrite, CsrRead
    <2>2. ClearLow(c.mtvec, 4) = c.mtvec
      BY <1>2, ClearLowMultiple
    <2> QED
      BY <1>1, <2>1, <2>2 DEF CsrFile
  <1>4. CASE a = "mepc"
    <2>1. CsrWrite(c, a, CsrRead(c, a)) = [c EXCEPT !.mepc = ClearLow(c.mepc, 2)]
      BY <1>4 DEF CsrWrite, CsrRead
    <2>2. ClearLow(c.mepc, 2) = c.mepc
      BY <1>2, ClearLowMultiple
    <2> QED
      BY <1>1, <2>1, <2>2 DEF CsrFile
  <1>5. CASE a \in {"mie", "mip"}
    <2>1. MI_E_P_MASK \in Nat \ {0}
      BY CsrAssumption, WordIsInt DEF MI_E_P_MASK
    <2>2. BitSet(Flag(c.mie, MI_E_P_MASK), MI_E_P_MASK) = c.mie
          /\ BitSet(Flag(c.mip, MI_E_P_MASK), MI_E_P_MASK) = c.mip
      BY <1>2, <2>1, FlagRoundTrip
    <2>3. CASE a = "mie"
      <3>1. CsrWrite(c, a, CsrRead(c, a)) = [c EXCEPT !.mie = BitSet(Flag(c.mie, MI_E_P_MASK), MI_E_P_MASK)]
        BY <2>3 DEF CsrWrite, CsrRead
      <3> QED
        BY <1>1, <2>2, <3>1 DEF CsrFile
    <2>4. CASE a = "mip"
      <3>1. CsrWrite(c, a, CsrRead(c, a)) = [c EXCEPT !.mip = BitSet(Flag(c.mip, MI_E_P_MASK), MI_E_P_MASK)]
        BY <2>4 DEF CsrWrite, CsrRead
      <3> QED
        BY <1>1, <2>2, <3>1 DEF CsrFile
    <2> QED
      BY <1>5, <2>3, <2>4
  <1>6. CASE a = "mstatus"
    <2> DEFINE w == Flag(c.MIE, MSTATUS_MIE) + Flag(c.MPIE, MSTATUS_MPIE)
    <2>1. BitSet(w, MSTATUS_MIE) = c.MIE /\ BitSet(w, MSTATUS_MPIE) = c.MPIE
      BY <1>2, FlagRoundTrip
    <2>2. CsrWrite(c, a, CsrRead(c, a)) = [c EXCEPT !.MIE = BitSet(w, MSTATUS_MIE),
                                                    !.MPIE = BitSet(w, MSTATUS_MPIE)]
      BY <1>6 DEF CsrWrite, CsrRead
    <2> HIDE DEF w
    <2> QED
      BY <1>1, <2>1, <2>2 DEF CsrFile
  <1>7. CASE a \in {"mscratch", "mcause", "mtval"}
    BY <1>1, <1>7 DEF CsrWrite, CsrRead, CsrFile
  <1>8. CASE a \in {"misa", "ignored", "unsupported"}
    BY <1>1, <1>8 DEF CsrWrite
  <1> QED
    BY <1>3, <1>4, <1>5, <1>6, <1>7, <1>8 DEF CsrName

(* A session is transparent: between the client's writes the interpreter   *)
(* does what a plain loop makes it do, and a CSR read leaves no trace.     *)
THEOREM Transparency == DSpec => SessionIsTransparent
  <1> DEFINE A == writes' = writes /\ csr.mepc % 2 = 0 =>
                    \/ loop = "step" /\ HCall
                    \/ loop = "exec" /\ HStep
                    \/ loop = "handle" /\ Handles
  <1>1. TypeOK /\ MtvecAligned /\ DebuggerInv /\ [DNext]_dvars => [A]_hvars
    <2> SUFFICES ASSUME TypeOK, MtvecAligned, DebuggerInv, [DNext]_dvars,
                        writes' = writes, csr.mepc % 2 = 0, hvars' # hvars
                 PROVE  A
      OBVIOUS
    <2>1. CASE WaitStep \/ WaitExec \/ WaitHandle
      BY <2>1 DEF WaitStep, WaitExec, WaitHandle
    <2>2. CASE ReadCsr
      <3>1. PICK o \in HostCsrOps : o[1] = "none" /\ HHostCsr(o[1], 0, o[2])
        BY <2>2 DEF ReadCsr
      <3>2. o[2] \in CsrName /\ csr \in CsrFile
        BY HostAssumption DEF TypeOK
      <3>3. Operation(csr, "none", 0, o[2]) = csr
        BY <3>2, ReadKeepsCsr DEF MtvecAligned
      <3>4. UNCHANGED hvars
        BY <3>1, <3>3 DEF HHostCsr, HostCsr, hvars, vars
      <3> QED
        BY <3>4
    <2>3. CASE Write
      <3>1. writes' = writes + 1 /\ writes \in Nat
        BY <2>3 DEF Write, DebuggerInv, DebuggerTypeOK
      <3> QED
        BY <3>1
    <2>4. CASE ~(WaitStep \/ WaitExec \/ WaitHandle \/ Write \/ ReadCsr)
      <3>1. UNCHANGED hvars
        BY <2>4 DEF DNext, Wait, WaitStops, WaitReads, WaitContinues, ReadsStray,
           Resume, AddBreakpoint, RemoveBreakpoint, BadRequest, Disconnect, Send, Hangup, dvars
      <3> QED
        BY <3>1
    <2> QED
      BY <2>1, <2>2, <2>3, <2>4
  <1>2. DInit => MtvecAligned
    BY DEF DInit, HInit, Init, DefaultCsr, MtvecAligned
  <1>3. DSpec => []TypeOK
    BY DebuggerIsAnOwner, AnyTypeCorrect, PTL
  <1> HIDE DEF A
  <1>4. DSpec => [][A]_hvars
    BY <1>1, <1>2, <1>3, DebuggerIsAnOwner, AlignedInductive, DebuggerInitInv,
       DebuggerInductive, PTL DEF DSpec, AnySpec
  <1> QED
    BY <1>4, PTL DEF SessionIsTransparent, A

=============================================================================
