----------------------------- MODULE PlatformProofs -----------------------------
(***************************************************************************)
(* The circuit breaker of the market data functions, for any number of      *)
(* threads, functions, failures that open it and probes that may close it:  *)
(* it lets no more probes through than it may, it is never stuck, and it is *)
(* closed only while its source is healthy.                                *)
(*                                                                         *)
(* Then the parts of MCPlatform: ChatStreamProofs, StorageProofs and        *)
(* TradingEngineProofs are instantiated over the variables of the          *)
(* composition, and what they prove of a part for any bounds holds in every *)
(* behaviour of that part.                                                 *)
(***************************************************************************)
EXTENDS MCPlatform, FiniteSetTheorems, TLAPS

Phases == {"idle", "state", "admit", "calling", "store", "failed"}
Calls == [pc : Phases, name : Used \cup {"none"}, seen : {"none", "closed", "open", "half_open"},
          probe : BOOLEAN]
Typed ==
    /\ state \in {"closed", "open", "half_open"} /\ failures \in 0..Threshold
    /\ probes \in 0..Probes /\ waited \in BOOLEAN /\ failed \subseteq Used
    /\ answers \in [Used -> {"none", "fresh", "expired"}]
    /\ call \in [Callers -> Calls]
    \* Who is beyond the caches calls a function.
    /\ \A c \in Callers : call[c].pc # "idle" => call[c].name \in Used

Breaks == Threshold \in Nat \ {0} /\ Probes \in Nat \ {0}
Probing == {c \in Callers : call[c].probe}
\* The probes that are under way were counted; only a call is a probe, and a
\* recovery with a probe waits for one.
Recovery ==
    /\ IsFiniteSet(Probing) /\ Cardinality(Probing) <= probes
    /\ \A c \in Probing : call[c].pc = "calling"
    /\ state = "half_open" /\ probes > 0 => \E c \in Callers : call[c].probe
    /\ state = "closed" => failures < Threshold

LEMMA CallsAreClosed ==
    /\ Idle \in Calls
    /\ \A k \in Calls, pc \in Phases : [k EXCEPT !.pc = pc] \in Calls
    /\ \A k \in Calls, pc \in Phases, b \in BOOLEAN : [k EXCEPT !.pc = pc, !.probe = b] \in Calls
    /\ \A k \in Calls, b \in BOOLEAN : [k EXCEPT !.probe = b] \in Calls
    /\ \A k \in Calls, pc \in Phases, seen \in {"closed", "open", "half_open"} :
          [k EXCEPT !.pc = pc, !.seen = seen] \in Calls
    /\ \A f \in Used : [Idle EXCEPT !.pc = "state", !.name = f] \in Calls
BY DEF Calls, Phases, Idle

\* What the changes of a call leave alone.
LEMMA CallFields ==
    ASSUME NEW k \in Calls, NEW pc, NEW any
    PROVE  LET moved == [k EXCEPT !.pc = pc]
               probing == [k EXCEPT !.pc = pc, !.probe = any]
               flagged == [k EXCEPT !.probe = any]
               saw == [k EXCEPT !.pc = pc, !.seen = any]
           IN /\ moved.pc = pc /\ moved.name = k.name /\ moved.probe = k.probe
              /\ probing.pc = pc /\ probing.name = k.name /\ probing.probe = any
              /\ flagged.pc = k.pc /\ flagged.name = k.name /\ flagged.probe = any
              /\ saw.pc = pc /\ saw.name = k.name /\ saw.probe = k.probe
BY DEF Calls

LEMMA CallMoves ==
    ASSUME call \in [Callers -> Calls], NEW c \in Callers, NEW next \in Calls,
           call' = [call EXCEPT ![c] = next]
    PROVE  call' \in [Callers -> Calls] /\ call'[c] = next /\ \A d \in Callers \ {c} : call'[d] = call[d]
OBVIOUS

\* Every variable has its type, the counters their bounds (CircuitBreaker,
\* data/akshare_provider.py).
THEOREM TypeCorrect ==
    ASSUME Breaks
    PROVE  Spec => []Typed
<1>1. Init => Typed
  <2>1. 0 \in 0..Threshold /\ 0 \in 0..Probes  BY DEF Breaks
  <2>2. Idle.pc = "idle"  BY DEF Idle
  <2> QED  BY <2>1, <2>2, CallsAreClosed DEF Init, Typed
<1>2. Typed /\ [Next]_vars => Typed'
  <2> SUFFICES ASSUME Typed, [Next]_vars PROVE Typed'
    OBVIOUS
  <2>a. call \in [Callers -> Calls] /\ \A c \in Callers : call[c] \in Calls
    BY DEF Typed
  <2>b. Threshold \in Nat /\ Probes \in Nat /\ 0 \in 0..Threshold /\ 0 \in 0..Probes
    BY DEF Breaks
  \* A call moves on with the function it calls.
  <2>c. ASSUME NEW c \in Callers, NEW next \in Calls, call' = [call EXCEPT ![c] = next],
               next.pc # "idle" => next.name \in Used
        PROVE  /\ call' \in [Callers -> Calls]
               /\ \A d \in Callers : call'[d].pc # "idle" => call'[d].name \in Used
    BY <2>c, <2>a, CallMoves DEF Typed
  <2>1. ASSUME NEW c \in Callers, NEW f \in Used, Look(c, f) PROVE Typed'
    <3> DEFINE next == [Idle EXCEPT !.pc = "state", !.name = f]
    <3>1. next \in Calls  BY CallsAreClosed
    <3>2. next.name = f  BY DEF Idle
    <3> HIDE DEF next
    <3>3. call' = [call EXCEPT ![c] = next]  BY <2>1 DEF Look, next
    <3> QED  BY <2>1, <2>c, <3>1, <3>2, <3>3 DEF Look, Typed
  <2>2. ASSUME NEW c \in Callers, ReadState(c) PROVE Typed'
    <3> DEFINE recovers == state = "open" /\ waited
               next(d) == IF d = c THEN [call[c] EXCEPT !.pc = "admit", !.seen = state']
                          ELSE [call[d] EXCEPT !.probe = @ /\ ~recovers]
    <3>1. call' = [d \in Callers |-> next(d)]  BY <2>2 DEF ReadState
    <3>2. state' \in {"closed", "open", "half_open"} /\ call[c].pc = "state"  BY <2>2 DEF ReadState, Typed
    <3>3. \A d \in Callers : next(d) \in Calls
      <4>1. \A d \in Callers : (call[d].probe /\ ~recovers) \in BOOLEAN  OBVIOUS
      <4>2. [call[c] EXCEPT !.pc = "admit", !.seen = state'] \in Calls
        BY <2>a, <3>2, CallsAreClosed DEF Phases
      <4>3. \A d \in Callers : [call[d] EXCEPT !.probe = @ /\ ~recovers] \in Calls
        BY <2>a, <4>1, CallsAreClosed
      <4> QED  BY <4>2, <4>3
    <3>4. \A d \in Callers : next(d).name = call[d].name /\ (next(d).pc # "idle" => call[d].pc # "idle")
      BY <2>a, <3>2, CallFields
    <3> HIDE DEF next
    <3>5. call' \in [Callers -> Calls] /\ \A d \in Callers : call'[d] = next(d)  BY <3>1, <3>3
    <3>6. probes' \in 0..Probes  BY <2>2, <2>b DEF ReadState, FirstProbes, Typed
    <3>7. UNCHANGED <<failures, waited, answers, failed>>  BY <2>2 DEF ReadState
    <3>8. \A d \in Callers : call'[d].pc # "idle" => call'[d].name \in Used  BY <3>4, <3>5 DEF Typed
    <3> QED  BY <3>2, <3>5, <3>6, <3>7, <3>8 DEF Typed
  <2>3. ASSUME NEW c \in Callers, Admit(c) PROVE Typed'
    <3>1. call[c].pc = "admit" /\ call[c].name \in Used /\ probes' \in 0..Probes
          /\ UNCHANGED <<state, failures, waited, answers, failed>>
      BY <2>3, <2>b DEF Admit, FreeProbe, Typed
    <3>2. PICK next \in Calls : call' = [call EXCEPT ![c] = next] /\ next.name = call[c].name
      <4> DEFINE go == [call[c] EXCEPT !.pc = "calling"]
                 probe == [call[c] EXCEPT !.pc = "calling", !.probe = TRUE]
                 stop == [call[c] EXCEPT !.pc = "failed"]
      <4>1. go \in Calls /\ probe \in Calls /\ stop \in Calls  BY <2>a, CallsAreClosed DEF Phases
      <4>2. go.name = call[c].name /\ probe.name = call[c].name /\ stop.name = call[c].name
        BY <2>a, CallFields
      <4>3. \E next \in {go, probe, stop} : call' = [call EXCEPT ![c] = next]
        BY <2>3 DEF Admit
      <4> HIDE DEF go, probe, stop
      <4> QED  BY <4>1, <4>2, <4>3
    <3> QED  BY <2>c, <3>1, <3>2 DEF Typed
  <2>4. ASSUME NEW c \in Callers, Succeed(c) \/ Fail(c) PROVE Typed'
    <3>1. call[c].pc = "calling" /\ call[c].name \in Used  BY <2>4 DEF Succeed, Fail, Typed
    <3>2. /\ state' \in {"closed", "open", "half_open"} /\ waited' \in BOOLEAN
          /\ failures' \in 0..Threshold /\ UNCHANGED <<probes, answers, failed>>
      <4>1. failures \in 0..Threshold /\ state \in {"closed", "open", "half_open"} /\ waited \in BOOLEAN
        BY DEF Typed
      <4>2. failures # Threshold => failures + 1 \in 0..Threshold  BY <2>b, <4>1
      <4>3. CASE Succeed(c)  BY <2>b, <4>1, <4>3 DEF Succeed
      <4>4. CASE Fail(c)  BY <4>1, <4>2, <4>4 DEF Fail
      <4> QED  BY <2>4, <4>3, <4>4
    <3>3. PICK next \in Calls : call' = [call EXCEPT ![c] = next] /\ next.name = call[c].name
      <4> DEFINE done == [call[c] EXCEPT !.pc = "store", !.probe = FALSE]
                 fails == [call[c] EXCEPT !.pc = "failed", !.probe = FALSE]
      <4>1. done \in Calls /\ fails \in Calls  BY <2>a, CallsAreClosed DEF Phases
      <4>2. done.name = call[c].name /\ fails.name = call[c].name  BY <2>a, CallFields
      <4>3. \E next \in {done, fails} : call' = [call EXCEPT ![c] = next]
        BY <2>4 DEF Succeed, Fail
      <4> HIDE DEF done, fails
      <4> QED  BY <4>1, <4>2, <4>3
    <3> QED  BY <2>c, <3>1, <3>2, <3>3 DEF Typed
  <2>6. ASSUME NEW c \in Callers, Store(c) \/ StoreFailure(c) PROVE Typed'
    <3>1. Idle \in Calls /\ Idle.pc = "idle"  BY CallsAreClosed DEF Idle
    <3>2. call' = [call EXCEPT ![c] = Idle] /\ call[c].name \in Used
      BY <2>6 DEF Store, StoreFailure, Typed
    <3>3. /\ answers' \in [Used -> {"none", "fresh", "expired"}] /\ failed' \subseteq Used
          /\ UNCHANGED <<state, failures, probes, waited>>
      BY <2>6, <3>2 DEF Store, StoreFailure, Typed
    <3> QED  BY <2>c, <3>1, <3>2, <3>3 DEF Typed
  <2>7. ASSUME NEW f \in Used, Expire(f) PROVE Typed'
    BY <2>7 DEF Expire, Typed
  <2>8. CASE TimePasses
    BY <2>8 DEF TimePasses, Typed
  <2>9. CASE UNCHANGED vars
    BY <2>9 DEF vars, Typed
  <2> QED
    BY <2>1, <2>2, <2>3, <2>4, <2>6, <2>7, <2>8, <2>9 DEF Next
<1> QED  BY <1>1, <1>2, PTL DEF Spec
-----------------------------------------------------------------------------
\* A step after which the same calls are probes, or fewer of them.
LEMMA FewerProbes ==
    ASSUME IsFiniteSet(Probing), Probing' \subseteq Probing
    PROVE  IsFiniteSet(Probing') /\ Cardinality(Probing') <= Cardinality(Probing)
           /\ Cardinality(Probing') \in Nat /\ Cardinality(Probing) \in Nat
BY FS_Subset, FS_CardinalityType

\* The breaker of the market data (CircuitBreaker, data/akshare_provider.py): a
\* recovery sends no more probes than it may, a breaker whose probes are taken waits
\* for one of them, and a closed one has seen fewer failures in a row than open it.
THEOREM BreakerRecoversHolds ==
    ASSUME Breaks
    PROVE  Spec => []BreakerRecovers
<1>1. Init => Recovery
  <2> SUFFICES ASSUME Init PROVE Recovery
    OBVIOUS
  <2>1. Probing = {}  BY DEF Init, Idle, Probing
  <2>2. IsFiniteSet(Probing) /\ Cardinality(Probing) = 0  BY <2>1, FS_EmptySet
  <2>3. state = "closed" /\ failures = 0 /\ probes = 0 /\ 0 < Threshold  BY DEF Init, Breaks
  <2> QED  BY <2>1, <2>2, <2>3 DEF Recovery
<1>2. Typed /\ Recovery /\ [Next]_vars => Recovery'
  <2> SUFFICES ASSUME Typed, Recovery, [Next]_vars PROVE Recovery'
    OBVIOUS
  <2>a. /\ call \in [Callers -> Calls] /\ \A c \in Callers : call[c] \in Calls
        /\ failures \in Nat /\ probes \in Nat /\ state \in {"closed", "open", "half_open"}
    BY DEF Typed, Breaks
  <2>b. /\ IsFiniteSet(Probing) /\ Cardinality(Probing) <= probes
        /\ \A c \in Callers : call[c].probe => call[c].pc = "calling"
        /\ state = "half_open" /\ probes > 0 => \E c \in Callers : call[c].probe
        /\ state = "closed" => failures < Threshold
    BY DEF Recovery, Probing
  \* A call that was no probe moves on and is none, and the breaker stays.
  <2>c. ASSUME NEW c \in Callers, NEW next \in Calls, call' = [call EXCEPT ![c] = next],
               ~call[c].probe, ~next.probe, UNCHANGED <<state, failures, probes>>
        PROVE  Recovery'
    <3>1. call'[c] = next /\ \A d \in Callers \ {c} : call'[d] = call[d]  BY <2>a, <2>c
    <3>2. \A d \in Callers : call'[d].probe <=> call[d].probe  BY <2>c, <3>1
    <3>3. Probing' = Probing  BY <3>2 DEF Probing
    <3>4. \A d \in Probing' : call'[d].pc = "calling"  BY <2>b, <2>c, <3>1, <3>2 DEF Probing
    <3> QED  BY <2>b, <2>c, <3>2, <3>3, <3>4 DEF Recovery
  <2>1. ASSUME NEW c \in Callers, NEW f \in Used, Look(c, f) PROVE Recovery'
    <3> DEFINE next == [Idle EXCEPT !.pc = "state", !.name = f]
    <3>1. next \in Calls  BY CallsAreClosed
    <3>2. ~next.probe  BY DEF Idle
    <3> HIDE DEF next
    <3>3. call' = [call EXCEPT ![c] = next] /\ call[c].pc = "idle"  BY <2>1 DEF Look, next
    <3>4. ~call[c].probe  BY <2>b, <3>3
    <3> QED  BY <2>1, <2>c, <3>1, <3>2, <3>3, <3>4 DEF Look
  <2>2. ASSUME NEW c \in Callers, ReadState(c) PROVE Recovery'
    <3> DEFINE recovers == state = "open" /\ waited
    <3>1. /\ call[c].pc = "state" /\ UNCHANGED failures
          /\ state' = (IF recovers THEN "half_open" ELSE state) /\ probes' = (IF recovers THEN 0 ELSE probes)
          /\ call' = [d \in Callers |-> IF d = c THEN [call[c] EXCEPT !.pc = "admit", !.seen = state']
                                        ELSE [call[d] EXCEPT !.probe = @ /\ ~recovers]]
      BY <2>2 DEF ReadState, FirstProbes
    <3>2. ~call[c].probe /\ call'[c].probe = call[c].probe
      <4> DEFINE saw == [call[c] EXCEPT !.pc = "admit", !.seen = state']
      <4>1. saw.probe = call[c].probe  BY <2>a, CallFields
      <4>2. call'[c] = saw  BY <3>1
      <4> HIDE DEF saw
      <4> QED  BY <2>b, <3>1, <4>1, <4>2
    <3>3. \A d \in Callers \ {c} : call'[d].pc = call[d].pc /\ call'[d].probe = (call[d].probe /\ ~recovers)
      <4> TAKE d \in Callers \ {c}
      <4> DEFINE flagged == [call[d] EXCEPT !.probe = call[d].probe /\ ~recovers]
      <4>1. flagged.pc = call[d].pc /\ flagged.probe = (call[d].probe /\ ~recovers)  BY <2>a, CallFields
      <4>2. call'[d] = flagged  BY <3>1
      <4> HIDE DEF flagged
      <4> QED  BY <4>1, <4>2
    <3>4. CASE recovers
      <4>1. Probing' = {}  BY <3>2, <3>3, <3>4 DEF Probing
      <4>2. IsFiniteSet(Probing') /\ Cardinality(Probing') = 0  BY <4>1, FS_EmptySet
      <4> QED  BY <3>1, <3>4, <4>1, <4>2 DEF Recovery
    <3>5. CASE ~recovers
      <4>1. \A d \in Callers : call'[d].probe <=> call[d].probe  BY <2>a, <3>2, <3>3, <3>5 DEF Calls
      <4>2. Probing' = Probing  BY <4>1 DEF Probing
      <4>3. \A d \in Probing' : call'[d].pc = "calling"  BY <2>b, <3>2, <3>3, <4>1 DEF Probing
      <4> QED  BY <2>b, <3>1, <3>5, <4>1, <4>2, <4>3 DEF Recovery
    <3> QED  BY <3>4, <3>5
  <2>3. ASSUME NEW c \in Callers, Admit(c) PROVE Recovery'
    <3>1. call[c].pc = "admit" /\ ~call[c].probe /\ UNCHANGED <<state, failures>>  BY <2>3, <2>b DEF Admit
    <3> DEFINE go == [call[c] EXCEPT !.pc = "calling"]
               probe == [call[c] EXCEPT !.pc = "calling", !.probe = TRUE]
               stop == [call[c] EXCEPT !.pc = "failed"]
    <3>2. go \in Calls /\ stop \in Calls /\ probe \in Calls  BY <2>a, CallsAreClosed DEF Phases
    <3>3. /\ go.probe = call[c].probe /\ stop.probe = call[c].probe
          /\ probe.probe = TRUE /\ probe.pc = "calling"
      BY <2>a, CallFields
    <3> HIDE DEF go, probe, stop
    <3>4. \/ (call' = [call EXCEPT ![c] = go] \/ call' = [call EXCEPT ![c] = stop]) /\ UNCHANGED probes
          \/ call' = [call EXCEPT ![c] = probe] /\ probes' = probes + 1
      BY <2>3 DEF Admit, go, probe, stop
    <3>5. CASE (call' = [call EXCEPT ![c] = go] \/ call' = [call EXCEPT ![c] = stop]) /\ UNCHANGED probes
      BY <2>c, <3>1, <3>2, <3>3, <3>5
    <3>6. CASE call' = [call EXCEPT ![c] = probe] /\ probes' = probes + 1
      <4>1. call'[c] = probe /\ \A d \in Callers \ {c} : call'[d] = call[d]  BY <2>a, <3>6
      <4>2. Probing' = Probing \cup {c}  BY <3>3, <4>1 DEF Probing
      <4>3. IsFiniteSet(Probing') /\ Cardinality(Probing') <= probes + 1
        <5>1. Cardinality(Probing) \in Nat  BY <2>b, FS_CardinalityType
        <5>2. IsFiniteSet(Probing') /\ Cardinality(Probing') \in {Cardinality(Probing), Cardinality(Probing) + 1}
          BY <2>b, <4>2, FS_AddElement
        <5> QED  BY <2>a, <2>b, <5>1, <5>2
      <4>4. \A d \in Probing' : call'[d].pc = "calling"  BY <2>b, <3>3, <4>1, <4>2 DEF Probing
      <4>5. call'[c].probe  BY <3>3, <4>1
      <4> QED  BY <2>b, <3>1, <3>6, <4>3, <4>4, <4>5 DEF Recovery
    <3> QED  BY <3>4, <3>5, <3>6
  <2>4. ASSUME NEW c \in Callers, Succeed(c) \/ Fail(c) PROVE Recovery'
    <3>1. /\ call[c].pc = "calling" /\ UNCHANGED probes /\ state' # "half_open"
          /\ state' = "closed" => failures' < Threshold
      BY <2>4, <2>a, <2>b DEF Succeed, Fail, Breaks
    <3> DEFINE done == [call[c] EXCEPT !.pc = "store", !.probe = FALSE]
               fails == [call[c] EXCEPT !.pc = "failed", !.probe = FALSE]
    <3>2. ~done.probe /\ ~fails.probe  BY <2>a, CallFields
    <3>3. \E next \in {done, fails} : call' = [call EXCEPT ![c] = next]
      BY <2>4 DEF Succeed, Fail
    <3> HIDE DEF done, fails
    <3>4. ~call'[c].probe /\ \A d \in Callers \ {c} : call'[d] = call[d]  BY <2>a, <3>2, <3>3
    <3>5. Probing' \subseteq Probing /\ \A d \in Probing' : call'[d].pc = "calling"
      BY <2>b, <3>4 DEF Probing
    <3>6. IsFiniteSet(Probing') /\ Cardinality(Probing') <= probes
      BY <2>a, <2>b, <3>5, FewerProbes
    <3> QED  BY <3>1, <3>5, <3>6 DEF Recovery
  <2>6. ASSUME NEW c \in Callers, Store(c) \/ StoreFailure(c) PROVE Recovery'
    <3>1. Idle \in Calls /\ ~Idle.probe  BY CallsAreClosed DEF Idle
    <3>2. /\ call' = [call EXCEPT ![c] = Idle] /\ call[c].pc \in {"store", "failed"}
          /\ UNCHANGED <<state, failures, probes>>
      BY <2>6 DEF Store, StoreFailure
    <3>3. ~call[c].probe  BY <2>b, <3>2
    <3> QED  BY <2>c, <3>1, <3>2, <3>3
  <2>7. CASE UNCHANGED <<state, failures, probes, call>>
    BY <2>7, <2>b DEF Recovery, Probing
  <2>8. CASE TimePasses \/ (\E f \in Used : Expire(f)) \/ UNCHANGED vars
    BY <2>7, <2>8 DEF TimePasses, Expire, vars
  <2> QED
    BY <2>1, <2>2, <2>3, <2>4, <2>6, <2>8 DEF Next
<1>3. Typed /\ Recovery => ProbesBounded /\ NeverWedged /\ ClosedIsHealthy
  <2> SUFFICES ASSUME Typed, Recovery PROVE ProbesBounded /\ NeverWedged /\ ClosedIsHealthy
    OBVIOUS
  <2>1. probes \in 0..Probes /\ Probes \in Nat /\ Probes > 0  BY DEF Typed, Breaks
  <2>2. Cardinality(Probing) \in Nat  BY FS_CardinalityType DEF Recovery
  <2>3. ProbesBounded  BY <2>1, <2>2 DEF Recovery, ProbesBounded, Probing
  <2>4. NeverWedged  BY <2>1 DEF Recovery, NeverWedged, FreeProbe, Probing
  <2> QED  BY <2>3, <2>4 DEF Recovery, ClosedIsHealthy
<1>4. Typed /\ Recovery => BreakerRecovers  BY <1>3 DEF BreakerRecovers
<1> QED  BY <1>1, <1>2, <1>4, TypeCorrect, PTL DEF Spec

-----------------------------------------------------------------------------
(***************************************************************************)
(* The other components of MCPlatform.  What they promise is proved for     *)
(* every value of their constants in the modules instantiated here; of what  *)
(* else those modules are about, there is nothing.  A behaviour of           *)
(* MCPlatform is one of the component that "part" names.                     *)
(***************************************************************************)
Streaming == INSTANCE ChatStreamProofs WITH
    Pages <- {p}, MaxParts <- 2, Limit <- [cancels |-> 1, answers |-> 1, crashes |-> 1, drops |-> 1],
    status <- v1, message <- v2, parts <- v3, log <- v4, emitted <- v5, writer <- v6, lock <- v7,
    canceller <- v8, page <- v9, used <- v10,
    Sockets <- {p}, QueueSize <- 2, MaxEvents <- 5, count <- v1, socket <- v2, lost <- v3,
    Backtests <- {j}, Readers <- {q, r}, MaxProgress <- 2,
    job <- v1, begun <- v2, events <- v3, reader <- v4, direct <- v5, serving <- v6,
    Started <- {}, Branches <- {}, Requesters <- {}, MaxSends <- 0, Bounds <- {},
    titles <- v1, messages <- v1, tasks <- v1, traces <- v1, refs <- v1, index <- v1, mirror <- v1,
    threads <- v1, request <- v1, torn <- v1, spent <- v1

\* These are the streams of MCPlatform: of a chat task, of backtests, of an account.
LEMMA SameStream ==
    /\ Streaming!Init <=> Stream!Init
    /\ Streaming!vars = Stream!vars
    /\ Streaming!Next <=> Stream!Next
    /\ Streaming!ShowsTheLog <=> Stream!ShowsTheLog
    /\ Streaming!DoneIsLast <=> Stream!DoneIsLast
<1>1. (Streaming!Init <=> Stream!Init) /\ Streaming!vars = Stream!vars
  BY DEF
    Stream!Init, Stream!vars, Stream!Writers, Stream!Ready, Stream!NewPage, Stream!Off,
    Streaming!Init, Streaming!vars, Streaming!Writers, Streaming!Ready, Streaming!NewPage,
    Streaming!Off
<1>2. Streaming!Next <=> Stream!Next
  BY DEF
    Stream!Next, Stream!Writers, Stream!Emit, Stream!WriterStep, Stream!AgentStep, Stream!Fail,
    Stream!RequestCancel, Stream!NoteCancel, Stream!Deliver, Stream!Answer, Stream!Crash,
    Stream!Recover, Stream!Begin, Stream!PageStep, Stream!Drop, Stream!Resume, Stream!At,
    Stream!Live, Stream!Goes, Stream!Ready, Stream!Task, Stream!Rest, Stream!ReadMessage,
    Stream!CheckTask, Stream!WriteMessage, Stream!Lock, Stream!LookAtTask, Stream!ReadNumber,
    Stream!Insert, Stream!Complete, Stream!Mark, Stream!MarkCancelled, Stream!Note,
    Stream!Finally, Stream!Closed, Stream!Off, Stream!Done, Stream!Store, Stream!Spend,
    Stream!List, Stream!Look, Stream!Ask, Stream!ToPage, Stream!World, Stream!Cancelled,
    Stream!Question, Stream!Dropped, Stream!After, Stream!New, Stream!Received,
    Stream!NothingComes, Stream!EndsStream, Streaming!Next, Streaming!Writers, Streaming!Emit,
    Streaming!WriterStep, Streaming!AgentStep, Streaming!Fail, Streaming!RequestCancel,
    Streaming!NoteCancel, Streaming!Deliver, Streaming!Answer, Streaming!Crash,
    Streaming!Recover, Streaming!Begin, Streaming!PageStep, Streaming!Drop, Streaming!Resume,
    Streaming!At, Streaming!Live, Streaming!Goes, Streaming!Ready, Streaming!Task,
    Streaming!Rest, Streaming!ReadMessage, Streaming!CheckTask, Streaming!WriteMessage,
    Streaming!Lock, Streaming!LookAtTask, Streaming!ReadNumber, Streaming!Insert,
    Streaming!Complete, Streaming!Mark, Streaming!MarkCancelled, Streaming!Note,
    Streaming!Finally, Streaming!Closed, Streaming!Off, Streaming!Done, Streaming!Store,
    Streaming!Spend, Streaming!List, Streaming!Look, Streaming!Ask, Streaming!ToPage,
    Streaming!World, Streaming!Cancelled, Streaming!Question, Streaming!Dropped,
    Streaming!After, Streaming!New, Streaming!Received, Streaming!NothingComes,
    Streaming!EndsStream
<1>3. Streaming!ShowsTheLog <=> Stream!ShowsTheLog
  BY DEF
    Stream!ShowsTheLog, Streaming!ShowsTheLog
<1>4. Streaming!DoneIsLast <=> Stream!DoneIsLast
  BY DEF
    Stream!DoneIsLast, Stream!Done, Streaming!DoneIsLast, Streaming!Done
<1> QED  BY <1>1, <1>2, <1>3, <1>4

LEMMA SameJobs ==
    /\ Streaming!Streams!Init <=> BacktestJobs!Init
    /\ Streaming!Streams!vars = BacktestJobs!vars
    /\ Streaming!Streams!Next <=> BacktestJobs!Next
    /\ Streaming!Streams!StreamsAreComplete <=> BacktestJobs!StreamsAreComplete
    /\ Streaming!Streams!DirectIsComplete <=> BacktestJobs!DirectIsComplete
<1>1. (Streaming!Streams!Init <=> BacktestJobs!Init) /\ Streaming!Streams!vars = BacktestJobs!vars
  BY DEF
    BacktestJobs!Init, BacktestJobs!vars, BacktestJobs!Closed, Streaming!Streams!Init,
    Streaming!Streams!vars, Streaming!Streams!Closed
<1>2. Streaming!Streams!Next <=> BacktestJobs!Next
  BY DEF
    BacktestJobs!Next, BacktestJobs!Submit, BacktestJobs!Progress, BacktestJobs!Runs,
    BacktestJobs!Open, BacktestJobs!Reads, BacktestJobs!Stop, BacktestJobs!OpenDirect,
    BacktestJobs!Put, BacktestJobs!FinishDirect, BacktestJobs!Get, BacktestJobs!LookDirect,
    BacktestJobs!Publish, BacktestJobs!Begin, BacktestJobs!Finish, BacktestJobs!Cancel,
    BacktestJobs!Closed, BacktestJobs!Send, BacktestJobs!Take, BacktestJobs!Round,
    BacktestJobs!Direct, BacktestJobs!NothingLeft, BacktestJobs!PublishOutcome,
    BacktestJobs!SentAll, BacktestJobs!Over, Streaming!Streams!Next, Streaming!Streams!Submit,
    Streaming!Streams!Progress, Streaming!Streams!Runs, Streaming!Streams!Open,
    Streaming!Streams!Reads, Streaming!Streams!Stop, Streaming!Streams!OpenDirect,
    Streaming!Streams!Put, Streaming!Streams!FinishDirect, Streaming!Streams!Get,
    Streaming!Streams!LookDirect, Streaming!Streams!Publish, Streaming!Streams!Begin,
    Streaming!Streams!Finish, Streaming!Streams!Cancel, Streaming!Streams!Closed,
    Streaming!Streams!Send, Streaming!Streams!Take, Streaming!Streams!Round,
    Streaming!Streams!Direct, Streaming!Streams!NothingLeft, Streaming!Streams!PublishOutcome,
    Streaming!Streams!SentAll, Streaming!Streams!Over
<1>3. Streaming!Streams!StreamsAreComplete <=> BacktestJobs!StreamsAreComplete
  BY DEF
    BacktestJobs!StreamsAreComplete, BacktestJobs!IsPrefix, BacktestJobs!Last,
    Streaming!Streams!StreamsAreComplete, Streaming!Streams!IsPrefix, Streaming!Streams!Last
<1>4. Streaming!Streams!DirectIsComplete <=> BacktestJobs!DirectIsComplete
  BY DEF
    BacktestJobs!DirectIsComplete, BacktestJobs!Last, Streaming!Streams!DirectIsComplete,
    Streaming!Streams!Last
<1> QED  BY <1>1, <1>2, <1>3, <1>4

LEMMA SameEvents ==
    /\ Streaming!Feed!Init <=> Events!Init
    /\ Streaming!Feed!vars = Events!vars
    /\ Streaming!Feed!Next <=> Events!Next
    /\ Streaming!Feed!SentInOrder <=> Events!SentInOrder
    /\ Streaming!Feed!NothingElseSkipped <=> Events!NothingElseSkipped
<1>1. (Streaming!Feed!Init <=> Events!Init) /\ Streaming!Feed!vars = Events!vars
  BY DEF
    Events!Init, Events!vars, Events!Gone, Streaming!Feed!Init, Streaming!Feed!vars,
    Streaming!Feed!Gone
<1>2. Streaming!Feed!Next <=> Events!Next
  BY DEF
    Events!Next, Events!Publish, Events!Connect, Events!List, Events!Send, Events!Receive,
    Events!TimeOut, Events!Disconnect, Events!Enqueued, Events!To, Events!Gone, Events!Unseen,
    Events!Fresh, Events!From, Streaming!Feed!Next, Streaming!Feed!Publish,
    Streaming!Feed!Connect, Streaming!Feed!List, Streaming!Feed!Send, Streaming!Feed!Receive,
    Streaming!Feed!TimeOut, Streaming!Feed!Disconnect, Streaming!Feed!Enqueued,
    Streaming!Feed!To, Streaming!Feed!Gone, Streaming!Feed!Unseen, Streaming!Feed!Fresh,
    Streaming!Feed!From
<1>3. Streaming!Feed!SentInOrder <=> Events!SentInOrder
  BY DEF
    Events!SentInOrder, Streaming!Feed!SentInOrder
<1>4. Streaming!Feed!NothingElseSkipped <=> Events!NothingElseSkipped
  BY DEF
    Events!NothingElseSkipped, Streaming!Feed!NothingElseSkipped
<1> QED  BY <1>1, <1>2, <1>3, <1>4

LEMMA StreamRun == PlatformSpec /\ part = "stream" => Streaming!Spec
<1>1. PlatformInit /\ part = "stream" => Streaming!Init
  BY SameStream DEF PlatformInit
<1>2. part = "stream" /\ [PlatformNext]_<<part, Shared, vars>> => (part = "stream")' /\ [Stream!Next]_(Stream!vars)
  BY DEF PlatformNext, Stream!vars, PartNext, Shared
<1>3. [Stream!Next]_(Stream!vars) => [Streaming!Next]_(Streaming!vars)
  BY SameStream DEF Stream!vars, Streaming!vars
<1> QED  BY <1>1, <1>2, <1>3, PTL DEF PlatformSpec, Streaming!Spec

LEMMA JobsRun == PlatformSpec /\ part = "jobs" => Streaming!Streams!Spec
<1>1. PlatformInit /\ part = "jobs" => Streaming!Streams!Init
  BY SameJobs DEF PlatformInit
<1>2. part = "jobs" /\ [PlatformNext]_<<part, Shared, vars>> => (part = "jobs")' /\ [BacktestJobs!Next]_(BacktestJobs!vars)
  BY DEF PlatformNext, BacktestJobs!vars, PartNext, Shared
<1>3. [BacktestJobs!Next]_(BacktestJobs!vars) => [Streaming!Streams!Next]_(Streaming!Streams!vars)
  BY SameJobs DEF BacktestJobs!vars, Streaming!Streams!vars
<1> QED  BY <1>1, <1>2, <1>3, PTL DEF PlatformSpec, Streaming!Streams!Spec

LEMMA EventsRun == PlatformSpec /\ part = "events" => Streaming!Feed!Spec
<1>1. PlatformInit /\ part = "events" => Streaming!Feed!Init
  BY SameEvents DEF PlatformInit
<1>2. part = "events" /\ [PlatformNext]_<<part, Shared, vars>> => (part = "events")' /\ [Events!Next]_(Events!vars)
  BY DEF PlatformNext, Events!vars, PartNext, Shared
<1>3. [Events!Next]_(Events!vars) => [Streaming!Feed!Next]_(Streaming!Feed!vars)
  BY SameEvents DEF Events!vars, Streaming!Feed!vars
<1> QED  BY <1>1, <1>2, <1>3, PTL DEF PlatformSpec, Streaming!Feed!Spec

\* Crashes, lost connections, cancellations and full queues in between: a page shows
\* the log of its task from the start and its end last, a stream of a backtest ends
\* with everything that happened in it, and a socket skips none but the events it
\* lost (chat_service.py, backtest jobs, simulation events).
THEOREM StreamsAreCompleteHolds == PlatformSpec => []StreamsAreComplete
<1>1. Streaming!Spec => [](Streaming!ShowsTheLog /\ Streaming!DoneIsLast)
  <2>1. Streaming!Spec => []Streaming!ShowsTheLog  BY Streaming!ShowsTheLogHolds
  <2>2. Streaming!Spec => []Streaming!DoneIsLast  BY Streaming!DoneIsLastHolds
  <2> QED  BY <2>1, <2>2, PTL
<1>2. Streaming!Streams!Spec => [](Streaming!Streams!StreamsAreComplete /\ Streaming!Streams!DirectIsComplete)
  BY Streaming!StreamsAreCompleteHolds, Streaming!DirectIsCompleteHolds, PTL
<1>3. Streaming!Feed!Spec => [](Streaming!Feed!SentInOrder /\ Streaming!Feed!NothingElseSkipped)
  <2>1. Streaming!Feed!Spec => []Streaming!Feed!SentInOrder  BY Streaming!SentInOrderHolds
  <2>2. Streaming!Feed!Spec => []Streaming!Feed!NothingElseSkipped  BY Streaming!NothingElseSkippedHolds
  <2> QED  BY <2>1, <2>2, PTL
<1>4. /\ part = "stream" => Streaming!ShowsTheLog /\ Streaming!DoneIsLast
      /\ part = "jobs" => Streaming!Streams!StreamsAreComplete /\ Streaming!Streams!DirectIsComplete
      /\ part = "events" => Streaming!Feed!SentInOrder /\ Streaming!Feed!NothingElseSkipped
      => StreamsAreComplete
  BY SameStream, SameJobs, SameEvents DEF StreamsAreComplete
<1>5. PlatformSpec /\ ~(part = "stream") => [](~(part = "stream"))
  <2>1. ~(part = "stream") /\ [PlatformNext]_<<part, Shared, vars>> => (~(part = "stream"))'  BY DEF PlatformNext, PartNext
  <2> QED  BY <2>1, PTL DEF PlatformSpec
<1>6. PlatformSpec /\ ~(part = "jobs") => [](~(part = "jobs"))
  <2>1. ~(part = "jobs") /\ [PlatformNext]_<<part, Shared, vars>> => (~(part = "jobs"))'  BY DEF PlatformNext, PartNext
  <2> QED  BY <2>1, PTL DEF PlatformSpec
<1>7. PlatformSpec /\ ~(part = "events") => [](~(part = "events"))
  <2>1. ~(part = "events") /\ [PlatformNext]_<<part, Shared, vars>> => (~(part = "events"))'  BY DEF PlatformNext, PartNext
  <2> QED  BY <2>1, PTL DEF PlatformSpec
<1> QED  BY <1>1, <1>2, <1>3, <1>4, <1>5, <1>6, <1>7, StreamRun, JobsRun, EventsRun, PTL

\* Calls at once on an account, and the cache of history; calls that take turns;
\* and the mirror of a terminal.
AtOnce == INSTANCE StorageProofs WITH
    Orders <- {o1, o2}, Callers <- {c1, c2}, LastDate <- 1, Limit <- [calls |-> 5, resets |-> 0, crashes |-> 0],
    doc <- v1, rows <- v2, call <- v3, used <- v4,
    Periods <- {<<1, 2>>, <<2, 5>>, <<1, 5>>}, Trading <- {1, 2, 3, 5}, Cutoff <- 4, MaxVersion <- 1,
    version <- v1, manifest <- v2, known <- v3, writer <- v4, access <- v5,
    Syncs <- {}, Parts <- 0, local <- v1, inbox <- v1, remote <- v1, executed <- v1, mirror <- v1, sync <- v1,
    Requests <- {}, Contents <- {}, NoKey <- 0, NoTask <- 0, Bad <- 0, Bounds <- {},
    records <- v1, objects <- v1, saving <- v1, begun <- v1, alone <- v1, spent <- v1
InTurns == INSTANCE StorageProofs WITH
    Orders <- {o1, o2}, Callers <- {c1}, LastDate <- 1, Limit <- [calls |-> 6, resets |-> 2, crashes |-> 2],
    doc <- v1, rows <- v2, call <- v3, used <- v4,
    Syncs <- {}, Parts <- 0, local <- v1, inbox <- v1, remote <- v1, executed <- v1, mirror <- v1, sync <- v1,
    Periods <- {}, Trading <- {}, Cutoff <- 0, MaxVersion <- 0,
    version <- v1, manifest <- v1, known <- v1, writer <- v1, access <- v1,
    Requests <- {}, Contents <- {}, NoKey <- 0, NoTask <- 0, Bad <- 0, Bounds <- {},
    records <- v1, objects <- v1, saving <- v1, begun <- v1, alone <- v1, spent <- v1
Mirroring == INSTANCE StorageProofs WITH
    Orders <- {o1}, Syncs <- {s1, s2}, Parts <- 2,
    local <- v1, inbox <- v2, remote <- v3, executed <- v4, mirror <- v5, sync <- v6,
    Callers <- {}, LastDate <- 0, Limit <- {}, doc <- v1, rows <- v1, call <- v1, used <- v1,
    Periods <- {}, Trading <- {}, Cutoff <- 0, MaxVersion <- 0,
    version <- v1, manifest <- v1, known <- v1, writer <- v1, access <- v1,
    Requests <- {}, Contents <- {}, NoKey <- 0, NoTask <- 0, Bad <- 0, Bounds <- {},
    records <- v1, objects <- v1, saving <- v1, begun <- v1, alone <- v1, spent <- v1

\* These are the accounts of MCPlatform, its mirror and its cache.
LEMMA SameAccount ==
    /\ AtOnce!Init <=> Account!Init
    /\ AtOnce!vars = Account!vars
    /\ AtOnce!Next <=> Account!Next
    /\ AtOnce!BookedIsDecided <=> Account!BookedIsDecided
<1>1. (AtOnce!Init <=> Account!Init) /\ AtOnce!vars = Account!vars
  BY DEF
    Account!Init, Account!vars, Account!Fresh, Account!Idle, Account!NoBookings, AtOnce!Init,
    AtOnce!vars, AtOnce!Fresh, AtOnce!Idle, AtOnce!NoBookings
<1>2. AtOnce!Next <=> Account!Next
  BY DEF
    Account!Next, Account!SetStatus, Account!AdvanceDate, Account!UpdateConfig,
    Account!SaveAccount, Account!Reset, Account!DeleteOrders, Account!CreateAllowed,
    Account!Mark, Account!ListOrders, Account!FillNext, Account!Crash, Account!Create,
    Account!Insert, Account!Fill, Account!Trade, Account!SaveOrder, Account!Cancel,
    Account!Begins, Account!AccountStatuses, Account!Edit, Account!WithStatus, Account!Dates,
    Account!WithDate, Account!Capitals, Account!MayChange, Account!WithCapital, Account!IsAt,
    Account!To, Account!Spend, Account!Fresh, Account!Ends, Account!Idle, Account!Fillable,
    Account!ReadOrder, Account!Vacant, Account!Booked, Account!Cancellable, Account!HasTrades,
    Account!NoBookings, AtOnce!Next, AtOnce!SetStatus, AtOnce!AdvanceDate, AtOnce!UpdateConfig,
    AtOnce!SaveAccount, AtOnce!Reset, AtOnce!DeleteOrders, AtOnce!CreateAllowed, AtOnce!Mark,
    AtOnce!ListOrders, AtOnce!FillNext, AtOnce!Crash, AtOnce!Create, AtOnce!Insert, AtOnce!Fill,
    AtOnce!Trade, AtOnce!SaveOrder, AtOnce!Cancel, AtOnce!Begins, AtOnce!AccountStatuses,
    AtOnce!Edit, AtOnce!WithStatus, AtOnce!Dates, AtOnce!WithDate, AtOnce!Capitals,
    AtOnce!MayChange, AtOnce!WithCapital, AtOnce!IsAt, AtOnce!To, AtOnce!Spend, AtOnce!Fresh,
    AtOnce!Ends, AtOnce!Idle, AtOnce!Fillable, AtOnce!ReadOrder, AtOnce!Vacant, AtOnce!Booked,
    AtOnce!Cancellable, AtOnce!HasTrades, AtOnce!NoBookings
<1>3. AtOnce!BookedIsDecided <=> Account!BookedIsDecided
  BY DEF
    Account!BookedIsDecided, Account!Fillable, AtOnce!BookedIsDecided, AtOnce!Fillable
<1> QED  BY <1>1, <1>2, <1>3

LEMMA SameTurns ==
    /\ InTurns!Init <=> Turns!Init
    /\ InTurns!vars = Turns!vars
    /\ InTurns!Next <=> Turns!Next
    /\ InTurns!BookedOnce <=> Turns!BookedOnce
    /\ InTurns!FilledIsBooked <=> Turns!FilledIsBooked
<1>1. (InTurns!Init <=> Turns!Init) /\ InTurns!vars = Turns!vars
  BY DEF
    Turns!Init, Turns!vars, Turns!Fresh, Turns!Idle, Turns!NoBookings, InTurns!Init,
    InTurns!vars, InTurns!Fresh, InTurns!Idle, InTurns!NoBookings
<1>2. InTurns!Next <=> Turns!Next
  BY DEF
    Turns!Next, Turns!SetStatus, Turns!AdvanceDate, Turns!UpdateConfig, Turns!SaveAccount,
    Turns!Reset, Turns!DeleteOrders, Turns!CreateAllowed, Turns!Mark, Turns!ListOrders,
    Turns!FillNext, Turns!Crash, Turns!Create, Turns!Insert, Turns!Fill, Turns!Trade,
    Turns!SaveOrder, Turns!Cancel, Turns!Begins, Turns!AccountStatuses, Turns!Edit,
    Turns!WithStatus, Turns!Dates, Turns!WithDate, Turns!Capitals, Turns!MayChange,
    Turns!WithCapital, Turns!IsAt, Turns!To, Turns!Spend, Turns!Fresh, Turns!Ends, Turns!Idle,
    Turns!Fillable, Turns!ReadOrder, Turns!Vacant, Turns!Booked, Turns!Cancellable,
    Turns!HasTrades, Turns!NoBookings, InTurns!Next, InTurns!SetStatus, InTurns!AdvanceDate,
    InTurns!UpdateConfig, InTurns!SaveAccount, InTurns!Reset, InTurns!DeleteOrders,
    InTurns!CreateAllowed, InTurns!Mark, InTurns!ListOrders, InTurns!FillNext, InTurns!Crash,
    InTurns!Create, InTurns!Insert, InTurns!Fill, InTurns!Trade, InTurns!SaveOrder,
    InTurns!Cancel, InTurns!Begins, InTurns!AccountStatuses, InTurns!Edit, InTurns!WithStatus,
    InTurns!Dates, InTurns!WithDate, InTurns!Capitals, InTurns!MayChange, InTurns!WithCapital,
    InTurns!IsAt, InTurns!To, InTurns!Spend, InTurns!Fresh, InTurns!Ends, InTurns!Idle,
    InTurns!Fillable, InTurns!ReadOrder, InTurns!Vacant, InTurns!Booked, InTurns!Cancellable,
    InTurns!HasTrades, InTurns!NoBookings
<1>3. InTurns!BookedOnce <=> Turns!BookedOnce
  BY DEF
    Turns!BookedOnce, InTurns!BookedOnce
<1>4. InTurns!FilledIsBooked <=> Turns!FilledIsBooked
  BY DEF
    Turns!FilledIsBooked, Turns!Purging, InTurns!FilledIsBooked, InTurns!Purging
<1> QED  BY <1>1, <1>2, <1>3, <1>4

LEMMA SameMirror ==
    /\ Mirroring!Mirror!Init <=> Mirror!Init
    /\ Mirroring!Mirror!vars = Mirror!vars
    /\ Mirroring!Mirror!Next <=> Mirror!Next
    /\ Mirroring!Mirror!MirrorIsFaithful <=> Mirror!MirrorIsFaithful
<1>1. (Mirroring!Mirror!Init <=> Mirror!Init) /\ Mirroring!Mirror!vars = Mirror!vars
  BY DEF
    Mirror!Init, Mirror!vars, Mirror!NoExecutions, Mirror!Executions, Mirror!Unread,
    Mirroring!Mirror!Init, Mirroring!Mirror!vars, Mirroring!Mirror!NoExecutions,
    Mirroring!Mirror!Executions, Mirroring!Mirror!Unread
<1>2. Mirroring!Mirror!Next <=> Mirror!Next
  BY DEF
    Mirror!Next, Mirror!Create, Mirror!Submit, Mirror!Unavailable, Mirror!CommandCancel,
    Mirror!CancelRow, Mirror!Accept, Mirror!AcceptCancel, Mirror!Execute, Mirror!ReadPosition,
    Mirror!ReadOrders, Mirror!ReadExecutions, Mirror!Load, Mirror!Reconcile, Mirror!Save,
    Mirror!Over, Mirror!Disturbed, Mirror!Submitted, Mirror!At, Mirror!DisturbedBy,
    Mirror!Unread, Mirror!Executions, Mirror!Traded, Mirror!StatusOf, Mirror!NoExecutions,
    Mirroring!Mirror!Next, Mirroring!Mirror!Create, Mirroring!Mirror!Submit,
    Mirroring!Mirror!Unavailable, Mirroring!Mirror!CommandCancel, Mirroring!Mirror!CancelRow,
    Mirroring!Mirror!Accept, Mirroring!Mirror!AcceptCancel, Mirroring!Mirror!Execute,
    Mirroring!Mirror!ReadPosition, Mirroring!Mirror!ReadOrders, Mirroring!Mirror!ReadExecutions,
    Mirroring!Mirror!Load, Mirroring!Mirror!Reconcile, Mirroring!Mirror!Save,
    Mirroring!Mirror!Over, Mirroring!Mirror!Disturbed, Mirroring!Mirror!Submitted,
    Mirroring!Mirror!At, Mirroring!Mirror!DisturbedBy, Mirroring!Mirror!Unread,
    Mirroring!Mirror!Executions, Mirroring!Mirror!Traded, Mirroring!Mirror!StatusOf,
    Mirroring!Mirror!NoExecutions
<1>3. Mirroring!Mirror!MirrorIsFaithful <=> Mirror!MirrorIsFaithful
  BY DEF
    Mirror!MirrorIsFaithful, Mirror!NothingInvented, Mirror!MirrorsTheTerminal,
    Mirror!Executions, Mirror!At, Mirror!StatusOf, Mirroring!Mirror!MirrorIsFaithful,
    Mirroring!Mirror!NothingInvented, Mirroring!Mirror!MirrorsTheTerminal,
    Mirroring!Mirror!Executions, Mirroring!Mirror!At, Mirroring!Mirror!StatusOf
<1> QED  BY <1>1, <1>2, <1>3

LEMMA SameHistory ==
    /\ AtOnce!Cache!Init <=> History!Init
    /\ AtOnce!Cache!vars = History!vars
    /\ AtOnce!Cache!Next <=> History!Next
    /\ AtOnce!Cache!DaysAreNumbers <=> History!DaysAreNumbers
    /\ AtOnce!Cache!CoveredIsStored <=> History!CoveredIsStored
    /\ AtOnce!Cache!AnswersAreWhole <=> History!AnswersAreWhole
<1>1. (AtOnce!Cache!Init <=> History!Init) /\ AtOnce!Cache!vars = History!vars
  BY DEF
    History!Init, History!vars, History!NoManifest, History!Forgotten, History!Idle,
    AtOnce!Cache!Init, AtOnce!Cache!vars, AtOnce!Cache!NoManifest, AtOnce!Cache!Forgotten,
    AtOnce!Cache!Idle
<1>2. AtOnce!Cache!Next <=> History!Next
  BY DEF
    History!Next, History!Start, History!Remember, History!Look, History!Fetch, History!Lock,
    History!Write, History!Verify, History!Answer, History!Bypass, History!Return,
    History!Expire, History!Revise, History!Forgotten, History!Idle, History!MissingRanges,
    History!Permanent, History!Upstream, History!Span, History!CommitBase, History!Extended,
    History!Within, History!Dynamic, History!NoManifest, History!Days, History!Lesser,
    History!MergeRanges, History!Lacking, History!Greater, AtOnce!Cache!Next,
    AtOnce!Cache!Start, AtOnce!Cache!Remember, AtOnce!Cache!Look, AtOnce!Cache!Fetch,
    AtOnce!Cache!Lock, AtOnce!Cache!Write, AtOnce!Cache!Verify, AtOnce!Cache!Answer,
    AtOnce!Cache!Bypass, AtOnce!Cache!Return, AtOnce!Cache!Expire, AtOnce!Cache!Revise,
    AtOnce!Cache!Forgotten, AtOnce!Cache!Idle, AtOnce!Cache!MissingRanges,
    AtOnce!Cache!Permanent, AtOnce!Cache!Upstream, AtOnce!Cache!Span, AtOnce!Cache!CommitBase,
    AtOnce!Cache!Extended, AtOnce!Cache!Within, AtOnce!Cache!Dynamic, AtOnce!Cache!NoManifest,
    AtOnce!Cache!Days, AtOnce!Cache!Lesser, AtOnce!Cache!MergeRanges, AtOnce!Cache!Lacking,
    AtOnce!Cache!Greater
<1>3. AtOnce!Cache!DaysAreNumbers <=> History!DaysAreNumbers
  BY DEF
    History!DaysAreNumbers, AtOnce!Cache!DaysAreNumbers
<1>4. AtOnce!Cache!CoveredIsStored <=> History!CoveredIsStored
  BY DEF
    History!CoveredIsStored, History!Days, AtOnce!Cache!CoveredIsStored, AtOnce!Cache!Days
<1>5. AtOnce!Cache!AnswersAreWhole <=> History!AnswersAreWhole
  BY DEF
    History!AnswersAreWhole, History!Span, AtOnce!Cache!AnswersAreWhole, AtOnce!Cache!Span
<1> QED  BY <1>1, <1>2, <1>3, <1>4, <1>5

LEMMA AccountRun == PlatformSpec /\ part = "account" => AtOnce!Spec
<1>1. PlatformInit /\ part = "account" => AtOnce!Init
  BY SameAccount DEF PlatformInit
<1>2. part = "account" /\ [PlatformNext]_<<part, Shared, vars>> => (part = "account")' /\ [Account!Next]_(Account!vars)
  BY DEF PlatformNext, Account!vars, PartNext, Shared
<1>3. [Account!Next]_(Account!vars) => [AtOnce!Next]_(AtOnce!vars)
  BY SameAccount DEF Account!vars, AtOnce!vars
<1> QED  BY <1>1, <1>2, <1>3, PTL DEF PlatformSpec, AtOnce!Spec

LEMMA TurnsRun == PlatformSpec /\ part = "turns" => InTurns!Spec
<1>1. PlatformInit /\ part = "turns" => InTurns!Init
  BY SameTurns DEF PlatformInit
<1>2. part = "turns" /\ [PlatformNext]_<<part, Shared, vars>> => (part = "turns")' /\ [Turns!Next]_(Turns!vars)
  BY DEF PlatformNext, Turns!vars, PartNext, Shared
<1>3. [Turns!Next]_(Turns!vars) => [InTurns!Next]_(InTurns!vars)
  BY SameTurns DEF Turns!vars, InTurns!vars
<1> QED  BY <1>1, <1>2, <1>3, PTL DEF PlatformSpec, InTurns!Spec

LEMMA CutOrResetOnly == PlatformSpec /\ part = "turns" => []InTurns!CutOrReset
<1>1. PlatformInit /\ part = "turns" => InTurns!CutOrReset
  BY DEF PlatformInit, Turns!Init, InTurns!CutOrReset
<1>2. part = "turns" /\ InTurns!CutOrReset /\ [PlatformNext]_<<part, Shared, vars>>
         => (part = "turns")' /\ InTurns!CutOrReset'
  BY DEF PlatformNext, PartNext, ResetOrCrash, InTurns!CutOrReset, Shared
<1> QED  BY <1>1, <1>2, PTL DEF PlatformSpec

LEMMA MirrorRun == PlatformSpec /\ part = "mirror" => Mirroring!Mirror!Spec
<1>1. PlatformInit /\ part = "mirror" => Mirroring!Mirror!Init
  BY SameMirror DEF PlatformInit
<1>2. part = "mirror" /\ [PlatformNext]_<<part, Shared, vars>> => (part = "mirror")' /\ [Mirror!Next]_(Mirror!vars)
  BY DEF PlatformNext, Mirror!vars, PartNext, Shared
<1>3. [Mirror!Next]_(Mirror!vars) => [Mirroring!Mirror!Next]_(Mirroring!Mirror!vars)
  BY SameMirror DEF Mirror!vars, Mirroring!Mirror!vars
<1> QED  BY <1>1, <1>2, <1>3, PTL DEF PlatformSpec, Mirroring!Mirror!Spec

LEMMA HistoryRun == PlatformSpec /\ part = "history" => AtOnce!Cache!Spec
<1>1. PlatformInit /\ part = "history" => AtOnce!Cache!Init
  BY SameHistory DEF PlatformInit
<1>2. part = "history" /\ [PlatformNext]_<<part, Shared, vars>> => (part = "history")' /\ [History!Next]_(History!vars)
  BY DEF PlatformNext, History!vars, PartNext, Shared
<1>3. [History!Next]_(History!vars) => [AtOnce!Cache!Next]_(AtOnce!Cache!vars)
  BY SameHistory DEF History!vars, AtOnce!Cache!vars
<1> QED  BY <1>1, <1>2, <1>3, PTL DEF PlatformSpec, AtOnce!Cache!Spec

\* Calls at once on an account book what was decided; of calls that take turns,
\* every order is booked once, and once more for a crash at most, and one that says
\* it is filled is booked (simulation_account.py).
THEOREM AccountsAreBookedHolds == PlatformSpec => []AccountsAreBooked
<1>1. AtOnce!Spec => []AtOnce!BookedIsDecided
  BY AtOnce!BookedIsDecidedHolds
<1>2. InTurns!Spec /\ []InTurns!CutOrReset => [](InTurns!BookedOnce /\ InTurns!FilledIsBooked)
  <2>1. InTurns!Spec => []InTurns!BookedOnce  BY InTurns!BookedOnceHolds
  <2>2. InTurns!Spec /\ []InTurns!CutOrReset => []InTurns!FilledIsBooked  BY InTurns!FilledIsBookedHolds
  <2> QED  BY <2>1, <2>2, PTL
<1>3. /\ part = "account" => AtOnce!BookedIsDecided
      /\ part = "turns" => InTurns!BookedOnce /\ InTurns!FilledIsBooked
      => AccountsAreBooked
  BY SameAccount, SameTurns DEF AccountsAreBooked
<1>4. PlatformSpec /\ ~(part = "account") => [](~(part = "account"))
  <2>1. ~(part = "account") /\ [PlatformNext]_<<part, Shared, vars>> => (~(part = "account"))'  BY DEF PlatformNext, PartNext
  <2> QED  BY <2>1, PTL DEF PlatformSpec
<1>5. PlatformSpec /\ ~(part = "turns") => [](~(part = "turns"))
  <2>1. ~(part = "turns") /\ [PlatformNext]_<<part, Shared, vars>> => (~(part = "turns"))'  BY DEF PlatformNext, PartNext
  <2> QED  BY <2>1, PTL DEF PlatformSpec
<1> QED  BY <1>1, <1>2, <1>3, <1>4, <1>5, AccountRun, TurnsRun, CutOrResetOnly, PTL

\* The trades of calls that take turns keep the promise of OrderBook: an order is
\* opened once and decided once (simulation_account.py:429).
THEOREM KeepsTheBookHolds == PlatformSpec => KeepsTheBook
<1> DEFINE fates == [o \in {o1, o2} |-> InTurns!FateOf(o)]
           shown == [o \in {o1, o2} |-> IF part = "turns" THEN Turns!FateOf(o) ELSE "none"]
<1>1. InTurns!Spec /\ []InTurns!CutOrReset => InTurns!Book!Spec
  BY InTurns!KeepsTheBookHolds
<1>2. part = "turns" => shown = fates
  BY DEF InTurns!FateOf, Turns!FateOf
<1>3. part = "turns" /\ InTurns!Book!Init => Book!Init
  BY <1>2 DEF InTurns!Book!Init, Book!Init, InTurns!FateOf, Turns!FateOf
<1>4. part = "turns" /\ (part = "turns")' /\ [InTurns!Book!Next]_fates => [Book!Next]_shown
  BY <1>2 DEF InTurns!Book!Next, Book!Next, InTurns!Book!Open, Book!Open, InTurns!Book!Decide, Book!Decide,
     InTurns!Book!Reset, Book!Reset, InTurns!FateOf, Turns!FateOf, InTurns!Book!Fates, Book!Fates
<1>5. PlatformSpec /\ ~(part = "turns") => [](~(part = "turns"))
  <2>1. ~(part = "turns") /\ [PlatformNext]_<<part, Shared, vars>> => (~(part = "turns"))'  BY DEF PlatformNext, PartNext
  <2> QED  BY <2>1, PTL DEF PlatformSpec
<1>6. ~(part = "turns") => Book!Init
  BY DEF Book!Init
<1>7. ~(part = "turns") /\ (~(part = "turns"))' => UNCHANGED shown
  OBVIOUS
<1>8. part = "turns" /\ [PlatformNext]_<<part, Shared, vars>> => (part = "turns")'
  BY DEF PlatformNext, PartNext, Shared
<1> HIDE DEF fates, shown
<1> QED
  BY <1>1, <1>3, <1>4, <1>5, <1>6, <1>7, <1>8, TurnsRun, CutOrResetOnly, PTL
  DEF PlatformSpec, KeepsTheBook, Book!Spec, InTurns!Book!Spec, fates, shown

\* However synchronisations overlap with orders, cancellations and executions: the
\* mirror of a terminal invents nothing, and one that is not disturbed is equal.
THEOREM MirrorIsFaithfulHolds == PlatformSpec => []MirrorIsFaithful
<1>1. Mirroring!Mirror!Spec => []Mirroring!Mirror!MirrorIsFaithful
  BY Mirroring!MirrorIsFaithfulHolds
<1>2. (part = "mirror" => Mirroring!Mirror!MirrorIsFaithful) => MirrorIsFaithful
  BY SameMirror DEF MirrorIsFaithful
<1>3. PlatformSpec /\ ~(part = "mirror") => [](~(part = "mirror"))
  <2>1. ~(part = "mirror") /\ [PlatformNext]_<<part, Shared, vars>> => (~(part = "mirror"))'  BY DEF PlatformNext, PartNext
  <2> QED  BY <2>1, PTL DEF PlatformSpec
<1> QED  BY <1>1, <1>2, <1>3, MirrorRun, PTL

\* What the cache of history calls covered is there once, and every answer has all
\* the days asked for, whatever two requests do at once.
THEOREM HistoryIsWholeHolds == PlatformSpec => []HistoryIsWhole
<1>1. AtOnce!Cache!DaysAreNumbers  BY HistoryDays, SameHistory
<1>2. AtOnce!Cache!Spec => [](AtOnce!Cache!CoveredIsStored /\ AtOnce!Cache!AnswersAreWhole)
  BY <1>1, AtOnce!CoveredIsStoredHolds, AtOnce!AnswersAreWholeHolds, PTL
<1>3. (part = "history" => AtOnce!Cache!CoveredIsStored /\ AtOnce!Cache!AnswersAreWhole) => HistoryIsWhole
  BY SameHistory DEF HistoryIsWhole
<1>4. PlatformSpec /\ ~(part = "history") => [](~(part = "history"))
  <2>1. ~(part = "history") /\ [PlatformNext]_<<part, Shared, vars>> => (~(part = "history"))'  BY DEF PlatformNext, PartNext
  <2> QED  BY <2>1, PTL DEF PlatformSpec
<1> QED  BY <1>2, <1>3, <1>4, HistoryRun, PTL

\* Confirmed history is never lost or revised.
THEOREM HistoryStaysHolds == PlatformSpec => HistoryStays
<1> DEFINE Stays == part = "history" => v2.rows \subseteq v2'.rows
<1>1. AtOnce!Cache!Spec => AtOnce!Cache!HistoryStays
  BY AtOnce!HistoryStaysHolds
<1>2. [v2.rows \subseteq v2'.rows]_(AtOnce!Cache!vars) => [Stays]_<<part, Shared>>
  BY DEF AtOnce!Cache!vars
<1>3. ~(part = "history") => [Stays]_<<part, Shared>>
  OBVIOUS
<1>4. PlatformSpec /\ ~(part = "history") => [](~(part = "history"))
  <2>1. ~(part = "history") /\ [PlatformNext]_<<part, Shared, vars>> => (~(part = "history"))'  BY DEF PlatformNext, PartNext
  <2> QED  BY <2>1, PTL DEF PlatformSpec
<1> QED  BY <1>1, <1>2, <1>3, <1>4, HistoryRun, PTL DEF HistoryStays, AtOnce!Cache!HistoryStays

-----------------------------------------------------------------------------
\* Analyses, and the backtests of strategies; and those of pools.
Trading == INSTANCE TradingEngineProofs WITH
    Today <- 3, Opens <- <<4, 6, 3>>, Closes <- <<5, 5, 4>>, Interval <- 1, MaxAge <- 1,
    Names <- {"trend"}, Answers <- MCAnswers, Risks <- {0, 10, 30}, Lot <- 2, Accounts <- Holdings,
    DefaultSize <- 20, MaxSingle <- 20, MaxTotal <- 95, Limit <- 2,
    caller <- v1, graph <- v2, specs <- v3, order <- v4, used <- v5,
    Full <- 3, Scores <- {-1, 0, 1}, Quotes <- {1, 3, 5}, LastDay <- 5,
    day <- v1, exposure <- v2, memory <- v3, waits <- v4, calm <- v5, hit <- v6, due <- v7, policy <- v8, run <- v9,
    Tickers <- {}, InitialCash <- 0, TPlusOne <- TRUE, AutoExit <- TRUE, MinimumCommission <- 0,
    Scale <- 1, BuyRate <- 0, SellRate <- 0, StampRate <- 0, TransferRate <- 0, LastDate <- 0,
    Backdating <- FALSE, Sizes <- {}, Prices <- {}, MaxTrades <- 0,
    cash <- v1, date <- v1, shares <- v1, available <- v1, frozen <- v1, stop <- v1, target <- v1,
    trades <- v1, bought <- v1,
    Symbols <- {}, Frequency <- 1, MaxPositions <- 0, mode <- v1, fill <- v1,
    bars <- v1, held <- v1, decided <- v1, asked <- v1, chosen <- v1, stranded <- v1,
    Titles <- {"a"}, Histories <- ReturnedHistories, Period <- 2..6, MinRows <- 3, EnoughRows <- 4, EnoughDays <- 3,
    MinPrefix <- 2, Peeks <- [1..5 -> {0, 2}], Bounds <- [requests |-> 1, deaths |-> 1],
    job <- v1, registry <- v2, files <- v3, experiments <- v4, candidates <- v5, saved <- v6, spent <- v7
Markets == INSTANCE TradingEngineProofs WITH
    Symbols <- {1, 2}, Interval <- 1, Frequency <- 2, MaxPositions <- 1, LastDay <- 3,
    day <- v1, bars <- v2, held <- v3, decided <- v4, asked <- v5, chosen <- v6, stranded <- v7, mode <- v8, fill <- v9,
    Full <- 0, Scores <- {}, Quotes <- {}, exposure <- v1, memory <- v1, waits <- v1, calm <- v1, hit <- v1, due <- v1,
    policy <- v1, run <- v1,
    Today <- 0, Opens <- <<>>, Closes <- <<>>, MaxAge <- 0, Names <- {}, Answers <- {}, Risks <- {}, Lot <- 1,
    Accounts <- {}, DefaultSize <- 0, MaxSingle <- 0, MaxTotal <- 0, Limit <- 0,
    caller <- v1, graph <- v1, specs <- v1, order <- v1, used <- v1,
    Tickers <- {}, InitialCash <- 0, TPlusOne <- TRUE, AutoExit <- TRUE, MinimumCommission <- 0,
    Scale <- 1, BuyRate <- 0, SellRate <- 0, StampRate <- 0, TransferRate <- 0, LastDate <- 0,
    Backdating <- FALSE, Sizes <- {}, Prices <- {}, MaxTrades <- 0,
    cash <- v1, date <- v1, shares <- v1, available <- v1, frozen <- v1, stop <- v1, target <- v1,
    trades <- v1, bought <- v1,
    Titles <- {"a", "b"}, Histories <- {RowsOf(<<2, 3, 4>>)}, Period <- 2..6, MinRows <- 3, EnoughRows <- 4,
    EnoughDays <- 3, MinPrefix <- 2, Peeks <- {}, Bounds <- [requests |-> 3, deaths |-> 2],
    job <- v1, registry <- v2, files <- v3, experiments <- v4, candidates <- v5, saved <- v6, spent <- v7

\* These are the analyses of MCPlatform.
LEMMA SameDecisions ==
    /\ Trading!Deciding!Init <=> Deciding!Init
    /\ Trading!Deciding!vars = Deciding!vars
    /\ Trading!Deciding!Next <=> Deciding!Next
    /\ Trading!Deciding!AnalysisAssumption <=> Deciding!AnalysisAssumption
    /\ Trading!Deciding!DecisionsAreSound <=> Deciding!DecisionsAreSound
<1>1. (Trading!Deciding!Init <=> Deciding!Init) /\ Trading!Deciding!vars = Deciding!vars
  BY DEF
    Deciding!Init, Deciding!vars, Deciding!Nobody, Deciding!Rest, Deciding!NoOrder,
    Trading!Deciding!Init, Trading!Deciding!vars, Trading!Deciding!Nobody,
    Trading!Deciding!Rest, Trading!Deciding!NoOrder
<1>2. Trading!Deciding!Next <=> Deciding!Next
  BY DEF
    Deciding!Next, Deciding!FetchMarketData, Deciding!TakeMarketData, Deciding!Analysts,
    Deciding!Analyse, Deciding!Break, Deciding!Debate, Deciding!Assess, Deciding!Decide,
    Deciding!ManagerFails, Deciding!Strategies, Deciding!StartBacktest, Deciding!Open,
    Deciding!Hear, Deciding!TradeLive, Deciding!Ask, Deciding!Review, Deciding!Show,
    Deciding!StartLive, Deciding!StartReview, Deciding!Context, Deciding!With,
    Deciding!Material, Deciding!Basis, Deciding!Facts, Deciding!Known, Deciding!Newest,
    Deciding!CautiousLimit, Deciding!Quoted, Deciding!Keep, Deciding!Told, Deciding!Decision,
    Deciding!NoPlan, Deciding!Side, Deciding!Merged, Deciding!Clamped, Deciding!Nobody,
    Deciding!NoOrder, Deciding!Execute, Deciding!Rest, Deciding!Begin, Deciding!Normalised,
    Deciding!Max, Deciding!BuyPlanHasEvidence, Deciding!Issues, Deciding!Min, Deciding!Shares,
    Deciding!Complete, Deciding!Ordered, Deciding!InLots, Deciding!Investable, Deciding!Percent,
    Trading!Deciding!Next, Trading!Deciding!FetchMarketData, Trading!Deciding!TakeMarketData,
    Trading!Deciding!Analysts, Trading!Deciding!Analyse, Trading!Deciding!Break,
    Trading!Deciding!Debate, Trading!Deciding!Assess, Trading!Deciding!Decide,
    Trading!Deciding!ManagerFails, Trading!Deciding!Strategies, Trading!Deciding!StartBacktest,
    Trading!Deciding!Open, Trading!Deciding!Hear, Trading!Deciding!TradeLive,
    Trading!Deciding!Ask, Trading!Deciding!Review, Trading!Deciding!Show,
    Trading!Deciding!StartLive, Trading!Deciding!StartReview, Trading!Deciding!Context,
    Trading!Deciding!With, Trading!Deciding!Material, Trading!Deciding!Basis,
    Trading!Deciding!Facts, Trading!Deciding!Known, Trading!Deciding!Newest,
    Trading!Deciding!CautiousLimit, Trading!Deciding!Quoted, Trading!Deciding!Keep,
    Trading!Deciding!Told, Trading!Deciding!Decision, Trading!Deciding!NoPlan,
    Trading!Deciding!Side, Trading!Deciding!Merged, Trading!Deciding!Clamped,
    Trading!Deciding!Nobody, Trading!Deciding!NoOrder, Trading!Deciding!Execute,
    Trading!Deciding!Rest, Trading!Deciding!Begin, Trading!Deciding!Normalised,
    Trading!Deciding!Max, Trading!Deciding!BuyPlanHasEvidence, Trading!Deciding!Issues,
    Trading!Deciding!Min, Trading!Deciding!Shares, Trading!Deciding!Complete,
    Trading!Deciding!Ordered, Trading!Deciding!InLots, Trading!Deciding!Investable,
    Trading!Deciding!Percent
<1>3. Trading!Deciding!AnalysisAssumption <=> Deciding!AnalysisAssumption
  BY DEF
    Deciding!AnalysisAssumption, Deciding!Plans, Trading!Deciding!AnalysisAssumption,
    Trading!Deciding!Plans
<1>4. Trading!Deciding!DecisionsAreSound <=> Deciding!DecisionsAreSound
  BY DEF
    Deciding!DecisionsAreSound, Deciding!TypeOK, Deciding!BuysArePlanned, Deciding!OrdersFollow,
    Deciding!KnowsNothingLater, Deciding!Ordered, Deciding!Max,
    Trading!Deciding!DecisionsAreSound, Trading!Deciding!TypeOK,
    Trading!Deciding!BuysArePlanned, Trading!Deciding!OrdersFollow,
    Trading!Deciding!KnowsNothingLater, Trading!Deciding!Ordered, Trading!Deciding!Max
<1> QED  BY <1>1, <1>2, <1>3, <1>4

LEMMA DecisionsRun == PlatformSpec /\ part = "decisions" => Trading!Deciding!Spec
<1>1. PlatformInit /\ part = "decisions" => Trading!Deciding!Init
  BY SameDecisions DEF PlatformInit
<1>2. part = "decisions" /\ [PlatformNext]_<<part, Shared, vars>> => (part = "decisions")' /\ [Deciding!Next]_(Deciding!vars)
  BY DEF PlatformNext, PartNext, Deciding!vars, Shared, vars
<1>3. [Deciding!Next]_(Deciding!vars) => [Trading!Deciding!Next]_(Trading!Deciding!vars)
  BY SameDecisions DEF Deciding!vars, Trading!Deciding!vars
<1> QED  BY <1>1, <1>2, <1>3, PTL DEF PlatformSpec, Trading!Deciding!Spec

\* Whatever a portfolio manager's model answers: purchases are planned, sized and
\* carried out as they were decided, and a decision as of a day knows nothing of
\* a later one (agents/portfolio_manager.py, services/automation.py).
THEOREM DecisionsAreSoundHolds == PlatformSpec => []DecisionsAreSound
<1>1. Trading!Deciding!AnalysisAssumption  BY DecidingIsSound, SameDecisions
<1>2. Trading!Deciding!Spec => []Trading!Deciding!DecisionsAreSound
  BY <1>1, Trading!DecisionsAreSoundHolds
<1>3. Trading!Deciding!DecisionsAreSound => DecisionsAreSound  BY SameDecisions DEF DecisionsAreSound
<1>4. ~(part = "decisions") => DecisionsAreSound  BY DEF DecisionsAreSound
<1>5. PlatformSpec /\ ~(part = "decisions") => [](~(part = "decisions"))
  <2>1. ~(part = "decisions") /\ [PlatformNext]_<<part, Shared, vars>> => (~(part = "decisions"))'  BY DEF PlatformNext, PartNext
  <2> QED  BY <2>1, PTL DEF PlatformSpec
<1> QED  BY <1>2, <1>3, <1>4, <1>5, DecisionsRun, PTL

\* These are the backtests of MCPlatform.
LEMMA SameSingle ==
    /\ Trading!Testing!Init <=> Single!Init
    /\ Trading!Testing!vars = Single!vars
    /\ Trading!Testing!Next <=> Single!Next
    /\ Trading!Testing!BacktestAssumption <=> Single!BacktestAssumption
    /\ Trading!Testing!TypeOK <=> Single!TypeOK
    /\ Trading!Testing!StaysArmed <=> Single!StaysArmed
    /\ Trading!Testing!ExitsAreCarriedOut <=> Single!ExitsAreCarriedOut
<1>1. (Trading!Testing!Init <=> Single!Init) /\ Trading!Testing!vars = Single!vars
  BY DEF
    Single!Init, Single!vars, Single!NoPrice,
    Trading!Testing!Init, Trading!Testing!vars, Trading!Testing!NoPrice
<1>2. Trading!Testing!Next <=> Single!Next
  <2>1. Trading!Testing!Held = Single!Held /\ Trading!Testing!Bars = Single!Bars
    BY DEF
        Single!Held, Trading!Testing!Held, Single!Drifted, Trading!Testing!Drifted,
        Single!Traded, Trading!Testing!Traded, Single!Bars, Trading!Testing!Bars
  <2>2. \A h : Trading!Testing!Skip(h) <=> Single!Skip(h)
    BY DEF
        Single!Skip, Trading!Testing!Skip
  <2>3. \A h, bar : /\ Trading!Testing!Stopped(h, bar) = Single!Stopped(h, bar)
                /\ Trading!Testing!Exiting(h, bar) = Single!Exiting(h, bar)
    BY DEF
        Single!Stopped, Trading!Testing!Stopped, Single!NoPrice,
        Trading!Testing!NoPrice, Single!Exiting, Trading!Testing!Exiting,
        Single!Holding, Trading!Testing!Holding
  <2>4. \A h, bar : Trading!Testing!Sized(h, bar) = Single!Sized(h, bar)
    BY DEF
        Single!Sized, Trading!Testing!Sized, Single!Wanted, Trading!Testing!Wanted,
        Single!Lower, Trading!Testing!Lower, Single!Upper, Trading!Testing!Upper
  <2>5. \A h, bar : Trading!Testing!Target(h, bar) = Single!Target(h, bar)
    BY <2>3, <2>4 DEF
        Single!Target, Trading!Testing!Target, Single!Entering,
        Trading!Testing!Entering, Single!Lower, Trading!Testing!Lower, Single!Upper,
        Trading!Testing!Upper
  <2>6. \A h, bar : Trading!Testing!Evaluated(h, bar) = Single!Evaluated(h, bar)
    BY <2>3, <2>5 DEF
        Single!Evaluated, Trading!Testing!Evaluated, Single!EntryAfter,
        Trading!Testing!EntryAfter, Single!RestAfter, Trading!Testing!RestAfter,
        Single!NoPrice, Trading!Testing!NoPrice
  <2>7. \A h, bar : Trading!Testing!Evaluate(h, bar) <=> Single!Evaluate(h, bar)
    BY <2>3, <2>5, <2>6 DEF
        Single!Evaluate, Trading!Testing!Evaluate, Single!Evaluates,
        Trading!Testing!Evaluates, Single!Rebalances, Trading!Testing!Rebalances,
        Single!Traded, Trading!Testing!Traded, Single!Lower, Trading!Testing!Lower
  <2> QED  BY <2>1, <2>2, <2>7 DEF Single!Next, Trading!Testing!Next
<1>3. Trading!Testing!BacktestAssumption <=> Single!BacktestAssumption
  BY DEF
    Single!BacktestAssumption,
    Trading!Testing!BacktestAssumption
<1>4. Trading!Testing!TypeOK <=> Single!TypeOK
  BY DEF
    Single!TypeOK, Single!NoPrice,
    Trading!Testing!TypeOK, Trading!Testing!NoPrice
<1>5. Trading!Testing!StaysArmed <=> Single!StaysArmed
  BY DEF
    Single!StaysArmed, Single!Aligned, Single!NoPrice,
    Trading!Testing!StaysArmed, Trading!Testing!Aligned, Trading!Testing!NoPrice
<1>6. Trading!Testing!ExitsAreCarriedOut <=> Single!ExitsAreCarriedOut
  BY DEF
    Single!ExitsAreCarriedOut, Single!Aligned,
    Trading!Testing!ExitsAreCarriedOut, Trading!Testing!Aligned
<1> QED  BY <1>1, <1>2, <1>3, <1>4, <1>5, <1>6

LEMMA SingleRun == PlatformSpec /\ part = "single" => Trading!Testing!Spec
<1>1. PlatformInit /\ part = "single" => Trading!Testing!Init
  BY SameSingle DEF PlatformInit
<1>2. part = "single" /\ [PlatformNext]_<<part, Shared, vars>> => (part = "single")' /\ [Single!Next]_(Single!vars)
  BY DEF PlatformNext, PartNext, Single!vars, Shared, vars
<1>3. [Single!Next]_(Single!vars) => [Trading!Testing!Next]_(Trading!Testing!vars)
  BY SameSingle DEF Single!vars, Trading!Testing!vars
<1> QED  BY <1>1, <1>2, <1>3, PTL DEF PlatformSpec, Trading!Testing!Spec

\* And these are its pools.
LEMMA SamePool ==
    /\ Markets!Pooling!Init <=> Pool!Init
    /\ Markets!Pooling!vars = Pool!vars
    /\ Markets!Pooling!Next <=> Pool!Next
    /\ Markets!Pooling!PoolBacktestAssumption <=> Pool!PoolBacktestAssumption
    /\ Markets!Pooling!TypeOK <=> Pool!TypeOK
    /\ Markets!Pooling!TradedAtNextBar <=> Pool!TradedAtNextBar
    /\ Markets!Pooling!WithinPositions <=> Pool!WithinPositions
<1>1. (Markets!Pooling!Init <=> Pool!Init) /\ Markets!Pooling!vars = Pool!vars
  BY DEF
    Pool!Init, Pool!vars,
    Markets!Pooling!Init, Markets!Pooling!vars
<1>2. Markets!Pooling!Next <=> Pool!Next
  BY DEF
    Pool!Next, Pool!Decisions, Pool!Day, Pool!Opened, Pool!Executed, Pool!Ripe,
    Pool!Rebalanced, Pool!Selections, Pool!Exposed, Pool!Allocations, Pool!Room,
    Pool!Trimmed, Pool!AtClose, Pool!Rebalances, Pool!Evaluates, Pool!Unsold,
    Pool!Stranded, Pool!Waits, Pool!Decided, Pool!StillPending, Pool!Cardinality,
    Pool!IsFiniteSet,
    Markets!Pooling!Next, Markets!Pooling!Decisions, Markets!Pooling!Day,
    Markets!Pooling!Opened, Markets!Pooling!Executed, Markets!Pooling!Ripe,
    Markets!Pooling!Rebalanced, Markets!Pooling!Selections, Markets!Pooling!Exposed,
    Markets!Pooling!Allocations, Markets!Pooling!Room, Markets!Pooling!Trimmed,
    Markets!Pooling!AtClose, Markets!Pooling!Rebalances, Markets!Pooling!Evaluates,
    Markets!Pooling!Unsold, Markets!Pooling!Stranded, Markets!Pooling!Waits,
    Markets!Pooling!Decided, Markets!Pooling!StillPending,
    Markets!Pooling!Cardinality, Markets!Pooling!IsFiniteSet
<1>3. Markets!Pooling!PoolBacktestAssumption <=> Pool!PoolBacktestAssumption
  BY DEF
    Pool!PoolBacktestAssumption, Pool!IsFiniteSet,
    Markets!Pooling!PoolBacktestAssumption, Markets!Pooling!IsFiniteSet
<1>4. Markets!Pooling!TypeOK <=> Pool!TypeOK
  BY DEF
    Pool!TypeOK, Pool!Decisions,
    Markets!Pooling!TypeOK, Markets!Pooling!Decisions
<1>5. Markets!Pooling!TradedAtNextBar <=> Pool!TradedAtNextBar
  BY DEF
    Pool!TradedAtNextBar,
    Markets!Pooling!TradedAtNextBar
<1>6. Markets!Pooling!WithinPositions <=> Pool!WithinPositions
  BY DEF
    Pool!WithinPositions, Pool!Cardinality, Pool!IsFiniteSet,
    Markets!Pooling!WithinPositions, Markets!Pooling!Cardinality,
    Markets!Pooling!IsFiniteSet
<1> QED  BY <1>1, <1>2, <1>3, <1>4, <1>5, <1>6

LEMMA PoolRun == PlatformSpec /\ part = "pool" => Markets!Pooling!Spec
<1>1. PlatformInit /\ part = "pool" => Markets!Pooling!Init
  BY SamePool DEF PlatformInit
<1>2. part = "pool" /\ [PlatformNext]_<<part, Shared, vars>> => (part = "pool")' /\ [Pool!Next]_(Pool!vars)
  BY DEF PlatformNext, PartNext, Pool!vars, Shared, vars
<1>3. [Pool!Next]_(Pool!vars) => [Markets!Pooling!Next]_(Markets!Pooling!vars)
  BY SamePool DEF Pool!vars, Markets!Pooling!vars
<1> QED  BY <1>1, <1>2, <1>3, PTL DEF PlatformSpec, Markets!Pooling!Spec

\* What the backtests of MCPlatform promise: stop-losses stay armed and exits are
\* traded; decisions of a pool are traded at the next bar, within its positions
\* (engine/backtester.py).
THEOREM BacktestsTradeHolds == PlatformSpec => []BacktestsTrade
<1>1. Trading!Testing!BacktestAssumption  BY SinglesAreSound, SameSingle
<1>2. Trading!Testing!Spec => [](Trading!Testing!TypeOK /\ Trading!Testing!StaysArmed /\ Trading!Testing!ExitsAreCarriedOut)
  BY <1>1, Trading!ExitsAreCarriedOutHolds
<1>3. Markets!Pooling!PoolBacktestAssumption  BY PoolsAreSound, SamePool
<1>4. Markets!Pooling!Spec =>
        [](Markets!Pooling!TypeOK /\ Markets!Pooling!TradedAtNextBar /\ Markets!Pooling!WithinPositions)
  BY <1>3, Markets!PoolsTradeHolds
<1>5. part = "single" /\ Trading!Testing!StaysArmed /\ Trading!Testing!ExitsAreCarriedOut => BacktestsTrade
  BY SameSingle DEF BacktestsTrade
<1>6. part = "pool" /\ Markets!Pooling!TradedAtNextBar /\ Markets!Pooling!WithinPositions => BacktestsTrade
  BY SamePool DEF BacktestsTrade
<1>7. part \notin {"single", "pool"} => BacktestsTrade  BY DEF BacktestsTrade
<1>8. /\ PlatformSpec /\ part = "single" => [](part = "single")
      /\ PlatformSpec /\ part = "pool" => [](part = "pool")
      /\ PlatformSpec /\ part \notin {"single", "pool"} => [](part \notin {"single", "pool"})
  <2>1. part = "single" /\ [PlatformNext]_<<part, Shared, vars>> => (part = "single")'  BY DEF PlatformNext, PartNext
  <2>2. part = "pool" /\ [PlatformNext]_<<part, Shared, vars>> => (part = "pool")'  BY DEF PlatformNext, PartNext
  <2>3. part \notin {"single", "pool"} /\ [PlatformNext]_<<part, Shared, vars>> => (part \notin {"single", "pool"})'
    BY DEF PlatformNext, PartNext
  <2> QED  BY <2>1, <2>2, <2>3, PTL DEF PlatformSpec
<1>9. part = "single" \/ part = "pool" \/ part \notin {"single", "pool"}  OBVIOUS
<1> QED  BY <1>2, <1>4, <1>5, <1>6, <1>7, <1>8, <1>9, SingleRun, PoolRun, PTL

\* This is the laboratory of MCPlatform.
LEMMA SameLab ==
    /\ Trading!Laboratory!Init <=> Lab!Init
    /\ Trading!Laboratory!Next <=> Lab!Next
    /\ Trading!Laboratory!StrategyLabAssumption <=> Lab!StrategyLabAssumption
    /\ Trading!Laboratory!CandidatesAreEarned <=> Lab!CandidatesAreEarned
    /\ Trading!Laboratory!ExperimentsAreWhole <=> Lab!ExperimentsAreWhole
    /\ Trading!Laboratory!vars = Lab!vars
<1>1. (Trading!Laboratory!Init <=> Lab!Init) /\ Trading!Laboratory!vars = Lab!vars
  BY DEF
    Lab!Init, Trading!Laboratory!Init, Lab!vars, Trading!Laboratory!vars, Lab!Idle,
    Trading!Laboratory!Idle
<1>2. \A rows : Trading!Laboratory!Prepared(rows) = Lab!Prepared(rows)
  BY DEF
    Lab!Prepared, Trading!Laboratory!Prepared, Lab!Cardinality,
    Trading!Laboratory!Cardinality, Lab!IsFiniteSet, Trading!Laboratory!IsFiniteSet
<1>3. \A any : Trading!Laboratory!FilesOf(any) = Lab!FilesOf(any)
  BY DEF
    Lab!FilesOf, Trading!Laboratory!FilesOf
<1>4. /\ \A n, quarters : Trading!Laboratory!Prefix(n, quarters) = Lab!Prefix(n, quarters)
      /\ \A n : Trading!Laboratory!Sizes(n) = Lab!Sizes(n)
      /\ \A code, n, lot : Trading!Laboratory!Targets(code, n, lot) = Lab!Targets(code, n, lot)
  BY DEF
    Lab!Prefix, Trading!Laboratory!Prefix, Lab!Sizes, Trading!Laboratory!Sizes, Lab!Targets,
    Trading!Laboratory!Targets, Lab!Min, Trading!Laboratory!Min, Lab!Max,
    Trading!Laboratory!Max
<1>5. /\ \A strategy, n : Trading!Laboratory!Meant(strategy, n) = Lab!Meant(strategy, n)
      /\ \A first : Trading!Laboratory!Replayed(first) = Lab!Replayed(first)
      /\ \A runs : /\ Trading!Laboratory!Causal(runs) <=> Lab!Causal(runs)
                   /\ Trading!Laboratory!Deterministic(runs) <=> Lab!Deterministic(runs)
                   /\ Trading!Laboratory!Tried(runs) <=> Lab!Tried(runs)
  BY DEF
    Lab!Meant, Trading!Laboratory!Meant, Lab!Replayed, Trading!Laboratory!Replayed,
    Lab!Causal, Trading!Laboratory!Causal, Lab!Deterministic,
    Trading!Laboratory!Deterministic, Lab!Tried, Trading!Laboratory!Tried, Lab!SameStart,
    Trading!Laboratory!SameStart
<1>6. \A runs : Trading!Laboratory!Judge(runs) <=> Lab!Judge(runs)
  BY <1>5 DEF
    Lab!Judge, Trading!Laboratory!Judge, Lab!Idle, Trading!Laboratory!Idle
<1>7. \A mode1, count, given, rules : Trading!Laboratory!AskExperiment(mode1, count, given, rules) <=> Lab!AskExperiment(mode1, count, given, rules)
  BY DEF
    Lab!AskExperiment, Trading!Laboratory!AskExperiment, Lab!ModeFor,
    Trading!Laboratory!ModeFor, Lab!ModeFits, Trading!Laboratory!ModeFits, Lab!Idle,
    Trading!Laboratory!Idle
<1>8. \A answer : Trading!Laboratory!Design(answer) <=> Lab!Design(answer)
  BY DEF
    Lab!Design, Trading!Laboratory!Design, Lab!Idle, Trading!Laboratory!Idle
<1>9. \A name, fits : Trading!Laboratory!Register(name, fits) <=> Lab!Register(name, fits)
  BY DEF
    Lab!Register, Trading!Laboratory!Register, Lab!Idle, Trading!Laboratory!Idle
<1>10. \A answer : Trading!Laboratory!Rules(answer) <=> Lab!Rules(answer)
  BY DEF
    Lab!Rules, Trading!Laboratory!Rules, Lab!Idle, Trading!Laboratory!Idle
<1>11. \A histories : Trading!Laboratory!Run(histories) <=> Lab!Run(histories)
  BY <1>2 DEF
    Lab!Run, Trading!Laboratory!Run
<1>12. \A code, strategy : Trading!Laboratory!Write(code, strategy) <=> Lab!Write(code, strategy)
  BY DEF
    Lab!Write, Trading!Laboratory!Write
<1>13. \A rows : Trading!Laboratory!Fetch(rows) <=> Lab!Fetch(rows)
  BY <1>2 DEF
    Lab!Fetch, Trading!Laboratory!Fetch, Lab!Idle, Trading!Laboratory!Idle
<1>14. \A lot : Trading!Laboratory!Try(lot) <=> Lab!Try(lot)
  BY <1>4, <1>5 DEF
    Lab!Try, Trading!Laboratory!Try
<1>15. /\ Trading!Laboratory!DieInRegister <=> Lab!DieInRegister
       /\ Trading!Laboratory!Publish <=> Lab!Publish
       /\ Trading!Laboratory!Save <=> Lab!Save
  BY <1>3 DEF
    Lab!DieInRegister, Trading!Laboratory!DieInRegister, Lab!Publish,
    Trading!Laboratory!Publish, Lab!Save, Trading!Laboratory!Save, Lab!Idle,
    Trading!Laboratory!Idle
<1>16. /\ Trading!Laboratory!AskCandidate <=> Lab!AskCandidate
       /\ Trading!Laboratory!NoText <=> Lab!NoText
       /\ Trading!Laboratory!Conclude <=> Lab!Conclude
       /\ Trading!Laboratory!ChildFails <=> Lab!ChildFails
       /\ Trading!Laboratory!Die <=> Lab!Die
  BY <1>5, <1>6 DEF
    Lab!AskCandidate, Trading!Laboratory!AskCandidate, Lab!NoText, Trading!Laboratory!NoText,
    Lab!Conclude, Trading!Laboratory!Conclude, Lab!ChildFails, Trading!Laboratory!ChildFails,
    Lab!Die, Trading!Laboratory!Die, Lab!Idle, Trading!Laboratory!Idle
<1>17. Trading!Laboratory!Next <=> Lab!Next
  BY <1>7, <1>8, <1>9, <1>10, <1>11, <1>12, <1>13, <1>14, <1>15, <1>16 DEF
    Lab!Next, Trading!Laboratory!Next, Lab!Modes, Trading!Laboratory!Modes, Lab!Codes,
    Trading!Laboratory!Codes
<1>18. Trading!Laboratory!StrategyLabAssumption <=> Lab!StrategyLabAssumption
  BY DEF
    Lab!StrategyLabAssumption, Trading!Laboratory!StrategyLabAssumption, Lab!Rows,
    Trading!Laboratory!Rows
<1>19. Trading!Laboratory!CandidatesAreEarned <=> Lab!CandidatesAreEarned
  BY <1>4 DEF
    Lab!CandidatesAreEarned, Trading!Laboratory!CandidatesAreEarned, Lab!Earned,
    Trading!Laboratory!Earned, Lab!Clean, Trading!Laboratory!Clean, Lab!InOrder,
    Trading!Laboratory!InOrder
<1>20. Trading!Laboratory!ExperimentsAreWhole <=> Lab!ExperimentsAreWhole
  BY DEF
    Lab!ExperimentsAreWhole, Trading!Laboratory!ExperimentsAreWhole, Lab!Whole,
    Trading!Laboratory!Whole, Lab!Clean, Trading!Laboratory!Clean, Lab!InOrder,
    Trading!Laboratory!InOrder
<1> QED  BY <1>1, <1>17, <1>18, <1>19, <1>20

LEMMA LabRun == PlatformSpec /\ part = "lab" => Trading!Laboratory!Spec
<1>1. PlatformInit /\ part = "lab" => Trading!Laboratory!Init
  BY SameLab DEF PlatformInit
<1>2. part = "lab" /\ [PlatformNext]_<<part, Shared, vars>> => (part = "lab")' /\ [Lab!Next]_(Lab!vars)
  BY DEF PlatformNext, PartNext, Lab!vars, Shared, vars
<1>3. [Lab!Next]_(Lab!vars) => [Trading!Laboratory!Next]_(Trading!Laboratory!vars)
  BY SameLab DEF Lab!vars, Trading!Laboratory!vars
<1> QED  BY <1>1, <1>2, <1>3, PTL DEF PlatformSpec, Trading!Laboratory!Spec

\* And this is the shelf of its strategies.
LEMMA SameShelf ==
    /\ Markets!Laboratory!Init <=> Shelf!Init
    /\ Markets!Laboratory!Next <=> Shelf!Next
    /\ Markets!Laboratory!StrategyLabAssumption <=> Shelf!StrategyLabAssumption
    /\ Markets!Laboratory!ExperimentsAreWhole <=> Shelf!ExperimentsAreWhole
    /\ Markets!Laboratory!StrategiesAreKept <=> Shelf!StrategiesAreKept
    /\ Markets!Laboratory!vars = Shelf!vars
<1>1. (Markets!Laboratory!Init <=> Shelf!Init) /\ Markets!Laboratory!vars = Shelf!vars
  BY DEF
    Shelf!Init, Markets!Laboratory!Init, Shelf!vars, Markets!Laboratory!vars, Shelf!Idle,
    Markets!Laboratory!Idle
<1>2. \A rows : Markets!Laboratory!Prepared(rows) = Shelf!Prepared(rows)
  BY DEF
    Shelf!Prepared, Markets!Laboratory!Prepared, Shelf!Cardinality,
    Markets!Laboratory!Cardinality, Shelf!IsFiniteSet, Markets!Laboratory!IsFiniteSet
<1>3. \A any : Markets!Laboratory!FilesOf(any) = Shelf!FilesOf(any)
  BY DEF
    Shelf!FilesOf, Markets!Laboratory!FilesOf
<1>4. /\ \A n, quarters : Markets!Laboratory!Prefix(n, quarters) = Shelf!Prefix(n, quarters)
      /\ \A n : Markets!Laboratory!Sizes(n) = Shelf!Sizes(n)
      /\ \A code, n, lot : Markets!Laboratory!Targets(code, n, lot) = Shelf!Targets(code, n, lot)
  BY DEF
    Shelf!Prefix, Markets!Laboratory!Prefix, Shelf!Sizes, Markets!Laboratory!Sizes,
    Shelf!Targets, Markets!Laboratory!Targets, Shelf!Min, Markets!Laboratory!Min, Shelf!Max,
    Markets!Laboratory!Max
<1>5. /\ \A strategy, n : Markets!Laboratory!Meant(strategy, n) = Shelf!Meant(strategy, n)
      /\ \A first : Markets!Laboratory!Replayed(first) = Shelf!Replayed(first)
      /\ \A runs : /\ Markets!Laboratory!Causal(runs) <=> Shelf!Causal(runs)
                   /\ Markets!Laboratory!Deterministic(runs) <=> Shelf!Deterministic(runs)
                   /\ Markets!Laboratory!Tried(runs) <=> Shelf!Tried(runs)
  BY DEF
    Shelf!Meant, Markets!Laboratory!Meant, Shelf!Replayed, Markets!Laboratory!Replayed,
    Shelf!Causal, Markets!Laboratory!Causal, Shelf!Deterministic,
    Markets!Laboratory!Deterministic, Shelf!Tried, Markets!Laboratory!Tried, Shelf!SameStart,
    Markets!Laboratory!SameStart
<1>6. \A runs : Markets!Laboratory!Judge(runs) <=> Shelf!Judge(runs)
  BY <1>5 DEF
    Shelf!Judge, Markets!Laboratory!Judge, Shelf!Idle, Markets!Laboratory!Idle
<1>7. \A mode1, count, given, rules : Markets!Laboratory!AskExperiment(mode1, count, given, rules) <=> Shelf!AskExperiment(mode1, count, given, rules)
  BY DEF
    Shelf!AskExperiment, Markets!Laboratory!AskExperiment, Shelf!ModeFor,
    Markets!Laboratory!ModeFor, Shelf!ModeFits, Markets!Laboratory!ModeFits, Shelf!Idle,
    Markets!Laboratory!Idle
<1>8. \A answer : Markets!Laboratory!Design(answer) <=> Shelf!Design(answer)
  BY DEF
    Shelf!Design, Markets!Laboratory!Design, Shelf!Idle, Markets!Laboratory!Idle
<1>9. \A name, fits : Markets!Laboratory!Register(name, fits) <=> Shelf!Register(name, fits)
  BY DEF
    Shelf!Register, Markets!Laboratory!Register, Shelf!Idle, Markets!Laboratory!Idle
<1>10. \A answer : Markets!Laboratory!Rules(answer) <=> Shelf!Rules(answer)
  BY DEF
    Shelf!Rules, Markets!Laboratory!Rules, Shelf!Idle, Markets!Laboratory!Idle
<1>11. \A histories : Markets!Laboratory!Run(histories) <=> Shelf!Run(histories)
  BY <1>2 DEF
    Shelf!Run, Markets!Laboratory!Run
<1>12. \A code, strategy : Markets!Laboratory!Write(code, strategy) <=> Shelf!Write(code, strategy)
  BY DEF
    Shelf!Write, Markets!Laboratory!Write
<1>13. \A rows : Markets!Laboratory!Fetch(rows) <=> Shelf!Fetch(rows)
  BY <1>2 DEF
    Shelf!Fetch, Markets!Laboratory!Fetch, Shelf!Idle, Markets!Laboratory!Idle
<1>14. \A lot : Markets!Laboratory!Try(lot) <=> Shelf!Try(lot)
  BY <1>4, <1>5 DEF
    Shelf!Try, Markets!Laboratory!Try
<1>15. /\ Markets!Laboratory!DieInRegister <=> Shelf!DieInRegister
       /\ Markets!Laboratory!Publish <=> Shelf!Publish
       /\ Markets!Laboratory!Save <=> Shelf!Save
  BY <1>3 DEF
    Shelf!DieInRegister, Markets!Laboratory!DieInRegister, Shelf!Publish,
    Markets!Laboratory!Publish, Shelf!Save, Markets!Laboratory!Save, Shelf!Idle,
    Markets!Laboratory!Idle
<1>16. /\ Markets!Laboratory!AskCandidate <=> Shelf!AskCandidate
       /\ Markets!Laboratory!NoText <=> Shelf!NoText
       /\ Markets!Laboratory!Conclude <=> Shelf!Conclude
       /\ Markets!Laboratory!ChildFails <=> Shelf!ChildFails
       /\ Markets!Laboratory!Die <=> Shelf!Die
  BY <1>5, <1>6 DEF
    Shelf!AskCandidate, Markets!Laboratory!AskCandidate, Shelf!NoText,
    Markets!Laboratory!NoText, Shelf!Conclude, Markets!Laboratory!Conclude, Shelf!ChildFails,
    Markets!Laboratory!ChildFails, Shelf!Die, Markets!Laboratory!Die, Shelf!Idle,
    Markets!Laboratory!Idle
<1>17. Markets!Laboratory!Next <=> Shelf!Next
  BY <1>7, <1>8, <1>9, <1>10, <1>11, <1>12, <1>13, <1>14, <1>15, <1>16 DEF
    Shelf!Next, Markets!Laboratory!Next, Shelf!Modes, Markets!Laboratory!Modes, Shelf!Codes,
    Markets!Laboratory!Codes
<1>18. Markets!Laboratory!StrategyLabAssumption <=> Shelf!StrategyLabAssumption
  BY DEF
    Shelf!StrategyLabAssumption, Markets!Laboratory!StrategyLabAssumption, Shelf!Rows,
    Markets!Laboratory!Rows
<1>19. Markets!Laboratory!ExperimentsAreWhole <=> Shelf!ExperimentsAreWhole
  BY DEF
    Shelf!ExperimentsAreWhole, Markets!Laboratory!ExperimentsAreWhole, Shelf!Whole,
    Markets!Laboratory!Whole, Shelf!Clean, Markets!Laboratory!Clean, Shelf!InOrder,
    Markets!Laboratory!InOrder
<1>20. Markets!Laboratory!StrategiesAreKept <=> Shelf!StrategiesAreKept
  BY DEF
    Shelf!StrategiesAreKept, Markets!Laboratory!StrategiesAreKept
<1> QED  BY <1>1, <1>17, <1>18, <1>19, <1>20

LEMMA ShelfRun == PlatformSpec /\ part = "shelf" => Markets!Laboratory!Spec
<1>1. PlatformInit /\ part = "shelf" => Markets!Laboratory!Init
  BY SameShelf DEF PlatformInit
<1>2. part = "shelf" /\ [PlatformNext]_<<part, Shared, vars>> => (part = "shelf")' /\ [Shelf!Next]_(Shelf!vars)
  BY DEF PlatformNext, PartNext, Shelf!vars, Shared, vars
<1>3. [Shelf!Next]_(Shelf!vars) => [Markets!Laboratory!Next]_(Markets!Laboratory!vars)
  BY SameShelf DEF Shelf!vars, Markets!Laboratory!vars
<1> QED  BY <1>1, <1>2, <1>3, PTL DEF PlatformSpec, Markets!Laboratory!Spec

\* What the laboratory of MCPlatform promises: whatever a model writes and whenever
\* the process dies, verdicts are earned, experiments are whole and strategies are
\* kept (research_sandbox.py, backtest_experiment.py, strategies/registry.py).
THEOREM VerdictsAreEarnedHolds == PlatformSpec => []VerdictsAreEarned
<1>1. Trading!Laboratory!StrategyLabAssumption  BY LabsAreSound, SameLab
<1>2. Trading!Laboratory!Spec =>
        [](/\ Trading!Laboratory!TypeOK /\ Trading!Laboratory!CandidatesAreEarned
           /\ Trading!Laboratory!ExperimentsAreWhole /\ Trading!Laboratory!StrategiesAreKept)
  BY <1>1, Trading!VerdictsHold
<1>3. Markets!Laboratory!StrategyLabAssumption  BY LabsAreSound, SameShelf
<1>4. Markets!Laboratory!Spec =>
        [](/\ Markets!Laboratory!TypeOK /\ Markets!Laboratory!CandidatesAreEarned
           /\ Markets!Laboratory!ExperimentsAreWhole /\ Markets!Laboratory!StrategiesAreKept)
  BY <1>3, Markets!VerdictsHold
<1>5. part = "lab" /\ Trading!Laboratory!CandidatesAreEarned /\ Trading!Laboratory!ExperimentsAreWhole => VerdictsAreEarned
  BY SameLab DEF VerdictsAreEarned
<1>6. part = "shelf" /\ Markets!Laboratory!ExperimentsAreWhole /\ Markets!Laboratory!StrategiesAreKept => VerdictsAreEarned
  BY SameShelf DEF VerdictsAreEarned
<1>7. part \notin {"lab", "shelf"} => VerdictsAreEarned  BY DEF VerdictsAreEarned
<1>8. /\ PlatformSpec /\ part = "lab" => [](part = "lab")
      /\ PlatformSpec /\ part = "shelf" => [](part = "shelf")
      /\ PlatformSpec /\ part \notin {"lab", "shelf"} => [](part \notin {"lab", "shelf"})
  <2>1. part = "lab" /\ [PlatformNext]_<<part, Shared, vars>> => (part = "lab")'  BY DEF PlatformNext, PartNext
  <2>2. part = "shelf" /\ [PlatformNext]_<<part, Shared, vars>> => (part = "shelf")'  BY DEF PlatformNext, PartNext
  <2>3. part \notin {"lab", "shelf"} /\ [PlatformNext]_<<part, Shared, vars>> => (part \notin {"lab", "shelf"})'
    BY DEF PlatformNext, PartNext
  <2> QED  BY <2>1, <2>2, <2>3, PTL DEF PlatformSpec
<1>9. part = "lab" \/ part = "shelf" \/ part \notin {"lab", "shelf"}  OBVIOUS
<1> QED  BY <1>2, <1>4, <1>5, <1>6, <1>7, <1>8, <1>9, LabRun, ShelfRun, PTL

=============================================================================
