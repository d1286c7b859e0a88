------------------------- MODULE NemuMonitorProofs -------------------------
(***************************************************************************)
(* Theorems about NEMU's monitor and its ring of executed instructions,    *)
(* for every size of the watchpoint pool and of the ring, and every bound  *)
(* on `si'.  The two about DiffTest hold as long as the debugger's command *)
(* x stays out of device registers.                                        *)
(***************************************************************************)
EXTENDS NemuTrace, ListLemmas

Quiet == DebuggerReads \subseteq {"pmem"}

-----------------------------------------------------------------------------
\* Inside the loop there is always a turn left to count (`n > 0' is tested
\* before each), so the unsigned counter never wraps.
TurnsLeft == phase \in {"inst", "diff", "watch", "next"} => budget # 0

TypeInv == TypeOK /\ TurnsLeft

\* The monitor's variables keep their types; the two lists only ever hold
\* numbers of the pool, and the counter of execute() does not wrap.
THEOREM MonitorTypeCorrect == Spec => [](TypeOK /\ TurnsLeft)
<1>1. Init => TypeInv
  <2> SUFFICES ASSUME Init PROVE TypeInv
    OBVIOUS
  <2>1. <<>> \in Seq(Wp) /\ [i \in 1..NrWp |-> i - 1] \in Seq(Wp)
    BY MonitorAssumption, IsASeq DEF Wp
  <2>2. 0 \in 0..Forever
    BY MonitorAssumption DEF Forever
  <2> QED BY <2>1, <2>2 DEF Init, TypeOK, Kinds, TypeInv, TurnsLeft
<1>2. TypeInv /\ [Next]_vars => TypeInv'
  <2> SUFFICES ASSUME TypeInv, [Next]_vars PROVE TypeInv'
    OBVIOUS
  <2> USE DEF TypeOK, TypeInv, TurnsLeft
  <2>1. ASSUME NEW n \in 0..Forever, CpuExec(n) PROVE TypeInv'
    BY <2>1 DEF CpuExec, vars, cpuVars, wpVars
  <2>2. CASE ReadMemory
    BY <2>2 DEF ReadMemory, cpuVars, wpVars
  <2>3. CASE SetWatchpoint
    <3>1. CASE free = <<>>
      BY <2>3, <3>1 DEF SetWatchpoint, cpuVars, wpVars
    <3>2. CASE free # <<>>
      <4>1. Head(free) \in Wp /\ Tail(free) \in Seq(Wp)
        BY <3>2, HeadTailProperties
      <4>2. <<Head(free)>> \o head \in Seq(Wp)
        BY <4>1, ConsProperties
      <4> QED BY <2>3, <3>2, <4>1, <4>2 DEF SetWatchpoint, cpuVars, wpVars
    <3> QED BY <3>1, <3>2
  <2>4. ASSUME NEW i \in DOMAIN head, DeleteWatchpoint(i) PROVE TypeInv'
    <3>1. i \in 1..Len(head) /\ head[i] \in Wp
      BY LenProperties, ElementOfSeq
    <3>2. RemoveAt(head, i) \in Seq(Wp) /\ <<head[i]>> \o free \in Seq(Wp)
      BY <3>1, RemoveAtProperties, ConsProperties
    <3> QED BY <2>4, <3>2 DEF DeleteWatchpoint, cpuVars
  <2>5. CASE Quit
    BY <2>5 DEF Quit, cpuVars, wpVars
  <2>6. ASSUME NEW kind \in Kinds, NEW wrong \in BOOLEAN, ExecOnce(kind, wrong)
        PROVE  TypeInv'
    <3>1. inst' \in [kind : Kinds, wrong : BOOLEAN] /\ state' \in {"RUNNING", "STOP"} \cup Ended
      BY <2>6 DEF ExecOnce, Ended
    <3>2. haltGood' \in BOOLEAN /\ skipRef' \in BOOLEAN
      BY <2>6 DEF ExecOnce
    <3> QED BY <2>6, <3>1, <3>2 DEF ExecOnce, wpVars
  <2>7. CASE ExecPanics
    BY <2>7 DEF ExecPanics, cpuVars, wpVars
  <2>8. CASE DifftestStep
    BY <2>8 DEF DifftestStep, cpuVars, wpVars, Ended
  <2>9. CASE CheckWatchpoints
    BY <2>9 DEF CheckWatchpoints, cpuVars, wpVars
  <2>10. CASE Continue
    <3>1. budget' \in 0..Forever /\ (phase' = "inst" => budget' # 0)
      BY <2>10, MonitorAssumption DEF Continue, Forever
    <3> QED BY <2>10, <3>1 DEF Continue, wpVars, Ended
  <2>11. CASE Return
    BY <2>11 DEF Return, cpuVars, wpVars
  <2>12. CASE UNCHANGED vars
    BY <2>12 DEF vars, cpuVars, wpVars
  <2> QED BY <2>1, <2>2, <2>3, <2>4, <2>5, <2>6, <2>7, <2>8, <2>9, <2>10, <2>11, <2>12
          DEF Next, Command, Execute
<1> QED BY <1>1, <1>2, PTL DEF Spec, TypeInv

-----------------------------------------------------------------------------
\* As long as the debugger reads memory only, DiffTest skips an instruction
\* only on account of that instruction, and every mistake the reference can
\* see is reported and stops the program.
DifftestInv == SkipIsDeserved /\ MistakesReported

LEMMA DifftestStepInv ==
  ASSUME Quiet, DifftestInv, [Next]_vars PROVE DifftestInv'
<1> USE DEF DifftestInv, SkipIsDeserved, MistakesReported
<1>1. CASE Command
  <2>1. ASSUME NEW n \in 0..Forever, CpuExec(n) PROVE DifftestInv'
    BY <2>1 DEF CpuExec, vars, cpuVars
  <2>2. CASE ReadMemory
    <3>1. phase = "prompt" /\ phase' \in {"prompt", "died"} /\ ~skipRef
      BY <2>2 DEF ReadMemory
    <3>2. ASSUME NEW where \in DebuggerReads, skipRef' = (skipRef \/ where = "device")
          PROVE  ~skipRef'
      <4>1. where = "pmem"
        BY DEF Quiet
      <4> QED BY <3>1, <3>2, <4>1
    <3>3. ~skipRef'
      BY <2>2, <3>1, <3>2 DEF ReadMemory
    <3> QED BY <3>1, <3>3
  <2>3. CASE SetWatchpoint
    BY <2>3 DEF SetWatchpoint, cpuVars
  <2>4. ASSUME NEW i \in DOMAIN head, DeleteWatchpoint(i) PROVE DifftestInv'
    BY <2>4 DEF DeleteWatchpoint, cpuVars
  <2>5. CASE Quit
    BY <2>5 DEF Quit, cpuVars
  <2> QED BY <1>1, <2>1, <2>2, <2>3, <2>4, <2>5 DEF Command
<1>2. CASE Execute
  <2>1. ASSUME NEW kind \in Kinds, NEW wrong \in BOOLEAN, ExecOnce(kind, wrong)
        PROVE  DifftestInv'
    <3>1. inst'.kind = kind /\ phase' = "diff" /\ skipRef' = (kind # "plain")
      BY <2>1 DEF ExecOnce
    <3> QED BY <3>1
  <2>2. CASE ExecPanics
    BY <2>2 DEF ExecPanics, cpuVars
  <2>3. CASE DifftestStep
    BY <2>3 DEF DifftestStep, cpuVars
  <2>4. CASE CheckWatchpoints
    BY <2>4 DEF CheckWatchpoints, cpuVars
  <2>5. CASE Continue
    BY <2>5 DEF Continue
  <2>6. CASE Return
    BY <2>6 DEF Return, cpuVars
  <2> QED BY <1>2, <2>1, <2>2, <2>3, <2>4, <2>5, <2>6 DEF Execute
<1>3. CASE UNCHANGED vars
  BY <1>3 DEF vars, cpuVars
<1> QED BY <1>1, <1>2, <1>3 DEF Next

\* The flag is_skip_ref never outlives the instruction that set it.
THEOREM SkipsAreDeserved == ASSUME Quiet PROVE Spec => []SkipIsDeserved
<1>1. Init => DifftestInv
  BY DEF Init, DifftestInv, SkipIsDeserved, MistakesReported
<1>2. DifftestInv /\ [Next]_vars => DifftestInv'
  BY DifftestStepInv
<1>3. DifftestInv => SkipIsDeserved
  BY DEF DifftestInv
<1> QED BY <1>1, <1>2, <1>3, PTL DEF Spec

\* A mistake the reference can see never goes unreported.
THEOREM MistakesAreReported == ASSUME Quiet PROVE Spec => []MistakesReported
<1>1. Init => DifftestInv
  BY DEF Init, DifftestInv, SkipIsDeserved, MistakesReported
<1>2. DifftestInv /\ [Next]_vars => DifftestInv'
  BY DifftestStepInv
<1>3. DifftestInv => MistakesReported
  BY DEF DifftestInv
<1> QED BY <1>1, <1>2, <1>3, PTL DEF Spec

-----------------------------------------------------------------------------
\* What makes the exit status honest: in batch mode there are no watchpoints,
\* so nothing overwrites NEMU_ABORT between the mismatch and the exit, and the
\* loop tests the state before the close button can.
BatchInv ==
  batch => /\ head = <<>>
           /\ mismatch => state = "ABORT" /\ phase \in {"watch", "next", "return", "exited"}
           /\ phase = "prompt" => state = "STOP"

LEMMA BatchStepInv ==
  ASSUME BatchInv, [Next]_vars PROVE BatchInv'
<1> USE DEF BatchInv
<1>1. CASE Command
  <2>1. ASSUME NEW n \in 0..Forever, CpuExec(n) PROVE BatchInv'
    BY <2>1 DEF CpuExec, vars, wpVars
  <2>2. CASE ReadMemory
    BY <2>2 DEF ReadMemory
  <2>3. CASE SetWatchpoint
    BY <2>3 DEF SetWatchpoint
  <2>4. ASSUME NEW i \in DOMAIN head, DeleteWatchpoint(i) PROVE BatchInv'
    BY <2>4 DEF DeleteWatchpoint
  <2>5. CASE Quit
    BY <2>5 DEF Quit
  <2> QED BY <1>1, <2>1, <2>2, <2>3, <2>4, <2>5 DEF Command
<1>2. CASE Execute
  <2>1. ASSUME NEW kind \in Kinds, NEW wrong \in BOOLEAN, ExecOnce(kind, wrong)
        PROVE  BatchInv'
    BY <2>1 DEF ExecOnce, wpVars
  <2>2. CASE ExecPanics
    BY <2>2 DEF ExecPanics, wpVars
  <2>3. CASE DifftestStep
    BY <2>3 DEF DifftestStep, wpVars
  <2>4. CASE CheckWatchpoints
    BY <2>4 DEF CheckWatchpoints, wpVars
  <2>5. CASE Continue
    BY <2>5 DEF Continue, wpVars
  <2>6. CASE Return
    BY <2>6 DEF Return, wpVars
  <2> QED BY <1>2, <2>1, <2>2, <2>3, <2>4, <2>5, <2>6 DEF Execute
<1>3. CASE UNCHANGED vars
  BY <1>3 DEF vars, wpVars
<1> QED BY <1>1, <1>2, <1>3 DEF Next

\* Whatever the program does, whenever the window is closed: a batch run that
\* exits with status 0 has reported no mismatch.
THEOREM BatchExitsAreHonest == Spec => []BatchExitHonest
<1>1. Init => BatchInv
  BY DEF Init, BatchInv
<1>2. BatchInv /\ [Next]_vars => BatchInv'
  BY BatchStepInv
<1>3. BatchInv => BatchExitHonest
  BY DEF BatchInv, BatchExitHonest, GoodExit
<1> QED BY <1>1, <1>2, <1>3, PTL DEF Spec

-----------------------------------------------------------------------------
\* Moving a number from the front of one list to the front of another.
LEMMA TakeFirst ==
  ASSUME NEW S, NEW h \in Seq(S), NEW f \in Seq(S), f # <<>>,
         IsInjective(h), IsInjective(f), ToSet(h) \cap ToSet(f) = {}
  PROVE  /\ IsInjective(<<Head(f)>> \o h) /\ IsInjective(Tail(f))
         /\ ToSet(<<Head(f)>> \o h) \cap ToSet(Tail(f)) = {}
         /\ ToSet(<<Head(f)>> \o h) \cup ToSet(Tail(f)) = ToSet(h) \cup ToSet(f)
<1> DEFINE g == <<Head(f)>> \o h
           t == Tail(f)
<1>1. /\ Len(f) \in Nat \ {0} /\ DOMAIN f = 1..Len(f)
      /\ Len(h) \in Nat /\ DOMAIN h = 1..Len(h)
  BY LenProperties, EmptySeq
<1>2. Head(f) = f[1]
  OBVIOUS
<1>3. /\ DOMAIN t = 1..(Len(f) - 1)
      /\ \A k \in 1..(Len(f) - 1) : t[k] = f[k + 1]
  BY HeadTailProperties, LenProperties
<1>4. /\ DOMAIN g = 1..(Len(h) + 1)
      /\ \A k \in 1..(Len(h) + 1) : g[k] = IF k = 1 THEN f[1] ELSE h[k - 1]
  <2>1. Head(f) \in S
    BY HeadTailProperties
  <2> QED BY <1>2, <2>1, ConsProperties, LenProperties
<1> HIDE DEF g, t
<1> USE DEF IsInjective
<1>5. \A k \in 1..Len(h) : h[k] # f[1]
  <2>1. f[1] \in ToSet(f)
    BY <1>1 DEF ToSet
  <2>2. \A k \in 1..Len(h) : h[k] \in ToSet(h)
    BY <1>1 DEF ToSet
  <2> QED BY <2>1, <2>2
<1>6. \A k \in 2..Len(f) : f[k] # f[1]
  BY <1>1
<1>7. IsInjective(g)
  <2> SUFFICES ASSUME NEW a \in 1..(Len(h) + 1), NEW b \in 1..(Len(h) + 1), g[a] = g[b]
               PROVE  a = b
    BY <1>4
  <2>1. CASE a = 1 /\ b # 1
    BY <1>1, <1>4, <1>5, <2>1
  <2>2. CASE a # 1 /\ b = 1
    BY <1>1, <1>4, <1>5, <2>2
  <2>3. CASE a # 1 /\ b # 1
    <3>1. a - 1 \in DOMAIN h /\ b - 1 \in DOMAIN h /\ h[a - 1] = h[b - 1]
      BY <1>1, <1>4, <2>3
    <3>2. a - 1 = b - 1
      BY <3>1
    <3> QED BY <3>2
  <2> QED BY <2>1, <2>2, <2>3
<1>8. IsInjective(t)
  BY <1>1, <1>3
<1>9. ToSet(g) = {f[1]} \cup ToSet(h)
  <2>1. g[1] = f[1] /\ 1 \in DOMAIN g
    BY <1>1, <1>4
  <2>2. ASSUME NEW k \in DOMAIN h PROVE k + 1 \in DOMAIN g /\ g[k + 1] = h[k]
    BY <1>1, <1>4
  <2>3. ASSUME NEW k \in DOMAIN g PROVE g[k] = f[1] \/ (k - 1 \in DOMAIN h /\ g[k] = h[k - 1])
    BY <1>1, <1>4
  <2> QED BY <2>1, <2>2, <2>3 DEF ToSet
<1>10. ToSet(t) = ToSet(f) \ {f[1]}
  <2>1. ASSUME NEW k \in DOMAIN t PROVE k + 1 \in DOMAIN f /\ t[k] = f[k + 1] /\ t[k] # f[1]
    BY <1>1, <1>3, <1>6
  <2>2. ASSUME NEW k \in DOMAIN f, f[k] # f[1] PROVE k - 1 \in DOMAIN t /\ t[k - 1] = f[k]
    BY <1>1, <1>3, <2>2
  <2> QED BY <2>1, <2>2 DEF ToSet
<1>11. f[1] \in ToSet(f)
  BY <1>1 DEF ToSet
<1>12. ToSet(g) \cap ToSet(t) = {} /\ ToSet(g) \cup ToSet(t) = ToSet(h) \cup ToSet(f)
  <2> QED BY <1>9, <1>10, <1>11
<1> QED BY <1>7, <1>8, <1>12 DEF g, t

\* Moving the number at place i of one list to the front of another.
LEMMA TakeAt ==
  ASSUME NEW S, NEW h \in Seq(S), NEW f \in Seq(S), NEW i \in 1..Len(h),
         IsInjective(h), IsInjective(f), ToSet(h) \cap ToSet(f) = {}
  PROVE  /\ IsInjective(RemoveAt(h, i)) /\ IsInjective(<<h[i]>> \o f)
         /\ ToSet(RemoveAt(h, i)) \cap ToSet(<<h[i]>> \o f) = {}
         /\ ToSet(RemoveAt(h, i)) \cup ToSet(<<h[i]>> \o f) = ToSet(h) \cup ToSet(f)
<1> DEFINE r == RemoveAt(h, i)
           g == <<h[i]>> \o f
<1>1. /\ Len(f) \in Nat /\ DOMAIN f = 1..Len(f)
      /\ Len(h) \in Nat /\ DOMAIN h = 1..Len(h)
  BY LenProperties
<1>2. /\ DOMAIN r = 1..(Len(h) - 1)
      /\ \A k \in 1..(Len(h) - 1) : r[k] = IF k < i THEN h[k] ELSE h[k + 1]
  BY RemoveAtProperties, LenProperties
<1>3. /\ DOMAIN g = 1..(Len(f) + 1)
      /\ \A k \in 1..(Len(f) + 1) : g[k] = IF k = 1 THEN h[i] ELSE f[k - 1]
  <2>1. h[i] \in S
    BY ElementOfSeq
  <2> QED BY <2>1, ConsProperties, LenProperties
<1> HIDE DEF g, r
<1> USE DEF IsInjective
<1>4. \A k \in 1..Len(f) : f[k] # h[i]
  <2>1. h[i] \in ToSet(h)
    BY <1>1 DEF ToSet
  <2>2. \A k \in 1..Len(f) : f[k] \in ToSet(f)
    BY <1>1 DEF ToSet
  <2> QED BY <2>1, <2>2
<1>5. IsInjective(r)
  <2> SUFFICES ASSUME NEW a \in 1..(Len(h) - 1), NEW b \in 1..(Len(h) - 1), r[a] = r[b]
               PROVE  a = b
    BY <1>2
  <2> DEFINE at(k) == IF k < i THEN k ELSE k + 1
  <2>1. at(a) \in DOMAIN h /\ at(b) \in DOMAIN h /\ h[at(a)] = h[at(b)]
    BY <1>1, <1>2
  <2>2. at(a) = at(b)
    BY <2>1
  <2> QED BY <2>2
<1>6. IsInjective(g)
  <2> SUFFICES ASSUME NEW a \in 1..(Len(f) + 1), NEW b \in 1..(Len(f) + 1), g[a] = g[b]
               PROVE  a = b
    BY <1>3
  <2>1. CASE a = 1 /\ b # 1
    BY <1>1, <1>3, <1>4, <2>1
  <2>2. CASE a # 1 /\ b = 1
    BY <1>1, <1>3, <1>4, <2>2
  <2>3. CASE a # 1 /\ b # 1
    <3>1. a - 1 \in DOMAIN f /\ b - 1 \in DOMAIN f /\ f[a - 1] = f[b - 1]
      BY <1>1, <1>3, <2>3
    <3>2. a - 1 = b - 1
      BY <3>1
    <3> QED BY <3>2
  <2> QED BY <2>1, <2>2, <2>3
<1>7. ToSet(g) = {h[i]} \cup ToSet(f)
  <2>1. g[1] = h[i] /\ 1 \in DOMAIN g
    BY <1>1, <1>3
  <2>2. ASSUME NEW k \in DOMAIN f PROVE k + 1 \in DOMAIN g /\ g[k + 1] = f[k]
    BY <1>1, <1>3
  <2>3. ASSUME NEW k \in DOMAIN g PROVE g[k] = h[i] \/ (k - 1 \in DOMAIN f /\ g[k] = f[k - 1])
    BY <1>1, <1>3
  <2> QED BY <2>1, <2>2, <2>3 DEF ToSet
<1>8. ToSet(r) = ToSet(h) \ {h[i]}
  <2>1. ASSUME NEW k \in DOMAIN r PROVE r[k] \in ToSet(h) /\ r[k] # h[i]
    <3> DEFINE at == IF k < i THEN k ELSE k + 1
    <3>1. at \in DOMAIN h /\ at # i /\ r[k] = h[at]
      BY <1>1, <1>2
    <3>2. h[at] # h[i]
      BY <1>1, <3>1
    <3> QED BY <3>1, <3>2 DEF ToSet
  <2>2. ASSUME NEW k \in DOMAIN h, h[k] # h[i] PROVE h[k] \in ToSet(r)
    <3>1. CASE k < i
      <4>1. k \in DOMAIN r /\ r[k] = h[k]
        BY <1>1, <1>2, <3>1
      <4> QED BY <4>1 DEF ToSet
    <3>2. CASE i < k
      <4>1. k - 1 \in DOMAIN r /\ r[k - 1] = h[k]
        BY <1>1, <1>2, <3>2
      <4> QED BY <4>1 DEF ToSet
    <3> QED BY <1>1, <2>2, <3>1, <3>2
  <2>3. ToSet(h) \subseteq ToSet(r) \cup {h[i]}
    BY <2>2 DEF ToSet
  <2>4. ToSet(r) \subseteq ToSet(h) \ {h[i]}
    BY <2>1 DEF ToSet
  <2> QED BY <2>3, <2>4
<1>9. h[i] \in ToSet(h)
  BY <1>1 DEF ToSet
<1>10. ToSet(r) \cap ToSet(g) = {} /\ ToSet(r) \cup ToSet(g) = ToSet(h) \cup ToSet(f)
  <2>1. h[i] \notin ToSet(f)
    BY <1>9
  <2> QED BY <1>7, <1>8, <1>9, <2>1
<1> QED BY <1>5, <1>6, <1>10 DEF g, r

\* Commands w and d in any order neither lose a watchpoint nor hand one out
\* twice, whatever the size of the pool.
THEOREM PoolIsPartitioned == Spec => []PoolPartition
<1>1. Init => PoolPartition
  <2> SUFFICES ASSUME Init PROVE PoolPartition
    OBVIOUS
  <2>1. head = <<>> /\ DOMAIN head = {} /\ free = [i \in 1..NrWp |-> i - 1]
    BY DEF Init
  <2>2. IsInjective(head) /\ ToSet(head) = {}
    BY <2>1 DEF IsInjective, ToSet
  <2>3. IsInjective(free)
    BY <2>1, MonitorAssumption DEF IsInjective
  <2>4. ToSet(free) = Wp
    <3>1. ASSUME NEW n \in Wp PROVE n + 1 \in DOMAIN free /\ free[n + 1] = n
      BY <2>1, MonitorAssumption DEF Wp
    <3>2. ASSUME NEW k \in DOMAIN free PROVE free[k] \in Wp
      BY <2>1, MonitorAssumption DEF Wp
    <3> QED BY <3>1, <3>2 DEF ToSet
  <2> QED BY <2>2, <2>3, <2>4 DEF PoolPartition
<1>2. TypeOK /\ PoolPartition /\ [Next]_vars => PoolPartition'
  <2> SUFFICES ASSUME TypeOK, PoolPartition, [Next]_vars PROVE PoolPartition'
    OBVIOUS
  <2>1. CASE UNCHANGED wpVars
    BY <2>1 DEF PoolPartition, wpVars
  <2>2. CASE SetWatchpoint /\ free # <<>>
    <3>1. head' = <<Head(free)>> \o head /\ free' = Tail(free)
      BY <2>2 DEF SetWatchpoint
    <3> QED BY <2>2, <3>1, TakeFirst DEF PoolPartition, TypeOK
  <2>3. ASSUME NEW i \in DOMAIN head, DeleteWatchpoint(i) PROVE PoolPartition'
    <3>1. i \in 1..Len(head)
      BY LenProperties DEF TypeOK
    <3>2. head' = RemoveAt(head, i) /\ free' = <<head[i]>> \o free
      BY <2>3 DEF DeleteWatchpoint
    <3> QED BY <3>1, <3>2, TakeAt DEF PoolPartition, TypeOK
  <2>4. Next => \/ UNCHANGED wpVars
                \/ SetWatchpoint /\ free # <<>>
                \/ \E i \in DOMAIN head : DeleteWatchpoint(i)
    BY DEF Next, Command, Execute, CpuExec, ReadMemory, SetWatchpoint, Quit, ExecOnce,
           ExecPanics, DifftestStep, CheckWatchpoints, Continue, Return, vars, wpVars
  <2>5. UNCHANGED vars => UNCHANGED wpVars
    BY DEF vars, wpVars
  <2> QED BY <2>1, <2>2, <2>3, <2>4, <2>5
<1> QED BY <1>1, <1>2, MonitorTypeCorrect, PTL DEF Spec

\* An instruction is only ever started while the program is running, or in
\* the one turn after the window was closed.
THEOREM StopsAreImmediate == Spec => []StopsAtOnce
<1>1. Init => StopsAtOnce
  BY DEF Init, StopsAtOnce
<1>2. StopsAtOnce /\ [Next]_vars => StopsAtOnce'
  BY DEF StopsAtOnce, Next, Command, Execute, CpuExec, ReadMemory, SetWatchpoint,
         DeleteWatchpoint, Quit, ExecOnce, ExecPanics, DifftestStep, CheckWatchpoints,
         Continue, Return, vars
<1> QED BY <1>1, <1>2, PTL DEF Spec

-----------------------------------------------------------------------------
\* The ring is a part of the monitor that never gets in its way: what is proved
\* of the monitor holds with the ring as well.
THEOREM TraceIsAMonitor == TraceSpec => Spec
<1>1. TraceInit => Init
  BY DEF TraceInit
<1>2. [TraceNext]_traceVars => [Next]_vars
  BY DEF TraceNext, TraceExecute, TracedDifftest, Untraced, Next, Execute, traceVars
<1> QED BY <1>1, <1>2, PTL DEF TraceSpec, Spec

\* The ring holds, from the oldest on, what was executed last; its counter
\* says how much of it there is.
RingInv ==
  /\ recent \in Seq(Kinds)
  /\ buf = [i \in 0..(Size - 1) |-> buf[i]] /\ idx \in 0..(Size - 1)
  /\ count = Len(recent)
  /\ RingHolds(buf, idx, recent, Size)

LEMMA RingStep ==
  ASSUME RingInv, NEW line \in Kinds, Trace(line) PROVE RingInv'
<1> USE TraceAssumption
<1>1. recent' = KeepLast(recent, line, Size)
  BY DEF Trace, KeepLast
<1>2. recent' \in Seq(Kinds)
  BY <1>1, KeepLastInSeq DEF RingInv
<1>3. RingHolds(buf', idx', recent', Size)
  <2>1. RingHolds([buf EXCEPT ![idx] = line], (idx + 1) % Size, recent', Size)
    BY <1>1, RingKeepsLast DEF RingInv
  <2> QED BY <2>1 DEF Trace
<1>4. buf' = [i \in 0..(Size - 1) |-> buf'[i]]
  BY DEF RingInv, Trace
<1>5. idx' \in 0..(Size - 1)
  BY ModRange DEF RingInv, Trace
<1>6. count' = Len(recent')
  BY <1>1, KeepLastLen DEF RingInv, RingHolds, Trace
<1> QED BY <1>2, <1>3, <1>4, <1>5, <1>6 DEF RingInv

\* Reading the ring from the place display_iringbuf starts at gives the
\* history.
LEMMA DisplayIsRecent == ASSUME RingInv PROVE Display = recent
<1> USE TraceAssumption
<1> DEFINE n == Len(recent)
<1>1. n \in 0..Size /\ idx \in 0..(Size - 1) /\ count = n
  BY LenProperties DEF RingInv, RingHolds
<1>2. recent = [i \in 1..n |-> recent[i]]
  BY LenProperties DEF RingInv
<1>3. \A i \in 1..n : buf[(idx + Size - n + i - 1) % Size] = recent[i]
  BY DEF RingInv, RingHolds
<1> HIDE DEF n
<1>4. ASSUME NEW i \in 1..n
      PROVE  buf[(((idx + Size - n) % Size) + (i - 1)) % Size] = recent[i]
  <2>1. idx + Size - n \in 0..(2 * Size - 1) /\ i - 1 \in 0..(Size - 1)
    BY <1>1
  <2>2. (((idx + Size - n) % Size) + (i - 1)) % Size = (idx + Size - n + (i - 1)) % Size
    BY <2>1, ModShift
  <2>3. idx + Size - n + (i - 1) = idx + Size - n + i - 1
    BY <1>1
  <2> QED BY <1>3, <2>2, <2>3
<1>5. Display = [i \in 1..n |-> buf[(((idx + Size - n) % Size) + (i - 1)) % Size]]
  BY <1>1 DEF Display
<1>6. Display = [i \in 1..n |-> recent[i]]
  BY <1>4, <1>5, Zenon
<1> QED BY <1>2, <1>6

\* Under "Most recent instructions executed:" are the most recent instructions
\* executed, for every size of the ring.
THEOREM TraceIsExact == TraceSpec => []ShowsMostRecent
<1>1. TraceInit => RingInv
  <2> SUFFICES ASSUME TraceInit PROVE RingInv
    OBVIOUS
  <2>1. recent = <<>> /\ idx = 0 /\ count = 0 /\ buf = [i \in 0..(Size - 1) |-> "empty"]
    BY DEF TraceInit
  <2>2. recent \in Seq(Kinds) /\ Len(recent) = 0
    BY <2>1
  <2>3. buf = [i \in 0..(Size - 1) |-> buf[i]] /\ idx \in 0..(Size - 1)
    BY <2>1, TraceAssumption
  <2> QED BY <2>1, <2>2, <2>3, TraceAssumption DEF RingInv, RingHolds
<1>2. TypeOK /\ RingInv /\ [TraceNext]_traceVars => RingInv'
  <2> SUFFICES ASSUME TypeOK, RingInv, [TraceNext]_traceVars PROVE RingInv'
    OBVIOUS
  <2>1. CASE TracedDifftest
    <3>1. inst.kind \in Kinds /\ Trace(inst.kind)
      BY <2>1 DEF TracedDifftest, TypeOK
    <3> QED BY <3>1, RingStep
  <2>2. CASE UNCHANGED <<ringVars, recent>>
    BY <2>2 DEF RingInv, ringVars
  <2> QED BY <2>1, <2>2 DEF TraceNext, TraceExecute, traceVars
<1>3. RingInv => ShowsMostRecent
  BY DisplayIsRecent DEF ShowsMostRecent
<1>4. TypeOK /\ TurnsLeft => TypeOK
  OBVIOUS
<1>5. TraceSpec => []TypeOK
  BY <1>4, TraceIsAMonitor, MonitorTypeCorrect, PTL
<1> QED BY <1>1, <1>2, <1>3, <1>5, PTL DEF TraceSpec
=============================================================================
