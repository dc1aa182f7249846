------------------------ MODULE FactOrchestrationProofs -------------------------
(* Proofs about FactOrchestration, for every value of its constants. *)
EXTENDS FactOrchestration, FiniteSetTheorems, TLAPS

------------------------------------------------------------------------------
(* The invariant. *)

\* Of the runs of a batch only the newest can be anything but failed.
RunsInOrder ==
    \A b \in Batches : \A r \in 1..Len(runs[b]) :
      r < Len(runs[b]) => runs[b][r].status = "failed"

LedgerInv == LedgerTypeOK /\ RunsInOrder

OrchsInv == BatchesTypeOK /\ EndedAgrees /\ CompletedIsApplied

\* What a call remembers fits the runs R and the orchestrations O.
Fits(me, R, O) ==
    /\ me \in Worker
    /\ me.stage # "idle" =>
         /\ me.token \in Tokens
         /\ me.orch \in 1..Len(O) /\ me.batch \in Batches
         /\ me.run <= Len(R[me.batch])
    /\ me.stage \in {"recovering", "transitioning", "registering", "launching", "calling",
                     "persisting", "renewing", "finishing"} => me.run # 0
    /\ me.stage = "calling" => R[me.batch][me.run].status # "pending"
    /\ me.stage \in {"renewing", "finishing"} => R[me.batch][me.run].applied
    /\ me.stage \in {"transitioning", "reconciling"} => me.code # "none"

WorkersFit ==
    /\ worker \in [Workers -> Worker]
    /\ \A w \in Workers : Fits(worker[w], runs, orchs)

\* Two calls that wait for the provider wait for different runs.
FactInv == LedgerInv /\ OrchsInv /\ WorkersFit /\ OneCallPerRun

------------------------------------------------------------------------------
(* Operations on the runs. *)

\* What no operation takes back.
Keeps(old, new) ==
    /\ old.status # "pending" => new.status # "pending"
    /\ old.status \in {"completed", "failed"} =>
         new.status = old.status /\ new.code = old.code
    /\ old.applied => new.applied

Grows(R, S) ==
    \A b \in Batches :
      /\ Len(R[b]) \in Nat /\ Len(S[b]) \in Nat /\ Len(R[b]) <= Len(S[b])
      /\ \A r \in 1..Len(R[b]) : Keeps(R[b][r], S[b][r])

\* A run is replaced by what it may become.
Replaces(b, r, run) ==
    /\ runs' = [runs EXCEPT ![b][r] = run]
    /\ run \in Run /\ RunShape(run) /\ Keeps(runs[b][r], run)

Extends(b) == ~Reusable(b) /\ runs' = [runs EXCEPT ![b] = Append(@, PendingRun)]

LEMMA KeepsItself == \A run : Keeps(run, run)
BY DEF Keeps

LEMMA ReplaceStep ==
    ASSUME LedgerInv, NEW b \in Batches, NEW r \in 1..Len(runs[b]), NEW run,
           Replaces(b, r, run)
    PROVE  /\ LedgerInv' /\ Grows(runs, runs')
           /\ runs'[b][r] = run
           /\ \A c \in Batches : Len(runs'[c]) = Len(runs[c])
           /\ \A c \in Batches : c # b => runs'[c] = runs[c]
           /\ \A s \in 1..Len(runs[b]) : s # r => runs'[b][s] = runs[b][s]
<1>. DEFINE new == [runs[b] EXCEPT ![r] = run]
<1>1. runs \in [Batches -> Seq(Run)] /\ runs[b] \in Seq(Run)
  BY DEF LedgerInv, LedgerTypeOK
<1>2. new \in Seq(Run) /\ Len(new) = Len(runs[b])
  BY <1>1 DEF Replaces
<1>3. runs' = [runs EXCEPT ![b] = new]
  BY <1>1 DEF Replaces
<1>4. runs'[b] = new /\ \A c \in Batches : c # b => runs'[c] = runs[c]
  BY <1>1, <1>3
<1>5. new[r] = run /\ \A s \in 1..Len(runs[b]) : s # r => new[s] = runs[b][s]
  BY <1>1
<1>. HIDE DEF new
<1>6. runs' \in [Batches -> Seq(Run)]
  BY <1>1, <1>2, <1>3
<1>7. \A c \in Batches : Len(runs'[c]) = Len(runs[c]) /\ Len(runs[c]) \in Nat
  BY <1>1, <1>2, <1>4
<1>8. \A c \in Batches : \A s \in 1..Len(runs[c]) :
        RunShape(runs'[c][s]) /\ Keeps(runs[c][s], runs'[c][s])
  BY <1>4, <1>5, KeepsItself DEF Replaces, LedgerInv, LedgerTypeOK
<1>9. LedgerTypeOK'
  BY <1>6, <1>7, <1>8 DEF LedgerTypeOK
<1>10. RunsInOrder'
  <2>. SUFFICES ASSUME NEW c \in Batches, NEW s \in 1..Len(runs'[c]), s < Len(runs'[c])
       PROVE  runs'[c][s].status = "failed"
    BY DEF RunsInOrder
  <2>1. runs[c][s].status = "failed"
    BY <1>7 DEF LedgerInv, RunsInOrder
  <2>. QED BY <2>1, <1>7, <1>8 DEF Keeps
<1>11. Grows(runs, runs')
  BY <1>7, <1>8 DEF Grows
<1>. QED BY <1>4, <1>5, <1>7, <1>9, <1>10, <1>11 DEF LedgerInv

LEMMA ExtendStep ==
    ASSUME LedgerInv, NEW b \in Batches, Extends(b)
    PROVE  /\ LedgerInv' /\ Grows(runs, runs')
           /\ Len(runs'[b]) = Len(runs[b]) + 1
           /\ runs'[b][Len(runs[b]) + 1] = PendingRun
           /\ \A s \in 1..Len(runs[b]) : runs'[b][s] = runs[b][s]
           /\ \A c \in Batches : c # b => runs'[c] = runs[c]
<1>. DEFINE new == Append(runs[b], PendingRun)
<1>1. runs \in [Batches -> Seq(Run)] /\ runs[b] \in Seq(Run) /\ Len(runs[b]) \in Nat
  BY DEF LedgerInv, LedgerTypeOK
<1>2. PendingRun \in Run /\ RunShape(PendingRun)
  BY DEF PendingRun, Run, RunShape, RunCodes, RetryableCodes
<1>3. /\ new \in Seq(Run) /\ Len(new) = Len(runs[b]) + 1
      /\ new[Len(runs[b]) + 1] = PendingRun
      /\ \A s \in 1..Len(runs[b]) : new[s] = runs[b][s]
  BY <1>1, <1>2
<1>4. runs' = [runs EXCEPT ![b] = new]
  BY DEF Extends
<1>. HIDE DEF new
<1>5. runs'[b] = new /\ \A c \in Batches : c # b => runs'[c] = runs[c]
  BY <1>1, <1>4
<1>6. runs' \in [Batches -> Seq(Run)]
  BY <1>1, <1>3, <1>4
<1>7. \A s \in 1..Len(runs[b]) : runs[b][s].status = "failed"
  <2>1. CASE runs[b] = << >>
    BY <2>1
  <2>2. CASE runs[b] # << >>
    <3>1. Len(runs[b]) > 0 /\ runs[b][Len(runs[b])].status = "failed"
      BY <2>2, <1>1 DEF Extends, Reusable, Status, Latest
    <3>. QED BY <3>1, <1>1 DEF LedgerInv, RunsInOrder
  <2>. QED BY <2>1, <2>2
<1>8. LedgerTypeOK'
  <2>. SUFFICES ASSUME NEW c \in Batches, NEW s \in 1..Len(runs'[c])
       PROVE  RunShape(runs'[c][s])
    BY <1>6 DEF LedgerTypeOK
  <2>1. CASE c # b
    BY <2>1, <1>5 DEF LedgerInv, LedgerTypeOK
  <2>2. CASE c = b /\ s \in 1..Len(runs[b])
    BY <2>2, <1>3, <1>5 DEF LedgerInv, LedgerTypeOK
  <2>3. CASE c = b /\ s = Len(runs[b]) + 1
    BY <2>3, <1>2, <1>3, <1>5
  <2>. QED BY <2>1, <2>2, <2>3, <1>1, <1>3, <1>5
<1>9. RunsInOrder'
  <2>. SUFFICES ASSUME NEW c \in Batches, NEW s \in 1..Len(runs'[c]), s < Len(runs'[c])
       PROVE  runs'[c][s].status = "failed"
    BY DEF RunsInOrder
  <2>1. CASE c # b
    BY <2>1, <1>5 DEF LedgerInv, RunsInOrder
  <2>2. CASE c = b
    <3>1. s \in 1..Len(runs[b])
      BY <2>2, <1>1, <1>3, <1>5
    <3>. QED BY <3>1, <2>2, <1>3, <1>5, <1>7
  <2>. QED BY <2>1, <2>2
<1>10. Grows(runs, runs')
  <2>. SUFFICES ASSUME NEW c \in Batches
       PROVE  /\ Len(runs[c]) \in Nat /\ Len(runs'[c]) \in Nat /\ Len(runs[c]) <= Len(runs'[c])
              /\ \A s \in 1..Len(runs[c]) : Keeps(runs[c][s], runs'[c][s])
    BY DEF Grows
  <2>1. Len(runs[c]) \in Nat /\ Len(runs'[c]) \in Nat
    BY <1>1, <1>6
  <2>2. CASE c # b
    BY <2>1, <2>2, <1>5, KeepsItself
  <2>3. CASE c = b
    BY <2>1, <2>3, <1>1, <1>3, <1>5, KeepsItself
  <2>. QED BY <2>2, <2>3
<1>. QED BY <1>3, <1>5, <1>8, <1>9, <1>10 DEF LedgerInv

------------------------------------------------------------------------------
(* The log of requests, over the runs of one batch. *)

Sent(s) == {r \in 1..Len(s) : s[r].status # "pending"}
PhaseIn(s) ==
    IF \E r \in 1..Len(s) : s[r].status = "completed" THEN "answered"
    ELSE IF \E r \in 1..Len(s) : s[r].status = "running" THEN "open" ELSE "idle"
CallsNow == [b \in Batches |-> Cardinality(Launched(b))]
PhaseNow == [b \in Batches |-> PhaseOf(b)]

\* The effect on one request is a step of the log.
LEMMA LogEffect ==
    ASSUME NEW b \in Batches, \A c \in Batches : c # b => runs'[c] = runs[c],
           NEW n, n = Cardinality(Sent(runs[b])),
           NEW m, m = Cardinality(Sent(runs'[b])),
           \/ m = n /\ PhaseIn(runs'[b]) = PhaseIn(runs[b])
           \/ m = n + 1 /\ PhaseIn(runs[b]) = "idle" /\ PhaseIn(runs'[b]) = "open"
           \/ m = n /\ PhaseIn(runs[b]) = "open" /\ PhaseIn(runs'[b]) \in {"idle", "answered"}
    PROVE  [Log!Next]_(Log!logVars)
<1>1. /\ CallsNow[b] = n /\ PhaseNow[b] = PhaseIn(runs[b])
      /\ CallsNow' = [CallsNow EXCEPT ![b] = m]
      /\ PhaseNow' = [PhaseNow EXCEPT ![b] = PhaseIn(runs'[b])]
  <2>1. \A c \in Batches : Launched(c) = Sent(runs[c]) /\ Launched(c)' = Sent(runs'[c])
    BY DEF Launched, Sent, Status
  <2>2. \A c \in Batches : PhaseOf(c) = PhaseIn(runs[c]) /\ PhaseOf(c)' = PhaseIn(runs'[c])
    BY DEF PhaseOf, PhaseIn, Status
  <2>. QED BY <2>1, <2>2 DEF CallsNow, PhaseNow
<1>2. CASE m = n /\ PhaseIn(runs'[b]) = PhaseIn(runs[b])
  <2>1. CallsNow' = CallsNow /\ PhaseNow' = PhaseNow
    BY <1>1, <1>2 DEF CallsNow, PhaseNow
  <2>. QED BY <2>1 DEF Log!logVars, CallsNow, PhaseNow
<1>3. CASE m = n + 1 /\ PhaseIn(runs[b]) = "idle" /\ PhaseIn(runs'[b]) = "open"
  <2>1. Log!Send(b)
    BY <1>1, <1>3 DEF Log!Send, CallsNow, PhaseNow
  <2>. QED BY <2>1 DEF Log!Next
<1>4. CASE m = n /\ PhaseIn(runs[b]) = "open" /\ PhaseIn(runs'[b]) \in {"idle", "answered"}
  <2>1. CallsNow' = CallsNow
    BY <1>1, <1>4 DEF CallsNow
  <2>2. Log!GiveUp(b) \/ Log!Answer(b)
    BY <1>1, <1>4, <2>1 DEF Log!GiveUp, Log!Answer, CallsNow, PhaseNow
  <2>. QED BY <2>2 DEF Log!Next
<1>. QED BY <1>2, <1>3, <1>4

------------------------------------------------------------------------------
(* Every operation on the runs. *)

\* The newest run decides in which phase a request is.
LEMMA NewestDecides ==
    ASSUME LedgerInv, NEW b \in Batches, NEW r \in 1..Len(runs[b]),
           runs[b][r].status # "failed"
    PROVE  /\ r = Len(runs[b])
           /\ \A s \in 1..Len(runs[b]) : s # r => runs[b][s].status = "failed"
<1>1. Len(runs[b]) \in Nat
  BY DEF LedgerInv, LedgerTypeOK
<1>2. r = Len(runs[b])
  BY <1>1 DEF LedgerInv, RunsInOrder
<1>. QED BY <1>1, <1>2 DEF LedgerInv, RunsInOrder

LEMMA SentFinite ==
    ASSUME LedgerInv, NEW b \in Batches
    PROVE  IsFiniteSet(Sent(runs[b])) /\ Cardinality(Sent(runs[b])) \in Nat
<1>1. Len(runs[b]) \in Nat /\ 1 \in Int
  BY DEF LedgerInv, LedgerTypeOK
<1>2. IsFiniteSet(1..Len(runs[b]))
  BY <1>1, FS_Interval
<1>3. Sent(runs[b]) \subseteq 1..Len(runs[b])
  BY DEF Sent
<1>4. IsFiniteSet(Sent(runs[b]))
  BY <1>2, <1>3, FS_Subset
<1>. QED BY <1>4, FS_CardinalityType

\* A run that is not replaced by a first launch leaves the number of calls alone.
LEMMA ReplaceLog ==
    ASSUME LedgerInv, NEW b \in Batches, NEW r \in 1..Len(runs[b]), NEW run,
           Replaces(b, r, run),
           \/ run.status = runs[b][r].status
           \/ runs[b][r].status = "pending" /\ run.status = "running"
           \/ runs[b][r].status = "running" /\ run.status \in {"completed", "failed"}
    PROVE  [Log!Next]_(Log!logVars)
<1>1. /\ runs'[b][r] = run
      /\ Len(runs'[b]) = Len(runs[b])
      /\ \A c \in Batches : c # b => runs'[c] = runs[c]
      /\ \A s \in 1..Len(runs[b]) : s # r => runs'[b][s] = runs[b][s]
  BY ReplaceStep
<1>. DEFINE n == Cardinality(Sent(runs[b]))
            m == Cardinality(Sent(runs'[b]))
<1>2. CASE run.status = runs[b][r].status
  <2>1. \A s \in 1..Len(runs[b]) : runs'[b][s].status = runs[b][s].status
    BY <1>1, <1>2
  <2>2. Sent(runs'[b]) = Sent(runs[b]) /\ PhaseIn(runs'[b]) = PhaseIn(runs[b])
    BY <1>1, <2>1 DEF Sent, PhaseIn
  <2>. QED BY <2>2, <1>1, LogEffect
<1>3. CASE runs[b][r].status = "pending" /\ run.status = "running"
  <2>1. \A s \in 1..Len(runs[b]) : s # r => runs[b][s].status = "failed"
    BY <1>3, NewestDecides
  <2>2. Sent(runs'[b]) = Sent(runs[b]) \cup {r} /\ r \notin Sent(runs[b])
    BY <1>1, <1>3 DEF Sent
  <2>3. m = n + 1
    <3>1. IsFiniteSet(Sent(runs[b]))
      BY SentFinite
    <3>. QED BY <2>2, <3>1, FS_AddElement
  <2>4. PhaseIn(runs[b]) = "idle" /\ PhaseIn(runs'[b]) = "open"
    BY <1>1, <1>3, <2>1 DEF PhaseIn
  <2>. HIDE DEF n, m
  <2>. QED BY <2>3, <2>4, <1>1, LogEffect DEF n, m
<1>4. CASE runs[b][r].status = "running" /\ run.status \in {"completed", "failed"}
  <2>1. \A s \in 1..Len(runs[b]) : s # r => runs[b][s].status = "failed"
    BY <1>4, NewestDecides
  <2>2. Sent(runs'[b]) = Sent(runs[b])
    BY <1>1, <1>4 DEF Sent
  <2>3. PhaseIn(runs[b]) = "open" /\ PhaseIn(runs'[b]) \in {"idle", "answered"}
    BY <1>1, <1>4, <2>1 DEF PhaseIn
  <2>. QED BY <2>2, <2>3, <1>1, LogEffect
<1>. QED BY <1>2, <1>3, <1>4

LEMMA ExtendLog ==
    ASSUME LedgerInv, NEW b \in Batches, Extends(b)
    PROVE  [Log!Next]_(Log!logVars)
<1>1. /\ Len(runs'[b]) = Len(runs[b]) + 1 /\ Len(runs[b]) \in Nat
      /\ runs'[b][Len(runs[b]) + 1].status = "pending"
      /\ \A s \in 1..Len(runs[b]) : runs'[b][s] = runs[b][s]
      /\ \A c \in Batches : c # b => runs'[c] = runs[c]
  BY ExtendStep DEF LedgerInv, LedgerTypeOK, PendingRun
<1>2. \A s : s \in 1..Len(runs'[b]) <=> s \in 1..Len(runs[b]) \/ s = Len(runs[b]) + 1
  BY <1>1
<1>3. Sent(runs'[b]) = Sent(runs[b]) /\ PhaseIn(runs'[b]) = PhaseIn(runs[b])
  BY <1>1, <1>2 DEF Sent, PhaseIn
<1>. QED BY <1>1, <1>3, LogEffect

\* What a transaction does to the runs.
RunOperation ==
    \/ UNCHANGED runs
    \/ \E b \in Batches :
         \/ PrepareRun(b)
         \/ \E r \in 1..Len(runs[b]) :
              \/ LaunchRun(b, r) \/ CompleteRun(b, r) \/ FailStale(b, r)
              \/ \E code \in RunCodes : FailRun(b, r, code)
              \/ ApplyRun(b, r) \/ GrowStale(b, r)

\* The runs stay in order, nothing is taken back, and the provider sees no more
\* than a step of the log.
RunStep == LedgerInv' /\ Grows(runs, runs') /\ [Log!Next]_(Log!logVars)

LEMMA ReplaceRun ==
    ASSUME LedgerInv, NEW b \in Batches, NEW r \in 1..Len(runs[b]), NEW run \in Run,
           runs' = [runs EXCEPT ![b][r] = run],
           RunShape(run), Keeps(runs[b][r], run),
           \/ run.status = runs[b][r].status
           \/ runs[b][r].status = "pending" /\ run.status = "running"
           \/ runs[b][r].status = "running" /\ run.status \in {"completed", "failed"}
    PROVE  RunStep
<1>1. Replaces(b, r, run)
  BY DEF Replaces
<1>2. LedgerInv' /\ Grows(runs, runs')
  BY <1>1, ReplaceStep
<1>3. [Log!Next]_(Log!logVars)
  BY <1>1, ReplaceLog
<1>. QED BY <1>2, <1>3 DEF RunStep

LEMMA RunsQuiet ==
    ASSUME LedgerInv, UNCHANGED runs
    PROVE  RunStep
<1>1. LedgerInv'
  BY DEF LedgerInv, LedgerTypeOK, RunsInOrder
<1>2. \A b \in Batches : Len(runs[b]) \in Nat
  BY DEF LedgerInv, LedgerTypeOK
<1>3. Grows(runs, runs')
  BY <1>2, KeepsItself DEF Grows
<1>4. CallsNow' = CallsNow /\ PhaseNow' = PhaseNow
  <2>1. \A c \in Batches : Launched(c)' = Launched(c)
    BY DEF Launched, Status
  <2>2. \A c \in Batches : PhaseOf(c)' = PhaseOf(c)
    BY DEF PhaseOf, Status
  <2>. QED BY <2>1, <2>2 DEF CallsNow, PhaseNow
<1>. QED BY <1>1, <1>3, <1>4 DEF RunStep, Log!logVars, CallsNow, PhaseNow

LEMMA RunOperationStep ==
    ASSUME LedgerInv, RunOperation
    PROVE  RunStep
<1>1. CASE UNCHANGED runs
  BY <1>1, RunsQuiet
<1>2. ASSUME NEW b \in Batches, PrepareRun(b) PROVE RunStep
  <2>1. CASE Reusable(b)
    BY <1>2, <2>1, RunsQuiet DEF PrepareRun
  <2>2. CASE ~Reusable(b)
    <3>1. Extends(b)
      BY <1>2, <2>2 DEF PrepareRun, Extends
    <3>. QED BY <3>1, ExtendStep, ExtendLog DEF RunStep
  <2>. QED BY <2>1, <2>2
<1>3. ASSUME NEW b \in Batches, NEW r \in 1..Len(runs[b]),
             \/ LaunchRun(b, r) \/ CompleteRun(b, r) \/ FailStale(b, r)
             \/ \E code \in RunCodes : FailRun(b, r, code)
             \/ ApplyRun(b, r) \/ GrowStale(b, r)
      PROVE  RunStep
  <2>1. runs \in [Batches -> Seq(Run)] /\ runs[b] \in Seq(Run) /\ runs[b][r] \in Run
    BY DEF LedgerInv, LedgerTypeOK
  <2>2. RunShape(runs[b][r])
    BY DEF LedgerInv, LedgerTypeOK
  <2> DEFINE old == runs[b][r]
  <2>3. CASE LaunchRun(b, r)
    <3>1. runs' = [runs EXCEPT ![b][r] = [old EXCEPT !.status = "running", !.fresh = TRUE]]
      BY <2>1, <2>3 DEF LaunchRun
    <3>2. /\ [old EXCEPT !.status = "running", !.fresh = TRUE] \in Run
          /\ RunShape([old EXCEPT !.status = "running", !.fresh = TRUE])
          /\ Keeps(old, [old EXCEPT !.status = "running", !.fresh = TRUE])
          /\ old.status = "pending"
      BY <2>1, <2>2, <2>3 DEF LaunchRun, Status, Run, RunShape, Keeps
    <3>3. [old EXCEPT !.status = "running", !.fresh = TRUE].status = "running"
      BY <2>1 DEF Run
    <3>. QED BY <3>1, <3>2, <3>3, ReplaceRun
  <2>4. CASE CompleteRun(b, r)
    <3> DEFINE new == Ended(old, "completed", "none")
    <3>1. runs' = [runs EXCEPT ![b][r] = new]
      BY <2>1, <2>4 DEF CompleteRun
    <3>2. /\ new \in Run /\ RunShape(new) /\ Keeps(old, new)
          /\ old.status = "running" /\ new.status = "completed"
      BY <2>1, <2>2, <2>4 DEF CompleteRun, MayComplete, Status, Run, RunShape, Keeps, Ended
    <3>. HIDE DEF new
    <3>. QED BY <3>1, <3>2, ReplaceRun
  <2>5. ASSUME NEW code \in RunCodes, (FailStale(b, r) /\ code = "stale") \/ FailRun(b, r, code)
        PROVE  RunStep
    <3> DEFINE new == Ended(old, "failed", code)
    <3>1. runs' = [runs EXCEPT ![b][r] = new] /\ old.status = "running"
      BY <2>1, <2>5 DEF FailStale, FailRun, Status
    <3>2. code # "none"
      BY <2>5 DEF RunCodes, RetryableCodes
    <3>3. new \in Run /\ RunShape(new) /\ Keeps(old, new) /\ new.status = "failed"
      BY <2>1, <2>2, <3>1, <3>2 DEF Run, RunShape, Keeps, Ended
    <3>. HIDE DEF new
    <3>. QED BY <3>1, <3>3, ReplaceRun
  <2>6. CASE ApplyRun(b, r)
    <3> DEFINE new == [old EXCEPT !.applied = TRUE]
    <3>1. runs' = [runs EXCEPT ![b][r] = new]
      BY <2>1, <2>6 DEF ApplyRun
    <3>2. new \in Run /\ RunShape(new) /\ Keeps(old, new) /\ new.status = old.status
      BY <2>1, <2>2, <2>6 DEF ApplyRun, Status, Run, RunShape, Keeps
    <3>. HIDE DEF new
    <3>. QED BY <3>1, <3>2, ReplaceRun
  <2>7. CASE GrowStale(b, r)
    <3> DEFINE new == [old EXCEPT !.fresh = FALSE]
    <3>1. runs' = [runs EXCEPT ![b][r] = new]
      BY <2>1, <2>7 DEF GrowStale
    <3>2. new \in Run /\ RunShape(new) /\ Keeps(old, new) /\ new.status = old.status
      BY <2>1, <2>2, <2>7 DEF GrowStale, Run, RunShape, Keeps
    <3>. HIDE DEF new
    <3>. QED BY <3>1, <3>2, ReplaceRun
  <2>8. "stale" \in RunCodes
    BY DEF RunCodes, RetryableCodes
  <2>. QED BY <1>3, <2>3, <2>4, <2>5, <2>6, <2>7, <2>8
<1>. QED BY <1>1, <1>2, <1>3 DEF RunOperation

------------------------------------------------------------------------------
(* What a transaction does to runs and orchestrations. *)

EndedStay == \A o \in Orchs : orchs[o].status \in TerminalStatus => orchs'[o] = orchs[o]
AnswersStay ==
    \A o \in Orchs, b \in Batches :
      LET r == orchs[o].batch[b].run IN
      r # 0 /\ Status(b, r) = "completed" => orchs'[o].batch[b].run = r

\* The attempt that a row counts has not been sent to the provider.
Unspent(b, row) == row.status = "running" /\ (row.run = 0 \/ Status(b, row.run) = "pending")
Awaits(b, row, r) == row.status = "running" /\ row.run = r /\ Status(b, r) = "pending"

\* A row only gets an attempt by counting it, and does not lose the run it is to
\* send.
RowCounts(b, old, row) ==
    /\ old.attempts <= row.attempts
    /\ Unspent(b, row) => \/ old.attempts < row.attempts
                          \/ Unspent(b, old) /\ old.attempts = row.attempts
    /\ \A r \in 1..Len(runs[b]) : Awaits(b, old, r) => Awaits(b, row, r)

CountsStay ==
    /\ UNCHANGED runs \/ UNCHANGED orchs
    /\ \A o \in Orchs, b \in Batches : RowCounts(b, orchs[o].batch[b], orchs'[o].batch[b])
    /\ \A o \in 1..Len(orchs') \ Orchs, b \in Batches : orchs'[o].batch[b].status = "pending"

\* A transaction changes the runs or the orchestrations as it may.
GoodStep ==
    /\ RunStep /\ OrchsInv'
    /\ Len(orchs) \in Nat /\ Len(orchs') \in Nat /\ Len(orchs) <= Len(orchs')
    /\ EndedStay /\ AnswersStay /\ CountsStay

LEMMA LengthIsNat ==
    ASSUME OrchsInv
    PROVE  Len(orchs) \in Nat /\ \A b \in Batches : Len(runs[b]) \in Nat
BY DEF OrchsInv, BatchesTypeOK, LedgerTypeOK

LEMMA OrchFacts ==
    ASSUME OrchsInv, NEW o \in Orchs
    PROVE  /\ orchs \in Seq(Orchestration) /\ Len(orchs) <= MaxOrchestrations
           /\ o \in 1..Len(orchs) /\ orchs[o] \in Orchestration
           /\ orchs[o].status \in {"planned", "running"} \cup TerminalStatus
           /\ orchs[o].batch \in [Batches -> Row]
<1>1. orchs \in Seq(Orchestration) /\ o \in 1..Len(orchs) /\ Len(orchs) <= MaxOrchestrations
  BY DEF OrchsInv, BatchesTypeOK, Orchs
<1>2. orchs[o] \in Orchestration
  BY <1>1
<1>. QED BY <1>1, <1>2 DEF Orchestration

LEMMA RowFacts ==
    ASSUME OrchsInv, NEW o \in Orchs, NEW b \in Batches
    PROVE  /\ orchs[o].batch[b] \in Row /\ RowShape(orchs[o].batch[b])
           /\ orchs[o].batch[b].run \in Nat /\ orchs[o].batch[b].run <= Len(runs[b])
<1>1. orchs[o].batch[b] \in Row
  BY OrchFacts
<1>2. RowShape(orchs[o].batch[b]) /\ orchs[o].batch[b].run <= Len(runs[b])
  BY DEF OrchsInv, BatchesTypeOK, Orchs
<1>. QED BY <1>1, <1>2 DEF Row

LEMMA SameCounts ==
    ASSUME OrchsInv, NEW o \in Orchs, NEW b \in Batches
    PROVE  RowCounts(b, orchs[o].batch[b], orchs[o].batch[b])
<1>1. orchs[o].batch[b].attempts \in Nat
  BY RowFacts, AttemptsAssumption DEF Row
<1>. QED BY <1>1 DEF RowCounts

LEMMA SameOutcome ==
    ASSUME NEW o, orchs'[o].batch = orchs[o].batch
    PROVE  Outcome(o)' = Outcome(o)
<1>1. StatusOf(o)' = StatusOf(o)
  BY DEF StatusOf
<1>. QED BY <1>1 DEF Outcome

\* A completed run that is applied stays so.
LEMMA RunsOnly ==
    ASSUME LedgerInv, OrchsInv, RunOperation, UNCHANGED orchs
    PROVE  GoodStep
<1>1. RunStep
  BY RunOperationStep
<1>2. LedgerTypeOK' /\ Grows(runs, runs')
  BY <1>1 DEF RunStep, LedgerInv
<1>3. ASSUME NEW o \in Orchs, NEW b \in Batches
      PROVE  /\ RowShape(orchs[o].batch[b]) /\ orchs[o].batch[b].run \in Nat
             /\ orchs[o].batch[b].run <= Len(runs[b]) /\ Len(runs[b]) <= Len(runs'[b])
             /\ Len(runs[b]) \in Nat /\ Len(runs'[b]) \in Nat
  BY <1>2, RowFacts DEF Grows
<1>4. BatchesTypeOK'
  <2>1. orchs' \in Seq(Orchestration) /\ Len(orchs') <= MaxOrchestrations
    BY DEF OrchsInv, BatchesTypeOK
  <2>2. \A o \in 1..Len(orchs'), b \in Batches :
          RowShape(orchs'[o].batch[b]) /\ orchs'[o].batch[b].run <= Len(runs'[b])
    BY <1>3 DEF Orchs
  <2>. QED BY <1>2, <2>1, <2>2 DEF BatchesTypeOK
<1>5. EndedAgrees'
  <2>1. \A o : Outcome(o)' = Outcome(o)
    BY SameOutcome
  <2>. QED BY <2>1 DEF OrchsInv, EndedAgrees, Orchs
<1>6. CompletedIsApplied'
  <2>. SUFFICES ASSUME NEW o \in Orchs, NEW b \in Batches, orchs[o].batch[b].status = "completed"
       PROVE  /\ runs'[b][orchs[o].batch[b].run].status = "completed"
              /\ runs'[b][orchs[o].batch[b].run].applied
    BY DEF CompletedIsApplied, Orchs
  <2> DEFINE r == orchs[o].batch[b].run
  <2>1. r \in 1..Len(runs[b])
    BY <1>3 DEF RowShape
  <2>2. runs[b][r].status = "completed" /\ runs[b][r].applied
    BY DEF OrchsInv, CompletedIsApplied
  <2>3. Keeps(runs[b][r], runs'[b][r])
    BY <1>2, <2>1 DEF Grows
  <2>. QED BY <2>2, <2>3 DEF Keeps
<1>7. OrchsInv'
  BY <1>4, <1>5, <1>6 DEF OrchsInv
<1>8. CountsStay
  BY SameCounts DEF CountsStay, Orchs
<1>. QED BY <1>1, <1>7, <1>8, LengthIsNat DEF GoodStep, EndedStay, AnswersStay

\* What a row may become.
GoodRow(b, old, row) ==
    /\ row \in Row /\ RowShape(row) /\ row.run <= Len(runs[b])
    /\ row.status = "completed" =>
         Status(b, row.run) = "completed" /\ runs[b][row.run].applied
    /\ old.run # 0 /\ Status(b, old.run) = "completed" => row.run = old.run
    /\ RowCounts(b, old, row)

RowBecomes(o, b, row, status) ==
    orchs' = [orchs EXCEPT ![o] = [status |-> status,
                                   batch |-> [orchs[o].batch EXCEPT ![b] = row]]]

\* The row of a batch changes, in an orchestration that has not ended.
LEMMA RowChange ==
    ASSUME LedgerInv, OrchsInv, UNCHANGED runs, NEW o \in Orchs, NEW b \in Batches,
           NEW row, NEW status \in {"planned", "running"},
           orchs[o].status \notin TerminalStatus,
           GoodRow(b, orchs[o].batch[b], row),
           RowBecomes(o, b, row, status)
    PROVE  GoodStep
<1> DEFINE batch == [orchs[o].batch EXCEPT ![b] = row]
           new == [status |-> status, batch |-> batch]
<1>1. /\ orchs \in Seq(Orchestration) /\ Len(orchs) \in Nat /\ Len(orchs) <= MaxOrchestrations
      /\ o \in 1..Len(orchs) /\ orchs[o] \in Orchestration
      /\ orchs[o].batch \in [Batches -> Row]
  BY OrchFacts, LengthIsNat
<1>2. batch \in [Batches -> Row] /\ batch[b] = row
      /\ \A c \in Batches : c # b => batch[c] = orchs[o].batch[c]
  BY <1>1 DEF GoodRow
<1>. HIDE DEF batch
<1>3. new \in Orchestration /\ new.status = status /\ new.batch = batch
  BY <1>2 DEF Orchestration
<1>4. orchs' = [orchs EXCEPT ![o] = new]
  BY DEF RowBecomes, batch
<1>. HIDE DEF new
<1>5. /\ orchs' \in Seq(Orchestration) /\ Len(orchs') = Len(orchs) /\ orchs'[o] = new
      /\ \A p \in 1..Len(orchs) : p # o => orchs'[p] = orchs[p]
  BY <1>1, <1>3, <1>4
<1>6. RunStep /\ LedgerTypeOK'
  BY RunsQuiet DEF RunStep, LedgerInv
<1>7. \A p \in 1..Len(orchs), c \in Batches :
        \/ orchs'[p].batch[c] = orchs[p].batch[c]
        \/ p = o /\ c = b /\ orchs'[p].batch[c] = row
  BY <1>2, <1>3, <1>5
<1>8. BatchesTypeOK'
  <2>1. \A p \in 1..Len(orchs'), c \in Batches :
          RowShape(orchs'[p].batch[c]) /\ orchs'[p].batch[c].run <= Len(runs'[c])
    BY <1>5, <1>7 DEF GoodRow, OrchsInv, BatchesTypeOK
  <2>. QED BY <1>1, <1>5, <1>6, <2>1 DEF BatchesTypeOK
<1>9. EndedAgrees'
  <2>. SUFFICES ASSUME NEW p \in 1..Len(orchs)
       PROVE  /\ orchs'[p].status \in TerminalStatus => orchs'[p].status = Outcome(p)'
              /\ p < Len(orchs) => orchs'[p].status \in {"partial", "failed"}
    BY <1>5 DEF EndedAgrees, Orchs
  <2>1. CASE p = o
    <3>1. ~(p < Len(orchs))
      BY <2>1 DEF OrchsInv, EndedAgrees, TerminalStatus
    <3>. QED BY <2>1, <3>1, <1>3, <1>5 DEF TerminalStatus
  <2>2. CASE p # o
    <3>1. orchs'[p] = orchs[p]
      BY <2>2, <1>5
    <3>2. Outcome(p)' = Outcome(p)
      BY <3>1, SameOutcome
    <3>. QED BY <3>1, <3>2 DEF OrchsInv, EndedAgrees, Orchs
  <2>. QED BY <2>1, <2>2
<1>10. CompletedIsApplied'
  <2>. SUFFICES ASSUME NEW p \in 1..Len(orchs), NEW c \in Batches,
                       orchs'[p].batch[c].status = "completed"
       PROVE  /\ runs[c][orchs'[p].batch[c].run].status = "completed"
              /\ runs[c][orchs'[p].batch[c].run].applied
    BY <1>5 DEF CompletedIsApplied, Orchs
  <2>1. CASE orchs'[p].batch[c] = orchs[p].batch[c]
    <3>1. orchs[p].batch[c].status = "completed"
      BY <2>1
    <3>2. /\ runs[c][orchs[p].batch[c].run].status = "completed"
          /\ runs[c][orchs[p].batch[c].run].applied
      BY <3>1 DEF OrchsInv, CompletedIsApplied, Orchs
    <3>. QED BY <2>1, <3>2
  <2>2. CASE c = b /\ orchs'[p].batch[c] = row
    BY <2>2 DEF GoodRow, Status
  <2>. QED BY <2>1, <2>2, <1>7
<1>11. EndedStay
  BY <1>5 DEF EndedStay, Orchs
<1>12. AnswersStay
  <2>. SUFFICES ASSUME NEW p \in 1..Len(orchs), NEW c \in Batches,
                       orchs[p].batch[c].run # 0,
                       Status(c, orchs[p].batch[c].run) = "completed"
       PROVE  orchs'[p].batch[c].run = orchs[p].batch[c].run
    BY DEF AnswersStay, Orchs
  <2>. QED BY <1>7 DEF GoodRow
<1>13. OrchsInv'
  BY <1>8, <1>9, <1>10 DEF OrchsInv
<1>14. CountsStay
  <2>1. ASSUME NEW p \in Orchs, NEW c \in Batches
        PROVE  RowCounts(c, orchs[p].batch[c], orchs'[p].batch[c])
    <3>1. CASE orchs'[p].batch[c] = orchs[p].batch[c]
      BY <3>1, SameCounts
    <3>2. CASE p = o /\ c = b /\ orchs'[p].batch[c] = row
      BY <3>2 DEF GoodRow
    <3>. QED BY <3>1, <3>2, <1>7 DEF Orchs
  <2>2. 1..Len(orchs') \ Orchs = {}
    BY <1>5 DEF Orchs
  <2>. QED BY <2>1, <2>2 DEF CountsStay
<1>. QED BY <1>1, <1>5, <1>6, <1>11, <1>12, <1>13, <1>14 DEF GoodStep

\* A batch that can still change is part of an orchestration that has not ended.
LEMMA StillOpen ==
    ASSUME OrchsInv, NEW o \in Orchs, NEW b \in Batches,
           orchs[o].batch[b].status \in {"pending", "running"}
    PROVE  orchs[o].status \in {"planned", "running"}
<1>1. orchs[o].batch[b].status \in StatusOf(o)
  BY DEF StatusOf
<1>2. Outcome(o) = "running"
  BY <1>1 DEF Outcome
<1>3. orchs[o].status \in {"planned", "running"} \cup TerminalStatus
  BY OrchFacts
<1>. QED BY <1>2, <1>3 DEF OrchsInv, EndedAgrees, TerminalStatus

LEMMA RowBecomesIs ==
    ASSUME OrchsInv, NEW o \in Orchs, NEW b \in Batches, NEW row, NEW status
    PROVE  /\ SetRow(o, b, row) => RowBecomes(o, b, row, orchs[o].status)
           /\ orchs' = [orchs EXCEPT ![o].status = status, ![o].batch[b] = row]
                => RowBecomes(o, b, row, status)
<1>1. /\ orchs \in Seq(Orchestration) /\ o \in 1..Len(orchs) /\ orchs[o] \in Orchestration
  BY OrchFacts
<1>2. [orchs[o] EXCEPT !.batch[b] = row]
        = [status |-> orchs[o].status, batch |-> [orchs[o].batch EXCEPT ![b] = row]]
  BY SMTT(60), <1>1 DEF Orchestration
<1>3. [orchs[o] EXCEPT !.status = status, !.batch[b] = row]
        = [status |-> status, batch |-> [orchs[o].batch EXCEPT ![b] = row]]
  <2> DEFINE one == [orchs[o] EXCEPT !.status = status]
  <2>1. one = [status |-> status, batch |-> orchs[o].batch]
    BY <1>1 DEF Orchestration
  <2>2. [orchs[o] EXCEPT !.status = status, !.batch[b] = row] = [one EXCEPT !.batch[b] = row]
    BY <1>1 DEF Orchestration
  <2>. HIDE DEF one
  <2>. QED BY <2>1, <2>2
<1>4. [orchs EXCEPT ![o].batch[b] = row]
        = [orchs EXCEPT ![o] = [orchs[o] EXCEPT !.batch[b] = row]]
  BY <1>1
<1>5. [orchs EXCEPT ![o].status = status, ![o].batch[b] = row]
        = [orchs EXCEPT ![o] = [orchs[o] EXCEPT !.status = status, !.batch[b] = row]]
  BY <1>1
<1>. QED BY <1>2, <1>3, <1>4, <1>5 DEF SetRow, RowBecomes

LEMMA SetRowStep ==
    ASSUME LedgerInv, OrchsInv, UNCHANGED runs, NEW o \in Orchs, NEW b \in Batches,
           NEW row, orchs[o].status \notin TerminalStatus,
           GoodRow(b, orchs[o].batch[b], row), SetRow(o, b, row)
    PROVE  GoodStep
<1>1. orchs[o].status \in {"planned", "running"}
  BY OrchFacts
<1>2. RowBecomes(o, b, row, orchs[o].status)
  BY RowBecomesIs
<1>. QED BY <1>1, <1>2, RowChange

LEMMA OrchsQuiet ==
    ASSUME LedgerInv, OrchsInv, UNCHANGED rowVars
    PROVE  GoodStep
BY RunsOnly DEF RunOperation, rowVars

LEMMA AppendStep ==
    ASSUME LedgerInv, OrchsInv, UNCHANGED runs, MayRetry,
           orchs' = Append(orchs, NewOrchestration)
    PROVE  GoodStep
<1>1. orchs \in Seq(Orchestration) /\ Len(orchs) \in Nat /\ Len(orchs) < MaxOrchestrations
  BY DEF OrchsInv, BatchesTypeOK, MayRetry
<1>2. NewRow \in Row /\ RowShape(NewRow) /\ NewRow.run = 0 /\ NewRow.status = "pending"
  <2>1. 0 \in 0..MaxAttempts
    BY AttemptsAssumption
  <2>. QED BY <2>1, TokensAssumption DEF NewRow, Row, RowShape
<1>3. /\ NewOrchestration \in Orchestration /\ NewOrchestration.status = "planned"
      /\ \A b \in Batches : NewOrchestration.batch[b] = NewRow
  BY <1>2 DEF NewOrchestration, Orchestration
<1>4. /\ orchs' \in Seq(Orchestration) /\ Len(orchs') = Len(orchs) + 1
      /\ orchs'[Len(orchs) + 1] = NewOrchestration
      /\ \A p \in 1..Len(orchs) : orchs'[p] = orchs[p]
  BY <1>1, <1>3
<1>5. \A p : p \in 1..Len(orchs') <=> p \in 1..Len(orchs) \/ p = Len(orchs) + 1
  BY <1>1, <1>4
<1>6. RunStep /\ LedgerTypeOK'
  BY RunsQuiet DEF RunStep, LedgerInv
<1>7. BatchesTypeOK'
  <2>1. \A p \in 1..Len(orchs'), b \in Batches :
          RowShape(orchs'[p].batch[b]) /\ orchs'[p].batch[b].run <= Len(runs'[b])
    BY <1>2, <1>3, <1>4, <1>5, LengthIsNat DEF OrchsInv, BatchesTypeOK
  <2>. QED BY <1>1, <1>4, <1>6, <2>1, AttemptsAssumption DEF BatchesTypeOK
<1>8. EndedAgrees'
  <2>. SUFFICES ASSUME NEW p \in 1..Len(orchs')
       PROVE  /\ orchs'[p].status \in TerminalStatus => orchs'[p].status = Outcome(p)'
              /\ p < Len(orchs') => orchs'[p].status \in {"partial", "failed"}
    BY DEF EndedAgrees, Orchs
  <2>1. CASE p = Len(orchs) + 1
    BY <2>1, <1>1, <1>3, <1>4 DEF TerminalStatus
  <2>2. CASE p \in 1..Len(orchs)
    <3>1. orchs'[p] = orchs[p]
      BY <2>2, <1>4
    <3>2. Outcome(p)' = Outcome(p)
      BY <3>1, SameOutcome
    <3>3. CASE p < Len(orchs)
      BY <2>2, <3>1, <3>2, <3>3 DEF OrchsInv, EndedAgrees, Orchs
    <3>4. CASE p = Len(orchs)
      <4>1. orchs # << >>
        BY <2>2, <3>4, <1>1
      <4>2. orchs[p].status \in {"none", "partial", "failed"}
        BY <3>4, <4>1 DEF MayRetry, NewestStatus
      <4>3. orchs[p].status # "none"
        BY <2>2, OrchFacts DEF Orchs, TerminalStatus
      <4>. QED BY <2>2, <3>1, <3>2, <4>2, <4>3 DEF OrchsInv, EndedAgrees, Orchs
    <3>. QED BY <2>2, <3>3, <3>4, <1>1
  <2>. QED BY <2>1, <2>2, <1>5
<1>9. CompletedIsApplied'
  <2>. SUFFICES ASSUME NEW p \in 1..Len(orchs'), NEW b \in Batches,
                       orchs'[p].batch[b].status = "completed"
       PROVE  /\ runs[b][orchs'[p].batch[b].run].status = "completed"
              /\ runs[b][orchs'[p].batch[b].run].applied
    BY DEF CompletedIsApplied, Orchs
  <2>1. p \in 1..Len(orchs)
    BY <1>2, <1>3, <1>4, <1>5
  <2>. QED BY <2>1, <1>4 DEF OrchsInv, CompletedIsApplied, Orchs
<1>10. EndedStay /\ AnswersStay
  BY <1>4 DEF EndedStay, AnswersStay, Orchs
<1>11. OrchsInv'
  BY <1>7, <1>8, <1>9 DEF OrchsInv
<1>12. CountsStay
  <2>1. ASSUME NEW p \in Orchs, NEW b \in Batches
        PROVE  RowCounts(b, orchs[p].batch[b], orchs'[p].batch[b])
    <3>1. orchs'[p] = orchs[p]
      BY <1>4 DEF Orchs
    <3>. QED BY <3>1, SameCounts
  <2>2. ASSUME NEW p \in 1..Len(orchs') \ Orchs, NEW b \in Batches
        PROVE  orchs'[p].batch[b].status = "pending"
    <3>1. p = Len(orchs) + 1
      BY <1>5 DEF Orchs
    <3>. QED BY <3>1, <1>2, <1>3, <1>4
  <2>. QED BY <2>1, <2>2 DEF CountsStay
<1>. QED BY <1>1, <1>4, <1>6, <1>10, <1>11, <1>12 DEF GoodStep

LEMMA FinalizeStep ==
    ASSUME LedgerInv, OrchsInv, UNCHANGED runs, NEW o \in Orchs, FinalizeOrchestration(o)
    PROVE  GoodStep
<1>1. CASE orchs[o].status \in TerminalStatus
  BY <1>1, OrchsQuiet DEF FinalizeOrchestration, rowVars
<1>2. CASE orchs[o].status \notin TerminalStatus
  <2> DEFINE new == [orchs[o] EXCEPT !.status = Outcome(o)]
  <2>1. /\ orchs \in Seq(Orchestration) /\ Len(orchs) \in Nat
        /\ Len(orchs) <= MaxOrchestrations
        /\ o \in 1..Len(orchs) /\ orchs[o] \in Orchestration
    BY OrchFacts, LengthIsNat
  <2>2. Outcome(o) \in {"running"} \cup TerminalStatus
    BY DEF Outcome, TerminalStatus
  <2>3. new \in Orchestration /\ new.status = Outcome(o) /\ new.batch = orchs[o].batch
    BY <2>1, <2>2 DEF Orchestration
  <2>4. orchs' = [orchs EXCEPT ![o] = new]
    BY <1>2, <2>1 DEF FinalizeOrchestration
  <2>. HIDE DEF new
  <2>5. /\ orchs' \in Seq(Orchestration) /\ Len(orchs') = Len(orchs) /\ orchs'[o] = new
        /\ \A p \in 1..Len(orchs) : p # o => orchs'[p] = orchs[p]
    BY <2>1, <2>3, <2>4
  <2>6. \A p \in 1..Len(orchs) : orchs'[p].batch = orchs[p].batch
    BY <2>3, <2>5
  <2>7. \A p \in 1..Len(orchs) : Outcome(p)' = Outcome(p)
    BY <2>6, SameOutcome
  <2>8. RunStep /\ LedgerTypeOK'
    BY RunsQuiet DEF RunStep, LedgerInv
  <2>9. BatchesTypeOK'
    BY <2>1, <2>5, <2>6, <2>8 DEF OrchsInv, BatchesTypeOK
  <2>10. EndedAgrees'
    <3>. SUFFICES ASSUME NEW p \in 1..Len(orchs)
         PROVE  /\ orchs'[p].status \in TerminalStatus => orchs'[p].status = Outcome(p)
                /\ p < Len(orchs) => orchs'[p].status \in {"partial", "failed"}
      BY <2>5, <2>7 DEF EndedAgrees, Orchs
    <3>1. CASE p = o
      <4>1. ~(p < Len(orchs))
        BY <3>1, <1>2 DEF OrchsInv, EndedAgrees, TerminalStatus
      <4>. QED BY <3>1, <4>1, <2>3, <2>5
    <3>2. CASE p # o
      BY <3>2, <2>5 DEF OrchsInv, EndedAgrees, Orchs
    <3>. QED BY <3>1, <3>2
  <2>11. CompletedIsApplied'
    <3>1. \A p \in 1..Len(orchs), b \in Batches :
            orchs[p].batch[b].status = "completed" =>
              /\ runs[b][orchs[p].batch[b].run].status = "completed"
              /\ runs[b][orchs[p].batch[b].run].applied
      BY DEF OrchsInv, CompletedIsApplied, Orchs
    <3>. HIDE <2>4
    <3>2. \A p \in 1..Len(orchs'), b \in Batches :
            orchs'[p].batch[b].status = "completed" =>
              /\ runs'[b][orchs'[p].batch[b].run].status = "completed"
              /\ runs'[b][orchs'[p].batch[b].run].applied
      BY <2>5, <2>6, <3>1
    <3>. QED BY <3>2 DEF CompletedIsApplied, Orchs
  <2>12. EndedStay /\ AnswersStay
    BY <1>2, <2>5, <2>6 DEF EndedStay, AnswersStay, Orchs
  <2>13. OrchsInv'
    BY <2>9, <2>10, <2>11 DEF OrchsInv
  <2>14. CountsStay
    <3>1. ASSUME NEW p \in Orchs, NEW b \in Batches
          PROVE  RowCounts(b, orchs[p].batch[b], orchs'[p].batch[b])
      <4>1. orchs'[p].batch = orchs[p].batch
        BY <2>6 DEF Orchs
      <4>. QED BY <4>1, SameCounts
    <3>2. 1..Len(orchs') \ Orchs = {}
      BY <2>5 DEF Orchs
    <3>. QED BY <3>1, <3>2 DEF CountsStay
  <2>. QED BY <2>1, <2>5, <2>8, <2>12, <2>13, <2>14 DEF GoodStep
<1>. QED BY <1>1, <1>2

------------------------------------------------------------------------------
(* What the calls remember. *)

LEMMA FitsLater ==
    ASSUME NEW me, NEW R, NEW S, NEW O, NEW P, Fits(me, R, O), Grows(R, S),
           Len(O) \in Nat, Len(P) \in Nat, Len(O) <= Len(P)
    PROVE  Fits(me, S, P)
<1>1. me \in Worker /\ me.run \in Nat
  BY DEF Fits, Worker
<1>2. ASSUME me.stage # "idle"
      PROVE  /\ me.token \in Tokens
             /\ me.orch \in 1..Len(P) /\ me.batch \in Batches
             /\ Len(R[me.batch]) \in Nat
             /\ me.run <= Len(R[me.batch]) /\ me.run <= Len(S[me.batch])
             /\ me.run # 0 => Keeps(R[me.batch][me.run], S[me.batch][me.run])
  <2>1. me.token \in Tokens /\ me.batch \in Batches /\ me.run <= Len(R[me.batch])
    BY <1>2 DEF Fits
  <2>2. me.orch \in 1..Len(P)
    <3>1. me.orch \in 1..Len(O)
      BY <1>2 DEF Fits
    <3>. QED BY <3>1
  <2>3. /\ Len(R[me.batch]) \in Nat /\ Len(S[me.batch]) \in Nat
        /\ Len(R[me.batch]) <= Len(S[me.batch])
        /\ \A r \in 1..Len(R[me.batch]) : Keeps(R[me.batch][r], S[me.batch][r])
    BY <2>1 DEF Grows
  <2>. QED BY <1>1, <2>1, <2>2, <2>3
<1>3. me.stage = "calling" => S[me.batch][me.run].status # "pending"
  BY <1>2 DEF Fits, Keeps
<1>4. me.stage \in {"renewing", "finishing"} => S[me.batch][me.run].applied
  BY <1>2 DEF Fits, Keeps
<1>. QED BY <1>1, <1>2, <1>3, <1>4 DEF Fits

Moves(w, me) == worker' = [worker EXCEPT ![w] = me]

\* A transaction of a call keeps the invariant.
StepOK == FactInv' /\ GoodStep

LEMMA CallAlone ==
    ASSUME FactInv, GoodStep, UNCHANGED worker
    PROVE  StepOK
<1>1. LedgerInv' /\ OrchsInv'
  BY DEF GoodStep, RunStep
<1>2. WorkersFit'
  <2>1. ASSUME NEW w \in Workers PROVE Fits(worker[w], runs', orchs')
    <3>1. Fits(worker[w], runs, orchs)
      BY DEF FactInv, WorkersFit
    <3>. QED BY <3>1, FitsLater DEF GoodStep, RunStep
  <2>. QED BY <2>1 DEF FactInv, WorkersFit
<1>3. OneCallPerRun'
  BY DEF FactInv, OneCallPerRun
<1>. QED BY <1>1, <1>2, <1>3 DEF StepOK, FactInv

LEMMA CallMoves ==
    ASSUME FactInv, GoodStep, NEW w \in Workers, NEW me, Moves(w, me),
           Fits(me, runs', orchs'),
           me.stage = "calling" =>
             /\ runs[me.batch][me.run].status = "pending"
             /\ me.batch \in Batches /\ me.run \in 1..Len(runs[me.batch])
    PROVE  StepOK
<1>1. LedgerInv' /\ OrchsInv'
  BY DEF GoodStep, RunStep
<1>2. /\ worker \in [Workers -> Worker] /\ worker'[w] = me
      /\ \A v \in Workers : v # w => worker'[v] = worker[v]
      /\ worker' \in [Workers -> Worker]
  BY DEF FactInv, WorkersFit, Moves, Fits
<1>3. ASSUME NEW v \in Workers PROVE Fits(worker[v], runs, orchs)
  BY DEF FactInv, WorkersFit
<1>4. ASSUME NEW v \in Workers PROVE Fits(worker'[v], runs', orchs')
  <2>1. Fits(worker[v], runs', orchs')
    BY <1>3, FitsLater DEF GoodStep, RunStep
  <2>. QED BY <1>2, <2>1
<1>5. WorkersFit'
  BY <1>2, <1>4 DEF WorkersFit
<1>6. ASSUME NEW v \in Workers, v # w, worker'[v].stage = "calling", me.stage = "calling",
             worker'[v].batch = me.batch
      PROVE  worker'[v].run # me.run
  <2>1. worker'[v] = worker[v] /\ Fits(worker[v], runs, orchs)
    BY <1>2, <1>3, <1>6
  <2>2. runs[worker[v].batch][worker[v].run].status # "pending"
    BY <1>6, <2>1 DEF Fits
  <2>. QED BY <1>6, <2>1, <2>2
<1>7. OneCallPerRun'
  <2>. SUFFICES ASSUME NEW u \in Workers, NEW v \in Workers, u # v,
                       worker'[u].stage = "calling", worker'[v].stage = "calling",
                       worker'[u].batch = worker'[v].batch
       PROVE  worker'[u].run # worker'[v].run
    BY DEF OneCallPerRun
  <2>1. CASE u = w
    BY <2>1, <1>2, <1>6
  <2>2. CASE v = w
    BY <2>2, <1>2, <1>6
  <2>3. CASE u # w /\ v # w
    BY <2>3, <1>2 DEF FactInv, OneCallPerRun
  <2>. QED BY <2>1, <2>2, <2>3
<1>. QED BY <1>1, <1>5, <1>7 DEF StepOK, FactInv

\* What is known of a call that is in progress.
LEMMA CallFacts ==
    ASSUME FactInv, NEW w \in Workers
    PROVE  /\ worker \in [Workers -> Worker] /\ worker[w] \in Worker
           /\ Fits(worker[w], runs, orchs)
           /\ GoodStep => Fits(worker[w], runs', orchs')
           /\ worker[w].stage # "idle" =>
                /\ worker[w].token \in Tokens /\ worker[w].token # NoToken
                /\ worker[w].orch \in Orchs /\ worker[w].batch \in Batches
                /\ worker[w].run \in Nat /\ worker[w].run <= Len(runs[worker[w].batch])
                /\ RowOf(w) \in Row /\ RowShape(RowOf(w))
                /\ RowOf(w).run \in Nat /\ RowOf(w).run <= Len(runs[worker[w].batch])
<1>1. worker \in [Workers -> Worker] /\ worker[w] \in Worker /\ Fits(worker[w], runs, orchs)
  BY DEF FactInv, WorkersFit
<1>2. GoodStep => Fits(worker[w], runs', orchs')
  BY <1>1, FitsLater DEF GoodStep, RunStep
<1>3. ASSUME worker[w].stage # "idle"
      PROVE  /\ worker[w].token \in Tokens /\ worker[w].token # NoToken
             /\ worker[w].orch \in Orchs /\ worker[w].batch \in Batches
             /\ worker[w].run \in Nat /\ worker[w].run <= Len(runs[worker[w].batch])
  BY <1>1, <1>3, TokensAssumption DEF Fits, Worker, Orchs
<1>4. ASSUME worker[w].stage # "idle"
      PROVE  /\ RowOf(w) \in Row /\ RowShape(RowOf(w))
             /\ RowOf(w).run \in Nat /\ RowOf(w).run <= Len(runs[worker[w].batch])
  BY <1>3, <1>4, RowFacts DEF FactInv, RowOf
<1>. QED BY <1>1, <1>2, <1>3, <1>4

LEMMA Codes ==
    /\ "none" \notin BatchCodes /\ RunCodes \subseteq BatchCodes
    /\ {"invalid", "lease_lost", "cancelled", "context_invalid", "transport", "stale"}
         \subseteq BatchCodes
    /\ {"invalid", "cancelled", "transport", "stale"} \subseteq RunCodes
BY DEF BatchCodes, RunCodes, RetryableCodes

LEMMA ReturnOK ==
    ASSUME FactInv, GoodStep, NEW w \in Workers, Return(w)
    PROVE  StepOK
<1>1. IdleWorker \in Worker
  <2>1. 0 \in 0..MaxOrchestrations /\ 0 \in 0..BatchCount
    BY AttemptsAssumption, BatchCountAssumption
  <2>. QED BY <2>1 DEF IdleWorker, Worker, Stages
<1>2. Fits(IdleWorker, runs', orchs') /\ IdleWorker.stage = "idle"
  BY <1>1 DEF Fits, IdleWorker
<1>3. Moves(w, IdleWorker)
  BY DEF Return, Moves
<1>. QED BY <1>2, <1>3, CallMoves

LEMMA ClaimOK ==
    ASSUME FactInv, GoodStep, NEW w \in Workers, worker[w].stage # "idle",
           NEW b \in Batches, Moves(w, ClaimOf(w, b))
    PROVE  StepOK
<1> DEFINE me == ClaimOf(w, b)
<1>1. /\ worker[w] \in Worker /\ Fits(worker[w], runs', orchs')
      /\ worker[w].token \in Tokens
  BY CallFacts
<1>2. b \in 0..BatchCount
  BY BatchCountAssumption DEF Batches
<1>3. /\ me \in Worker /\ me.stage = "claiming" /\ me.token = worker[w].token
      /\ me.orch = worker[w].orch /\ me.batch = b /\ me.run = 0
  BY <1>1, <1>2 DEF ClaimOf, Worker, Stages
<1>4. Len(runs'[b]) \in Nat
  BY DEF GoodStep, RunStep, Grows
<1>. HIDE DEF me
<1>5. Fits(me, runs', orchs')
  BY <1>1, <1>3, <1>4 DEF Fits
<1>. QED BY <1>3, <1>5, CallMoves DEF me

LEMMA AgainOK ==
    ASSUME FactInv, GoodStep, NEW w \in Workers, worker[w].stage # "idle", Again(w)
    PROVE  StepOK
<1>1. worker[w].batch \in Batches
  BY CallFacts
<1>2. Moves(w, ClaimOf(w, worker[w].batch))
  BY CallFacts DEF Again, Moves
<1>. QED BY <1>1, <1>2, ClaimOK

LEMMA NextBatchOK ==
    ASSUME FactInv, GoodStep, NEW w \in Workers, worker[w].stage # "idle", NextBatch(w)
    PROVE  StepOK
<1>1. /\ worker \in [Workers -> Worker] /\ worker[w] \in Worker
      /\ Fits(worker[w], runs', orchs') /\ worker[w].token \in Tokens
      /\ worker[w].batch \in Batches
  BY CallFacts
<1>2. CASE worker[w].batch = BatchCount
  <2> DEFINE me == [worker[w] EXCEPT !.stage = "finalizing", !.run = 0, !.code = "none"]
  <2>1. Moves(w, me)
    BY <1>1, <1>2 DEF NextBatch, Moves
  <2>2. /\ me \in Worker /\ me.stage = "finalizing" /\ me.token = worker[w].token
        /\ me.orch = worker[w].orch /\ me.batch = worker[w].batch /\ me.run = 0
    BY <1>1 DEF Worker, Stages
  <2>3. Len(runs'[worker[w].batch]) \in Nat
    BY <1>1 DEF GoodStep, RunStep, Grows
  <2>. HIDE DEF me
  <2>4. Fits(me, runs', orchs')
    BY <1>1, <2>2, <2>3 DEF Fits
  <2>. QED BY <2>1, <2>2, <2>4, CallMoves
<1>3. CASE worker[w].batch # BatchCount
  <2>1. worker[w].batch + 1 \in Batches
    BY <1>1, <1>3, BatchCountAssumption DEF Batches
  <2>2. Moves(w, ClaimOf(w, worker[w].batch + 1))
    BY <1>1, <1>3 DEF NextBatch, Moves
  <2>. QED BY <2>1, <2>2, ClaimOK
<1>. QED BY <1>2, <1>3

LEMMA ResumeOK ==
    ASSUME FactInv, GoodStep, NEW w \in Workers, worker[w].stage # "idle",
           NEW row, Resume(w, row)
    PROVE  StepOK
BY ReturnOK, AgainOK, NextBatchOK DEF Resume

\* A call goes on to a later stage, or to its reconciliation.
LEMMA StageOK ==
    ASSUME FactInv, GoodStep, NEW w \in Workers, worker[w].stage # "idle",
           NEW stage \in Stages \ {"idle", "calling"}, NEW code \in BatchCodes \cup {"none"},
           Moves(w, [worker[w] EXCEPT !.stage = stage, !.code = code]),
           stage \in {"recovering", "transitioning", "registering", "launching",
                     "persisting", "renewing", "finishing"} => worker[w].run # 0,
           stage \in {"renewing", "finishing"} =>
             runs'[worker[w].batch][worker[w].run].applied,
           stage \in {"transitioning", "reconciling"} => code # "none"
    PROVE  StepOK
<1> DEFINE me == [worker[w] EXCEPT !.stage = stage, !.code = code]
<1>1. worker[w] \in Worker /\ Fits(worker[w], runs', orchs')
  BY CallFacts
<1>2. /\ me \in Worker /\ me.stage = stage /\ me.token = worker[w].token
      /\ me.orch = worker[w].orch /\ me.batch = worker[w].batch /\ me.run = worker[w].run
      /\ me.code = code
  BY <1>1 DEF Worker
<1>3. Moves(w, me)
  OBVIOUS
<1>. HIDE DEF me
<1>4. Fits(me, runs', orchs')
  BY <1>1, <1>2 DEF Fits
<1>. QED BY <1>2, <1>3, <1>4, CallMoves

LEMMA GoOnOK ==
    ASSUME FactInv, GoodStep, NEW w \in Workers, worker[w].stage # "idle",
           NEW stage \in {"preparing", "launching", "persisting", "renewing", "finishing"},
           GoOn(w, stage), stage # "preparing" => worker[w].run # 0,
           stage \in {"renewing", "finishing"} =>
             runs'[worker[w].batch][worker[w].run].applied
    PROVE  StepOK
<1>1. worker[w] \in Worker /\ worker \in [Workers -> Worker]
  BY CallFacts
<1>2. worker[w].code \in BatchCodes \cup {"none"}
  BY <1>1 DEF Worker
<1>3. [worker[w] EXCEPT !.stage = stage]
        = [worker[w] EXCEPT !.stage = stage, !.code = worker[w].code]
  BY <1>1 DEF Worker
<1>4. Moves(w, [worker[w] EXCEPT !.stage = stage, !.code = worker[w].code])
  BY <1>1, <1>3 DEF GoOn, Moves
<1>5. stage \in Stages \ {"idle", "calling"}
  BY DEF Stages
<1>. QED BY <1>2, <1>4, <1>5, StageOK

LEMMA FailOK ==
    ASSUME FactInv, GoodStep, NEW w \in Workers, worker[w].stage # "idle",
           NEW code \in BatchCodes, Fail(w, code)
    PROVE  StepOK
<1>1. Moves(w, [worker[w] EXCEPT !.stage = "reconciling", !.code = code])
  BY CallFacts DEF Fail, Moves
<1>2. "reconciling" \in Stages \ {"idle", "calling"}
  BY DEF Stages
<1>. QED BY <1>1, <1>2, Codes, StageOK

------------------------------------------------------------------------------
(* What becomes of a row. *)

LEMMA RetriedRow ==
    ASSUME NEW b \in Batches, NEW row \in Row, RowShape(row), row.run <= Len(runs[b]),
           Len(runs[b]) \in Nat, NEW code \in BatchCodes,
           ~(row.run # 0 /\ Status(b, row.run) \in {"completed", "pending"})
    PROVE  GoodRow(b, row, Retried(row, code))
<1>. row.attempts \in Nat
  BY AttemptsAssumption DEF Row
<1>1. CASE Retryable(row, code)
  <2>1. /\ PendingAgain(row) \in Row /\ RowShape(PendingAgain(row))
        /\ PendingAgain(row).run = 0 /\ PendingAgain(row).status = "pending"
        /\ PendingAgain(row).attempts = row.attempts
    BY TokensAssumption DEF PendingAgain, Row, RowShape
  <2>. QED BY <1>1, <2>1 DEF GoodRow, Retried, RowCounts, Unspent, Awaits
<1>2. CASE ~Retryable(row, code)
  <2>1. /\ Failed(row, code) \in Row /\ RowShape(Failed(row, code))
        /\ Failed(row, code).run = row.run /\ Failed(row, code).status = "failed"
        /\ Failed(row, code).attempts = row.attempts
    BY TokensAssumption, Codes DEF Failed, Row, RowShape
  <2>. QED BY <1>2, <2>1 DEF GoodRow, Retried, RowCounts, Unspent, Awaits
<1>. QED BY <1>1, <1>2

LEMMA FailedRow ==
    ASSUME NEW b \in Batches, NEW row \in Row, RowShape(row), row.run <= Len(runs[b]),
           NEW code \in BatchCodes, row.run # 0, Status(b, row.run) = "completed"
    PROVE  GoodRow(b, row, Failed(row, code))
<1>. row.attempts \in Nat
  BY AttemptsAssumption DEF Row
<1>1. /\ Failed(row, code) \in Row /\ RowShape(Failed(row, code))
      /\ Failed(row, code).run = row.run /\ Failed(row, code).status = "failed"
      /\ Failed(row, code).attempts = row.attempts
  BY TokensAssumption, Codes DEF Failed, Row, RowShape
<1>. QED BY <1>1 DEF GoodRow, RowCounts, Unspent, Awaits

LEMMA CompletedRow ==
    ASSUME NEW b \in Batches, NEW row \in Row, RowShape(row), row.run <= Len(runs[b]),
           row.run # 0, Status(b, row.run) = "completed", runs[b][row.run].applied
    PROVE  GoodRow(b, row, Completed(row))
<1>. row.attempts \in Nat
  BY AttemptsAssumption DEF Row
<1>1. /\ Completed(row) \in Row /\ RowShape(Completed(row))
      /\ Completed(row).run = row.run /\ Completed(row).status = "completed"
      /\ Completed(row).attempts = row.attempts
  BY TokensAssumption DEF Completed, Row, RowShape
<1>. QED BY <1>1 DEF GoodRow, RowCounts, Unspent, Awaits

LEMMA LeaseRow ==
    ASSUME NEW b \in Batches, NEW row \in Row, RowShape(row), row.run <= Len(runs[b]),
           row.status = "running", NEW live \in BOOLEAN
    PROVE  GoodRow(b, row, [row EXCEPT !.live = live])
<1>. row.attempts \in Nat
  BY AttemptsAssumption DEF Row
<1>1. /\ [row EXCEPT !.live = live] \in Row /\ RowShape([row EXCEPT !.live = live])
      /\ [row EXCEPT !.live = live].run = row.run
      /\ [row EXCEPT !.live = live].status = "running"
      /\ [row EXCEPT !.live = live].attempts = row.attempts
  BY DEF Row, RowShape
<1>. QED BY <1>1 DEF GoodRow, RowCounts, Unspent, Awaits

LEMMA RegisteredRow ==
    ASSUME NEW b \in Batches, NEW row \in Row, RowShape(row),
           row.status = "running", NEW r \in Nat, r <= Len(runs[b]), row.run \in {0, r}
    PROVE  GoodRow(b, row, [row EXCEPT !.run = r])
<1>. row.attempts \in Nat
  BY AttemptsAssumption DEF Row
<1>1. /\ [row EXCEPT !.run = r] \in Row /\ RowShape([row EXCEPT !.run = r])
      /\ [row EXCEPT !.run = r].run = r
      /\ [row EXCEPT !.run = r].status = "running"
      /\ [row EXCEPT !.run = r].attempts = row.attempts
  BY DEF Row, RowShape
<1>. QED BY <1>1 DEF GoodRow, RowCounts, Unspent, Awaits

\* A claim counts an attempt, or takes over a lease.
LEMMA LeasedRow ==
    ASSUME NEW b \in Batches, NEW row \in Row, RowShape(row), row.run <= Len(runs[b]),
           NEW more \in Row, NEW token \in Tokens,
           \/ more = row /\ row.status = "running"
           \/ more = [row EXCEPT !.attempts = @ + 1] /\ row.status = "pending"
    PROVE  GoodRow(b, row, Leased(more, token))
<1>1. token # NoToken /\ row.attempts \in Nat
  BY TokensAssumption, AttemptsAssumption DEF Row
<1>2. /\ more.run = row.run /\ more.status = row.status /\ RowShape(more)
      /\ \/ row.status = "running" /\ more.attempts = row.attempts
         \/ row.status = "pending" /\ more.attempts = row.attempts + 1
  BY DEF Row, RowShape
<1>3. /\ Leased(more, token) \in Row /\ RowShape(Leased(more, token))
      /\ Leased(more, token).run = row.run /\ Leased(more, token).status = "running"
      /\ Leased(more, token).attempts = more.attempts
  BY <1>1, <1>2 DEF Leased, Row, RowShape
<1>4. RowCounts(b, row, Leased(more, token))
  BY <1>1, <1>2, <1>3 DEF RowCounts, Unspent, Awaits
<1>. QED BY <1>3, <1>4 DEF GoodRow

\* The row of the batch a call is concerned with changes.
LEMMA SetRowOK ==
    ASSUME FactInv, NEW w \in Workers, worker[w].stage # "idle", UNCHANGED runs,
           NEW row, SetRowOf(w, row),
           orchs[worker[w].orch].status \notin TerminalStatus,
           GoodRow(worker[w].batch, RowOf(w), row)
    PROVE  GoodStep
BY CallFacts, SetRowStep DEF FactInv, SetRowOf, RowOf

LEMMA OwnedIsOpen ==
    ASSUME FactInv, NEW w \in Workers, worker[w].stage # "idle",
           OwnedBy(w) \/ RowOf(w).status \in {"pending", "running"}
    PROVE  /\ OwnedBy(w) => RowOf(w).status = "running"
           /\ orchs[worker[w].orch].status \in {"planned", "running"}
           /\ orchs[worker[w].orch].status \notin TerminalStatus
<1>1. OwnedBy(w) => RowOf(w).status = "running"
  BY CallFacts DEF OwnedBy, RowShape
<1>2. RowOf(w).status \in {"pending", "running"}
  BY <1>1
<1>3. orchs[worker[w].orch].status \in {"planned", "running"}
  BY <1>2, CallFacts, StillOpen DEF FactInv, RowOf
<1>. QED BY <1>1, <1>3 DEF TerminalStatus

LEMMA NothingStored ==
    ASSUME FactInv, UNCHANGED runs, UNCHANGED orchs
    PROVE  GoodStep
BY OrchsQuiet DEF FactInv, rowVars

LEMMA RunsStored ==
    ASSUME FactInv, RunOperation, UNCHANGED orchs
    PROVE  GoodStep
BY RunsOnly DEF FactInv

------------------------------------------------------------------------------
(* Every action of a call keeps the invariant. *)

LEMMA StartOK ==
    ASSUME FactInv, NEW w \in Workers, NEW token \in Tokens, Start(w, token)
    PROVE  StepOK
<1>1. GoodStep /\ Len(orchs') \in 1..MaxOrchestrations
  <2>1. CASE Open /\ UNCHANGED orchs
    <3>1. orchs # << >>
      BY <2>1 DEF Open, NewestStatus
    <3>2. orchs \in Seq(Orchestration) /\ Len(orchs) <= MaxOrchestrations
      BY DEF FactInv, OrchsInv, BatchesTypeOK
    <3>3. Len(orchs) \in 1..MaxOrchestrations
      BY <3>1, <3>2, AttemptsAssumption
    <3>. QED BY <2>1, <3>3, NothingStored DEF Start
  <2>2. CASE MayRetry /\ orchs' = Append(orchs, NewOrchestration)
    <3>1. GoodStep
      BY <2>2, AppendStep DEF Start, FactInv
    <3>2. Len(orchs) \in Nat /\ Len(orchs') = Len(orchs) + 1
      BY <2>2 DEF FactInv, OrchsInv, BatchesTypeOK
    <3>. QED BY <2>2, <3>1, <3>2, AttemptsAssumption DEF MayRetry
  <2>. QED BY <2>1, <2>2 DEF Start
<1> DEFINE me == [IdleWorker EXCEPT !.stage = "claiming", !.token = token,
                                    !.orch = Len(orchs'), !.batch = 1]
<1>2. 1 \in Batches /\ 1 \in 0..BatchCount /\ Len(orchs') \in 0..MaxOrchestrations
  BY <1>1, BatchCountAssumption, AttemptsAssumption DEF Batches
<1>3. /\ me \in Worker /\ me.stage = "claiming" /\ me.token = token
      /\ me.orch = Len(orchs') /\ me.batch = 1 /\ me.run = 0
  BY <1>2 DEF IdleWorker, Worker, Stages
<1>4. Moves(w, me)
  BY DEF Start, Moves
<1>5. Len(runs'[1]) \in Nat
  BY <1>1, <1>2 DEF GoodStep, RunStep, Grows
<1>. HIDE DEF me
<1>6. Fits(me, runs', orchs')
  BY <1>1, <1>2, <1>3, <1>5 DEF Fits
<1>. QED BY <1>1, <1>3, <1>4, <1>6, CallMoves

LEMMA ClaimActionOK ==
    ASSUME FactInv, NEW w \in Workers, Claim(w)
    PROVE  StepOK
<1> DEFINE o == worker[w].orch
           b == worker[w].batch
           row == RowOf(w)
           token == worker[w].token
<1>1. /\ worker[w].stage = "claiming" /\ worker[w].stage # "idle" /\ UNCHANGED runs
      /\ o \in Orchs /\ b \in Batches /\ token \in Tokens /\ worker[w] \in Worker
      /\ row \in Row /\ RowShape(row) /\ row.run \in Nat /\ row.run <= Len(runs[b])
  BY CallFacts DEF Claim
<1>2. CASE MustSkip(o, b, token) /\ NextBatch(w) /\ UNCHANGED orchs
  BY <1>1, <1>2, NothingStored, NextBatchOK
<1>3. CASE ClaimPending(o, b, token) /\ GoOn(w, "preparing")
  <2> DEFINE more == [row EXCEPT !.attempts = @ + 1]
  <2>1. /\ row.status = "pending" /\ row.attempts < MaxAttempts
        /\ orchs' = [orchs EXCEPT ![o].status = "running",
                                  ![o].batch[b] = Leased(more, token)]
    BY <1>3 DEF ClaimPending, RowOf
  <2>2. more \in Row
    <3>1. row.attempts + 1 \in 0..MaxAttempts
      BY <1>1, <2>1, AttemptsAssumption DEF Row
    <3>. QED BY <1>1, <2>1, <3>1 DEF Row
  <2>3. more = [row EXCEPT !.attempts = @ + 1]
    OBVIOUS
  <2>. HIDE DEF more
  <2>4. GoodRow(b, row, Leased(more, token))
    BY <1>1, <2>1, <2>2, <2>3, LeasedRow
  <2>5. orchs[o].status \notin TerminalStatus
    BY <1>1, <2>1, OwnedIsOpen
  <2>6. RowBecomes(o, b, Leased(more, token), "running")
    BY <1>1, <2>1, RowBecomesIs DEF FactInv
  <2>7. GoodStep
    BY <1>1, <2>4, <2>5, <2>6, RowChange DEF FactInv, RowOf
  <2>. QED BY <1>1, <1>3, <2>7, GoOnOK
<1>4. CASE /\ ClaimRunning(o, b, token)
           /\ worker' = [worker EXCEPT
                ![w].stage = IF row.run = 0 THEN "preparing" ELSE "recovering",
                ![w].run = row.run]
  <2>1. row.status = "running" /\ SetRowOf(w, Leased(row, token))
    BY <1>4 DEF ClaimRunning, RowOf, SetRowOf
  <2>2. GoodRow(b, row, Leased(row, token))
    BY <1>1, <2>1, LeasedRow
  <2>3. GoodStep
    BY <1>1, <2>1, <2>2, OwnedIsOpen, SetRowOK
  <2> DEFINE stage == IF row.run = 0 THEN "preparing" ELSE "recovering"
             me == [worker[w] EXCEPT !.stage = stage, !.run = row.run]
  <2>4. /\ me \in Worker /\ me.stage = stage /\ me.token = token
        /\ me.orch = o /\ me.batch = b /\ me.run = row.run
    BY <1>1 DEF Worker, Stages
  <2>5. Moves(w, me)
    BY <1>4, CallFacts DEF Moves
  <2>. HIDE DEF me
  <2>6. Fits(worker[w], runs', orchs')
    BY <2>3, CallFacts
  <2>7. Fits(me, runs', orchs')
    BY <1>1, <2>4, <2>6 DEF Fits
  <2>. QED BY <2>3, <2>4, <2>5, <2>7, CallMoves
<1>. QED BY <1>2, <1>3, <1>4 DEF Claim

\* The run a call is concerned with.
LEMMA CallRun ==
    ASSUME FactInv, NEW w \in Workers,
           worker[w].stage \in {"recovering", "transitioning", "registering", "launching",
                               "calling", "persisting", "renewing", "finishing"}
    PROVE  LET b == worker[w].batch
               r == worker[w].run IN
           /\ worker[w].stage # "idle"
           /\ b \in Batches /\ r \in 1..Len(runs[b]) /\ Len(runs[b]) \in Nat
           /\ r \in Nat /\ r # 0
           /\ runs[b][r] \in Run /\ RunShape(runs[b][r])
<1> DEFINE b == worker[w].batch
           r == worker[w].run
<1>1. worker[w].stage # "idle" /\ b \in Batches /\ r # 0 /\ r \in Nat /\ r <= Len(runs[b])
  BY CallFacts DEF Fits
<1>2. Len(runs[b]) \in Nat /\ r \in 1..Len(runs[b])
  BY <1>1, LengthIsNat DEF FactInv
<1>3. runs[b][r] \in Run /\ RunShape(runs[b][r])
  BY <1>1, <1>2 DEF FactInv, LedgerInv, LedgerTypeOK
<1>. QED BY <1>1, <1>2, <1>3

LEMMA RecoverOK ==
    ASSUME FactInv, NEW w \in Workers, Recover(w)
    PROVE  StepOK
<1> DEFINE b == worker[w].batch
           r == worker[w].run
<1>1. /\ worker[w].stage = "recovering" /\ worker[w].stage # "idle" /\ UNCHANGED orchs
      /\ b \in Batches /\ r \in 1..Len(runs[b]) /\ Len(runs[b]) \in Nat
      /\ runs[b][r] \in Run /\ RunShape(runs[b][r])
  BY CallRun DEF Recover
<1>2. CASE GoOn(w, "preparing") /\ UNCHANGED runs
  BY <1>1, <1>2, NothingStored, GoOnOK
<1>3. CASE NextBatch(w) /\ UNCHANGED runs
  BY <1>1, <1>3, NothingStored, NextBatchOK
<1>4. ASSUME NEW code \in RunCodes, GoodStep,
             worker' = [worker EXCEPT ![w].stage = "transitioning", ![w].code = code]
      PROVE  StepOK
  <2>1. Moves(w, [worker[w] EXCEPT !.stage = "transitioning", !.code = code])
    BY <1>4, CallFacts DEF Moves
  <2>2. "transitioning" \in Stages \ {"idle", "calling"}
    BY DEF Stages
  <2>3. code \in BatchCodes /\ code # "none"
    BY <1>4, Codes
  <2>4. worker[w].run # 0
    BY <1>1
  <2>. QED BY <1>1, <1>4, <2>1, <2>2, <2>3, <2>4, StageOK
<1>5. CASE /\ Status(b, r) = "failed" /\ UNCHANGED runs
           /\ worker' = [worker EXCEPT ![w].stage = "transitioning",
                                       ![w].code = runs[b][r].code]
  <2>1. runs[b][r].code \in RunCodes
    BY <1>1, <1>5 DEF Run, RunShape, Status
  <2>. QED BY <1>1, <1>4, <1>5, <2>1, NothingStored
<1>6. CASE /\ FailStale(b, r)
           /\ worker' = [worker EXCEPT ![w].stage = "transitioning", ![w].code = "stale"]
  <2>1. RunOperation
    BY <1>1, <1>6 DEF RunOperation
  <2>. QED BY <1>1, <1>4, <1>6, <2>1, RunsStored, Codes
<1>. QED BY <1>2, <1>3, <1>5, <1>6 DEF Recover

LEMMA TransitionOK ==
    ASSUME FactInv, NEW w \in Workers, Transition(w)
    PROVE  StepOK
<1> DEFINE me == worker[w]
           row == RowOf(w)
<1>1. /\ worker[w].stage = "transitioning" /\ worker[w].stage # "idle" /\ UNCHANGED runs
      /\ me.batch \in Batches /\ row \in Row /\ RowShape(row)
      /\ row.run <= Len(runs[me.batch]) /\ Len(runs[me.batch]) \in Nat
  BY CallFacts, LengthIsNat DEF Transition, FactInv
<1>2. me.code \in BatchCodes
  BY <1>1, CallFacts DEF Fits, Worker
<1>3. CASE NextBatch(w) /\ UNCHANGED orchs
  BY <1>1, <1>3, NothingStored, NextBatchOK
<1>4. CASE Return(w) /\ UNCHANGED orchs
  BY <1>1, <1>4, NothingStored, ReturnOK
<1>5. CASE /\ MayTransition(me.orch, me.batch, me.token, me.run, me.code)
           /\ SetRowOf(w, Retried(row, me.code))
           /\ IF Retryable(row, me.code) THEN Again(w) ELSE NextBatch(w)
  <2>1. OwnedBy(w) /\ row.run = me.run /\ Status(me.batch, me.run) = "failed"
    BY <1>5 DEF MayTransition, OwnedBy, RowOf
  <2>2. GoodRow(me.batch, row, Retried(row, me.code))
    BY <1>1, <1>2, <2>1, RetriedRow
  <2>3. GoodStep
    BY <1>1, <1>5, <2>1, <2>2, OwnedIsOpen, SetRowOK
  <2>. QED BY <1>1, <1>5, <2>3, AgainOK, NextBatchOK
<1>. QED BY <1>3, <1>4, <1>5 DEF Transition

LEMMA PrepareOK ==
    ASSUME FactInv, NEW w \in Workers, Prepare(w)
    PROVE  StepOK
<1> DEFINE b == worker[w].batch
           r == PreparedRun(b)
<1>1. /\ worker[w].stage # "idle" /\ UNCHANGED orchs /\ PrepareRun(b)
      /\ b \in Batches /\ worker[w] \in Worker
  BY CallFacts DEF Prepare
<1>2. runs \in [Batches -> Seq(Run)] /\ runs[b] \in Seq(Run) /\ Len(runs[b]) \in Nat
  BY <1>1 DEF FactInv, LedgerInv, LedgerTypeOK
<1>3. RunOperation
  BY <1>1 DEF RunOperation
<1>4. GoodStep
  BY <1>1, <1>3, RunsStored
<1>5. r \in Nat /\ r # 0 /\ r <= Len(runs'[b])
  <2>1. CASE Reusable(b)
    BY <1>1, <1>2, <2>1 DEF PrepareRun, PreparedRun, Reusable, Latest
  <2>2. CASE ~Reusable(b)
    <3>1. runs'[b] = Append(runs[b], PendingRun)
      BY <1>1, <1>2, <2>2 DEF PrepareRun
    <3>2. Len(runs'[b]) = Len(runs[b]) + 1
      BY <1>2, <3>1
    <3>. QED BY <1>2, <2>2, <3>2 DEF PreparedRun, Latest
  <2>. QED BY <2>1, <2>2
<1>. HIDE DEF r
<1> DEFINE me == [worker[w] EXCEPT !.stage = "registering", !.run = r]
<1>6. /\ me \in Worker /\ me.stage = "registering" /\ me.token = worker[w].token
      /\ me.orch = worker[w].orch /\ me.batch = b /\ me.run = r
  BY <1>1, <1>5 DEF Worker, Stages
<1>7. Moves(w, me)
  BY CallFacts DEF Prepare, Moves, r
<1>. HIDE DEF me
<1>8. Fits(worker[w], runs', orchs')
  BY <1>4, CallFacts
<1>9. Fits(me, runs', orchs')
  BY <1>1, <1>5, <1>6, <1>8 DEF Fits
<1>. QED BY <1>4, <1>6, <1>7, <1>9, CallMoves

LEMMA RegisterOK ==
    ASSUME FactInv, NEW w \in Workers, Register(w)
    PROVE  StepOK
<1> DEFINE me == worker[w]
           row == RowOf(w)
<1>1. /\ me.stage = "registering" /\ me.stage # "idle" /\ UNCHANGED runs
      /\ me.batch \in Batches /\ me.run \in Nat /\ me.run # 0
      /\ me.run <= Len(runs[me.batch]) /\ row \in Row /\ RowShape(row)
  BY CallFacts, CallRun DEF Register
<1>2. CASE /\ MayRegister(me.orch, me.batch, me.token, me.run)
           /\ SetRowOf(w, [row EXCEPT !.run = me.run]) /\ GoOn(w, "launching")
  <2>1. row.status = "running" /\ row.run \in {0, me.run}
    BY <1>2 DEF MayRegister, RowOf
  <2>2. GoodRow(me.batch, row, [row EXCEPT !.run = me.run])
    BY <1>1, <2>1, RegisteredRow
  <2>3. GoodStep
    BY <1>1, <1>2, <2>1, <2>2, OwnedIsOpen, SetRowOK
  <2>. QED BY <1>1, <1>2, <2>3, GoOnOK
<1>3. CASE Fail(w, "invalid") /\ UNCHANGED orchs
  BY <1>1, <1>3, NothingStored, FailOK, Codes
<1>. QED BY <1>2, <1>3 DEF Register

LEMMA LaunchOK ==
    ASSUME FactInv, NEW w \in Workers, Launch(w)
    PROVE  StepOK
<1> DEFINE b == worker[w].batch
           r == worker[w].run
<1>1. /\ worker[w].stage = "launching" /\ worker[w].stage # "idle" /\ UNCHANGED orchs
      /\ b \in Batches /\ r \in 1..Len(runs[b]) /\ r # 0
  BY CallRun DEF Launch
<1>2. CASE LaunchRun(b, r) /\ GoOn(w, "calling")
  <2>1. GoodStep
    <3>1. RunOperation
      BY <1>1, <1>2 DEF RunOperation
    <3>. QED BY <1>1, <3>1, RunsStored
  <2>2. runs[b][r].status = "pending" /\ runs'[b][r].status # "pending"
    <3>1. runs \in [Batches -> Seq(Run)] /\ runs[b] \in Seq(Run) /\ runs[b][r] \in Run
      BY <1>1 DEF FactInv, LedgerInv, LedgerTypeOK
    <3> DEFINE new == [runs[b][r] EXCEPT !.status = "running", !.fresh = TRUE]
    <3>2. runs' = [runs EXCEPT ![b][r] = new]
      BY <1>1, <1>2, <3>1 DEF LaunchRun
    <3>3. new.status = "running"
      BY <3>1 DEF Run
    <3>. HIDE DEF new
    <3>4. runs'[b][r].status = "running"
      BY <1>1, <3>1, <3>2, <3>3
    <3>. QED BY <1>2, <3>4 DEF LaunchRun, Status
  <2> DEFINE me == [worker[w] EXCEPT !.stage = "calling"]
  <2>3. /\ me \in Worker /\ me.stage = "calling" /\ me.token = worker[w].token
        /\ me.orch = worker[w].orch /\ me.batch = b /\ me.run = r
    BY CallFacts DEF Worker, Stages
  <2>4. Moves(w, me)
    BY <1>2, CallFacts DEF GoOn, Moves
  <2>. HIDE DEF me
  <2>5. Fits(worker[w], runs', orchs')
    BY <2>1, CallFacts
  <2>6. Fits(me, runs', orchs')
    BY <1>1, <2>2, <2>3, <2>5 DEF Fits
  <2>. QED BY <1>1, <2>1, <2>2, <2>3, <2>4, <2>6, CallMoves
<1>3. CASE GoOn(w, "persisting") /\ UNCHANGED runs
  BY <1>1, <1>3, NothingStored, GoOnOK
<1>4. CASE Fail(w, "invalid") /\ UNCHANGED runs
  BY <1>1, <1>4, NothingStored, FailOK, Codes
<1>. QED BY <1>2, <1>3, <1>4 DEF Launch

LEMMA AnsweredOK ==
    ASSUME FactInv, NEW w \in Workers, Answered(w)
    PROVE  StepOK
<1>1. /\ worker[w].stage = "calling" /\ worker[w].stage # "idle" /\ UNCHANGED orchs
      /\ worker[w].batch \in Batches /\ worker[w].run # 0
      /\ worker[w].run \in 1..Len(runs[worker[w].batch])
  BY CallRun DEF Answered
<1>2. CASE CompleteRun(worker[w].batch, worker[w].run) /\ GoOn(w, "persisting")
  <2>1. RunOperation
    BY <1>1, <1>2 DEF RunOperation
  <2>. QED BY <1>1, <1>2, <2>1, RunsStored, GoOnOK
<1>3. CASE Fail(w, "invalid") /\ UNCHANGED runs
  BY <1>1, <1>3, NothingStored, FailOK, Codes
<1>. QED BY <1>2, <1>3 DEF Answered

LEMMA RecordedFailure ==
    ASSUME FactInv, NEW w \in Workers, worker[w].stage = "calling", NEW code \in RunCodes,
           RecordFailure(w, code), UNCHANGED orchs
    PROVE  GoodStep
<1>1. worker[w].batch \in Batches /\ worker[w].run \in 1..Len(runs[worker[w].batch])
  BY CallRun
<1>2. RunOperation
  BY <1>1 DEF RecordFailure, RunOperation
<1>. QED BY <1>2, RunsStored

LEMMA CallFailsOK ==
    ASSUME FactInv, NEW w \in Workers, NEW code \in {"transport", "invalid"},
           CallFails(w, code)
    PROVE  StepOK
<1>1. worker[w].stage = "calling" /\ UNCHANGED orchs /\ RecordFailure(w, code) /\ Fail(w, code)
  BY DEF CallFails
<1>2. GoodStep
  BY <1>1, Codes, RecordedFailure
<1>. QED BY <1>1, <1>2, Codes, FailOK

LEMMA PersistOK ==
    ASSUME FactInv, NEW w \in Workers, Persist(w)
    PROVE  StepOK
<1> DEFINE b == worker[w].batch
           r == worker[w].run
<1>1. /\ worker[w].stage = "persisting" /\ worker[w].stage # "idle" /\ UNCHANGED orchs
      /\ b \in Batches /\ r \in 1..Len(runs[b]) /\ r # 0
      /\ ApplyRun(b, r) /\ GoOn(w, "renewing")
  BY CallRun DEF Persist
<1>2. GoodStep
  <2>1. RunOperation
    BY <1>1 DEF RunOperation
  <2>. QED BY <1>1, <2>1, RunsStored
<1>3. runs'[b][r].applied
  <2>1. runs \in [Batches -> Seq(Run)] /\ runs[b] \in Seq(Run) /\ runs[b][r] \in Run
    BY <1>1 DEF FactInv, LedgerInv, LedgerTypeOK
  <2>. QED BY <1>1, <2>1 DEF ApplyRun, Run
<1>. QED BY <1>1, <1>2, <1>3, GoOnOK

LEMMA RenewOK ==
    ASSUME FactInv, NEW w \in Workers, Renew(w)
    PROVE  StepOK
<1> DEFINE me == worker[w]
           row == RowOf(w)
<1>1. /\ me.stage = "renewing" /\ me.stage # "idle" /\ UNCHANGED runs
      /\ me.batch \in Batches /\ me.run # 0 /\ row \in Row /\ RowShape(row)
      /\ row.run <= Len(runs[me.batch])
  BY CallFacts, CallRun DEF Renew
<1>2. CASE /\ MayRenew(me.orch, me.batch, me.token)
           /\ SetRowOf(w, [row EXCEPT !.live = TRUE]) /\ GoOn(w, "finishing")
  <2>1. row.status = "running"
    BY <1>2 DEF MayRenew, RowOf
  <2>2. GoodRow(me.batch, row, [row EXCEPT !.live = TRUE])
    BY <1>1, <2>1, LeaseRow
  <2>3. GoodStep
    BY <1>1, <1>2, <2>1, <2>2, OwnedIsOpen, SetRowOK
  <2>4. runs'[me.batch][me.run].applied
    BY <1>1, CallFacts DEF Fits
  <2>. QED BY <1>1, <1>2, <2>3, <2>4, GoOnOK
<1>3. CASE Fail(w, "lease_lost") /\ UNCHANGED orchs
  BY <1>1, <1>3, NothingStored, FailOK, Codes
<1>. QED BY <1>2, <1>3 DEF Renew

LEMMA FinishOK ==
    ASSUME FactInv, NEW w \in Workers, Finish(w)
    PROVE  StepOK
<1> DEFINE me == worker[w]
           row == RowOf(w)
<1>1. /\ me.stage = "finishing" /\ me.stage # "idle" /\ UNCHANGED runs
      /\ me.batch \in Batches /\ me.run # 0 /\ row \in Row /\ RowShape(row)
      /\ row.run <= Len(runs[me.batch])
  BY CallFacts, CallRun DEF Finish
<1>2. CASE NextBatch(w) /\ UNCHANGED orchs
  BY <1>1, <1>2, NothingStored, NextBatchOK
<1>3. CASE /\ MayFinish(me.orch, me.batch, me.token, me.run)
           /\ SetRowOf(w, Completed(row)) /\ NextBatch(w)
  <2>1. OwnedBy(w) /\ row.run = me.run
    BY <1>3 DEF MayFinish, OwnedBy, RowOf
  <2>2. Status(me.batch, me.run) = "completed" /\ runs[me.batch][me.run].applied
    BY <1>1, CallFacts, CallRun DEF Fits, RunShape, Status
  <2>3. GoodRow(me.batch, row, Completed(row))
    BY <1>1, <2>1, <2>2, CompletedRow
  <2>4. GoodStep
    BY <1>1, <1>3, <2>1, <2>3, OwnedIsOpen, SetRowOK
  <2>. QED BY <1>1, <1>3, <2>4, NextBatchOK
<1>4. CASE Fail(w, "invalid") /\ UNCHANGED orchs
  BY <1>1, <1>4, NothingStored, FailOK, Codes
<1>. QED BY <1>2, <1>3, <1>4 DEF Finish

\* A call gives up, or fails, without anything being stored.
LEMMA NothingDoneOK ==
    ASSUME FactInv, NEW w \in Workers, ContextInvalid(w) \/ StepFails(w) \/ Dies(w)
    PROVE  StepOK
<1>1. UNCHANGED runs /\ UNCHANGED orchs /\ worker[w].stage # "idle"
  BY DEF ContextInvalid, StepFails, Dies, rowVars, Trying, Beating
<1>2. Fail(w, "context_invalid") \/ Fail(w, "invalid") \/ Return(w)
  BY DEF ContextInvalid, StepFails, Dies
<1>. QED BY <1>1, <1>2, NothingStored, FailOK, ReturnOK, Codes

LEMMA FinalizeOK ==
    ASSUME FactInv, NEW w \in Workers, Finalize(w)
    PROVE  StepOK
<1>1. /\ worker[w].stage # "idle" /\ UNCHANGED runs /\ Return(w)
      /\ FinalizeOrchestration(worker[w].orch)
  BY DEF Finalize
<1>2. GoodStep
  BY <1>1, CallFacts, FinalizeStep DEF FactInv
<1>. QED BY <1>1, <1>2, ReturnOK

LEMMA BeatOK ==
    ASSUME FactInv, NEW w \in Workers, Beat(w)
    PROVE  StepOK
<1> DEFINE me == worker[w]
           row == RowOf(w)
<1>1. /\ me.stage # "idle" /\ UNCHANGED runs /\ UNCHANGED worker
      /\ MayRenew(me.orch, me.batch, me.token)
      /\ SetRowOf(w, [row EXCEPT !.live = TRUE])
  BY DEF Beat, Beating
<1>2. /\ me.batch \in Batches /\ row \in Row /\ RowShape(row)
      /\ row.run <= Len(runs[me.batch])
  BY <1>1, CallFacts
<1>3. row.status = "running"
  BY <1>1 DEF MayRenew, RowOf
<1>4. GoodRow(me.batch, row, [row EXCEPT !.live = TRUE])
  BY <1>2, <1>3, LeaseRow
<1>5. GoodStep
  BY <1>1, <1>3, <1>4, OwnedIsOpen, SetRowOK
<1>. QED BY <1>1, <1>5, CallAlone

\* The heartbeat of a call fails, or the call is cancelled.
LEMMA BrokenOffOK ==
    ASSUME FactInv, NEW w \in Workers, HeartbeatFails(w) \/ Cancel(w)
    PROVE  StepOK
<1>1. worker[w].stage # "idle" /\ UNCHANGED orchs
  BY DEF HeartbeatFails, Cancel, Trying, Beating
<1>2. Fail(w, "lease_lost") \/ Fail(w, "cancelled")
  BY DEF HeartbeatFails, Cancel
<1>3. GoodStep
  <2>1. CASE worker[w].stage = "calling"
    <3>1. RecordFailure(w, "cancelled")
      BY <2>1 DEF HeartbeatFails, Cancel
    <3>. QED BY <1>1, <2>1, <3>1, Codes, RecordedFailure
  <2>2. CASE worker[w].stage # "calling"
    <3>1. UNCHANGED runs
      BY <2>2 DEF HeartbeatFails, Cancel
    <3>. QED BY <1>1, <3>1, NothingStored
  <2>. QED BY <2>1, <2>2
<1>. QED BY <1>1, <1>2, <1>3, FailOK, Codes

LEMMA LeaseExpiresOK ==
    ASSUME FactInv, NEW o \in Orchs, NEW b \in Batches, LeaseExpires(o, b)
    PROVE  StepOK
<1> DEFINE row == orchs[o].batch[b]
<1>1. /\ row.live /\ UNCHANGED runs /\ UNCHANGED worker
      /\ SetRow(o, b, [row EXCEPT !.live = FALSE])
  BY DEF LeaseExpires, Expired
<1>2. row \in Row /\ RowShape(row) /\ row.run <= Len(runs[b])
  BY RowFacts DEF FactInv
<1>3. row.status = "running"
  BY <1>1, <1>2 DEF RowShape
<1>4. GoodRow(b, row, [row EXCEPT !.live = FALSE])
  BY <1>2, <1>3, LeaseRow
<1>5. orchs[o].status \notin TerminalStatus
  BY <1>3, StillOpen DEF FactInv, TerminalStatus
<1>6. GoodStep
  BY <1>1, <1>4, <1>5, SetRowStep DEF FactInv
<1>. QED BY <1>1, <1>6, CallAlone

LEMMA RunGrowsStaleOK ==
    ASSUME FactInv, NEW b \in Batches, NEW r \in 1..Len(runs[b]), RunGrowsStale(b, r)
    PROVE  StepOK
<1>1. RunOperation /\ UNCHANGED orchs /\ UNCHANGED worker
  BY DEF RunGrowsStale, RunOperation
<1>. QED BY <1>1, RunsStored, CallAlone

------------------------------------------------------------------------------
(* The reconciliation. *)

LEMMA ReconcileOK ==
    ASSUME FactInv, NEW w \in Workers, Reconcile(w)
    PROVE  StepOK
<1> DEFINE me == worker[w]
           row == RowOf(w)
           b == worker[w].batch
<1>1. /\ me.stage = "reconciling" /\ me.stage # "idle" /\ UNCHANGED runs
      /\ b \in Batches /\ row \in Row /\ RowShape(row)
      /\ row.run \in Nat /\ row.run <= Len(runs[b]) /\ Len(runs[b]) \in Nat
      /\ me.code \in BatchCodes
  <2>1. me.stage = "reconciling" /\ UNCHANGED runs
    BY DEF Reconcile
  <2>2. me.code \in BatchCodes
    BY <2>1, CallFacts DEF Fits, Worker
  <2>. QED BY <2>1, <2>2, CallFacts, LengthIsNat DEF FactInv
<1>2. ASSUME Leave(w) PROVE StepOK
  BY <1>1, <1>2, NothingStored, ResumeOK DEF Leave
<1>3. ASSUME Raise(w) PROVE StepOK
  BY <1>1, <1>3, NothingStored, ReturnOK DEF Raise
<1>4. ASSUME ~Settled(w), NEW new, GoodRow(b, row, new), Settle(w, new) PROVE StepOK
  <2>1. GoodStep
    BY <1>1, <1>4, SetRowOK DEF Settle, Settled
  <2>. QED BY <1>1, <1>4, <2>1, ResumeOK DEF Settle
<1>5. ASSUME ~Settled(w), Applied(w), ReconcileApplied(w) PROVE StepOK
  <2>1. row.run # 0 /\ runs[b][row.run].applied
    BY <1>5 DEF Applied, RunOf
  <2>2. RunShape(runs[b][row.run])
    BY <1>1, <2>1 DEF FactInv, LedgerInv, LedgerTypeOK
  <2>3. GoodRow(b, row, Completed(row))
    BY <1>1, <2>1, <2>2, CompletedRow DEF RunShape, Status
  <2>. QED BY <1>3, <1>4, <1>5, <2>3 DEF ReconcileApplied
<1>6. ASSUME ~Settled(w), HasRun(w, {"completed"}), ReconcileAnswered(w) PROVE StepOK
  <2>1. GoodRow(b, row, Failed(row, me.code))
    BY <1>1, <1>6, FailedRow DEF HasRun, RunOf, Status
  <2>2. row.status = "running" => GoodRow(b, row, Expired(row))
    BY <1>1, LeaseRow DEF Expired
  <2>. QED BY <1>2, <1>4, <1>6, <2>1, <2>2 DEF ReconcileAnswered
<1>7. ASSUME ~Settled(w), ReconcileFailed(w) \/ ReconcileNoRun(w),
             ~HasRun(w, {"completed"}), ~HasRun(w, {"pending", "running"})
      PROVE  StepOK
  <2>1. ~(row.run # 0 /\ Status(b, row.run) \in {"completed", "pending"})
    BY <1>7 DEF HasRun, RunOf, Status
  <2>2. GoodRow(b, row, Retried(row, me.code))
    BY <1>1, <2>1, RetriedRow
  <2>. QED BY <1>3, <1>4, <1>7, <2>2 DEF ReconcileFailed, ReconcileNoRun
<1>8. ASSUME ~Settled(w), ReconcileOpen(w) PROVE StepOK
  <2>1. row.status = "running" => GoodRow(b, row, Expired(row))
    BY <1>1, LeaseRow DEF Expired
  <2>. QED BY <1>2, <1>4, <1>8, <2>1 DEF ReconcileOpen
<1>9. HasRun(w, {"failed"}) => ~HasRun(w, {"pending", "running"})
  BY DEF HasRun
<1>. QED BY <1>2, <1>5, <1>6, <1>7, <1>8, <1>9 DEF Reconcile

------------------------------------------------------------------------------
(* The theorems. *)

LEMMA NextOK ==
    ASSUME FactInv, Next
    PROVE  StepOK
<1>1. ASSUME NEW w \in Workers, Step(w) PROVE StepOK
  BY <1>1, ClaimActionOK, RecoverOK, TransitionOK, PrepareOK, RegisterOK, LaunchOK,
     AnsweredOK, CallFailsOK, PersistOK, NothingDoneOK, RenewOK, FinishOK, ReconcileOK,
     FinalizeOK DEF Step
<1>2. ASSUME NEW w \in Workers,
             \/ \E token \in Tokens : Start(w, token)
             \/ Beat(w) \/ HeartbeatFails(w) \/ Cancel(w) \/ Dies(w)
      PROVE  StepOK
  BY <1>2, StartOK, BeatOK, BrokenOffOK, NothingDoneOK
<1>. QED BY <1>1, <1>2, LeaseExpiresOK, RunGrowsStaleOK DEF Next

LEMMA NextOrNothing ==
    ASSUME FactInv, [Next]_vars
    PROVE  StepOK
<1>1. CASE UNCHANGED vars
  BY <1>1, NothingStored, CallAlone DEF vars, rowVars
<1>. QED BY <1>1, NextOK

LEMMA InitFits == Init => FactInv
<1>. SUFFICES ASSUME Init PROVE FactInv
  OBVIOUS
<1>1. runs = [b \in Batches |-> << >>] /\ orchs = << >>
      /\ worker = [w \in Workers |-> IdleWorker]
  BY DEF Init, BatchesInit, LedgerInit
<1>2. LedgerInv
  <2>1. << >> \in Seq(Run) /\ Len(<< >>) = 0
    OBVIOUS
  <2>. QED BY <1>1, <2>1 DEF LedgerInv, LedgerTypeOK, RunsInOrder
<1>3. OrchsInv
  <2>1. << >> \in Seq(Orchestration) /\ Len(<< >>) = 0 /\ 0 <= MaxOrchestrations
    BY AttemptsAssumption
  <2>. QED BY <1>1, <1>2, <2>1 DEF OrchsInv, BatchesTypeOK, LedgerInv, EndedAgrees,
       CompletedIsApplied, Orchs
<1>4. IdleWorker \in Worker
  <2>1. 0 \in 0..MaxOrchestrations /\ 0 \in 0..BatchCount
    BY AttemptsAssumption, BatchCountAssumption
  <2>. QED BY <2>1 DEF IdleWorker, Worker, Stages
<1>5. Fits(IdleWorker, runs, orchs)
  BY <1>4 DEF Fits, IdleWorker
<1>6. WorkersFit
  BY <1>1, <1>4, <1>5 DEF WorkersFit
<1>7. OneCallPerRun
  BY <1>1 DEF OneCallPerRun, IdleWorker
<1>. QED BY <1>2, <1>3, <1>6, <1>7 DEF FactInv

\* Runs, orchestrations and calls always fit together: the inductive invariant.
THEOREM Invariance == Spec => []FactInv
<1>1. FactInv /\ [Next]_vars => FactInv'
  BY NextOrNothing DEF StepOK
<1>. QED BY InitFits, <1>1, PTL DEF Spec

\* No run is ever sent to the provider by two calls.
THEOREM OneCall == Spec => []OneCallPerRun
<1>1. FactInv => OneCallPerRun
  BY DEF FactInv
<1>. QED BY Invariance, <1>1, PTL

\* An orchestration that has ended agrees with its batches, and a completed batch
\* with its run and the stored facts.
THEOREM Backed == Spec => []OutcomeIsBacked
<1>1. FactInv => OutcomeIsBacked
  <2>. SUFFICES ASSUME FactInv PROVE FactTypeOK
    BY DEF FactInv, OrchsInv, OutcomeIsBacked
  <2>1. BatchesTypeOK /\ worker \in [Workers -> Worker]
    BY DEF FactInv, OrchsInv, WorkersFit
  <2>2. ASSUME NEW w \in Workers, worker[w].stage # "idle"
        PROVE  /\ worker[w].token \in Tokens
               /\ worker[w].orch \in Orchs /\ worker[w].batch \in Batches
               /\ worker[w].run <= Len(runs[worker[w].batch])
    BY <2>2, CallFacts
  <2>. QED BY <2>1, <2>2 DEF FactTypeOK
<1>. QED BY Invariance, <1>1, PTL

\* Nothing of an orchestration changes after it has ended.
THEOREM EndTheorem == Spec => EndedIsFinal
<1>1. FactInv /\ [Next]_vars =>
        [\A o \in Orchs : orchs[o].status \in TerminalStatus => orchs'[o] = orchs[o]]_vars
  BY NextOrNothing DEF StepOK, GoodStep, EndedStay
<1>. QED BY Invariance, <1>1, PTL DEF Spec, EndedIsFinal

\* The answer a batch has is never dropped nor replaced.
THEOREM AnswerTheorem == Spec => AnswerIsKept
<1>1. FactInv /\ [Next]_vars =>
        [\A o \in Orchs, b \in Batches :
           LET r == orchs[o].batch[b].run IN
           r # 0 /\ Status(b, r) = "completed" => orchs'[o].batch[b].run = r]_vars
  BY NextOrNothing DEF StepOK, GoodStep, AnswersStay
<1>. QED BY Invariance, <1>1, PTL DEF Spec, AnswerIsKept

LEMMA LogInit == Init => Log!Init
<1>. SUFFICES ASSUME Init PROVE Log!Init
  OBVIOUS
<1>1. \A b \in Batches : runs[b] = << >>
  BY DEF Init, BatchesInit, LedgerInit
<1>2. \A b \in Batches : Launched(b) = {} /\ PhaseOf(b) = "idle"
  BY <1>1 DEF Launched, PhaseOf
<1>3. \A b \in Batches : Cardinality(Launched(b)) = 0
  BY <1>2, FS_EmptySet
<1>. QED BY <1>2, <1>3 DEF Log!Init

\* Whatever the calls do, the provider sees each request as the log promises: one
\* open call at a time, and none after an answer.
THEOREM Implements == Spec => ImplementsRequestLog
<1>1. FactInv /\ [Next]_vars => [Log!Next]_(Log!logVars)
  BY NextOrNothing DEF StepOK, GoodStep, RunStep
<1>. QED BY LogInit, Invariance, <1>1, PTL DEF Spec, ImplementsRequestLog, Log!Spec

------------------------------------------------------------------------------
(* What the attempts pay for. *)

\* A call that is about to send a run owns an attempt that has not been spent.
LaunchesOwn ==
    \A w \in Workers :
      worker[w].stage = "launching" /\ Status(worker[w].batch, worker[w].run) = "pending"
      => Awaits(worker[w].batch, RowOf(w), worker[w].run)

\* Every run that was sent is charged to an attempt of its own, and the attempts
\* that are not spent are free.
Charged(f, b) ==
    /\ f \in [Launched(b) -> Attempts(b)]
    /\ \A r, s \in Launched(b) : f[r] = f[s] => r = s
    /\ \A o \in Orchs :
         Unspent(b, orchs[o].batch[b]) =>
           /\ orchs[o].batch[b].attempts # 0
           /\ \A r \in Launched(b) : f[r] # <<o, orchs[o].batch[b].attempts>>

Paid == \A b \in Batches : \E f : Charged(f, b)

PaidInv == FactInv /\ LaunchesOwn /\ Paid

LEMMA SpentStays ==
    ASSUME OrchsInv, RunStep, NEW o \in Orchs, NEW b \in Batches,
           Unspent(b, orchs[o].batch[b])'
    PROVE  /\ UNCHANGED orchs => Unspent(b, orchs[o].batch[b])
           /\ UNCHANGED runs => Unspent(b, orchs'[o].batch[b])
<1>1. UNCHANGED runs => Unspent(b, orchs'[o].batch[b])
  BY DEF Unspent, Status
<1>2. ASSUME UNCHANGED orchs PROVE Unspent(b, orchs[o].batch[b])
  <2> DEFINE row == orchs[o].batch[b]
  <2>1. row.status = "running" /\ (row.run = 0 \/ runs'[b][row.run].status = "pending")
    BY <1>2 DEF Unspent, Status
  <2>2. row \in Row /\ RowShape(row) /\ row.run \in Nat /\ row.run <= Len(runs[b])
    BY RowFacts
  <2>3. Len(runs[b]) \in Nat /\ \A r \in 1..Len(runs[b]) : Keeps(runs[b][r], runs'[b][r])
    BY DEF RunStep, Grows
  <2>4. row.run # 0 => runs[b][row.run].status = "pending"
    BY <2>1, <2>2, <2>3 DEF Keeps
  <2>. QED BY <2>1, <2>4 DEF Unspent, Status
<1>. QED BY <1>1, <1>2

LEMMA RowTyped ==
    ASSUME OrchsInv', NEW o \in Orchs', NEW b \in Batches
    PROVE  orchs'[o].batch[b].attempts \in Nat
<1>1. orchs' \in Seq(Orchestration) /\ o \in 1..Len(orchs')
  BY DEF OrchsInv, BatchesTypeOK, Orchs
<1>2. orchs'[o] \in Orchestration
  BY <1>1
<1>3. orchs'[o].batch[b] \in Row
  BY <1>2 DEF Orchestration
<1>. QED BY <1>3, AttemptsAssumption DEF Row

LEMMA AttemptsGrow ==
    ASSUME OrchsInv, GoodStep, NEW b \in Batches
    PROVE  Attempts(b) \subseteq Attempts(b)'
<1>. SUFFICES ASSUME NEW o \in Orchs, NEW k \in 1..MaxAttempts, k <= orchs[o].batch[b].attempts
     PROVE  o \in Orchs' /\ k <= orchs'[o].batch[b].attempts
  BY DEF Attempts
<1>1. o \in Orchs'
  BY DEF GoodStep, Orchs
<1>2. orchs[o].batch[b].attempts \in Nat /\ orchs'[o].batch[b].attempts \in Nat
  BY <1>1, RowTyped, RowFacts, AttemptsAssumption DEF GoodStep, Row
<1>3. orchs[o].batch[b].attempts <= orchs'[o].batch[b].attempts
  BY DEF GoodStep, CountsStay, RowCounts
<1>. QED BY <1>1, <1>2, <1>3, AttemptsAssumption

\* As long as nothing is sent, the charges stay as they are.
LEMMA ChargesStay ==
    ASSUME OrchsInv, GoodStep, NEW b \in Batches, Launched(b)' = Launched(b),
           NEW f, Charged(f, b)
    PROVE  Charged(f, b)'
<1>1. f \in [Launched(b) -> Attempts(b)] /\ \A r, s \in Launched(b) : f[r] = f[s] => r = s
  BY DEF Charged
<1>2. f \in [Launched(b) -> Attempts(b)']
  BY <1>1, AttemptsGrow
<1>3. ASSUME NEW o \in Orchs', Unspent(b, orchs[o].batch[b])'
      PROVE  /\ orchs'[o].batch[b].attempts # 0
             /\ \A r \in Launched(b) : f[r] # <<o, orchs'[o].batch[b].attempts>>
  <2>1. o \in Orchs
    <3>1. orchs'[o].batch[b].status = "running"
      BY <1>3 DEF Unspent
    <3>. QED BY <3>1 DEF GoodStep, CountsStay, Orchs
  <2> DEFINE old == orchs[o].batch[b]
             new == orchs'[o].batch[b]
  <2>2. old.attempts \in Nat
    BY <2>1, RowFacts, AttemptsAssumption DEF Row
  <2>3. Unspent(b, old) =>
          old.attempts # 0 /\ \A r \in Launched(b) : f[r] # <<o, old.attempts>>
    BY <2>1 DEF Charged
  <2>4. \/ Unspent(b, old) /\ old.attempts = new.attempts
        \/ old.attempts < new.attempts
    <3>1. CASE UNCHANGED runs
      <4>1. Unspent(b, new)
        BY <1>3, <2>1, <3>1, SpentStays DEF GoodStep
      <4>2. RowCounts(b, old, new)
        BY <2>1 DEF GoodStep, CountsStay
      <4>. QED BY <4>1, <4>2 DEF RowCounts
    <3>2. CASE UNCHANGED orchs
      BY <1>3, <2>1, <3>2, SpentStays DEF GoodStep
    <3>. QED BY <3>1, <3>2 DEF GoodStep, CountsStay
  <2>5. CASE Unspent(b, old) /\ old.attempts = new.attempts
    BY <2>3, <2>5
  <2>6. CASE old.attempts < new.attempts
    <3>1. ASSUME NEW r \in Launched(b), f[r] = <<o, new.attempts>> PROVE FALSE
      <4>1. <<o, new.attempts>> \in Attempts(b)
        BY <1>1, <3>1
      <4>2. new.attempts \in 1..MaxAttempts /\ new.attempts <= old.attempts
        BY <4>1 DEF Attempts
      <4>. QED BY <2>2, <2>6, <4>2, AttemptsAssumption
    <3>2. new.attempts # 0
      <4>1. new.attempts \in Nat
        BY <1>3, RowTyped DEF GoodStep
      <4>. QED BY <2>2, <2>6, <4>1
    <3>. QED BY <3>1, <3>2
  <2>. QED BY <2>4, <2>5, <2>6
<1>4. \A o \in Orchs' :
        Unspent(b, orchs[o].batch[b])' =>
          /\ orchs'[o].batch[b].attempts # 0
          /\ \A r \in Launched(b)' : f[r] # <<o, orchs'[o].batch[b].attempts>>
  BY <1>3
<1>. QED BY <1>1, <1>2, <1>4 DEF Charged

\* The run that is sent is charged to the attempt of the row that awaits it.
LEMMA SendingIsCharged ==
    ASSUME LedgerInv, OrchsInv, RunStep, UNCHANGED orchs, NEW b \in Batches,
           NEW r \in 1..Len(runs[b]), r \notin Launched(b), Launched(b)' = Launched(b) \cup {r},
           NEW o \in Orchs, Awaits(b, orchs[o].batch[b], r), NEW f, Charged(f, b)
    PROVE  \E g : Charged(g, b)'
<1> DEFINE row == orchs[o].batch[b]
           a == <<o, row.attempts>>
           more == [s \in Launched(b) \cup {r} |-> IF s = r THEN a ELSE f[s]]
<1>1. /\ f \in [Launched(b) -> Attempts(b)] /\ \A s, t \in Launched(b) : f[s] = f[t] => s = t
      /\ \A p \in Orchs :
           Unspent(b, orchs[p].batch[b]) =>
             /\ orchs[p].batch[b].attempts # 0
             /\ \A s \in Launched(b) : f[s] # <<p, orchs[p].batch[b].attempts>>
  BY DEF Charged
<1>2. Unspent(b, row)
  <2>1. row.status = "running" /\ row.run = r /\ Status(b, r) = "pending"
    BY DEF Awaits
  <2>. QED BY <2>1 DEF Unspent
<1>3. row.attempts # 0 /\ \A s \in Launched(b) : f[s] # a
  BY <1>1, <1>2
<1>4. a \in Attempts(b)
  <2>1. row.attempts \in 0..MaxAttempts
    BY RowFacts DEF Row
  <2>2. row.attempts \in 1..MaxAttempts
    BY <2>1, <1>3, AttemptsAssumption
  <2>. QED BY <2>2 DEF Attempts
<1>5. Attempts(b)' = Attempts(b)
  BY DEF Attempts, Orchs
<1>6. PICK g : /\ g \in [Launched(b)' -> Attempts(b)'] /\ g[r] = a
               /\ \A s \in Launched(b) : g[s] = f[s]
  <2>1. /\ more \in [Launched(b)' -> Attempts(b)'] /\ more[r] = a
        /\ \A s \in Launched(b) : more[s] = f[s]
    BY <1>1, <1>4, <1>5
  <2>. QED BY <2>1
<1>7. \A s, t \in Launched(b)' : g[s] = g[t] => s = t
  BY <1>1, <1>3, <1>6
<1>8. ASSUME NEW p \in Orchs', Unspent(b, orchs[p].batch[b])'
      PROVE  /\ orchs'[p].batch[b].attempts # 0
             /\ \A s \in Launched(b)' : g[s] # <<p, orchs'[p].batch[b].attempts>>
  <2>1. p \in Orchs
    BY DEF Orchs
  <2>2. Unspent(b, orchs[p].batch[b])
    BY <1>8, <2>1, SpentStays
  <2>3. /\ orchs[p].batch[b].attempts # 0
        /\ \A s \in Launched(b) : f[s] # <<p, orchs[p].batch[b].attempts>>
    BY <1>1, <2>1, <2>2
  <2>4. p # o
    <3>1. ASSUME p = o PROVE FALSE
      <4>1. orchs[p].batch[b].run = r /\ r # 0
        BY <3>1 DEF Awaits
      <4>2. runs'[b][r].status = "pending"
        BY <1>8, <4>1 DEF Unspent, Status
      <4>3. r \in Launched(b)'
        OBVIOUS
      <4>. QED BY <4>2, <4>3 DEF Launched, Status
    <3>. QED BY <3>1
  <2>5. g[r] # <<p, orchs[p].batch[b].attempts>>
    BY <1>6, <2>4
  <2>. QED BY <1>6, <2>3, <2>5
<1>9. \A p \in Orchs' :
        Unspent(b, orchs[p].batch[b])' =>
          /\ orchs'[p].batch[b].attempts # 0
          /\ \A s \in Launched(b)' : g[s] # <<p, orchs'[p].batch[b].attempts>>
  BY <1>8
<1>10. Charged(g, b)'
  BY <1>6, <1>7, <1>9 DEF Charged
<1>. QED BY <1>10

\* Charges and attempts may be counted.
LEMMA ChargesCount ==
    ASSUME LedgerInv, OrchsInv, NEW b \in Batches, NEW f, Charged(f, b)
    PROVE  Cardinality(Launched(b)) <= Cardinality(Attempts(b))
<1>1. IsFiniteSet(Attempts(b))
  <2>1. IsFiniteSet(Orchs) /\ IsFiniteSet(1..MaxAttempts)
    <3>1. Len(orchs) \in Int /\ MaxAttempts \in Int /\ 1 \in Int
      BY LengthIsNat, AttemptsAssumption
    <3>. QED BY <3>1, FS_Interval DEF Orchs
  <2>2. IsFiniteSet(Orchs \X (1..MaxAttempts))
    BY <2>1, FS_Product
  <2>3. Attempts(b) \in SUBSET (Orchs \X (1..MaxAttempts))
    BY DEF Attempts
  <2>. QED BY <2>2, <2>3, FS_Subset
<1>2. f \in Injection(Launched(b), Attempts(b))
  BY DEF Charged, Injection, IsInjective
<1>. QED BY <1>1, <1>2, FS_Injection

------------------------------------------------------------------------------
(* Which action sends, and which comes to that point. *)

\* No run is sent.
QuietOperation ==
    \/ UNCHANGED runs
    \/ \E b \in Batches :
         \/ PrepareRun(b)
         \/ \E r \in 1..Len(runs[b]) :
              \/ CompleteRun(b, r) \/ FailStale(b, r)
              \/ \E code \in RunCodes : FailRun(b, r, code)
              \/ ApplyRun(b, r) \/ GrowStale(b, r)

NothingSent == \A b \in Batches : Launched(b)' = Launched(b)

LEMMA ReplacedQuietly ==
    ASSUME LedgerInv, NEW b \in Batches, NEW r \in 1..Len(runs[b]), NEW run,
           runs' = [runs EXCEPT ![b][r] = run],
           runs[b][r].status # "pending", run.status # "pending"
    PROVE  NothingSent
<1>1. runs \in [Batches -> Seq(Run)] /\ runs[b] \in Seq(Run) /\ Len(runs[b]) \in Nat
  BY DEF LedgerInv, LedgerTypeOK
<1> DEFINE new == [runs[b] EXCEPT ![r] = run]
<1>2. Len(new) = Len(runs[b])
  BY <1>1
<1>3. new[r] = run /\ \A s \in 1..Len(runs[b]) : s # r => new[s] = runs[b][s]
  BY <1>1
<1>4. runs'[b] = new /\ \A c \in Batches : c # b => runs'[c] = runs[c]
  BY <1>1
<1>. HIDE DEF new
<1>. SUFFICES ASSUME NEW c \in Batches PROVE Launched(c)' = Launched(c)
  BY DEF NothingSent
<1>5. CASE c # b
  BY <1>4, <1>5 DEF Launched, Status
<1>6. CASE c = b
  BY <1>2, <1>3, <1>4, <1>6 DEF Launched, Status
<1>. QED BY <1>5, <1>6

LEMMA QuietSendsNothing ==
    ASSUME LedgerInv, QuietOperation
    PROVE  NothingSent
<1>1. CASE UNCHANGED runs
  BY <1>1 DEF NothingSent, Launched, Status
<1>2. ASSUME NEW b \in Batches, PrepareRun(b) PROVE NothingSent
  <2>1. CASE Reusable(b)
    BY <1>1, <1>2, <2>1 DEF PrepareRun
  <2>2. CASE ~Reusable(b)
    <3>1. Extends(b)
      BY <1>2, <2>2 DEF PrepareRun, Extends
    <3>2. /\ Len(runs'[b]) = Len(runs[b]) + 1 /\ Len(runs[b]) \in Nat
          /\ runs'[b][Len(runs[b]) + 1].status = "pending"
          /\ \A s \in 1..Len(runs[b]) : runs'[b][s] = runs[b][s]
          /\ \A c \in Batches : c # b => runs'[c] = runs[c]
      BY <3>1, ExtendStep DEF LedgerInv, LedgerTypeOK, PendingRun
    <3>3. \A s : s \in 1..Len(runs'[b]) <=> s \in 1..Len(runs[b]) \/ s = Len(runs[b]) + 1
      BY <3>2
    <3>. QED BY <3>2, <3>3 DEF NothingSent, Launched, Status
  <2>. QED BY <2>1, <2>2
<1>3. ASSUME NEW b \in Batches, NEW r \in 1..Len(runs[b]),
             \/ CompleteRun(b, r) \/ FailStale(b, r)
             \/ \E code \in RunCodes : FailRun(b, r, code)
      PROVE  NothingSent
  <2>1. PICK status, code :
          /\ status \in {"completed", "failed"} /\ Status(b, r) = "running"
          /\ runs' = [runs EXCEPT ![b][r] = Ended(@, status, code)]
    BY <1>3 DEF CompleteRun, MayComplete, FailStale, FailRun
  <2> DEFINE new == Ended(runs[b][r], status, code)
  <2>2. runs \in [Batches -> Seq(Run)] /\ runs[b] \in Seq(Run) /\ runs[b][r] \in Run
    BY DEF LedgerInv, LedgerTypeOK
  <2>3. runs' = [runs EXCEPT ![b][r] = new]
    BY <2>1, <2>2
  <2>4. new.status = status
    BY <2>2 DEF Ended, Run
  <2>. HIDE DEF new
  <2>. QED BY <2>1, <2>3, <2>4, ReplacedQuietly DEF Status
<1>4. ASSUME NEW b \in Batches, NEW r \in 1..Len(runs[b]), ApplyRun(b, r) \/ GrowStale(b, r)
      PROVE  NothingSent
  <2>1. /\ runs \in [Batches -> Seq(Run)] /\ runs[b] \in Seq(Run) /\ runs[b][r] \in Run
        /\ RunShape(runs[b][r])
    BY DEF LedgerInv, LedgerTypeOK
  <2>2. runs[b][r].status # "pending"
    BY <1>4, <2>1 DEF ApplyRun, GrowStale, RunShape, Status
  <2>3. CASE ApplyRun(b, r)
    <3> DEFINE new == [runs[b][r] EXCEPT !.applied = TRUE]
    <3>1. runs' = [runs EXCEPT ![b][r] = new]
      BY <2>1, <2>3 DEF ApplyRun
    <3>2. new.status = runs[b][r].status
      BY <2>1 DEF Run
    <3>. HIDE DEF new
    <3>. QED BY <2>2, <3>1, <3>2, ReplacedQuietly
  <2>4. CASE GrowStale(b, r)
    <3> DEFINE new == [runs[b][r] EXCEPT !.fresh = FALSE]
    <3>1. runs' = [runs EXCEPT ![b][r] = new]
      BY <2>1, <2>4 DEF GrowStale
    <3>2. new.status = runs[b][r].status
      BY <2>1 DEF Run
    <3>. HIDE DEF new
    <3>. QED BY <2>2, <3>1, <3>2, ReplacedQuietly
  <2>. QED BY <1>4, <2>3, <2>4
<1>. QED BY <1>1, <1>2, <1>3, <1>4 DEF QuietOperation

\* A call sends the run it is concerned with.
Sends(w) ==
    /\ worker[w].stage = "launching" /\ UNCHANGED orchs
    /\ LaunchRun(worker[w].batch, worker[w].run)

LEMMA RecordsQuietly ==
    ASSUME FactInv, NEW w \in Workers, worker[w].stage = "calling", NEW code \in RunCodes,
           RecordFailure(w, code)
    PROVE  QuietOperation
<1>1. worker[w].batch \in Batches /\ worker[w].run \in 1..Len(runs[worker[w].batch])
  BY CallRun
<1>. QED BY <1>1 DEF RecordFailure, QuietOperation

LEMMA OnlyLaunchSends ==
    ASSUME FactInv, Next
    PROVE  QuietOperation \/ \E w \in Workers : Sends(w)
<1>1. UNCHANGED runs => QuietOperation
  BY DEF QuietOperation
<1>2. ASSUME NEW w \in Workers, Recover(w) \/ Answered(w) \/ Persist(w) PROVE QuietOperation
  <2>1. worker[w].batch \in Batches /\ worker[w].run \in 1..Len(runs[worker[w].batch])
    BY <1>2, CallRun DEF Recover, Answered, Persist
  <2>. QED BY <1>2, <2>1 DEF Recover, Answered, Persist, QuietOperation
<1>3. ASSUME NEW w \in Workers, Prepare(w) PROVE QuietOperation
  <2>1. worker[w].batch \in Batches
    BY <1>3, CallFacts DEF Prepare
  <2>. QED BY <1>3, <2>1 DEF Prepare, QuietOperation
<1>4. ASSUME NEW w \in Workers, Launch(w) PROVE QuietOperation \/ Sends(w)
  BY <1>1, <1>4 DEF Launch, Sends
<1>5. ASSUME NEW w \in Workers, NEW code \in {"transport", "invalid"}, CallFails(w, code)
      PROVE  QuietOperation
  BY <1>5, Codes, RecordsQuietly DEF CallFails
<1>6. ASSUME NEW w \in Workers, HeartbeatFails(w) \/ Cancel(w) PROVE QuietOperation
  BY <1>1, <1>6, Codes, RecordsQuietly DEF HeartbeatFails, Cancel
<1>7. ASSUME NEW w \in Workers,
             \/ Claim(w) \/ Transition(w) \/ Register(w) \/ ContextInvalid(w) \/ Renew(w)
             \/ Finish(w) \/ StepFails(w) \/ Reconcile(w) \/ Finalize(w)
             \/ \E token \in Tokens : Start(w, token)
             \/ Beat(w) \/ Dies(w)
      PROVE  QuietOperation
  <2>1. UNCHANGED runs
    BY <1>7 DEF Claim, Transition, Register, ContextInvalid, Renew, Finish, StepFails,
       Reconcile, Finalize, Start, Beat, Dies, rowVars
  <2>. QED BY <1>1, <2>1
<1>8. ASSUME NEW w \in Workers, Step(w) PROVE QuietOperation \/ Sends(w)
  BY <1>2, <1>3, <1>4, <1>5, <1>7, <1>8 DEF Step
<1>9. ASSUME NEW o \in Orchs, NEW b \in Batches, LeaseExpires(o, b) PROVE QuietOperation
  BY <1>1, <1>9 DEF LeaseExpires
<1>10. ASSUME NEW b \in Batches, NEW r \in 1..Len(runs[b]), RunGrowsStale(b, r)
       PROVE  QuietOperation
  BY <1>10 DEF RunGrowsStale, QuietOperation
<1>. QED BY <1>6, <1>7, <1>8, <1>9, <1>10 DEF Next

\* A call has registered the run that it will send.
Registers(w) ==
    /\ UNCHANGED runs
    /\ MayRegister(worker[w].orch, worker[w].batch, worker[w].token, worker[w].run)
    /\ SetRowOf(w, [RowOf(w) EXCEPT !.run = worker[w].run])
    /\ worker' = [worker EXCEPT ![w].stage = "launching"]
    /\ worker[w].stage = "registering"

\* A call goes elsewhere.
Elsewhere(w) ==
    /\ worker'[w].stage # "launching"
    /\ \A v \in Workers : v # w => worker'[v] = worker[v]

LEMMA MovesElsewhere ==
    ASSUME FactInv, NEW w \in Workers, NEW me, Moves(w, me), me.stage # "launching"
    PROVE  Elsewhere(w)
BY CallFacts DEF Moves, Elsewhere

LEMMA GoesElsewhere ==
    ASSUME FactInv, NEW w \in Workers
    PROVE  /\ Return(w) => Elsewhere(w)
           /\ Again(w) => Elsewhere(w)
           /\ NextBatch(w) => Elsewhere(w)
           /\ \A row : Resume(w, row) => Elsewhere(w)
           /\ \A code : Fail(w, code) => Elsewhere(w)
           /\ \A stage : stage # "launching" /\ GoOn(w, stage) => Elsewhere(w)
<1>1. worker \in [Workers -> Worker] /\ worker[w] \in Worker
  BY CallFacts
<1>2. Return(w) => Elsewhere(w)
  BY <1>1 DEF Return, Elsewhere, IdleWorker
<1>3. ASSUME NEW b PROVE ClaimOf(w, b).stage = "claiming"
  BY <1>1 DEF ClaimOf, Worker
<1>4. Again(w) => Elsewhere(w)
  BY <1>1, <1>3 DEF Again, Elsewhere
<1>5. NextBatch(w) => Elsewhere(w)
  <2> DEFINE last == [worker[w] EXCEPT !.stage = "finalizing", !.run = 0, !.code = "none"]
  <2>1. last.stage = "finalizing"
    BY <1>1 DEF Worker
  <2>2. NextBatch(w) => \/ Moves(w, last)
                        \/ Moves(w, ClaimOf(w, worker[w].batch + 1))
    BY <1>1 DEF NextBatch, Moves
  <2>. HIDE DEF last
  <2>. QED BY <2>1, <2>2, <1>3, MovesElsewhere
<1>6. \A code : Fail(w, code) => Elsewhere(w)
  BY <1>1 DEF Fail, Elsewhere, Worker
<1>7. \A stage : stage # "launching" /\ GoOn(w, stage) => Elsewhere(w)
  BY <1>1 DEF GoOn, Elsewhere, Worker
<1>8. \A row : Resume(w, row) => Elsewhere(w)
  BY <1>2, <1>4, <1>5 DEF Resume
<1>. QED BY <1>2, <1>4, <1>5, <1>6, <1>7, <1>8

LEMMA OnlyRegisterLaunches ==
    ASSUME FactInv, Next
    PROVE  UNCHANGED worker \/ \E w \in Workers : Elsewhere(w) \/ Registers(w)
<1>1. ASSUME NEW w \in Workers PROVE worker \in [Workers -> Worker] /\ worker[w] \in Worker
  BY CallFacts
<1>2. ASSUME NEW w \in Workers, Claim(w) PROVE Elsewhere(w)
  <2>1. CASE worker' = [worker EXCEPT
               ![w].stage = IF RowOf(w).run = 0 THEN "preparing" ELSE "recovering",
               ![w].run = RowOf(w).run]
    <3>1. \A v \in Workers : v # w => worker'[v] = worker[v]
      BY <1>1, <2>1
    <3>2. worker'[w].stage \in {"preparing", "recovering"}
      BY <1>1, <2>1 DEF Worker
    <3>. QED BY <3>1, <3>2 DEF Elsewhere
  <2>. QED BY <1>2, <2>1, GoesElsewhere DEF Claim
<1>3. ASSUME NEW w \in Workers, Recover(w) PROVE Elsewhere(w)
  <2>1. ASSUME NEW code, worker' = [worker EXCEPT ![w].stage = "transitioning", ![w].code = code]
        PROVE  Elsewhere(w)
    BY <1>1, <2>1 DEF Elsewhere, Worker
  <2>. QED BY <1>3, <2>1, GoesElsewhere DEF Recover
<1>4. ASSUME NEW w \in Workers, Transition(w) \/ Answered(w) \/ Persist(w) \/ Launch(w)
      PROVE  Elsewhere(w)
  BY <1>4, GoesElsewhere DEF Transition, Answered, Persist, Launch
<1>5. ASSUME NEW w \in Workers, Prepare(w) PROVE Elsewhere(w)
  BY <1>1, <1>5 DEF Prepare, Elsewhere, Worker
<1>6. ASSUME NEW w \in Workers, Register(w) PROVE Elsewhere(w) \/ Registers(w)
  <2>1. CASE /\ MayRegister(worker[w].orch, worker[w].batch, worker[w].token, worker[w].run)
             /\ SetRowOf(w, [RowOf(w) EXCEPT !.run = worker[w].run]) /\ GoOn(w, "launching")
    BY <1>6, <2>1 DEF Register, Registers, GoOn
  <2>2. CASE Fail(w, "invalid")
    BY <2>2, GoesElsewhere
  <2>. QED BY <1>6, <2>1, <2>2 DEF Register
<1>7. ASSUME NEW w \in Workers, Renew(w) \/ Finish(w) PROVE Elsewhere(w)
  BY <1>7, GoesElsewhere DEF Renew, Finish
<1>8. ASSUME NEW w \in Workers,
             \/ \E code \in {"transport", "invalid"} : CallFails(w, code)
             \/ ContextInvalid(w) \/ StepFails(w) \/ HeartbeatFails(w) \/ Cancel(w)
      PROVE  Elsewhere(w)
  <2>1. \E code : Fail(w, code)
    BY <1>8 DEF CallFails, ContextInvalid, StepFails, HeartbeatFails, Cancel
  <2>. QED BY <2>1, GoesElsewhere
<1>9. ASSUME NEW w \in Workers, Finalize(w) \/ Dies(w) PROVE Elsewhere(w)
  BY <1>9, GoesElsewhere DEF Finalize, Dies
<1>10. ASSUME NEW w \in Workers, Reconcile(w) PROVE Elsewhere(w)
  <2>1. Return(w) \/ \E row : Resume(w, row)
    BY <1>10 DEF Reconcile, Leave, Settle, Raise, ReconcileApplied, ReconcileAnswered,
       ReconcileFailed, ReconcileOpen, ReconcileNoRun
  <2>. QED BY <2>1, GoesElsewhere
<1>11. ASSUME NEW w \in Workers, NEW token \in Tokens, Start(w, token) PROVE Elsewhere(w)
  BY <1>1, <1>11 DEF Start, Elsewhere, IdleWorker
<1>12. ASSUME NEW w \in Workers, Step(w) PROVE Elsewhere(w) \/ Registers(w)
  BY <1>2, <1>3, <1>4, <1>5, <1>6, <1>7, <1>8, <1>9, <1>10, <1>12 DEF Step
<1>. QED BY <1>8, <1>9, <1>11, <1>12 DEF Next, Beat, LeaseExpires, RunGrowsStale

------------------------------------------------------------------------------
(* What is sent is within what is counted. *)

LEMMA LaunchesStayOwn ==
    ASSUME FactInv, LaunchesOwn, Next
    PROVE  LaunchesOwn'
<1>. USE NextOK DEF StepOK
<1>. SUFFICES ASSUME NEW w \in Workers, worker'[w].stage = "launching",
                     runs'[worker'[w].batch][worker'[w].run].status = "pending"
     PROVE  LET row == orchs'[worker'[w].orch].batch[worker'[w].batch] IN
            row.status = "running" /\ row.run = worker'[w].run
  BY DEF LaunchesOwn, Awaits, RowOf, Status
<1>1. CASE worker'[w] = worker[w]
  <2> DEFINE o == worker[w].orch
             b == worker[w].batch
             r == worker[w].run
  <2>1. worker[w].stage = "launching" /\ runs'[b][r].status = "pending"
    BY <1>1
  <2>2. b \in Batches /\ r \in 1..Len(runs[b]) /\ o \in Orchs
    BY <2>1, CallRun, CallFacts
  <2>3. Keeps(runs[b][r], runs'[b][r])
    BY <2>2 DEF GoodStep, RunStep, Grows
  <2>4. Awaits(b, orchs[o].batch[b], r)
    BY <2>1, <2>3 DEF LaunchesOwn, RowOf, Keeps, Status
  <2>5. RowCounts(b, orchs[o].batch[b], orchs'[o].batch[b])
    BY <2>2 DEF GoodStep, CountsStay
  <2>6. Awaits(b, orchs'[o].batch[b], r)
    BY <2>2, <2>4, <2>5 DEF RowCounts
  <2>. QED BY <1>1, <2>1, <2>6 DEF Awaits, Status
<1>2. CASE Registers(w)
  <2> DEFINE o == worker[w].orch
             b == worker[w].batch
             r == worker[w].run
             row == [RowOf(w) EXCEPT !.run = r]
  <2>1. worker[w].stage = "registering" /\ worker[w].stage # "idle"
    BY <1>2 DEF Registers
  <2>2. /\ b \in Batches /\ o \in Orchs /\ RowOf(w) \in Row /\ worker[w] \in Worker
        /\ worker \in [Workers -> Worker]
    BY <2>1, CallFacts
  <2>3. worker'[w].orch = o /\ worker'[w].batch = b /\ worker'[w].run = r
    BY <1>2, <2>2 DEF Registers, Worker
  <2>4. row.status = "running" /\ row.run = r
    BY <1>2, <2>2 DEF Registers, MayRegister, RowOf, Row
  <2>5. orchs'[o].batch[b] = row
    <3>. HIDE DEF row
    <3>1. orchs \in Seq(Orchestration) /\ orchs[o] \in Orchestration /\ o \in 1..Len(orchs)
          /\ orchs[o].batch \in [Batches -> Row]
      BY <2>2, OrchFacts DEF FactInv
    <3>2. orchs' = [orchs EXCEPT ![o].batch[b] = row]
      BY <1>2 DEF Registers, SetRowOf, SetRow, row
    <3>3. RowBecomes(o, b, row, orchs[o].status)
      BY <2>2, <3>2, RowBecomesIs DEF SetRow, FactInv
    <3>. QED BY <2>2, <3>1, <3>3 DEF RowBecomes
  <2>. QED BY <2>3, <2>4, <2>5 DEF Awaits, Status
<1>3. worker'[w] = worker[w] \/ Registers(w)
  <2>1. ASSUME NEW v \in Workers, Elsewhere(v) PROVE worker'[w] = worker[w]
    BY <2>1 DEF Elsewhere
  <2>2. ASSUME NEW v \in Workers, Registers(v), v # w PROVE worker'[w] = worker[w]
    BY <2>2, CallFacts DEF Registers
  <2>. QED BY <2>1, <2>2, OnlyRegisterLaunches
<1>. QED BY <1>1, <1>2, <1>3

LEMMA ChargesFollow ==
    ASSUME PaidInv, Next
    PROVE  Paid'
<1>. GoodStep /\ LedgerInv /\ OrchsInv /\ FactInv
  BY NextOK DEF StepOK, PaidInv, FactInv
<1>. SUFFICES ASSUME NEW b \in Batches PROVE \E f : Charged(f, b)'
  BY DEF Paid
<1>1. PICK f : Charged(f, b)
  BY DEF PaidInv, Paid
<1>2. CASE Launched(b)' = Launched(b)
  BY <1>1, <1>2, ChargesStay
<1>3. ASSUME NEW w \in Workers, Sends(w) PROVE \E g : Charged(g, b)'
  <2> DEFINE c == worker[w].batch
             r == worker[w].run
             o == worker[w].orch
  <2>1. /\ worker[w].stage = "launching" /\ UNCHANGED orchs /\ LaunchRun(c, r)
        /\ Status(c, r) = "pending"
    BY <1>3 DEF Sends, LaunchRun
  <2>2. /\ c \in Batches /\ r \in 1..Len(runs[c]) /\ o \in Orchs
        /\ runs \in [Batches -> Seq(Run)] /\ runs[c] \in Seq(Run) /\ runs[c][r] \in Run
    BY <2>1, CallRun, CallFacts DEF LedgerInv, LedgerTypeOK
  <2>3. Awaits(c, orchs[o].batch[c], r)
    BY <2>1 DEF PaidInv, LaunchesOwn, RowOf
  <2> DEFINE run == [runs[c][r] EXCEPT !.status = "running", !.fresh = TRUE]
             new == [runs[c] EXCEPT ![r] = run]
  <2>4. runs' = [runs EXCEPT ![c] = new]
    BY <2>1, <2>2 DEF LaunchRun
  <2>5. run.status = "running"
    BY <2>2 DEF Run
  <2>. HIDE DEF run
  <2>6. /\ Len(new) = Len(runs[c]) /\ new[r] = run
        /\ \A s \in 1..Len(runs[c]) : s # r => new[s] = runs[c][s]
    BY <2>2
  <2>. HIDE DEF new
  <2>7. runs'[c] = new /\ \A d \in Batches : d # c => runs'[d] = runs[d]
    BY <2>2, <2>4
  <2>8. CASE b # c
    <3>1. Launched(b)' = Launched(b)
      BY <2>7, <2>8 DEF Launched, Status
    <3>. QED BY <3>1, <1>2
  <2>9. CASE b = c
    <3>1. r \notin Launched(b)
      BY <2>1, <2>9 DEF Launched
    <3>2. Launched(b)' = Launched(b) \cup {r}
      BY <2>2, <2>5, <2>6, <2>7, <2>9 DEF Launched, Status
    <3>3. RunStep
      BY DEF GoodStep
    <3>4. Awaits(b, orchs[o].batch[b], r) /\ r \in 1..Len(runs[b])
      BY <2>2, <2>3, <2>9
    <3>. HIDE DEF r, c, o
    <3>. QED BY <1>1, <2>1, <2>2, <3>1, <3>2, <3>3, <3>4, SendingIsCharged
  <2>. QED BY <2>8, <2>9
<1>. QED BY <1>2, <1>3, OnlyLaunchSends, QuietSendsNothing DEF NothingSent

LEMMA PaidInit == Init => LaunchesOwn /\ Paid
<1>. SUFFICES ASSUME Init PROVE LaunchesOwn /\ Paid
  OBVIOUS
<1>1. /\ orchs = << >> /\ worker = [w \in Workers |-> IdleWorker]
      /\ \A b \in Batches : runs[b] = << >>
  BY DEF Init, BatchesInit, LedgerInit
<1>2. LaunchesOwn
  BY <1>1 DEF LaunchesOwn, IdleWorker
<1>3. ASSUME NEW b \in Batches PROVE Charged([r \in {} |-> r], b)
  <2>1. Launched(b) = {} /\ Orchs = {}
    BY <1>1 DEF Launched, Orchs
  <2>. QED BY <2>1 DEF Charged
<1>. QED BY <1>2, <1>3 DEF Paid

\* A batch is sent to the provider no more often than its attempts say: every run
\* that was sent is charged to an attempt of its own, whatever leases were taken
\* over and whatever calls were cancelled.
THEOREM AttemptsTheorem == Spec => []CallsWithinAttempts
<1>1. Init => PaidInv
  BY InitFits, PaidInit DEF PaidInv
<1>2. PaidInv /\ [Next]_vars => PaidInv'
  <2>1. ASSUME PaidInv, Next PROVE PaidInv'
    BY <2>1, NextOK, LaunchesStayOwn, ChargesFollow DEF StepOK, PaidInv
  <2>2. ASSUME PaidInv, UNCHANGED vars PROVE PaidInv'
    <3>1. FactInv'
      BY <2>2, NextOrNothing DEF PaidInv, StepOK
    <3>2. LaunchesOwn'
      BY <2>2 DEF PaidInv, LaunchesOwn, Status, Awaits, RowOf, vars, rowVars
    <3>3. Paid'
      <4>1. ASSUME NEW b \in Batches, NEW f, Charged(f, b) PROVE Charged(f, b)'
        <5>1. Launched(b)' = Launched(b) /\ Attempts(b)' = Attempts(b) /\ Orchs' = Orchs
          BY <2>2 DEF Launched, Attempts, Status, Orchs, vars, rowVars
        <5>2. \A o : Unspent(b, orchs[o].batch[b])' <=> Unspent(b, orchs[o].batch[b])
          BY <2>2 DEF Unspent, Status, vars, rowVars
        <5>. QED BY <4>1, <2>2, <5>1, <5>2 DEF Charged, vars, rowVars
      <4>. QED BY <2>2, <4>1 DEF PaidInv, Paid
    <3>. QED BY <3>1, <3>2, <3>3 DEF PaidInv
  <2>. QED BY <2>1, <2>2
<1>3. PaidInv => CallsWithinAttempts
  <2>. SUFFICES ASSUME PaidInv, NEW b \in Batches
       PROVE  Cardinality(Launched(b)) <= Cardinality(Attempts(b))
    BY DEF CallsWithinAttempts
  <2>1. PICK f : Charged(f, b)
    BY DEF PaidInv, Paid
  <2>. QED BY <2>1, ChargesCount DEF PaidInv, FactInv
<1>. QED BY <1>1, <1>2, <1>3, PTL DEF Spec
==============================================================================
