----------------------- MODULE ProcessingLedgerProofs -----------------------
(***************************************************************************)
(* For every number of stages, workers, attempts and disturbances:        *)
(*   TypeCorrect           Spec => []TypeOK                                *)
(*   UndisturbedFlows      Spec => []UndisturbedNotStranded                *)
(*   QuarantineEarned      Spec => []UndisturbedQuarantine                 *)
(*   PermissionsProjected  Spec => []UndisturbedProjection                 *)
(*   SettledIsCurrent      Spec => []UndisturbedIsCurrent                  *)
(*                                                                         *)
(* The counters are bounded through the disturbances that raise them       *)
(* (Counted), and a row is never stranded while nothing raced because an   *)
(* attempt then never holds a row that waits (HeldRowsOpen) and a running  *)
(* row carries no reason to skip (RunningReasons).  Every attempt counted  *)
(* on a row has been paid for by a failure, a lost claim or one that is    *)
(* still out (Struck); a settled index stage, and the attempts that would  *)
(* settle it, have the last permissions (Compiled); and the stages settle  *)
(* in order, each from what the ones before it stored (Current).           *)
(***************************************************************************)
EXTENDS ProcessingLedger, TLAPS

Counted ==
    /\ object.seen <= spent["edit"] + 1
    /\ object.acl <= spent["share"] + 1
    /\ \A s \in Stages : want[s] <= spent["bump"] + 1
    /\ \A k \in Kinds : spent[k] <= Budget[k]

Bounded == TypeOK /\ Counted

LEMMA ConstantTypes ==
    /\ Raw \in Outputs
    /\ Idle \in Attempts
    /\ \A s \in Stages : FreshRow(s) \in Rows
    /\ NoWorker \in Workers \union {NoWorker}
    /\ 1 \in Stages /\ N \in Stages
    /\ \A k \in Kinds : Budget[k] \in Nat
<1> USE StageAssumption, AttemptAssumption, BudgetAssumption
<1>1. 1 \in Stages /\ N \in Stages
  BY DEF Stages
<1>2. \A k \in Kinds : Budget[k] \in Nat
  OBVIOUS
<1>3. 0 \in Contents /\ 0 \in Versions /\ 0 \in Grants /\ 0 \in 0 .. MaxAttempts
  BY <1>2 DEF Contents, Versions, Grants, Kinds
<1>4. Raw \in Outputs
  BY <1>3 DEF Raw, Outputs, Recipes
<1>5. \A s \in Stages : FreshRow(s) \in Rows
  BY <1>3 DEF FreshRow, Rows, Statuses, Reasons
<1>6. Idle \in Attempts
  BY <1>1, <1>3, <1>4, <1>5 DEF Idle, Attempts, Reasons
<1> QED
  BY <1>1, <1>2, <1>4, <1>5, <1>6

LEMMA InitBounded == Init => Bounded
<1> SUFFICES ASSUME Init PROVE Bounded
  OBVIOUS
<1> USE StageAssumption, AttemptAssumption, BudgetAssumption, ConstantTypes
<1>1. ledger \in [Stages -> Rows] /\ out \in [Stages -> Outputs]
       /\ attempt \in [Workers -> Attempts] /\ raced \in BOOLEAN /\ skewed \in BOOLEAN
       /\ enabled \in [Stages -> BOOLEAN]
  BY DEF Init
<1>2. object \in Objects /\ projected \in Grants
  BY DEF Init, Objects, Contents, Grants, Kinds
<1>3. want \in [Stages -> 1 .. Budget["bump"] + 1] /\ strikes \in [Stages -> 0 .. MaxAttempts]
      /\ spent \in [Kinds -> Nat]
  BY DEF Init, Kinds
<1>4. Counted
  BY DEF Init, Counted, Kinds
<1> QED
  BY <1>1, <1>2, <1>3, <1>4 DEF Bounded, TypeOK

(* The updates of single rows keep their types.                            *)
LEMMA RowWrites ==
    ASSUME NEW row \in Rows
    PROVE  /\ Opened(row) \in Rows
           /\ \A w \in Workers, s \in Stages : Claimed(row, w, s) \in Rows
           /\ \A a \in Attempts : Written(a, row) \in Rows /\ Recorded(a, row) \in Rows
           /\ \A p \in Versions, s \in Stages : [FreshRow(s) EXCEPT !.producer = p] \in Rows
           /\ [row EXCEPT !.status = "failed", !.reason = "none"] \in Rows
           /\ [row EXCEPT !.status = "pending", !.reason = "none", !.attempts = 0] \in Rows
<1>1. OneMore(row.attempts) \in 0 .. MaxAttempts
  BY AttemptAssumption DEF OneMore, Rows
<1>2. \A w \in Workers, s \in Stages : Claimed(row, w, s) \in Rows
  BY <1>1 DEF Claimed, Rows, Statuses, Reasons
<1>3. ASSUME NEW a \in Attempts PROVE Written(a, row) \in Rows
  <2>1. /\ a.plan \in {"derive", "project", "declined", "disabled"}
        /\ a.version \in Versions
    BY DEF Attempts
  <2> QED
    BY <2>1 DEF Written, Rows, Statuses, Reasons
<1>4. ASSUME NEW a \in Attempts PROVE Recorded(a, row) \in Rows
  BY DEF Recorded, Rows, Statuses, Reasons
<1>5. \A p \in Versions, s \in Stages : [FreshRow(s) EXCEPT !.producer = p] \in Rows
  BY ConstantTypes DEF Rows
<1>6. 0 \in 0 .. MaxAttempts
  BY AttemptAssumption
<1> QED
  BY <1>2, <1>3, <1>4, <1>5, <1>6 DEF Opened, Rows, Statuses, Reasons

(* The record operators that stand for the code's row updates keep types.  *)
LEMMA RowUpdates ==
    ASSUME NEW l \in [Stages -> Rows]
    PROVE  /\ \A s \in Stages : Unlocked(l, s) \in [Stages -> Rows]
           /\ ResetRows(l) \in [Stages -> Rows]
           /\ \A i \in Stages : Parked(l, i) \in [Stages -> Rows]
           /\ AccessQueued(l) \in [Stages -> Rows]
<1> USE ConstantTypes
<1>1. ASSUME NEW s \in Stages PROVE Unlocked(l, s) \in [Stages -> Rows]
  <2>1. CASE s < N /\ Waiting(l[s + 1])
    <3>1. s + 1 \in Stages
      BY <2>1, StageAssumption DEF Stages
    <3>2. Opened(l[s + 1]) \in Rows
      BY <3>1, RowWrites
    <3> QED
      BY <2>1, <3>1, <3>2 DEF Unlocked
  <2> QED
    BY <2>1 DEF Unlocked
<1>2. ASSUME NEW s \in Stages PROVE [FreshRow(s) EXCEPT !.producer = l[s].producer] \in Rows
  <2>1. l[s] \in Rows /\ l[s].producer \in Versions
    BY DEF Rows
  <2> QED
    BY <2>1, RowWrites
<1>3. ResetRows(l) \in [Stages -> Rows]
  BY <1>2 DEF ResetRows
<1>4. FreshRow(1) \in Rows
  OBVIOUS
<1>5. /\ [FreshRow(1) EXCEPT !.status = "skipped", !.reason = "waiting"] \in Rows
      /\ [FreshRow(1) EXCEPT !.reason = "access"] \in Rows
  BY <1>4 DEF Rows, Statuses, Reasons
<1>6. \A i \in Stages : Parked(l, i) \in [Stages -> Rows]
  BY <1>4, <1>5 DEF Parked
<1>7. AccessQueued(l) \in [Stages -> Rows]
  BY <1>5 DEF AccessQueued
<1> QED
  BY <1>1, <1>3, <1>6, <1>7

LEMMA AttemptWrites ==
    ASSUME NEW e \in {"none", "ordinary", "outage", "poison"}, NEW r \in Rows,
           NEW s \in Stages, NEW v \in Versions, NEW on \in BOOLEAN
    PROVE  /\ [Idle EXCEPT !.phase = "claimed", !.stage = s,
                           !.version = v, !.on = on] \in Attempts
           /\ [Idle EXCEPT !.phase = "recording", !.stage = s,
                           !.error = e, !.found = r] \in Attempts
  BY ConstantTypes DEF Attempts

LEMMA SpendBounded ==
    ASSUME Bounded, NEW k \in Kinds, Spend(k)
    PROVE  /\ spent' \in [Kinds -> Nat]
           /\ spent'[k] = spent[k] + 1
           /\ spent'[k] <= Budget[k]
           /\ \A j \in Kinds : j # k => spent'[j] = spent[j]
           /\ \A j \in Kinds : spent'[j] <= Budget[j] /\ spent[j] <= spent'[j]
<1>1. spent \in [Kinds -> Nat] /\ Budget \in [Kinds -> Nat]
  BY BudgetAssumption DEF Bounded, TypeOK
<1>2. spent[k] < Budget[k] /\ spent' = [spent EXCEPT ![k] = spent[k] + 1]
  BY DEF Spend
<1>3. \A j \in Kinds : spent[j] \in Nat /\ Budget[j] \in Nat /\ spent[j] <= Budget[j]
  BY <1>1 DEF Bounded, Counted
<1>4. spent' \in [Kinds -> Nat] /\ spent'[k] = spent[k] + 1
  BY <1>1, <1>2, <1>3
<1>5. \A j \in Kinds : j # k => spent'[j] = spent[j]
  BY <1>1, <1>2
<1>6. ASSUME NEW j \in Kinds PROVE spent'[j] <= Budget[j] /\ spent[j] <= spent'[j]
  <2>1. CASE j = k
    BY <2>1, <1>2, <1>3, <1>4
  <2>2. CASE j # k
    BY <2>2, <1>3, <1>5
  <2> QED
    BY <2>1, <2>2
<1> QED
  BY <1>4, <1>5, <1>6

LEMMA InputType ==
    ASSUME Bounded, NEW s \in Stages
    PROVE  Input(s) \in Outputs
<1>1. object.seen \in Contents /\ object.hash \in Contents
  BY DEF Bounded, TypeOK, Objects
<1>2. \A u \in Stages : out[u].recipe[u] \in Versions
  BY DEF Bounded, TypeOK, Outputs, Recipes
<1>3. 0 \in Versions
  BY ConstantTypes DEF Versions, Kinds
<1> QED
  BY <1>1, <1>2, <1>3 DEF Input, Outputs, Recipes

LEMMA SameCount ==
    ASSUME Bounded, object' = object, want' = want, spent' = spent
    PROVE  Counted'
  BY DEF Bounded, Counted

LEMMA ClaimBounded ==
    ASSUME Bounded, NEW w \in Workers, NEW s \in Stages, Claim(w, s)
    PROVE  Bounded'
<1> USE DEF config, history
<1>1. ledger[s] \in Rows
  BY DEF Bounded, TypeOK
<1>2. Claimed(ledger[s], w, s) \in Rows
  BY <1>1, RowWrites
<1>3. ledger' \in [Stages -> Rows]
  BY <1>2 DEF Claim, Bounded, TypeOK
<1>4. want[s] \in Versions /\ enabled[s] \in BOOLEAN
  BY ConstantTypes DEF Bounded, TypeOK, Versions, Kinds
<1>5. attempt' \in [Workers -> Attempts]
  BY <1>4, ConstantTypes, AttemptWrites DEF Claim, Bounded, TypeOK
<1>6. Counted'
  BY SameCount DEF Claim
<1> QED
  BY <1>3, <1>5, <1>6 DEF Claim, Bounded, TypeOK

LEMMA BeginBounded ==
    ASSUME Bounded, NEW w \in Workers, Begin(w)
    PROVE  Bounded'
<1> USE DEF config, history
<1> DEFINE a == attempt[w]
           row == ledger[a.stage]
<1>1. a \in Attempts /\ a.stage \in Stages /\ a.on \in BOOLEAN
  BY DEF Bounded, TypeOK, Attempts
<1>2. row \in Rows /\ row.reason \in Reasons /\ row.producer \in Versions
  BY <1>1 DEF Bounded, TypeOK, Rows
<1>3. Plan(a.stage, a.on) \in {"derive", "project", "declined", "disabled"}
  BY <1>1 DEF Plan
<1>4. object.hash \in Contents /\ object.acl \in Grants
  BY DEF Bounded, TypeOK, Objects
<1>5. Input(a.stage) \in Outputs
  BY <1>1, InputType
<1>6. [a EXCEPT !.phase = "working", !.plan = Plan(a.stage, a.on),
                !.reason = row.reason, !.producer = row.producer,
                !.hash = object.hash, !.input = Input(a.stage),
                !.acl = object.acl] \in Attempts
  BY <1>1, <1>2, <1>3, <1>4, <1>5 DEF Attempts
<1>7. [Idle EXCEPT !.phase = "recording", !.stage = a.stage,
                   !.error = "ordinary", !.found = row] \in Attempts
  BY <1>1, <1>2, ConstantTypes DEF Attempts
<1>8. attempt' \in [Workers -> Attempts]
  BY <1>6, <1>7, ConstantTypes DEF Begin, Bounded, TypeOK
<1>9. Counted'
  BY SameCount DEF Begin
<1> QED
  BY <1>8, <1>9 DEF Begin, Bounded, TypeOK

LEMMA FinishBounded ==
    ASSUME Bounded, NEW w \in Workers, Finish(w)
    PROVE  Bounded'
<1> USE DEF config, history
<1> DEFINE a == attempt[w]
           s == a.stage
<1>1. /\ a \in Attempts /\ s \in Stages /\ a.version \in Versions
      /\ a.input \in Outputs /\ a.acl \in Grants
      /\ a.plan \in {"derive", "project", "declined", "disabled"}
  BY DEF Bounded, TypeOK, Attempts
<1>2. ledger[s] \in Rows
  BY <1>1 DEF Bounded, TypeOK
<1>3. Written(a, ledger[s]) \in Rows
  BY <1>1, <1>2, RowWrites
<1>4. [ledger EXCEPT ![s] = Written(a, @)] \in [Stages -> Rows]
  BY <1>1, <1>3 DEF Bounded, TypeOK
<1>5. ledger' \in [Stages -> Rows]
  BY <1>1, <1>4, RowUpdates DEF Finish
<1>6. [content |-> a.input.content, recipe |-> [a.input.recipe EXCEPT ![s] = a.version]] \in Outputs
  BY <1>1 DEF Outputs, Recipes
<1>7. out' \in [Stages -> Outputs]
  BY <1>6 DEF Finish, Bounded, TypeOK
<1>8. object' \in Objects /\ object'.seen = object.seen /\ object'.acl = object.acl
  BY <1>1 DEF Finish, Bounded, TypeOK, Objects, Outputs
<1>9. projected' \in Grants
  BY <1>1 DEF Finish, Bounded, TypeOK
<1>10. attempt' \in [Workers -> Attempts]
  BY ConstantTypes DEF Finish, Bounded, TypeOK
<1>11. want' = want /\ spent' = spent
  BY DEF Finish
<1>12. Counted'
  BY <1>8, <1>11 DEF Bounded, Counted
<1> QED
  BY <1>5, <1>7, <1>8, <1>9, <1>10, <1>12 DEF Finish, Bounded, TypeOK

LEMMA RaiseBounded ==
    ASSUME Bounded, NEW w \in Workers, NEW k \in {"ordinary", "outage", "poison"}, Raise(w, k)
    PROVE  Bounded'
<1> USE DEF config, history
<1>1. attempt[w] \in Attempts /\ attempt[w].stage \in Stages
  BY DEF Bounded, TypeOK, Attempts
<1>2. ledger[attempt[w].stage] \in Rows
  BY <1>1 DEF Bounded, TypeOK
<1>3. attempt' \in [Workers -> Attempts]
  <2>1. [Idle EXCEPT !.phase = "recording", !.stage = attempt[w].stage, !.error = k,
                     !.found = ledger[attempt[w].stage]] \in Attempts
    BY <1>1, <1>2, ConstantTypes DEF Attempts
  <2> QED
    BY <2>1, ConstantTypes DEF Raise, Bounded, TypeOK
<1>4. /\ k \in Kinds /\ Spend(k) /\ object' = object /\ want' = want
      /\ "edit" \in Kinds /\ "share" \in Kinds /\ "bump" \in Kinds
      /\ k \notin {"edit", "share", "bump"}
  BY DEF Raise, Kinds
<1>5. spent' \in [Kinds -> Nat] /\ Counted'
  BY <1>4, SpendBounded DEF Bounded, Counted
<1> QED
  BY <1>3, <1>5 DEF Raise, Bounded, TypeOK

LEMMA RecordBounded ==
    ASSUME Bounded, NEW w \in Workers, RecordFailure(w)
    PROVE  Bounded'
<1> USE DEF config, history
<1> DEFINE a == attempt[w]
           s == a.stage
<1>1. a \in Attempts /\ s \in Stages
  BY DEF Bounded, TypeOK, Attempts
<1>2. ledger[s] \in Rows
  BY <1>1 DEF Bounded, TypeOK
<1>3. ledger' \in [Stages -> Rows]
  BY <1>1, <1>2, RowWrites DEF RecordFailure, Bounded, TypeOK
<1>4. strikes[s] \in 0 .. MaxAttempts
  BY <1>1 DEF Bounded, TypeOK
<1>5. MaxAttempts \in 0 .. MaxAttempts /\ OneMore(strikes[s]) \in 0 .. MaxAttempts
  BY <1>4, AttemptAssumption DEF OneMore
<1>6. strikes' \in [Stages -> 0 .. MaxAttempts]
  BY <1>4, <1>5 DEF RecordFailure, Bounded, TypeOK
<1>7. attempt' \in [Workers -> Attempts]
  BY ConstantTypes DEF RecordFailure, Bounded, TypeOK
<1>8. Counted'
  BY SameCount DEF RecordFailure
<1> QED
  BY <1>3, <1>6, <1>7, <1>8 DEF RecordFailure, Bounded, TypeOK

LEMMA CrashBounded ==
    ASSUME Bounded, NEW w \in Workers, Crash(w)
    PROVE  Bounded'
<1> USE DEF config, history
<1>1. attempt' \in [Workers -> Attempts]
  BY ConstantTypes DEF Crash, Bounded, TypeOK
<1>2. /\ "crash" \in Kinds /\ Spend("crash") /\ object' = object /\ want' = want
      /\ "edit" \in Kinds /\ "share" \in Kinds /\ "bump" \in Kinds
  BY DEF Crash, Kinds
<1>3. spent' \in [Kinds -> Nat] /\ Counted'
  BY <1>2, SpendBounded DEF Bounded, Counted
<1> QED
  BY <1>1, <1>3 DEF Crash, Bounded, TypeOK

LEMMA ExpireBounded ==
    ASSUME Bounded, NEW S \in SUBSET Stages, ExpireAbandoned(S) \/ ExpireHeld(S)
    PROVE  Bounded'
<1> USE DEF config, history
<1>1. ExpireClaims(S)
  BY DEF ExpireAbandoned, ExpireHeld
<1>2. ledger' \in [Stages -> Rows]
  <2>1. \A s \in Stages : [ledger[s] EXCEPT !.status = "failed", !.reason = "none"] \in Rows
    BY RowWrites DEF Bounded, TypeOK
  <2> QED
    BY <1>1, <2>1 DEF ExpireClaims, Bounded, TypeOK
<1>3. strikes' \in [Stages -> 0 .. MaxAttempts]
  <2>1. \A s \in Stages : strikes[s] \in 0 .. MaxAttempts
    BY DEF Bounded, TypeOK
  <2>2. \A s \in Stages : OneMore(strikes[s]) \in 0 .. MaxAttempts
    BY <2>1, AttemptAssumption DEF OneMore
  <2> QED
    BY <1>1, <2>1, <2>2 DEF ExpireClaims
<1>4. spent' \in [Kinds -> Nat] /\ Counted'
  <2>1. object' = object /\ want' = want
    BY <1>1 DEF ExpireClaims
  <2>2. CASE ExpireAbandoned(S)
    BY <2>1, <2>2, SameCount DEF ExpireAbandoned, Bounded, TypeOK
  <2>3. CASE ExpireHeld(S)
    <3>1. /\ "slow" \in Kinds /\ Spend("slow")
          /\ "edit" \in Kinds /\ "share" \in Kinds /\ "bump" \in Kinds
      BY <2>3 DEF ExpireHeld, Kinds
    <3> QED
      BY <2>1, <3>1, SpendBounded DEF Bounded, Counted
  <2> QED
    BY <2>2, <2>3
<1> QED
  BY <1>1, <1>2, <1>3, <1>4 DEF ExpireClaims, Bounded, TypeOK

LEMMA ForgivenType ==
    ASSUME Bounded, NEW S
    PROVE  Forgiven(S) \in [Stages -> 0 .. MaxAttempts]
  BY AttemptAssumption DEF Forgiven, Bounded, TypeOK

LEMMA ObserveBounded ==
    ASSUME Bounded, ObserveChange \/ ObserveAccess \/ ObserveDeletion
    PROVE  Bounded'
<1> USE DEF config, history
<1>0. /\ "edit" \in Kinds /\ "share" \in Kinds /\ "bump" \in Kinds
      /\ Budget["edit"] \in Nat /\ Budget["share"] \in Nat
  BY BudgetAssumption DEF Kinds
<1>1. ledger \in [Stages -> Rows] /\ object \in Objects
      /\ object.seen \in Nat /\ object.acl \in Nat
      /\ object.seen <= spent["edit"] + 1 /\ object.acl <= spent["share"] + 1
      /\ spent["edit"] \in Nat /\ spent["share"] \in Nat
  BY <1>0 DEF Bounded, Counted, TypeOK, Objects, Contents, Grants
<1>2. ResetRows(ledger) \in [Stages -> Rows] /\ AccessQueued(ledger) \in [Stages -> Rows]
  BY <1>1, RowUpdates
<1>3. UnderWay \in BOOLEAN /\ raced \in BOOLEAN
  BY DEF UnderWay, Bounded, TypeOK
<1>4. CASE ObserveChange
  <2>1. /\ spent' \in [Kinds -> Nat] /\ spent'["edit"] = spent["edit"] + 1
        /\ spent'["edit"] <= Budget["edit"]
        /\ \A j \in Kinds : spent'[j] <= Budget[j] /\ spent[j] <= spent'[j]
    BY <1>4, <1>0, SpendBounded DEF ObserveChange
  <2>2. object.seen + 1 \in Contents /\ 0 \in Contents
    BY <1>0, <1>1, <2>1 DEF Contents
  <2>3. object' \in Objects /\ object'.seen = object.seen + 1 /\ object'.acl = object.acl
    BY <1>1, <1>4, <2>2 DEF ObserveChange, Objects
  <2>4. want' = want
    BY <1>4 DEF ObserveChange
  <2>5. Counted'
    <3>1. object'.seen <= spent'["edit"] + 1
      BY <1>1, <2>1, <2>3
    <3>2. object'.acl <= spent'["share"] + 1
      BY <1>0, <1>1, <2>1, <2>3
    <3>3. \A s \in Stages : want'[s] <= spent'["bump"] + 1
      BY <1>0, <2>1, <2>4 DEF Bounded, TypeOK, Counted
    <3> QED
      BY <2>1, <3>1, <3>2, <3>3 DEF Counted
  <2> QED
    BY <1>2, <1>3, <1>4, <2>1, <2>3, <2>5, ForgivenType DEF ObserveChange, Bounded, TypeOK
<1>5. CASE ObserveAccess
  <2>1. /\ spent' \in [Kinds -> Nat] /\ spent'["share"] = spent["share"] + 1
        /\ spent'["share"] <= Budget["share"]
        /\ \A j \in Kinds : spent'[j] <= Budget[j] /\ spent[j] <= spent'[j]
    BY <1>5, <1>0, SpendBounded DEF ObserveAccess
  <2>2. object.acl + 1 \in Grants
    BY <1>0, <1>1, <2>1 DEF Grants
  <2>3. object' \in Objects /\ object'.seen = object.seen /\ object'.acl = object.acl + 1
    BY <1>1, <1>5, <2>2 DEF ObserveAccess, Objects
  <2>4. want' = want
    BY <1>5 DEF ObserveAccess
  <2>5. Counted'
    <3>1. object'.acl <= spent'["share"] + 1
      BY <1>1, <2>1, <2>3
    <3>2. object'.seen <= spent'["edit"] + 1
      BY <1>0, <1>1, <2>1, <2>3
    <3>3. \A s \in Stages : want'[s] <= spent'["bump"] + 1
      BY <1>0, <2>1, <2>4 DEF Bounded, TypeOK, Counted
    <3> QED
      BY <2>1, <3>1, <3>2, <3>3 DEF Counted
  <2>6. strikes' \in [Stages -> 0 .. MaxAttempts]
    BY <1>5, ForgivenType DEF ObserveAccess
  <2>7. raced' \in BOOLEAN
    BY <1>3, <1>5 DEF ObserveAccess
  <2> QED
    BY <1>2, <1>5, <2>1, <2>3, <2>5, <2>6, <2>7 DEF ObserveAccess, Bounded, TypeOK
<1>6. CASE ObserveDeletion
  <2>1. /\ spent' \in [Kinds -> Nat]
        /\ \A j \in Kinds : spent'[j] <= Budget[j] /\ spent[j] <= spent'[j]
    BY <1>6, <1>0, SpendBounded DEF ObserveDeletion
  <2>2. object' \in Objects /\ object'.seen = object.seen /\ object'.acl = object.acl
    BY <1>1, <1>6 DEF ObserveDeletion, Objects
  <2>3. want' = want
    BY <1>6 DEF ObserveDeletion
  <2>4. Counted'
    <3>1. object'.acl <= spent'["share"] + 1 /\ object'.seen <= spent'["edit"] + 1
      BY <1>0, <1>1, <2>1, <2>2
    <3>2. \A s \in Stages : want'[s] <= spent'["bump"] + 1
      BY <1>0, <2>1, <2>3 DEF Bounded, TypeOK, Counted
    <3> QED
      BY <2>1, <3>1, <3>2 DEF Counted
  <2> QED
    BY <1>6, <2>1, <2>2, <2>4 DEF ObserveDeletion, Bounded, TypeOK
<1> QED
  BY <1>4, <1>5, <1>6

LEMMA PutBackTypes ==
    ASSUME Bounded, NEW i \in Stages, PutBack(i)
    PROVE  /\ ledger' \in [Stages -> Rows] /\ raced' \in BOOLEAN /\ skewed' \in BOOLEAN
           /\ strikes' \in [Stages -> 0 .. MaxAttempts]
           /\ UNCHANGED <<object, out, projected, want, enabled, attempt>>
<1>1. Parked(ledger, i) \in [Stages -> Rows]
  BY RowUpdates DEF Bounded, TypeOK
<1>2. UnderWay \in BOOLEAN
  BY DEF UnderWay
<1> QED
  BY <1>1, <1>2, ForgivenType DEF PutBack, config, Bounded, TypeOK

LEMMA RequeueBounded ==
    ASSUME Bounded,
           \/ RequeueOutdated \/ RequeueOntology \/ RequeueKnowledge
           \/ \E s \in Stages : RetryQuarantined(s)
    PROVE  Bounded'
<1>1. PICK i \in Stages : PutBack(i)
  BY StageAssumption DEF RequeueOutdated, RequeueOntology, RequeueKnowledge,
                         RetryQuarantined, Stages
<1>2. /\ "edit" \in Kinds /\ "share" \in Kinds /\ "bump" \in Kinds
      /\ "retry" \in Kinds /\ "retype" \in Kinds /\ "merge" \in Kinds
  BY DEF Kinds
<1>3. UNCHANGED spent \/ \E k \in Kinds \ {"edit", "share", "bump"} : Spend(k)
  BY <1>2 DEF RequeueOutdated, RequeueOntology, RequeueKnowledge, RetryQuarantined
<1>4. object' = object /\ want' = want
  BY <1>1, PutBackTypes
<1>5. spent' \in [Kinds -> Nat] /\ Counted'
  <2>1. CASE UNCHANGED spent
    BY <2>1, <1>4, SameCount DEF Bounded, TypeOK
  <2>2. CASE \E k \in Kinds \ {"edit", "share", "bump"} : Spend(k)
    <3>1. PICK k \in Kinds \ {"edit", "share", "bump"} : Spend(k)
      BY <2>2
    <3> QED
      BY <3>1, <1>2, <1>4, SpendBounded DEF Bounded, Counted
  <2> QED
    BY <1>3, <2>1, <2>2
<1> QED
  BY <1>1, <1>5, PutBackTypes DEF Bounded, TypeOK

LEMMA EnableBounded ==
    ASSUME Bounded, RequeueNewlyEnabled
    PROVE  Bounded'
<1> USE DEF config, history
<1>1. \A s \in Stages :
          [ledger[s] EXCEPT !.status = "pending", !.reason = "none", !.attempts = 0] \in Rows
  BY RowWrites DEF Bounded, TypeOK
<1>2. ledger' \in [Stages -> Rows]
  BY <1>1 DEF RequeueNewlyEnabled, Bounded, TypeOK
<1>3. strikes' \in [Stages -> 0 .. MaxAttempts]
  BY ForgivenType DEF RequeueNewlyEnabled, NewlyEnabled
<1>4. Counted'
  BY SameCount DEF RequeueNewlyEnabled
<1>5. raced' \in BOOLEAN
  BY DEF RequeueNewlyEnabled, UnderWay, Bounded, TypeOK
<1> QED
  BY <1>2, <1>3, <1>4, <1>5 DEF RequeueNewlyEnabled, Bounded, TypeOK

LEMMA AdminBounded ==
    ASSUME Bounded, NEW s \in Stages, BumpVersion(s) \/ ToggleStage(s)
    PROVE  Bounded'
<1> USE DEF config, history
<1>0. /\ "edit" \in Kinds /\ "share" \in Kinds /\ "bump" \in Kinds /\ "toggle" \in Kinds
      /\ Budget["bump"] \in Nat
  BY BudgetAssumption DEF Kinds
<1>1. CASE BumpVersion(s)
  <2>1. /\ spent' \in [Kinds -> Nat] /\ spent'["bump"] = spent["bump"] + 1
        /\ spent'["bump"] <= Budget["bump"]
        /\ \A j \in Kinds : spent'[j] <= Budget[j] /\ spent[j] <= spent'[j]
        /\ \A j \in Kinds : j # "bump" => spent'[j] = spent[j]
    BY <1>0, <1>1, SpendBounded DEF BumpVersion
  <2>2. /\ want \in [Stages -> 1 .. Budget["bump"] + 1] /\ spent["bump"] \in Nat
        /\ \A u \in Stages : want[u] <= spent["bump"] + 1
    BY <1>0 DEF Bounded, TypeOK, Counted
  <2>3. want' = [want EXCEPT ![s] = want[s] + 1] /\ object' = object
    BY <1>1 DEF BumpVersion
  <2>4. ASSUME NEW u \in Stages
        PROVE  want'[u] \in 1 .. Budget["bump"] + 1 /\ want'[u] <= spent'["bump"] + 1
    <3>1. want[u] \in Nat /\ want[u] >= 1 /\ want[u] <= spent["bump"] + 1
      BY <1>0, <2>2
    <3>2. want'[u] = want[u] \/ want'[u] = want[u] + 1
      BY <2>2, <2>3
    <3> QED
      BY <1>0, <2>1, <2>2, <3>1, <3>2
  <2>5. want' \in [Stages -> 1 .. Budget["bump"] + 1]
    BY <2>2, <2>3, <2>4
  <2>6. Counted'
    BY <1>0, <2>1, <2>3, <2>4 DEF Bounded, Counted
  <2> QED
    BY <1>1, <2>1, <2>5, <2>6 DEF BumpVersion, Bounded, TypeOK
<1>2. CASE ToggleStage(s)
  <2>1. enabled' \in [Stages -> BOOLEAN]
    BY <1>2 DEF ToggleStage, Bounded, TypeOK
  <2>2. Spend("toggle") /\ object' = object /\ want' = want
    BY <1>2 DEF ToggleStage
  <2>3. spent' \in [Kinds -> Nat] /\ Counted'
    BY <1>0, <2>2, SpendBounded DEF Bounded, Counted
  <2> QED
    BY <1>2, <2>1, <2>3 DEF ToggleStage, Bounded, TypeOK
<1> QED
  BY <1>1, <1>2

LEMMA StepBounded == Bounded /\ [Next]_vars => Bounded'
<1> SUFFICES ASSUME Bounded, [Next]_vars PROVE Bounded'
  OBVIOUS
<1>1. CASE \E w \in Workers, s \in Stages : Claim(w, s)
  BY <1>1, ClaimBounded
<1>2. CASE \E w \in Workers : Begin(w) \/ Finish(w) \/ RecordFailure(w) \/ Crash(w)
  BY <1>2, BeginBounded, FinishBounded, RecordBounded, CrashBounded
<1>3. CASE \E w \in Workers, k \in {"ordinary", "outage", "poison"} : Raise(w, k)
  BY <1>3, RaiseBounded
<1>4. CASE \E S \in SUBSET Stages : ExpireAbandoned(S) \/ ExpireHeld(S)
  BY <1>4, ExpireBounded
<1>5. CASE ObserveChange \/ ObserveAccess \/ ObserveDeletion
  BY <1>5, ObserveBounded
<1>6. CASE \/ RequeueOutdated \/ RequeueOntology \/ RequeueKnowledge
           \/ \E s \in Stages : RetryQuarantined(s)
  BY <1>6, RequeueBounded
<1>7. CASE RequeueNewlyEnabled
  BY <1>7, EnableBounded
<1>8. CASE \E s \in Stages : BumpVersion(s) \/ ToggleStage(s)
  BY <1>8, AdminBounded
<1>9. CASE UNCHANGED vars
  BY <1>9 DEF vars, Bounded, TypeOK, Counted, config
<1> QED
  BY <1>1, <1>2, <1>3, <1>4, <1>5, <1>6, <1>7, <1>8, <1>9 DEF Next

(* The ledger, the object and every attempt keep their types, and every    *)
(* counter its bound, through any interleaving (TypeOK).                   *)
THEOREM TypeCorrect == Spec => []TypeOK
<1>1. Bounded => TypeOK
  BY DEF Bounded
<1> QED
  BY <1>1, InitBounded, StepBounded, PTL DEF Spec

(***************************************************************************)
(* No row is stranded while nothing raced                                  *)
(***************************************************************************)
RunningReasons == \A s \in Stages : ledger[s].status = "running" =>
                                        ledger[s].reason \in {"none", "access"}
LoadedReasons == \A w \in Workers : attempt[w].reason \in {"none", "access"}
HeldRowsOpen == ~raced => \A w \in Workers : attempt[w].phase # "idle" =>
                                        ~Waiting(ledger[attempt[w].stage])

Reasonable == RunningReasons /\ LoadedReasons
Flow == Bounded /\ Reasonable /\ HeldRowsOpen /\ UndisturbedNotStranded

(* A row update that parks nothing, and settles only a row whose successor *)
(* does not wait, strands nobody.                                          *)
LEMMA StillFlowing ==
    ASSUME NoRowStranded,
           \A s \in Stages : Waiting(ledger'[s]) => Waiting(ledger[s]),
           \A s \in Stages : Settled(ledger'[s]) =>
               Settled(ledger[s]) \/ (s + 1 \in Stages => ~Waiting(ledger'[s + 1]))
    PROVE  NoRowStranded'
<1> SUFFICES ASSUME NEW s \in Stages, Waiting(ledger'[s])
             PROVE  s > 1 /\ ~Settled(ledger'[s - 1])
  BY DEF NoRowStranded, Waiting, Settled
<1>1. s > 1 /\ ~Settled(ledger[s - 1])
  BY DEF NoRowStranded
<1>2. s - 1 \in Stages /\ (s - 1) + 1 = s
  BY <1>1, StageAssumption DEF Stages
<1> QED
  BY <1>1, <1>2

LEMMA InitFlow == Init => Flow
<1> SUFFICES ASSUME Init PROVE Flow
  OBVIOUS
<1>1. Bounded
  BY InitBounded
<1>2. Reasonable
  BY DEF Init, Reasonable, RunningReasons, LoadedReasons, FreshRow, Idle
<1>3. HeldRowsOpen
  BY DEF Init, HeldRowsOpen, Idle
<1>4. NoRowStranded
  BY StageAssumption DEF Init, NoRowStranded, FreshRow, Waiting, Settled, Stages
<1> QED
  BY <1>1, <1>2, <1>3, <1>4 DEF Flow, UndisturbedNotStranded

LEMMA ReasonStep == Bounded /\ Reasonable /\ [Next]_vars => Reasonable'
<1> SUFFICES ASSUME Bounded, Reasonable, [Next]_vars PROVE Reasonable'
  OBVIOUS
<1> USE DEF config, history
<1>0. /\ ledger \in [Stages -> Rows] /\ attempt \in [Workers -> Attempts]
      /\ \A w \in Workers : attempt[w].stage \in Stages
      /\ Idle.reason = "none"
  BY DEF Bounded, TypeOK, Attempts, Idle
<1>1. ASSUME NEW w \in Workers, NEW s \in Stages, Claim(w, s) PROVE Reasonable'
  <2>1. Claimed(ledger[s], w, s).reason \in {"none", "access"}
    BY <1>0 DEF Claimed, Rows
  <2>2. RunningReasons'
    BY <1>0, <1>1, <2>1 DEF Claim, Reasonable, RunningReasons
  <2>3. [Idle EXCEPT !.phase = "claimed", !.stage = s, !.version = want[s],
                     !.on = enabled[s]].reason = "none"
    BY ConstantTypes DEF Attempts, Idle
  <2>4. LoadedReasons'
    BY <1>0, <1>1, <2>3 DEF Claim, Reasonable, LoadedReasons
  <2> QED
    BY <2>2, <2>4 DEF Reasonable
<1>2. ASSUME NEW w \in Workers, Begin(w) PROVE Reasonable'
  <2>1. attempt'[w].reason \in {"none", "access"}
    <3>1. CASE ledger[attempt[w].stage].status # "running"
      BY <3>1, <1>0, <1>2 DEF Begin
    <3>2. CASE ledger[attempt[w].stage].status = "running"
      <4>1. ledger[attempt[w].stage].reason \in {"none", "access"}
        BY <3>2, <1>0 DEF Reasonable, RunningReasons
      <4>2. CASE Unfetched(attempt[w].stage, attempt[w].on)
        <5>1. attempt'[w] = [Idle EXCEPT !.phase = "recording", !.stage = attempt[w].stage,
                                  !.error = "ordinary", !.found = ledger[attempt[w].stage]]
          BY <1>0, <1>2, <3>2, <4>2 DEF Begin
        <5> QED
          BY <5>1 DEF Idle
      <4>3. CASE ~Unfetched(attempt[w].stage, attempt[w].on)
        <5>1. attempt'[w] = [attempt[w] EXCEPT !.phase = "working",
                 !.plan = Plan(attempt[w].stage, attempt[w].on),
                 !.reason = ledger[attempt[w].stage].reason,
                 !.producer = ledger[attempt[w].stage].producer,
                 !.hash = object.hash, !.input = Input(attempt[w].stage),
                 !.acl = object.acl]
          BY <1>0, <1>2, <3>2, <4>3 DEF Begin
        <5>2. attempt[w] \in Attempts
          BY <1>0
        <5> QED
          BY <4>1, <5>1, <5>2 DEF Attempts
      <4> QED
        BY <4>2, <4>3
    <3> QED
      BY <3>1, <3>2
  <2>2. \A v \in Workers \ {w} : attempt'[v] = attempt[v]
    BY <1>0, <1>2 DEF Begin
  <2> QED
    BY <1>2, <2>1, <2>2 DEF Begin, Reasonable, RunningReasons, LoadedReasons
<1>3. ASSUME NEW w \in Workers, Finish(w) PROVE Reasonable'
  <2> DEFINE s == attempt[w].stage
             l == [ledger EXCEPT ![s] = Written(attempt[w], @)]
  <2>1. s \in Stages /\ ledger[s] \in Rows /\ l \in [Stages -> Rows]
        /\ Written(attempt[w], ledger[s]) \in Rows
    BY <1>0, RowWrites
  <2>2. l[s].status \in {"done", "skipped"} /\ \A u \in Stages \ {s} : l[u] = ledger[u]
    BY <1>0, <2>1 DEF Written, Rows
  <2>3. ledger' = Unlocked(l, s)
    BY <1>3 DEF Finish
  <2> HIDE DEF s, l
  <2>4. \A u \in Stages : ledger'[u] = l[u] \/ ledger'[u].status = "pending"
    <3>1. CASE s < N /\ Waiting(l[s + 1])
      <4>1. s + 1 \in Stages /\ Opened(l[s + 1]).status = "pending"
        BY <2>1, <3>1, StageAssumption DEF Stages, Opened, Rows
      <4> QED
        BY <2>1, <2>3, <3>1, <4>1 DEF Unlocked
    <3> QED
      BY <2>3, <3>1 DEF Unlocked
  <2>5. RunningReasons'
    BY <2>1, <2>2, <2>4 DEF Reasonable, RunningReasons
  <2>6. LoadedReasons'
    BY <1>0, <1>3 DEF Finish, Reasonable, LoadedReasons
  <2> QED
    BY <2>5, <2>6 DEF Reasonable
<1>4. ASSUME NEW w \in Workers, NEW k \in {"ordinary", "outage", "poison"}, Raise(w, k)
      PROVE  Reasonable'
  <2>1. [Idle EXCEPT !.phase = "recording", !.stage = attempt[w].stage, !.error = k,
                     !.found = ledger[attempt[w].stage]].reason = "none"
    BY DEF Idle
  <2> QED
    BY <1>0, <1>4, <2>1 DEF Raise, Reasonable, RunningReasons, LoadedReasons
<1>5. ASSUME NEW w \in Workers, RecordFailure(w) PROVE Reasonable'
  <2>1. Recorded(attempt[w], ledger[attempt[w].stage]).reason = "none"
    BY <1>0 DEF Recorded, Rows
  <2> QED
    BY <1>0, <1>5, <2>1 DEF RecordFailure, Reasonable, RunningReasons, LoadedReasons
<1>6. ASSUME NEW w \in Workers, Crash(w) PROVE Reasonable'
  BY <1>0, <1>6 DEF Crash, Reasonable, RunningReasons, LoadedReasons
<1>7. ASSUME NEW S \in SUBSET Stages, ExpireClaims(S) PROVE Reasonable'
  <2>1. \A s \in Stages : ledger'[s] = ledger[s] \/ ledger'[s].status = "failed"
    BY <1>0, <1>7 DEF ExpireClaims, Rows
  <2> QED
    BY <1>7, <2>1 DEF ExpireClaims, Reasonable, RunningReasons, LoadedReasons
<1>8. CASE ObserveChange
  <2>1. \A s \in Stages : ledger'[s].status # "running"
    BY <1>0, <1>8, ConstantTypes DEF ObserveChange, ResetRows, FreshRow
  <2> QED
    BY <1>8, <2>1 DEF ObserveChange, Reasonable, RunningReasons, LoadedReasons
<1>9. CASE ObserveAccess
  <2>1. \A s \in Stages : ledger'[s] = ledger[s] \/ ledger'[s].status = "pending"
    BY <1>0, <1>9 DEF ObserveAccess, AccessQueued, FreshRow
  <2> QED
    BY <1>9, <2>1 DEF ObserveAccess, Reasonable, RunningReasons, LoadedReasons
<1>10. CASE ObserveDeletion
  BY <1>10 DEF ObserveDeletion, Reasonable, RunningReasons, LoadedReasons
<1>11. ASSUME NEW i \in Stages, PutBack(i) PROVE Reasonable'
  <2>1. \A s \in Stages : ledger'[s] = ledger[s] \/ ledger'[s].status \in {"pending", "skipped"}
    BY <1>0, <1>11 DEF PutBack, Parked, FreshRow
  <2> QED
    BY <1>11, <2>1 DEF PutBack, Reasonable, RunningReasons, LoadedReasons
<1>12. CASE RequeueNewlyEnabled
  <2>1. \A s \in Stages : ledger'[s] = ledger[s] \/ ledger'[s].status = "pending"
    BY <1>0, <1>12 DEF RequeueNewlyEnabled, Rows
  <2> QED
    BY <1>12, <2>1 DEF RequeueNewlyEnabled, Reasonable, RunningReasons, LoadedReasons
<1>13. ASSUME NEW s \in Stages, BumpVersion(s) \/ ToggleStage(s) PROVE Reasonable'
  BY <1>13 DEF BumpVersion, ToggleStage, Reasonable, RunningReasons, LoadedReasons
<1>14. CASE UNCHANGED vars
  BY <1>14 DEF vars, Reasonable, RunningReasons, LoadedReasons
<1>15. ASSUME RequeueOutdated \/ RequeueOntology \/ RequeueKnowledge
              \/ \E s \in Stages : RetryQuarantined(s)
       PROVE  \E i \in Stages : PutBack(i)
  BY <1>15, StageAssumption DEF RequeueOutdated, RequeueOntology, RequeueKnowledge,
                                RetryQuarantined, Stages
<1> QED
  BY <1>1, <1>2, <1>3, <1>4, <1>5, <1>6, <1>7, <1>8, <1>9, <1>10, <1>11, <1>12,
     <1>13, <1>14, <1>15 DEF Next, ExpireAbandoned, ExpireHeld

Open == HeldRowsOpen /\ UndisturbedNotStranded

(* A step that leaves the rows alone, and lets attempts end but not begin  *)
(* nor move to another stage.                                              *)
LEMMA OpenIfRowsKept ==
    ASSUME Open, ledger' = ledger, raced' = raced,
           \A w \in Workers : attempt'[w].phase # "idle" =>
               attempt[w].phase # "idle" /\ attempt'[w].stage = attempt[w].stage
    PROVE  Open'
  BY DEF Open, HeldRowsOpen, UndisturbedNotStranded, NoRowStranded, Waiting, Settled

LEMMA OpenStep == Flow /\ [Next]_vars => Open'
<1> SUFFICES ASSUME Flow, [Next]_vars PROVE Open'
  OBVIOUS
<1> USE DEF config, history
<1>0. /\ ledger \in [Stages -> Rows] /\ attempt \in [Workers -> Attempts]
      /\ \A w \in Workers : attempt[w].stage \in Stages
      /\ Idle.phase = "idle" /\ Open /\ Reasonable /\ Bounded
      /\ FreshRow(1).status = "pending"
  BY DEF Bounded, TypeOK, Attempts, Idle, Flow, Open, FreshRow
<1>1. ASSUME NEW w \in Workers, NEW s \in Stages, Claim(w, s) PROVE Open'
  <2>1. Claimed(ledger[s], w, s).status = "running"
    BY <1>0 DEF Claimed, Rows
  <2>2. \A u \in Stages : ledger'[u] = IF u = s THEN Claimed(ledger[s], w, s) ELSE ledger[u]
    BY <1>0, <1>1 DEF Claim
  <2>3. /\ \A u \in Stages : Waiting(ledger'[u]) => Waiting(ledger[u])
        /\ \A u \in Stages : Settled(ledger'[u]) => Settled(ledger[u])
    BY <2>1, <2>2 DEF Waiting, Settled
  <2>4. raced' = raced
    BY <1>1 DEF Claim
  <2>5. UndisturbedNotStranded'
    BY <1>0, <2>3, <2>4, StillFlowing DEF Open, UndisturbedNotStranded
  <2>6. \A v \in Workers : attempt'[v] = IF v = w
            THEN [Idle EXCEPT !.phase = "claimed", !.stage = s, !.version = want[s],
                              !.on = enabled[s]]
            ELSE attempt[v]
    BY <1>0, <1>1 DEF Claim
  <2>7. [Idle EXCEPT !.phase = "claimed", !.stage = s, !.version = want[s],
                     !.on = enabled[s]].stage = s
    BY DEF Idle
  <2>8. ASSUME ~raced', NEW v \in Workers, attempt'[v].phase # "idle"
        PROVE  ~Waiting(ledger'[attempt'[v].stage])
    <3>1. CASE v = w
      BY <2>1, <2>2, <2>6, <2>7, <3>1 DEF Waiting
    <3>2. CASE v # w
      <4>1. attempt'[v] = attempt[v]
        BY <2>6, <3>2
      <4>2. ~Waiting(ledger[attempt[v].stage])
        BY <1>0, <2>4, <2>8, <4>1 DEF Open, HeldRowsOpen
      <4> QED
        BY <1>0, <2>3, <4>1, <4>2
    <3> QED
      BY <3>1, <3>2
  <2>9. HeldRowsOpen'
    BY <2>8 DEF HeldRowsOpen
  <2> QED
    BY <2>5, <2>9 DEF Open
<1>2. ASSUME NEW w \in Workers, Begin(w) PROVE Open'
  <2> DEFINE a == attempt[w]
  <2>1. \A v \in Workers \ {w} : attempt'[v] = attempt[v]
    BY <1>0, <1>2 DEF Begin
  <2>2. a.phase = "claimed" /\ ledger' = ledger /\ raced' = raced
    BY <1>2 DEF Begin
  <2>3. attempt'[w].phase # "idle" => attempt'[w].stage = a.stage
    <3>1. \/ attempt'[w] = Idle
          \/ attempt'[w] = [Idle EXCEPT !.phase = "recording", !.stage = a.stage,
                                        !.error = "ordinary", !.found = ledger[a.stage]]
          \/ attempt'[w] = [a EXCEPT !.phase = "working", !.plan = Plan(a.stage, a.on),
                              !.reason = ledger[a.stage].reason,
                              !.producer = ledger[a.stage].producer,
                              !.hash = object.hash, !.input = Input(a.stage),
                              !.acl = object.acl]
      BY <1>0, <1>2 DEF Begin
    <3>2. [Idle EXCEPT !.phase = "recording", !.stage = a.stage,
                       !.error = "ordinary", !.found = ledger[a.stage]].stage = a.stage
      BY DEF Idle
    <3>3. a \in Attempts
      BY <1>0
    <3>4. [a EXCEPT !.phase = "working", !.plan = Plan(a.stage, a.on),
                              !.reason = ledger[a.stage].reason,
                              !.producer = ledger[a.stage].producer,
                              !.hash = object.hash, !.input = Input(a.stage),
                              !.acl = object.acl].stage = a.stage
      BY <3>3 DEF Attempts
    <3> QED
      BY <1>0, <3>1, <3>2, <3>4
  <2> HIDE DEF a
  <2>4. \A v \in Workers : attempt'[v].phase # "idle" =>
            attempt[v].phase # "idle" /\ attempt'[v].stage = attempt[v].stage
    BY <2>1, <2>2, <2>3 DEF a
  <2> QED
    BY <1>0, <2>2, <2>4, OpenIfRowsKept
<1>3. ASSUME NEW w \in Workers, Finish(w) PROVE Open'
  <2> DEFINE a == attempt[w]
             s == attempt[w].stage
             l == [ledger EXCEPT ![s] = Written(a, @)]
  <2>1. /\ s \in Stages /\ ledger[s] \in Rows /\ l \in [Stages -> Rows]
        /\ a.phase # "idle" /\ raced' = raced /\ ledger' = Unlocked(l, s)
        /\ \A v \in Workers : attempt'[v] = IF v = w THEN Idle ELSE attempt[v]
    BY <1>0, <1>3, RowWrites DEF Finish
  <2>2. ~Waiting(Written(a, ledger[s]))
    <3>1. a.reason \in {"none", "access"} /\ a.plan \in {"derive", "project", "declined", "disabled"}
      BY <1>0 DEF Reasonable, LoadedReasons, Attempts
    <3> QED
      BY <2>1, <3>1 DEF Written, Waiting, Rows
  <2>3. /\ ~Waiting(l[s])
        /\ \A u \in Stages \ {s} : l[u] = ledger[u]
    BY <1>0, <2>1, <2>2
  <2>4. \A r \in Rows : Opened(r).status = "pending"
    BY DEF Opened, Rows
  <2> HIDE DEF l, a
  <2>5. /\ s + 1 \in Stages => ~Waiting(ledger'[s + 1])
        /\ \A u \in Stages : u # s + 1 => ledger'[u] = l[u]
        /\ \A u \in Stages : ledger'[u] = l[u] \/ ledger'[u].status = "pending"
    <3>1. CASE s < N /\ Waiting(l[s + 1])
      <4>1. s + 1 \in Stages /\ ledger' = [l EXCEPT ![s + 1] = Opened(l[s + 1])]
        BY <2>1, <3>1, StageAssumption DEF Stages, Unlocked
      <4>2. ledger'[s + 1].status = "pending"
        BY <2>1, <2>4, <4>1
      <4> QED
        BY <2>1, <4>1, <4>2 DEF Waiting
    <3>2. CASE ~(s < N /\ Waiting(l[s + 1]))
      <4>1. ledger' = l
        BY <2>1, <3>2 DEF Unlocked
      <4>2. s + 1 \in Stages => s < N
        BY <2>1, StageAssumption DEF Stages
      <4> QED
        BY <3>2, <4>1, <4>2
    <3> QED
      BY <3>1, <3>2
  <2>6. \A u \in Stages : Waiting(ledger'[u]) => Waiting(ledger[u])
    BY <2>3, <2>5 DEF Waiting
  <2>7. \A u \in Stages : Settled(ledger'[u]) =>
            Settled(ledger[u]) \/ (u + 1 \in Stages => ~Waiting(ledger'[u + 1]))
    BY <2>1, <2>3, <2>5 DEF Settled
  <2>8. UndisturbedNotStranded'
    BY <1>0, <2>1, <2>6, <2>7, StillFlowing DEF Open, UndisturbedNotStranded
  <2>9. HeldRowsOpen'
    BY <1>0, <2>1, <2>6 DEF Open, HeldRowsOpen
  <2> QED
    BY <2>8, <2>9 DEF Open
<1>4. ASSUME NEW w \in Workers, NEW k \in {"ordinary", "outage", "poison"}, Raise(w, k)
      PROVE  Open'
  <2>1. [Idle EXCEPT !.phase = "recording", !.stage = attempt[w].stage, !.error = k,
                     !.found = ledger[attempt[w].stage]].stage = attempt[w].stage
    BY DEF Idle
  <2>2. /\ attempt[w].phase # "idle" /\ ledger' = ledger /\ raced' = raced
        /\ \A v \in Workers \ {w} : attempt'[v] = attempt[v]
        /\ attempt'[w].phase # "idle" => attempt'[w].stage = attempt[w].stage
    BY <1>0, <1>4, <2>1 DEF Raise
  <2> QED
    BY <1>0, <2>2, OpenIfRowsKept
<1>5. ASSUME NEW w \in Workers, RecordFailure(w) PROVE Open'
  <2> DEFINE a == attempt[w]
             s == attempt[w].stage
  <2>1. /\ s \in Stages /\ ledger[s] \in Rows /\ a.phase # "idle" /\ raced' = raced
        /\ \A u \in Stages : ledger'[u] = IF u = s THEN Recorded(a, ledger[s]) ELSE ledger[u]
        /\ \A v \in Workers : attempt'[v] = IF v = w THEN Idle ELSE attempt[v]
    BY <1>0, <1>5 DEF RecordFailure
  <2>2. /\ Recorded(a, ledger[s]).reason = "none"
        /\ Recorded(a, ledger[s]).status \in {ledger[s].status, "failed", "quarantined"}
    BY <2>1 DEF Recorded, Rows
  <2> HIDE DEF a
  <2>3. SUFFICES ASSUME ~raced PROVE Open'
    BY <2>1 DEF Open, HeldRowsOpen, UndisturbedNotStranded
  <2>4. ~Waiting(ledger[s])
    BY <1>0, <2>1, <2>3 DEF Open, HeldRowsOpen, a
  <2>5. /\ \A u \in Stages : Waiting(ledger'[u]) => Waiting(ledger[u])
        /\ \A u \in Stages : Settled(ledger'[u]) => Settled(ledger[u])
    BY <2>1, <2>2, <2>4 DEF Waiting, Settled
  <2>6. UndisturbedNotStranded'
    BY <1>0, <2>1, <2>5, StillFlowing DEF Open, UndisturbedNotStranded
  <2>7. HeldRowsOpen'
    BY <1>0, <2>1, <2>5 DEF Open, HeldRowsOpen
  <2> QED
    BY <2>6, <2>7 DEF Open
<1>6. ASSUME NEW w \in Workers, Crash(w) PROVE Open'
  BY <1>0, <1>6, OpenIfRowsKept DEF Crash
<1>7. ASSUME NEW S \in SUBSET Stages, ExpireClaims(S) PROVE Open'
  <2>1. /\ \A u \in Stages : ledger'[u] = ledger[u] \/ ledger'[u].status = "failed"
        /\ raced' = raced /\ attempt' = attempt
    BY <1>0, <1>7 DEF ExpireClaims, Rows
  <2>2. /\ \A u \in Stages : Waiting(ledger'[u]) => Waiting(ledger[u])
        /\ \A u \in Stages : Settled(ledger'[u]) => Settled(ledger[u])
    BY <2>1 DEF Waiting, Settled
  <2>3. UndisturbedNotStranded'
    BY <1>0, <2>1, <2>2, StillFlowing DEF Open, UndisturbedNotStranded
  <2>4. HeldRowsOpen'
    BY <1>0, <2>1, <2>2 DEF Open, HeldRowsOpen
  <2> QED
    BY <2>3, <2>4 DEF Open
<1>8. CASE ObserveChange
  <2>1. \A u \in Stages : IF u = 1 THEN ledger'[u].status = "pending"
                          ELSE ledger'[u].status = "skipped" /\ ledger'[u].reason = "waiting"
    BY <1>0, <1>8 DEF ObserveChange, ResetRows, FreshRow
  <2>2. NoRowStranded'
    BY <2>1, StageAssumption DEF NoRowStranded, Waiting, Settled, Stages
  <2>3. attempt' = attempt /\ raced' = UnderWay
    BY <1>8 DEF ObserveChange
  <2> QED
    BY <1>0, <2>2, <2>3 DEF Open, HeldRowsOpen, UndisturbedNotStranded, UnderWay
<1>9. CASE ObserveAccess
  <2>1. /\ \A u \in Stages : ledger'[u] = ledger[u] \/ ledger'[u].status = "pending"
        /\ attempt' = attempt /\ raced' = (raced \/ UnderWay)
    BY <1>0, <1>9 DEF ObserveAccess, AccessQueued, FreshRow
  <2>2. /\ \A u \in Stages : Waiting(ledger'[u]) => Waiting(ledger[u])
        /\ \A u \in Stages : Settled(ledger'[u]) => Settled(ledger[u])
    BY <2>1 DEF Waiting, Settled
  <2>3. NoRowStranded => NoRowStranded'
    BY <2>2, StillFlowing
  <2> QED
    BY <1>0, <2>1, <2>3 DEF Open, HeldRowsOpen, UndisturbedNotStranded, UnderWay
<1>10. CASE ObserveDeletion
  BY <1>0, <1>10, OpenIfRowsKept DEF ObserveDeletion
<1>11. ASSUME NEW i \in Stages, PutBack(i) PROVE Open'
  <2>1. \A u \in Stages : IF u < i THEN ledger'[u] = ledger[u]
                          ELSE IF u = i THEN ledger'[u].status = "pending"
                          ELSE ledger'[u].status = "skipped" /\ ledger'[u].reason = "waiting"
    BY <1>0, <1>11 DEF PutBack, Parked, FreshRow
  <2>2. NoRowStranded => NoRowStranded'
    <3> SUFFICES ASSUME NoRowStranded, NEW u \in Stages, Waiting(ledger'[u])
                 PROVE  u > 1 /\ ~Settled(ledger'[u - 1])
      BY DEF NoRowStranded, Waiting, Settled
    <3>1. u # i /\ u \in Nat /\ i \in Nat /\ i >= 1
      BY <2>1 DEF Waiting, Stages
    <3>2. CASE u < i
      <4>1. u > 1 /\ ~Settled(ledger[u - 1])
        BY <2>1, <3>2 DEF NoRowStranded
      <4>2. u - 1 \in Stages /\ u - 1 < i
        BY <3>1, <3>2, <4>1, StageAssumption DEF Stages
      <4> QED
        BY <2>1, <4>1, <4>2
    <3>3. CASE u > i
      <4>1. u > 1 /\ u - 1 \in Stages /\ ~(u - 1 < i)
        BY <3>1, <3>3, StageAssumption DEF Stages
      <4> QED
        BY <2>1, <4>1 DEF Settled, Waiting
    <3> QED
      BY <3>1, <3>2, <3>3
  <2>3. attempt' = attempt /\ raced' = (raced \/ UnderWay)
    BY <1>11 DEF PutBack
  <2> QED
    BY <1>0, <2>2, <2>3 DEF Open, HeldRowsOpen, UndisturbedNotStranded, UnderWay
<1>12. CASE RequeueNewlyEnabled
  <2>1. /\ \A u \in Stages : ledger'[u] = ledger[u] \/ ledger'[u].status = "pending"
        /\ attempt' = attempt /\ raced' = (raced \/ UnderWay)
    BY <1>0, <1>12 DEF RequeueNewlyEnabled, Rows
  <2>2. /\ \A u \in Stages : Waiting(ledger'[u]) => Waiting(ledger[u])
        /\ \A u \in Stages : Settled(ledger'[u]) => Settled(ledger[u])
    BY <2>1 DEF Waiting, Settled
  <2>3. UndisturbedNotStranded'
    BY <1>0, <2>1, <2>2, StillFlowing DEF Open, UndisturbedNotStranded
  <2>4. HeldRowsOpen'
    BY <1>0, <2>1, <2>2 DEF Open, HeldRowsOpen
  <2> QED
    BY <2>3, <2>4 DEF Open
<1>13. ASSUME NEW s \in Stages, BumpVersion(s) \/ ToggleStage(s) PROVE Open'
  BY <1>0, <1>13, OpenIfRowsKept DEF BumpVersion, ToggleStage
<1>14. CASE UNCHANGED vars
  BY <1>0, <1>14, OpenIfRowsKept DEF vars
<1>15. ASSUME RequeueOutdated \/ RequeueOntology \/ RequeueKnowledge
              \/ \E s \in Stages : RetryQuarantined(s)
       PROVE  \E i \in Stages : PutBack(i)
  BY <1>15, StageAssumption DEF RequeueOutdated, RequeueOntology, RequeueKnowledge,
                                RetryQuarantined, Stages
<1> QED
  BY <1>1, <1>2, <1>3, <1>4, <1>5, <1>6, <1>7, <1>8, <1>9, <1>10, <1>11, <1>12,
     <1>13, <1>14, <1>15 DEF Next, ExpireAbandoned, ExpireHeld

(* No stage of a document waits for ever while no scan and no requeue      *)
(* lands on a stage under way: every row that waits follows one whose end  *)
(* will open it (UndisturbedNotStranded).                                  *)
THEOREM UndisturbedFlows == Spec => []UndisturbedNotStranded
<1>1. Flow /\ [Next]_vars => Flow'
  BY StepBounded, ReasonStep, OpenStep DEF Flow, Open
<1>2. Flow => UndisturbedNotStranded
  BY DEF Flow
<1> QED
  BY <1>1, <1>2, InitFlow, PTL DEF Spec

(***************************************************************************)
(* What the steps of an attempt do, row by row                             *)
(***************************************************************************)
LEMMA BeginShape ==
    ASSUME Bounded, NEW w \in Workers, Begin(w)
    PROVE  /\ attempt[w].phase = "claimed" /\ attempt[w].stage \in Stages
           /\ \A v \in Workers : v # w => attempt'[v] = attempt[v]
           /\ \/ attempt'[w].phase = "idle"
              \/ /\ ledger[attempt[w].stage].status = "running"
                 /\ attempt'[w].phase = "recording" /\ attempt'[w].stage = attempt[w].stage
                 /\ attempt'[w].error = "ordinary"
                 /\ attempt'[w].found = ledger[attempt[w].stage]
              \/ /\ ledger[attempt[w].stage].status = "running"
                 /\ ~Unfetched(attempt[w].stage, attempt[w].on)
                 /\ attempt'[w].phase = "working" /\ attempt'[w].stage = attempt[w].stage
                 /\ attempt'[w].version = attempt[w].version /\ attempt'[w].on = attempt[w].on
                 /\ attempt'[w].plan = Plan(attempt[w].stage, attempt[w].on)
                 /\ attempt'[w].reason = ledger[attempt[w].stage].reason
                 /\ attempt'[w].producer = ledger[attempt[w].stage].producer
                 /\ attempt'[w].hash = object.hash /\ attempt'[w].acl = object.acl
                 /\ attempt'[w].input = Input(attempt[w].stage)
<1> DEFINE a == attempt[w]
           row == ledger[a.stage]
           began == [a EXCEPT !.phase = "working", !.plan = Plan(a.stage, a.on),
                              !.reason = row.reason, !.producer = row.producer,
                              !.hash = object.hash, !.input = Input(a.stage),
                              !.acl = object.acl]
           failed == [Idle EXCEPT !.phase = "recording", !.stage = a.stage,
                                  !.error = "ordinary", !.found = row]
<1>1. attempt \in [Workers -> Attempts] /\ a \in Attempts /\ a.stage \in Stages
  BY DEF Bounded, TypeOK, Attempts
<1>2. a.phase = "claimed" /\ \A v \in Workers : v # w => attempt'[v] = attempt[v]
  BY <1>1 DEF Begin
<1>3. CASE row.status # "running"
  BY <1>1, <1>2, <1>3 DEF Begin, Idle
<1>4. CASE row.status = "running" /\ Unfetched(a.stage, a.on)
  <2>1. attempt'[w] = failed
    BY <1>1, <1>4 DEF Begin
  <2>2. failed.phase = "recording" /\ failed.stage = a.stage /\ failed.error = "ordinary"
        /\ failed.found = row
    BY DEF Idle
  <2> QED
    BY <1>1, <1>2, <1>4, <2>1, <2>2
<1>5. CASE row.status = "running" /\ ~Unfetched(a.stage, a.on)
  <2>1. attempt'[w] = began
    BY <1>1, <1>5 DEF Begin
  <2>2. /\ began.phase = "working" /\ began.stage = a.stage /\ began.version = a.version
        /\ began.on = a.on /\ began.plan = Plan(a.stage, a.on)
        /\ began.reason = row.reason /\ began.producer = row.producer
        /\ began.hash = object.hash /\ began.acl = object.acl
        /\ began.input = Input(a.stage)
    BY <1>1 DEF Attempts
  <2> HIDE DEF began
  <2> QED
    BY <1>1, <1>2, <1>5, <2>1, <2>2
<1> QED
  BY <1>3, <1>4, <1>5

LEMMA FinishShape ==
    ASSUME Bounded, NEW w \in Workers, Finish(w)
    PROVE  /\ attempt[w].phase = "working" /\ attempt[w].stage \in Stages
           /\ attempt'[w].phase = "idle"
           /\ \A v \in Workers : v # w => attempt'[v] = attempt[v]
           /\ ledger'[attempt[w].stage] = Written(attempt[w], ledger[attempt[w].stage])
           /\ \A u \in Stages : u # attempt[w].stage =>
                 \/ ledger'[u] = ledger[u]
                 \/ /\ u = attempt[w].stage + 1 /\ Waiting(ledger[u])
                    /\ ledger'[u] = Opened(ledger[u])
<1> DEFINE a == attempt[w]
           s == attempt[w].stage
           l == [ledger EXCEPT ![s] = Written(a, @)]
<1>1. /\ attempt \in [Workers -> Attempts] /\ s \in Stages /\ ledger \in [Stages -> Rows]
      /\ a.phase = "working" /\ ledger' = Unlocked(l, s)
      /\ \A v \in Workers : attempt'[v] = IF v = w THEN Idle ELSE attempt[v]
  BY DEF Bounded, TypeOK, Attempts, Finish
<1>2. /\ l[s] = Written(a, ledger[s]) /\ \A u \in Stages : u # s => l[u] = ledger[u]
      /\ \A u \in Stages : l[u] \in Rows
      /\ l \in [Stages -> Rows]
  <2>1. a \in Attempts /\ Written(a, ledger[s]) \in Rows
    BY <1>1, RowWrites
  <2> QED
    BY <1>1, <2>1
<1> HIDE DEF l
<1>3. CASE s < N /\ Waiting(l[s + 1])
  <2>1. s + 1 \in Stages /\ s + 1 # s
    BY <1>1, <1>3, StageAssumption DEF Stages
  <2>2. ledger' = [l EXCEPT ![s + 1] = Opened(l[s + 1])]
    BY <1>1, <1>3 DEF Unlocked
  <2> QED
    BY <1>1, <1>2, <1>3, <2>1, <2>2 DEF Idle
<1>4. CASE ~(s < N /\ Waiting(l[s + 1]))
  BY <1>1, <1>2, <1>4 DEF Unlocked, Idle
<1> QED
  BY <1>3, <1>4

LEMMA RaiseShape ==
    ASSUME Bounded, NEW w \in Workers, NEW k \in {"ordinary", "outage", "poison"}, Raise(w, k)
    PROVE  /\ attempt[w].phase = "working" /\ attempt[w].stage \in Stages
           /\ \A v \in Workers : v # w => attempt'[v] = attempt[v]
           /\ \/ attempt'[w].phase = "idle"
              \/ /\ attempt'[w].phase = "recording" /\ attempt'[w].stage = attempt[w].stage
                 /\ attempt'[w].found = ledger[attempt[w].stage]
<1>1. [Idle EXCEPT !.phase = "recording", !.stage = attempt[w].stage, !.error = k,
                   !.found = ledger[attempt[w].stage]].phase = "recording"
  BY DEF Idle
<1>2. /\ [Idle EXCEPT !.phase = "recording", !.stage = attempt[w].stage, !.error = k,
                      !.found = ledger[attempt[w].stage]].stage = attempt[w].stage
      /\ [Idle EXCEPT !.phase = "recording", !.stage = attempt[w].stage, !.error = k,
                !.found = ledger[attempt[w].stage]].found = ledger[attempt[w].stage]
  BY DEF Idle
<1>3. attempt \in [Workers -> Attempts] /\ attempt[w].stage \in Stages /\ Idle.phase = "idle"
  BY DEF Bounded, TypeOK, Attempts, Idle
<1> QED
  BY <1>1, <1>2, <1>3 DEF Raise

(***************************************************************************)
(* Quarantine                                                              *)
(*                                                                         *)
(* The attempts of a row are paid for by strikes, with one to spare while  *)
(* it is claimed; the row a failing attempt found was so as well.          *)
(***************************************************************************)
Paid(s) ==
    /\ ledger[s].attempts <= OneMore(strikes[s])
    /\ (ledger[s].status \in {"pending", "failed"} \/ Waiting(ledger[s])) =>
           ledger[s].attempts <= strikes[s]
    /\ ledger[s].status = "quarantined" => strikes[s] >= MaxAttempts
FoundPaid(w) == attempt[w].phase = "recording" =>
    attempt[w].found.attempts <= OneMore(strikes[attempt[w].stage])
Struck == ~raced => /\ \A s \in Stages : Paid(s)
                    /\ \A w \in Workers : FoundPaid(w)

LEMMA OneMoreFacts ==
    ASSUME NEW n \in 0 .. MaxAttempts, NEW m \in 0 .. MaxAttempts
    PROVE  /\ OneMore(n) \in 0 .. MaxAttempts /\ n <= OneMore(n)
           /\ n <= m => OneMore(n) <= OneMore(m)
           /\ OneMore(MaxAttempts) = MaxAttempts
  BY AttemptAssumption DEF OneMore

LEMMA StrikeTypes ==
    ASSUME Bounded
    PROVE  /\ \A s \in Stages : /\ ledger[s] \in Rows /\ strikes[s] \in 0 .. MaxAttempts
                                /\ ledger[s].attempts \in 0 .. MaxAttempts
           /\ \A w \in Workers : /\ attempt[w] \in Attempts /\ attempt[w].stage \in Stages
                                 /\ attempt[w].found \in Rows
                                 /\ attempt[w].found.attempts \in 0 .. MaxAttempts
           /\ MaxAttempts \in 0 .. MaxAttempts
<1>1. \A s \in Stages : ledger[s] \in Rows /\ strikes[s] \in 0 .. MaxAttempts
  BY DEF Bounded, TypeOK
<1>2. \A w \in Workers : attempt[w] \in Attempts
  BY DEF Bounded, TypeOK
<1>3. \A a \in Attempts : a.stage \in Stages /\ a.found \in Rows
  BY DEF Attempts
<1>4. \A r \in Rows : r.attempts \in 0 .. MaxAttempts
  BY DEF Rows
<1> QED
  BY <1>1, <1>2, <1>3, <1>4, AttemptAssumption

(* A step that leaves the counters alone keeps an attempt paid for.        *)
LEMMA FoundStays ==
    ASSUME Bounded, Bounded', NEW w \in Workers, FoundPaid(w), attempt'[w] = attempt[w],
           \A s \in Stages : strikes[s] <= strikes'[s]
    PROVE  FoundPaid(w)'
<1> DEFINE s == attempt[w].stage
<1>1. /\ s \in Stages /\ strikes[s] \in 0 .. MaxAttempts /\ strikes'[s] \in 0 .. MaxAttempts
      /\ attempt[w].found.attempts \in 0 .. MaxAttempts
  BY StrikeTypes DEF Bounded, TypeOK
<1>2. OneMore(strikes[s]) <= OneMore(strikes'[s])
  BY <1>1, OneMoreFacts
<1>3. OneMore(strikes[s]) \in 0 .. MaxAttempts /\ OneMore(strikes'[s]) \in 0 .. MaxAttempts
  BY <1>1, OneMoreFacts
<1>4. OneMore(strikes[s])' = OneMore(strikes'[s])
  BY DEF OneMore
<1> HIDE DEF s
<1>5. attempt[w].phase = "recording" => attempt[w].found.attempts <= OneMore(strikes'[s])
  BY <1>1, <1>2, <1>3 DEF FoundPaid, s
<1> QED
  BY <1>5 DEF FoundPaid, OneMore, s

(* A row that keeps its status, its reason and its attempts stays paid for *)
(* while nothing is forgiven.                                              *)
LEMMA PaidStays ==
    ASSUME Bounded, Bounded', NEW s \in Stages, Paid(s), ledger'[s] = ledger[s],
           strikes[s] <= strikes'[s]
    PROVE  Paid(s)'
<1>1. /\ strikes[s] \in 0 .. MaxAttempts /\ strikes'[s] \in 0 .. MaxAttempts
      /\ ledger[s].attempts \in 0 .. MaxAttempts
  BY StrikeTypes DEF Bounded, TypeOK
<1>2. /\ OneMore(strikes[s]) <= OneMore(strikes'[s])
      /\ OneMore(strikes[s]) \in 0 .. MaxAttempts /\ OneMore(strikes'[s]) \in 0 .. MaxAttempts
  BY <1>1, OneMoreFacts
<1>3. ledger[s].attempts <= OneMore(strikes'[s])
  BY <1>1, <1>2 DEF Paid
<1>4. (ledger[s].status \in {"pending", "failed"} \/ Waiting(ledger[s])) =>
          ledger[s].attempts <= strikes'[s]
  BY <1>1 DEF Paid
<1>5. ledger[s].status = "quarantined" => strikes'[s] >= MaxAttempts
  BY <1>1, AttemptAssumption DEF Paid
<1> QED
  BY <1>3, <1>4, <1>5 DEF Paid, OneMore, Waiting

(* A row whose attempts and strikes are both reset is paid for.            *)
LEMMA PaidAnew ==
    ASSUME Bounded', NEW s \in Stages, ledger'[s].attempts = 0, ledger'[s].status # "quarantined"
    PROVE  Paid(s)'
<1>1. strikes'[s] \in 0 .. MaxAttempts
  BY DEF Bounded, TypeOK
<1>2. 0 <= strikes'[s] /\ 0 <= OneMore(strikes'[s])
  BY <1>1, AttemptAssumption DEF OneMore
<1> QED
  BY <1>2 DEF Paid, OneMore, Waiting

(* Every row either stays as it was or starts anew, and no attempt is      *)
(* under way or attempts stay as they were: work put back.                 *)
LEMMA StruckIfPutBack ==
    ASSUME Bounded, Bounded', Struck, attempt' = attempt, ~raced' => ~raced /\ ~UnderWay,
           \A s \in Stages :
              \/ ledger'[s] = ledger[s] /\ strikes'[s] = strikes[s]
              \/ ledger'[s].attempts = 0 /\ ledger'[s].status # "quarantined"
    PROVE  Struck'
<1> SUFFICES ASSUME ~raced' PROVE (\A s \in Stages : Paid(s)') /\ \A w \in Workers : FoundPaid(w)'
  BY DEF Struck
<1>1. ASSUME NEW s \in Stages PROVE Paid(s)'
  <2>1. strikes[s] \in 0 .. MaxAttempts
    BY StrikeTypes
  <2>2. CASE ledger'[s] = ledger[s] /\ strikes'[s] = strikes[s]
    BY <2>1, <2>2, PaidStays DEF Struck
  <2>3. CASE ledger'[s].attempts = 0 /\ ledger'[s].status # "quarantined"
    BY <2>3, PaidAnew
  <2> QED
    BY <2>2, <2>3
<1>2. \A w \in Workers : FoundPaid(w)'
  BY DEF UnderWay, FoundPaid
<1> QED
  BY <1>1, <1>2

LEMMA StruckFinish ==
    ASSUME Bounded, Bounded', Reasonable, Struck, NEW w \in Workers, Finish(w)
    PROVE  Struck'
<1> DEFINE a == attempt[w]
<1>0. PICK s \in Stages : s = attempt[w].stage
  BY StrikeTypes
<1>1. raced' = raced /\ strikes' = strikes /\ s \in Stages /\ a \in Attempts
  BY <1>0, StrikeTypes DEF Finish, history
<1> SUFFICES ASSUME ~raced PROVE (\A u \in Stages : Paid(u)') /\ \A v \in Workers : FoundPaid(v)'
  BY <1>1 DEF Struck
<1>2. /\ Written(a, ledger[s]).attempts = ledger[s].attempts
      /\ Written(a, ledger[s]).status \in {"done", "skipped"}
      /\ ~Waiting(Written(a, ledger[s]))
  <2>1. a.reason \in {"none", "access"} /\ a.plan \in {"derive", "project", "declined", "disabled"}
    BY <1>1 DEF Reasonable, LoadedReasons, Attempts
  <2>2. ledger[s] \in Rows
    BY StrikeTypes
  <2> QED
    BY <2>1, <2>2 DEF Written, Waiting, Rows
<1>3. Paid(s)'
  <2>1. ledger'[s] = Written(a, ledger[s])
    BY <1>0, FinishShape
  <2>2. ledger[s].attempts <= OneMore(strikes[s])
    BY <1>1 DEF Struck, Paid
  <2>3. OneMore(strikes[s])' = OneMore(strikes[s])
    BY <1>1 DEF OneMore
  <2> QED
    BY <1>1, <1>2, <2>1, <2>2, <2>3 DEF Paid, OneMore, Waiting
<1>4. ASSUME NEW u \in Stages, u # s PROVE Paid(u)'
  <2>1. strikes[u] \in 0 .. MaxAttempts /\ ledger[u] \in Rows /\ Paid(u)
    BY <1>0, StrikeTypes DEF Struck
  <2>2. CASE ledger'[u] = ledger[u]
    BY <1>1, <2>1, <2>2, PaidStays
  <2>3. CASE Waiting(ledger[u]) /\ ledger'[u] = Opened(ledger[u])
    <3>1. ledger'[u].attempts = ledger[u].attempts /\ ledger'[u].status = "pending"
      BY <2>1, <2>3 DEF Opened, Rows
    <3>2. ledger[u].attempts <= strikes[u] /\ ledger[u].attempts <= OneMore(strikes[u])
      BY <2>1, <2>3 DEF Paid
    <3> QED
      BY <1>1, <3>1, <3>2 DEF Paid, OneMore, Waiting
  <2> QED
    BY <1>4, <2>2, <2>3, <1>0, FinishShape
<1>5. ASSUME NEW v \in Workers PROVE FoundPaid(v)'
  <2>1. \A u \in Stages : strikes[u] <= strikes'[u]
    BY <1>1, StrikeTypes
  <2>2. CASE v = w
    BY <2>2, FinishShape DEF FoundPaid
  <2>3. CASE v # w
    BY <2>1, <2>3, FinishShape, FoundStays DEF Struck
  <2> QED
    BY <2>2, <2>3
<1> QED
  BY <1>3, <1>4, <1>5

LEMMA StruckRecord ==
    ASSUME Bounded, Bounded', Struck, NEW w \in Workers, RecordFailure(w)
    PROVE  Struck'
<1> DEFINE a == attempt[w]
<1>0. PICK s \in Stages : s = attempt[w].stage
  BY StrikeTypes
<1>1. /\ raced' = raced /\ s \in Stages /\ ledger[s] \in Rows
      /\ strikes[s] \in 0 .. MaxAttempts /\ ledger[s].attempts \in 0 .. MaxAttempts
      /\ a.found.attempts \in 0 .. MaxAttempts /\ a.phase = "recording"
      /\ ledger \in [Stages -> Rows] /\ strikes \in [Stages -> 0 .. MaxAttempts]
      /\ attempt \in [Workers -> Attempts]
  BY <1>0, StrikeTypes DEF RecordFailure, Bounded, TypeOK
<1> SUFFICES ASSUME ~raced PROVE (\A u \in Stages : Paid(u)') /\ \A v \in Workers : FoundPaid(v)'
  BY <1>1 DEF Struck
<1>2. /\ ledger'[s] = Recorded(a, ledger[s]) /\ \A u \in Stages : u # s => ledger'[u] = ledger[u]
      /\ strikes'[s] = IF a.error = "poison" THEN MaxAttempts ELSE OneMore(strikes[s])
      /\ \A u \in Stages : u # s => strikes'[u] = strikes[u]
      /\ \A v \in Workers : attempt'[v] = IF v = w THEN Idle ELSE attempt[v]
  BY <1>0, <1>1 DEF RecordFailure
<1>3. /\ OneMore(strikes[s]) \in 0 .. MaxAttempts /\ strikes[s] <= OneMore(strikes[s])
      /\ OneMore(strikes[s]) <= strikes'[s] /\ strikes'[s] <= MaxAttempts
      /\ strikes'[s] \in 0 .. MaxAttempts
  BY <1>1, <1>2, OneMoreFacts, AttemptAssumption
<1>4. Paid(s)'
  <2>1. /\ ledger'[s].attempts = ledger[s].attempts /\ ledger'[s].reason = "none"
        /\ ledger'[s].status = "quarantined" => ledger[s].status = "quarantined" \/ Quarantines(a)
    BY <1>1, <1>2 DEF Recorded, Rows
  <2>2. /\ ledger[s].attempts <= OneMore(strikes[s])
        /\ ledger[s].status = "quarantined" => strikes[s] >= MaxAttempts
        /\ a.found.attempts <= OneMore(strikes[s])
    BY <1>0, <1>1 DEF Struck, Paid, FoundPaid
  <2>3. ledger'[s].attempts <= strikes'[s]
    BY <1>1, <1>3, <2>1, <2>2
  <2>4. strikes'[s] <= OneMore(strikes'[s]) /\ OneMore(strikes'[s]) \in 0 .. MaxAttempts
    BY <1>3, OneMoreFacts
  <2>5. ledger'[s].attempts <= OneMore(strikes'[s])
    BY <1>1, <1>3, <2>1, <2>3, <2>4
  <2>6. ledger'[s].status = "quarantined" => strikes'[s] >= MaxAttempts
    <3>1. Quarantines(a) => strikes'[s] >= MaxAttempts
      BY <1>1, <1>2, <1>3, <2>2, AttemptAssumption DEF Quarantines
    <3>2. strikes[s] >= MaxAttempts => strikes'[s] >= MaxAttempts
      BY <1>1, <1>3, AttemptAssumption
    <3> QED
      BY <2>1, <2>2, <3>1, <3>2
  <2> QED
    BY <2>3, <2>5, <2>6 DEF Paid, OneMore, Waiting
<1>5. ASSUME NEW u \in Stages, u # s PROVE Paid(u)'
  <2>1. strikes[u] \in 0 .. MaxAttempts
    BY StrikeTypes
  <2> QED
    BY <1>2, <1>5, <2>1, PaidStays DEF Struck
<1>6. ASSUME NEW v \in Workers PROVE FoundPaid(v)'
  <2>1. \A u \in Stages : strikes[u] <= strikes'[u]
    BY <1>1, <1>2, <1>3, StrikeTypes
  <2>2. CASE v = w
    BY <1>2, <2>2 DEF FoundPaid, Idle
  <2>3. CASE v # w
    BY <1>2, <2>1, <2>3, FoundStays DEF Struck
  <2> QED
    BY <2>2, <2>3
<1> QED
  BY <1>4, <1>5, <1>6

LEMMA StruckExpire ==
    ASSUME Bounded, Bounded', Struck, NEW S \in SUBSET Stages, ExpireClaims(S)
    PROVE  Struck'
<1>1. /\ raced' = raced /\ attempt' = attempt
      /\ \A s \in Stages : IF s \in S
            THEN /\ ledger'[s].attempts = ledger[s].attempts /\ ledger'[s].status = "failed"
                 /\ strikes'[s] = OneMore(strikes[s])
            ELSE ledger'[s] = ledger[s] /\ strikes'[s] = strikes[s]
  <2>1. \A s \in Stages :
            LET r == [ledger[s] EXCEPT !.status = "failed", !.reason = "none"]
            IN  r.attempts = ledger[s].attempts /\ r.status = "failed"
    BY StrikeTypes DEF Rows
  <2>2. /\ raced' = raced /\ attempt' = attempt
        /\ \A s \in Stages : IF s \in S
              THEN /\ ledger'[s] = [ledger[s] EXCEPT !.status = "failed", !.reason = "none"]
                   /\ strikes'[s] = OneMore(strikes[s])
              ELSE ledger'[s] = ledger[s] /\ strikes'[s] = strikes[s]
    BY DEF ExpireClaims, history
  <2> QED
    BY <2>1, <2>2
<1> SUFFICES ASSUME ~raced PROVE (\A u \in Stages : Paid(u)') /\ \A v \in Workers : FoundPaid(v)'
  BY <1>1 DEF Struck
<1>2. \A s \in Stages : /\ strikes[s] \in 0 .. MaxAttempts /\ strikes[s] <= OneMore(strikes[s])
                        /\ OneMore(strikes[s]) \in 0 .. MaxAttempts
  BY StrikeTypes, OneMoreFacts
<1>3. \A s \in Stages : strikes[s] <= strikes'[s]
  BY <1>1, <1>2
<1>4. ASSUME NEW s \in Stages PROVE Paid(s)'
  <2>1. CASE s \notin S
    BY <1>1, <1>3, <2>1, PaidStays DEF Struck
  <2>2. CASE s \in S
    <3>1. ledger[s] \in Rows /\ ledger[s].attempts \in 0 .. MaxAttempts
      BY StrikeTypes
    <3>2. /\ ledger'[s].attempts = ledger[s].attempts /\ ledger'[s].status = "failed"
      BY <1>1, <2>2
    <3>3. ledger[s].attempts <= strikes'[s]
      BY <1>1, <2>2 DEF Struck, Paid
    <3>4. strikes'[s] <= OneMore(strikes'[s]) /\ OneMore(strikes'[s]) \in 0 .. MaxAttempts
          /\ strikes'[s] \in 0 .. MaxAttempts
      BY <1>1, <1>2, <2>2, OneMoreFacts
    <3>5. ledger[s].attempts <= OneMore(strikes'[s])
      BY <3>1, <3>3, <3>4
    <3> QED
      BY <3>2, <3>3, <3>5 DEF Paid, OneMore, Waiting
  <2> QED
    BY <2>1, <2>2
<1>5. \A v \in Workers : FoundPaid(v)'
  BY <1>1, <1>3, FoundStays DEF Struck
<1> QED
  BY <1>4, <1>5

LEMMA StruckStep == Bounded /\ Reasonable /\ Struck /\ [Next]_vars => Struck'
<1> SUFFICES ASSUME Bounded, Reasonable, Struck, [Next]_vars PROVE Struck'
  OBVIOUS
<1> USE DEF config, history
<1>0. Bounded' /\ \A u \in Stages : strikes[u] <= strikes[u]
  BY StepBounded, StrikeTypes
<1>a. /\ ledger \in [Stages -> Rows] /\ attempt \in [Workers -> Attempts]
      /\ \A s \in Stages : strikes[s] \in 0 .. MaxAttempts
  BY StrikeTypes DEF Bounded, TypeOK
<1>1. ASSUME NEW w \in Workers, NEW s \in Stages, Claim(w, s) PROVE Struck'
  <2>1. /\ raced' = raced /\ strikes' = strikes /\ Claimable(ledger[s])
        /\ ledger'[s] = Claimed(ledger[s], w, s)
        /\ \A u \in Stages : u # s => ledger'[u] = ledger[u]
        /\ \A v \in Workers : v # w => attempt'[v] = attempt[v]
    BY <1>1, <1>a DEF Claim
  <2> SUFFICES ASSUME ~raced PROVE (\A u \in Stages : Paid(u)') /\ \A v \in Workers : FoundPaid(v)'
    BY <2>1 DEF Struck
  <2>2. Paid(s)'
    <3>1. /\ ledger'[s].status = "running" /\ ledger'[s].attempts = OneMore(ledger[s].attempts)
      BY <1>a, <2>1 DEF Claimed, Rows
    <3>2. ledger[s].attempts <= strikes[s]
      BY <2>1 DEF Claimable, Struck, Paid
    <3>3. OneMore(ledger[s].attempts) <= OneMore(strikes[s])
      BY <3>2, StrikeTypes, OneMoreFacts
    <3> QED
      BY <2>1, <3>1, <3>3 DEF Paid, OneMore, Waiting
  <2>3. ASSUME NEW u \in Stages, u # s PROVE Paid(u)'
    BY <1>0, <2>1, <2>3, PaidStays DEF Struck
  <2>4. ASSUME NEW v \in Workers PROVE FoundPaid(v)'
    <3>1. CASE v = w
      <4>1. attempt'[w].phase = "claimed"
        BY <1>1, <1>a DEF Claim, Idle
      <4> QED
        BY <3>1, <4>1 DEF FoundPaid
    <3>2. CASE v # w
      BY <1>0, <2>1, <3>2, FoundStays DEF Struck
    <3> QED
      BY <3>1, <3>2
  <2> QED
    BY <2>2, <2>3, <2>4
<1>2. ASSUME NEW w \in Workers,
             Begin(w) \/ \E k \in {"ordinary", "outage", "poison"} : Raise(w, k)
      PROVE  Struck'
  <2>1. raced' = raced /\ strikes' = strikes /\ ledger' = ledger
    BY <1>2 DEF Begin, Raise
  <2>2. PICK s \in Stages : s = attempt[w].stage
    BY StrikeTypes
  <2> SUFFICES ASSUME ~raced PROVE (\A u \in Stages : Paid(u)') /\ \A v \in Workers : FoundPaid(v)'
    BY <2>1 DEF Struck
  <2>3. \A u \in Stages : Paid(u)'
    BY <1>0, <2>1, PaidStays DEF Struck
  <2>4. /\ \A v \in Workers : v # w => attempt'[v] = attempt[v]
        /\ attempt'[w].phase = "recording" =>
              attempt'[w].stage = s /\ attempt'[w].found = ledger[s]
    BY <1>2, <2>2, BeginShape, RaiseShape
  <2>5. FoundPaid(w)'
    <3>1. ledger[s].attempts <= OneMore(strikes[s])
      BY DEF Struck, Paid
    <3> QED
      BY <2>1, <2>4, <3>1 DEF FoundPaid, OneMore
  <2>6. ASSUME NEW v \in Workers, v # w PROVE FoundPaid(v)'
    BY <1>0, <2>1, <2>4, <2>6, FoundStays DEF Struck
  <2> QED
    BY <2>3, <2>5, <2>6
<1>3. ASSUME NEW w \in Workers, Crash(w) PROVE Struck'
  <2>1. /\ raced' = raced /\ strikes' = strikes /\ ledger' = ledger
        /\ \A v \in Workers : attempt'[v] = IF v = w THEN Idle ELSE attempt[v]
    BY <1>3, <1>a DEF Crash
  <2>2. FoundPaid(w)'
    BY <2>1 DEF FoundPaid, Idle
  <2> QED
    BY <1>0, <2>1, <2>2, PaidStays, FoundStays DEF Struck
<1>4. CASE ObserveChange
  <2>1. \A s \in Stages : ledger'[s].attempts = 0 /\ ledger'[s].status # "quarantined"
    BY <1>4 DEF ObserveChange, ResetRows, FreshRow
  <2>2. attempt' = attempt /\ raced' = UnderWay
    BY <1>4 DEF ObserveChange
  <2>3. \A s \in Stages : Paid(s)'
    BY <1>0, <2>1, PaidAnew
  <2>4. ~raced' => \A w \in Workers : FoundPaid(w)'
    BY <2>2 DEF UnderWay, FoundPaid
  <2> QED
    BY <2>3, <2>4 DEF Struck
<1>5. CASE ObserveAccess
  <2>1. attempt' = attempt /\ (~raced' => ~raced /\ ~UnderWay)
    BY <1>5 DEF ObserveAccess
  <2>2. ASSUME NEW s \in Stages
        PROVE  \/ ledger'[s] = ledger[s] /\ strikes'[s] = strikes[s]
               \/ ledger'[s].attempts = 0 /\ ledger'[s].status # "quarantined"
    <3>1. CASE ledger' = ledger
      BY <1>5, <3>1 DEF ObserveAccess, Forgiven
    <3>2. CASE ledger' # ledger
      <4>1. ledger' = [ledger EXCEPT ![N] = [FreshRow(1) EXCEPT !.reason = "access"]]
        BY <1>5, <3>2 DEF ObserveAccess, AccessQueued
      <4>2. strikes' = Forgiven({N})
        BY <1>5, <3>2 DEF ObserveAccess
      <4>3. [FreshRow(1) EXCEPT !.reason = "access"].attempts = 0
            /\ [FreshRow(1) EXCEPT !.reason = "access"].status = "pending"
        BY DEF FreshRow
      <4> QED
        BY <1>a, <4>1, <4>2, <4>3 DEF Forgiven
    <3> QED
      BY <3>1, <3>2
  <2> QED
    BY <1>0, <2>1, <2>2, StruckIfPutBack
<1>6. ASSUME NEW i \in Stages, PutBack(i) PROVE Struck'
  <2>1. attempt' = attempt /\ (~raced' => ~raced /\ ~UnderWay)
    BY <1>6 DEF PutBack
  <2>2. ASSUME NEW s \in Stages
        PROVE  \/ ledger'[s] = ledger[s] /\ strikes'[s] = strikes[s]
               \/ ledger'[s].attempts = 0 /\ ledger'[s].status # "quarantined"
    <3>1. CASE s < i
      <4>1. s \notin i .. N
        BY <3>1 DEF Stages
      <4> QED
        BY <1>6, <3>1, <4>1 DEF PutBack, Parked, Forgiven
    <3>2. CASE ~(s < i)
      BY <1>6, <3>2 DEF PutBack, Parked, FreshRow
    <3> QED
      BY <3>1, <3>2
  <2> QED
    BY <1>0, <2>1, <2>2, StruckIfPutBack
<1>7. CASE RequeueNewlyEnabled
  <2>1. attempt' = attempt /\ (~raced' => ~raced /\ ~UnderWay)
    BY <1>7 DEF RequeueNewlyEnabled
  <2>2. ASSUME NEW s \in Stages
        PROVE  \/ ledger'[s] = ledger[s] /\ strikes'[s] = strikes[s]
               \/ ledger'[s].attempts = 0 /\ ledger'[s].status # "quarantined"
    <3>1. CASE s \in NewlyEnabled
      <4>1. ledger'[s] = [ledger[s] EXCEPT !.status = "pending", !.reason = "none", !.attempts = 0]
        BY <1>7, <3>1 DEF RequeueNewlyEnabled
      <4> QED
        BY <1>a, <4>1 DEF Rows
    <3>2. CASE s \notin NewlyEnabled
      BY <1>7, <3>2 DEF RequeueNewlyEnabled, Forgiven
    <3> QED
      BY <3>1, <3>2
  <2> QED
    BY <1>0, <2>1, <2>2, StruckIfPutBack
<1>8. CASE UNCHANGED <<ledger, attempt, raced, strikes>>
  BY <1>0, <1>8, PaidStays, FoundStays DEF Struck
<1>9. ASSUME ObserveDeletion \/ (\E s \in Stages : BumpVersion(s) \/ ToggleStage(s))
             \/ UNCHANGED vars
      PROVE  UNCHANGED <<ledger, attempt, raced, strikes>>
  BY <1>9 DEF ObserveDeletion, BumpVersion, ToggleStage, vars
<1>10. ASSUME RequeueOutdated \/ RequeueOntology \/ RequeueKnowledge
              \/ \E s \in Stages : RetryQuarantined(s)
       PROVE  \E i \in Stages : PutBack(i)
  BY <1>10, StageAssumption DEF RequeueOutdated, RequeueOntology, RequeueKnowledge,
                                RetryQuarantined, Stages
<1>11. ASSUME NEW w \in Workers, Finish(w) \/ RecordFailure(w) PROVE Struck'
  BY <1>0, <1>11, StruckFinish, StruckRecord
<1>12. ASSUME NEW S \in SUBSET Stages, ExpireAbandoned(S) \/ ExpireHeld(S) PROVE Struck'
  BY <1>0, <1>12, StruckExpire DEF ExpireAbandoned, ExpireHeld
<1> QED
  BY <1>1, <1>2, <1>3, <1>4, <1>5, <1>6, <1>7, <1>8, <1>9, <1>10, <1>11, <1>12 DEF Next

(* A stage is quarantined only after a poison failure, or after as many    *)
(* failures and lost claims since its attempts were reset as max_attempts  *)
(* allows, while nothing was put back under an attempt                     *)
(* (UndisturbedQuarantine).                                                *)
THEOREM QuarantineEarned == Spec => []UndisturbedQuarantine
<1>1. Init => Struck
  <2> SUFFICES ASSUME Init, NEW s \in Stages PROVE Paid(s) /\ \A w \in Workers : FoundPaid(w)
    BY StageAssumption DEF Struck, Stages
  <2> QED
    BY AttemptAssumption DEF Init, Paid, FoundPaid, FreshRow, Idle, Waiting, OneMore
<1>2. Struck => UndisturbedQuarantine
  BY DEF Struck, Paid, UndisturbedQuarantine
<1>3. Init => Bounded /\ Reasonable
  BY InitFlow DEF Flow
<1>4. Bounded /\ Reasonable /\ Struck /\ [Next]_vars => (Bounded /\ Reasonable /\ Struck)'
  BY StepBounded, ReasonStep, StruckStep
<1> QED
  BY <1>1, <1>2, <1>3, <1>4, PTL DEF Spec

(***************************************************************************)
(* Permissions compiled into the chunks                                    *)
(*                                                                         *)
(* A stage under way started from the permissions last seen, as they do    *)
(* not change under it without counting as a race.                         *)
(***************************************************************************)
Startled(w) == attempt[w].phase = "working" =>
    /\ attempt[w].acl = object.acl
    /\ attempt[w].plan = "declined" => attempt[w].stage = 1
Compiled == ~raced => /\ ledger[N].status = "done" => projected = object.acl
                      /\ \A w \in Workers : Startled(w)

LEMMA CompiledIfIndexKept ==
    ASSUME Compiled, ~raced' => ~raced,
           ledger'[N].status = "done" => ledger[N].status = "done",
           projected' = projected, object'.acl = object.acl,
           \A w \in Workers : attempt'[w] = attempt[w] \/ attempt'[w].phase # "working"
    PROVE  Compiled'
  BY DEF Compiled, Startled

LEMMA CompiledStep == Bounded /\ Reasonable /\ Compiled /\ [Next]_vars => Compiled'
<1> SUFFICES ASSUME Bounded, Reasonable, Compiled, [Next]_vars PROVE Compiled'
  OBVIOUS
<1> USE DEF config, history
<1>0. /\ ledger \in [Stages -> Rows] /\ attempt \in [Workers -> Attempts]
      /\ \A w \in Workers : attempt[w].stage \in Stages
      /\ N \in Stages /\ N # 1 /\ object \in Objects
  BY StrikeTypes, StageAssumption DEF Bounded, TypeOK, Stages
<1>1. ASSUME NEW w \in Workers, NEW s \in Stages, Claim(w, s) PROVE Compiled'
  <2>1. /\ raced' = raced /\ projected' = projected /\ object' = object
        /\ ledger' = [ledger EXCEPT ![s] = Claimed(ledger[s], w, s)]
        /\ \A v \in Workers : v # w => attempt'[v] = attempt[v]
    BY <1>1, <1>0 DEF Claim
  <2>2. Claimed(ledger[s], w, s).status = "running"
    BY <1>0 DEF Claimed, Rows
  <2>3. ledger'[N].status = "done" => ledger[N].status = "done"
    BY <1>0, <2>1, <2>2
  <2>4. attempt'[w].phase # "working"
    BY <1>1, <1>0 DEF Claim, Idle
  <2> QED
    BY <2>1, <2>3, <2>4, CompiledIfIndexKept
<1>2. ASSUME NEW w \in Workers, Begin(w) PROVE Compiled'
  <2>1. raced' = raced /\ projected' = projected /\ object' = object /\ ledger' = ledger
    BY <1>2 DEF Begin
  <2>2. PICK s \in Stages : s = attempt[w].stage
    BY <1>0
  <2>3. /\ \A v \in Workers : v # w => attempt'[v] = attempt[v]
        /\ attempt'[w].phase = "working" =>
              /\ attempt'[w].stage = s /\ attempt'[w].acl = object.acl
              /\ attempt'[w].plan = Plan(s, attempt[w].on)
    BY <1>2, <2>2, BeginShape
  <2>4. Plan(s, attempt[w].on) = "declined" => s = 1
    BY DEF Plan
  <2> QED
    BY <2>1, <2>3, <2>4 DEF Compiled, Startled
<1>3. ASSUME NEW w \in Workers, Finish(w) PROVE Compiled'
  <2> DEFINE a == attempt[w]
  <2>1. PICK s \in Stages : s = a.stage
    BY <1>0
  <2>2. raced' = raced /\ object'.acl = object.acl
    BY <1>3, <1>0 DEF Finish, Objects
  <2>3. /\ a.phase = "working" /\ attempt'[w].phase = "idle"
        /\ \A v \in Workers : v # w => attempt'[v] = attempt[v]
        /\ ledger'[s] = Written(a, ledger[s])
        /\ \A u \in Stages : u # s => \/ ledger'[u] = ledger[u]
                                      \/ /\ Waiting(ledger[u])
                                         /\ ledger'[u] = Opened(ledger[u])
    BY <1>3, <2>1, FinishShape
  <2>4. CASE s # N
    <3>1. projected' = projected
      BY <1>3, <2>1, <2>4 DEF Finish
    <3>2. Opened(ledger[N]).status = "pending"
      BY <1>0 DEF Opened, Rows
    <3>3. ledger'[N].status = "done" => ledger[N].status = "done"
      BY <1>0, <2>3, <2>4, <3>2
    <3> QED
      BY <2>2, <2>3, <3>1, <3>3, CompiledIfIndexKept
  <2>5. CASE s = N
    <3>1. ASSUME ~raced, ledger'[N].status = "done" PROVE projected' = object.acl
      <4>1. a.acl = object.acl /\ a.plan # "declined"
        BY <1>0, <2>1, <2>3, <2>5, <3>1 DEF Compiled, Startled
      <4>2. a.plan \notin {"declined", "disabled"}
        <5>1. Written(a, ledger[s]).status = IF a.plan \in {"declined", "disabled"}
                                             THEN "skipped" ELSE "done"
          BY <1>0 DEF Written, Rows
        <5> QED
          BY <2>3, <2>5, <3>1, <5>1
      <4>3. a.plan \in {"derive", "project"}
        BY <1>0, <4>2 DEF Attempts
      <4> QED
        BY <1>3, <2>1, <2>5, <4>1, <4>3 DEF Finish
    <3> QED
      BY <2>2, <2>3, <3>1 DEF Compiled, Startled
  <2> QED
    BY <2>4, <2>5
<1>4. ASSUME NEW w \in Workers, NEW k \in {"ordinary", "outage", "poison"}, Raise(w, k)
      PROVE  Compiled'
  <2>1. /\ \A v \in Workers : v # w => attempt'[v] = attempt[v]
        /\ attempt'[w].phase # "working"
    BY <1>4, RaiseShape
  <2> QED
    BY <1>4, <2>1, CompiledIfIndexKept DEF Raise
<1>5. ASSUME NEW w \in Workers, RecordFailure(w) PROVE Compiled'
  <2>1. PICK s \in Stages : s = attempt[w].stage
    BY <1>0
  <2>2. /\ raced' = raced /\ projected' = projected /\ object' = object
        /\ ledger' = [ledger EXCEPT ![s] = Recorded(attempt[w], ledger[s])]
        /\ \A v \in Workers : attempt'[v] = IF v = w THEN Idle ELSE attempt[v]
    BY <1>5, <1>0, <2>1 DEF RecordFailure
  <2>3. Recorded(attempt[w], ledger[s]).status \in {ledger[s].status, "failed", "quarantined"}
    BY <1>0 DEF Recorded, Rows
  <2>4. ledger'[N].status = "done" => ledger[N].status = "done"
    BY <1>0, <2>2, <2>3
  <2> QED
    BY <2>2, <2>4, CompiledIfIndexKept DEF Idle
<1>6. ASSUME NEW w \in Workers, Crash(w) PROVE Compiled'
  <2>1. \A v \in Workers : attempt'[v] = IF v = w THEN Idle ELSE attempt[v]
    BY <1>6, <1>0 DEF Crash
  <2> QED
    BY <1>6, <2>1, CompiledIfIndexKept DEF Crash, Idle
<1>7. ASSUME NEW S \in SUBSET Stages, ExpireClaims(S) PROVE Compiled'
  <2>1. ledger'[N] = ledger[N] \/ ledger'[N].status = "failed"
    BY <1>0, <1>7 DEF ExpireClaims, Rows
  <2> QED
    BY <1>7, <2>1, CompiledIfIndexKept DEF ExpireClaims
<1>8. CASE ObserveChange
  <2>1. ledger'[N].status # "done" /\ attempt' = attempt /\ raced' = UnderWay
    BY <1>0, <1>8 DEF ObserveChange, ResetRows, FreshRow
  <2> QED
    BY <2>1 DEF Compiled, Startled, UnderWay
<1>9. ASSUME ObserveAccess \/ RequeueNewlyEnabled \/ \E i \in Stages : PutBack(i)
      PROVE  Compiled'
  <2>1. attempt' = attempt /\ (~raced' => ~raced /\ ~UnderWay)
    BY <1>9 DEF ObserveAccess, RequeueNewlyEnabled, PutBack
  <2>2. ledger'[N].status = "done" =>
            ledger[N].status = "done" /\ projected' = projected /\ object' = object
    <3>1. CASE ObserveAccess
      <4>1. ledger'[N].status # "done"
        BY <1>0, <3>1 DEF ObserveAccess, AccessQueued, Settled, FreshRow
      <4> QED
        BY <4>1
    <3>2. CASE RequeueNewlyEnabled
      <4>1. ledger'[N] = ledger[N] \/ ledger'[N].status = "pending"
        BY <1>0, <3>2 DEF RequeueNewlyEnabled, Rows
      <4> QED
        BY <3>2, <4>1 DEF RequeueNewlyEnabled
    <3>3. CASE \E i \in Stages : PutBack(i)
      <4>1. PICK i \in Stages : PutBack(i)
        BY <3>3
      <4>2. ~(N < i)
        BY <4>1, StageAssumption DEF Stages
      <4> QED
        BY <1>0, <4>1, <4>2 DEF PutBack, Parked, FreshRow
    <3> QED
      BY <1>9, <3>1, <3>2, <3>3
  <2> QED
    BY <2>1, <2>2 DEF Compiled, Startled, UnderWay
<1>10. CASE ObserveDeletion
  BY <1>0, <1>10, CompiledIfIndexKept DEF ObserveDeletion, Objects
<1>11. ASSUME (\E s \in Stages : BumpVersion(s) \/ ToggleStage(s)) \/ UNCHANGED vars
       PROVE  Compiled'
  BY <1>11, CompiledIfIndexKept DEF BumpVersion, ToggleStage, vars
<1>12. ASSUME RequeueOutdated \/ RequeueOntology \/ RequeueKnowledge
              \/ \E s \in Stages : RetryQuarantined(s)
       PROVE  \E i \in Stages : PutBack(i)
  BY <1>12, StageAssumption DEF RequeueOutdated, RequeueOntology, RequeueKnowledge,
                                RetryQuarantined, Stages
<1> QED
  BY <1>1, <1>2, <1>3, <1>4, <1>5, <1>6, <1>7, <1>8, <1>9, <1>10, <1>11, <1>12
     DEF Next, ExpireAbandoned, ExpireHeld

(* The chunks of a document whose index stage is done carry the            *)
(* permissions last seen, while nothing was put back under an attempt      *)
(* (UndisturbedProjection).                                                *)
THEOREM PermissionsProjected == Spec => []UndisturbedProjection
<1>1. Init => Compiled
  BY StageAssumption DEF Init, Compiled, Startled, FreshRow, Idle, Stages
<1>2. Compiled => UndisturbedProjection
  BY DEF Compiled, UndisturbedProjection
<1>3. Init => Bounded /\ Reasonable
  BY InitFlow DEF Flow
<1>4. Bounded /\ Reasonable /\ Compiled /\ [Next]_vars => (Bounded /\ Reasonable /\ Compiled)'
  BY StepBounded, ReasonStep, CompiledStep
<1> QED
  BY <1>1, <1>2, <1>3, <1>4, PTL DEF Spec

(***************************************************************************)
(* Currency                                                                *)
(*                                                                         *)
(* While the document is steady the rows settle in the order of the stages *)
(* (InOrder), the content hash is that of the content last seen (Hashed),  *)
(* only a disabled stage is skipped for good (Skips), what a done stage    *)
(* stored was derived from that content and from what the stages done      *)
(* before it stored (Good), and a permission refresh is queued only over   *)
(* chunks of the version configured (Marked).  An attempt under way was    *)
(* configured as the stage is now, and a settled stage under it was done   *)
(* by its like (Held); it works from what is current (Work).               *)
(***************************************************************************)
Steady == ~raced /\ ~skewed /\ object.live
Done(s) == ledger[s].status = "done"

MadeBy(s, v) ==
    /\ out[s].content = object.seen
    /\ out[s].recipe[s] = v
    /\ \A u \in Stages : u < s /\ Done(u) => out[s].recipe[u] = ledger[u].producer

InOrder == \A s, u \in Stages : u < s /\ ~Waiting(ledger[s]) => Settled(ledger[u])
Hashed == /\ object.seen # 0 /\ object.hash \in {0, object.seen}
          /\ Done(1) => object.hash = object.seen
Skips == \A s \in Stages : ledger[s].status = "skipped" =>
                               ledger[s].reason \in {"waiting", "disabled"}
Good == \A s \in Stages : Done(s) => /\ ledger[s].producer # 0
                                     /\ MadeBy(s, ledger[s].producer)
Marked == ledger[N].reason = "access" /\ ~Settled(ledger[N]) => MadeBy(N, want[N])
RowsCurrent == InOrder /\ Hashed /\ Skips /\ Good /\ Marked

Held(w) == LET s == attempt[w].stage IN attempt[w].phase # "idle" =>
    /\ attempt[w].phase # "recording" =>
          /\ attempt[w].version = want[s] /\ attempt[w].on = enabled[s]
          /\ Settled(ledger[s]) /\ enabled[s] => Done(s)
    /\ Done(s) => ledger[s].producer = want[s]

Derives(w) == LET s == attempt[w].stage IN
    /\ attempt[w].input.content = object.seen
    /\ \A u \in Stages : u < s /\ Done(u) =>
           attempt[w].input.recipe[u] = ledger[u].producer

Work(w) == LET s == attempt[w].stage IN attempt[w].phase = "working" =>
    /\ ledger[s].producer \in {attempt[w].producer, want[s]}
    /\ attempt[w].hash \in {0, object.seen}
    /\ attempt[w].hash # 0 => object.hash = object.seen
    /\ attempt[w].plan # "declined" /\ (attempt[w].plan = "disabled" <=> ~enabled[s])
    /\ attempt[w].plan = "project" => s = N /\ MadeBy(N, want[N])
    /\ attempt[w].plan = "derive" => Derives(w)

AttemptsCurrent == \A w \in Workers : Held(w) /\ Work(w)
Current == Steady => RowsCurrent /\ AttemptsCurrent

(* Nothing of this changes with a step that settles, opens and parks no    *)
(* row.                                                                    *)
LEMMA MadeByKept ==
    ASSUME NEW s \in Stages, NEW v, MadeBy(s, v),
           object'.seen = object.seen, out'[s] = out[s],
           \A u \in Stages : u < s /\ Done(u)' => Done(u) /\ ledger'[u].producer = ledger[u].producer
    PROVE  MadeBy(s, v)'
  BY DEF MadeBy, Done

LEMMA RowsKept ==
    ASSUME RowsCurrent, N \in Stages, 1 \in Stages, UNCHANGED <<out, want>>,
           object'.seen = object.seen, object'.hash = object.hash,
           \A s \in Stages :
              /\ Settled(ledger'[s]) <=> Settled(ledger[s])
              /\ Waiting(ledger'[s]) <=> Waiting(ledger[s])
              /\ Done(s)' <=> Done(s)
              /\ ledger'[s].producer = ledger[s].producer
              /\ ledger'[s].status = "skipped" => ledger'[s] = ledger[s],
           ledger'[N].reason = "access" => ledger[N].reason = "access"
    PROVE  RowsCurrent'
<1>1. \A s \in Stages : \A v : MadeBy(s, v) => MadeBy(s, v)'
  BY MadeByKept
<1>2. InOrder'
  BY DEF RowsCurrent, InOrder, Waiting, Settled
<1>3. Hashed'
  BY DEF RowsCurrent, Hashed
<1>4. Skips'
  BY DEF RowsCurrent, Skips
<1>5. ASSUME NEW s \in Stages, Done(s)'
      PROVE  ledger'[s].producer # 0 /\ MadeBy(s, ledger[s].producer)'
  <2>1. ledger[s].producer # 0 /\ MadeBy(s, ledger[s].producer)
    BY <1>5 DEF RowsCurrent, Good
  <2>2. PICK v : v = ledger[s].producer
    OBVIOUS
  <2>3. MadeBy(s, v)'
    BY <1>1, <2>1, <2>2
  <2>4. ledger'[s].producer = v
    BY <2>2
  <2> QED
    BY <2>1, <2>2, <2>3, <2>4 DEF MadeBy
<1>6. Marked'
  <2> SUFFICES ASSUME ledger'[N].reason = "access", ~Settled(ledger'[N])
               PROVE  MadeBy(N, want[N])'
    BY DEF Marked, Settled, Waiting
  <2>1. PICK v : v = want[N]
    OBVIOUS
  <2>2. MadeBy(N, v)
    BY <2>1 DEF RowsCurrent, Marked
  <2>3. MadeBy(N, v)'
    BY <1>1, <2>2
  <2> QED
    BY <2>1, <2>3 DEF MadeBy
<1>7. Good'
  BY <1>5 DEF Good
<1> QED
  BY <1>2, <1>3, <1>4, <1>6, <1>7 DEF RowsCurrent

LEMMA AttemptKept ==
    ASSUME NEW w \in Workers, Held(w), Work(w), attempt'[w] = attempt[w],
           N \in Stages, attempt[w].stage \in Stages,
           UNCHANGED <<object, out, want, enabled>>,
           \A s \in Stages :
              /\ Settled(ledger'[s]) => Settled(ledger[s])
              /\ Done(s)' <=> Done(s)
              /\ ledger'[s].producer = ledger[s].producer
    PROVE  Held(w)' /\ Work(w)'
<1>0. PICK s \in Stages : s = attempt[w].stage
  OBVIOUS
<1>1. Held(w)'
  BY <1>0 DEF Held, Settled, Waiting
<1>2. MadeBy(N, want[N]) => MadeBy(N, want[N])'
  BY DEF MadeBy
<1>3. Derives(w) => Derives(w)'
  BY DEF Derives
<1>4. Work(w)'
  BY <1>0, <1>2, <1>3 DEF Work
<1> QED
  BY <1>1, <1>4

LEMMA FinishCurrent ==
    ASSUME Bounded, Reasonable, HeldRowsOpen, Current, Steady',
           NEW w \in Workers, Finish(w)
    PROVE  RowsCurrent' /\ AttemptsCurrent'
<1> DEFINE a == attempt[w]
<1>0. /\ ledger \in [Stages -> Rows] /\ attempt \in [Workers -> Attempts]
      /\ \A v \in Workers : attempt[v] \in Attempts /\ attempt[v].stage \in Stages
      /\ N \in Stages /\ 1 \in Stages /\ N # 1 /\ object \in Objects
      /\ out \in [Stages -> Outputs] /\ Stages \subseteq Nat
      /\ \A u \in Stages : ledger[u] \in Rows /\ want[u] # 0 /\ u <= N
      /\ a.input.recipe \in Recipes
  <2>1. \A u \in Stages : want[u] # 0
    BY ConstantTypes DEF Bounded, TypeOK, Kinds
  <2>2. N \in Stages /\ 1 \in Stages /\ N # 1 /\ Stages \subseteq Nat /\ \A u \in Stages : u <= N
    BY StageAssumption DEF Stages
  <2>3. a.input.recipe \in Recipes
    BY StrikeTypes DEF Attempts, Outputs
  <2> QED
    BY <2>1, <2>2, <2>3, StrikeTypes DEF Bounded, TypeOK
<1>1. PICK s \in Stages : s = a.stage
  BY <1>0
<1>2. /\ UNCHANGED <<want, enabled, raced, skewed>>
      /\ object'.seen = object.seen /\ object'.live = object.live
  BY <1>0 DEF Finish, Objects, config, history
<1>3. ~raced /\ RowsCurrent /\ AttemptsCurrent
  BY <1>2 DEF Steady, Current
<1>4. Held(w) /\ Work(w) /\ a.phase = "working"
  BY <1>3, FinishShape DEF AttemptsCurrent
(* The row it ends, and the others.                                        *)
<1>5. /\ Settled(ledger'[s]) /\ ~Waiting(ledger'[s]) /\ ledger'[s].producer = want[s]
      /\ ledger'[s].status = IF enabled[s] THEN "done" ELSE "skipped"
      /\ ledger'[s].status = "skipped" => ledger'[s].reason = "disabled"
  <2>1. /\ a.plan \in {"derive", "project", "disabled"} /\ (a.plan = "disabled" <=> ~enabled[s])
        /\ a.version = want[s] /\ ledger[s].producer \in {a.producer, want[s]}
        /\ a.reason \in {"none", "access"}
    BY <1>0, <1>1, <1>4 DEF Held, Work, Attempts, Reasonable, LoadedReasons
  <2>2. ledger'[s] = Written(a, ledger[s])
    BY <1>1, FinishShape
  <2>3. /\ Written(a, ledger[s]).status = IF a.plan = "disabled" THEN "skipped" ELSE "done"
        /\ a.plan = "disabled" => Written(a, ledger[s]).reason = "disabled"
    BY <1>0, <2>1 DEF Written, Rows
  <2>4. Written(a, ledger[s]).producer = want[s]
    BY <1>0, <2>1 DEF Written, Rows
  <2> QED
    BY <2>1, <2>2, <2>3, <2>4 DEF Settled, Waiting
<1>6. ASSUME NEW u \in Stages, u # s
      PROVE  \/ ledger'[u] = ledger[u]
             \/ /\ u = s + 1 /\ Waiting(ledger[u]) /\ ledger'[u].status = "pending"
                /\ ledger'[u].reason = "none"
  <2>1. Opened(ledger[u]).status = "pending" /\ Opened(ledger[u]).reason = "none"
    BY <1>0 DEF Opened, Rows
  <2> QED
    BY <1>1, <1>6, <2>1, FinishShape
<1>7. \A u \in Stages : u < s => Settled(ledger[u]) /\ ledger'[u] = ledger[u]
  <2>1. ~Waiting(ledger[s])
    BY <1>1, <1>3, <1>4 DEF HeldRowsOpen
  <2>2. \A u \in Stages : u < s => Settled(ledger[u]) /\ u # s
    BY <1>0, <1>3, <2>1 DEF RowsCurrent, InOrder
  <2> QED
    BY <1>6, <2>2 DEF Settled, Waiting
(* What is done behind a row that does not wait was done before.           *)
<1>8. ASSUME NEW u \in Stages, NEW t \in Stages, t < u, ~Waiting(ledger[u]), Done(t)'
      PROVE  Done(t) /\ ledger'[t].producer = ledger[t].producer
  <2>1. Settled(ledger[t])
    BY <1>3, <1>8 DEF RowsCurrent, InOrder
  <2>2. CASE t = s
    <3>1. enabled[s]
      BY <1>5, <1>8, <2>2 DEF Done
    <3>2. Done(s) /\ ledger[s].producer = want[s]
      BY <1>1, <1>4, <2>1, <2>2, <3>1 DEF Held
    <3> QED
      BY <1>5, <2>2, <3>2
  <2>3. CASE t # s
    <3>1. ledger'[t] = ledger[t]
      BY <1>6, <2>1, <2>3 DEF Settled, Waiting
    <3> QED
      BY <1>8, <3>1 DEF Done
  <2> QED
    BY <2>2, <2>3
<1>9. \A u \in Stages : u # s \/ a.plan # "derive" => out'[u] = out[u]
  BY <1>0, <1>1 DEF Finish
<1>10. a.plan = "derive" => MadeBy(s, want[s])'
  <2> SUFFICES ASSUME a.plan = "derive" PROVE MadeBy(s, want[s])'
    OBVIOUS
  <2>1. out'[s] = [content |-> a.input.content, recipe |-> [a.input.recipe EXCEPT ![s] = a.version]]
    BY <1>0, <1>1 DEF Finish
  <2>2. Derives(w) /\ a.version = want[s]
    BY <1>1, <1>4 DEF Work, Held
  <2>3. out'[s].content = object.seen /\ out'[s].recipe[s] = want[s]
    BY <1>0, <2>1, <2>2 DEF Derives, Recipes
  <2>4. ASSUME NEW u \in Stages, u < s, Done(u)'
        PROVE  out'[s].recipe[u] = ledger'[u].producer
    <3>1. u # s /\ ledger'[u] = ledger[u]
      BY <1>0, <1>7, <2>4
    <3>2. Done(u)
      BY <2>4, <3>1 DEF Done
    <3>3. a.input.recipe[u] = ledger[u].producer
      BY <1>1, <2>2, <2>4, <3>2 DEF Derives
    <3> QED
      BY <1>0, <2>1, <3>1, <3>3 DEF Recipes
  <2> QED
    BY <1>2, <2>3, <2>4 DEF MadeBy
<1>11. ASSUME NEW u \in Stages, NEW v, MadeBy(u, v), ~Waiting(ledger[u]),
              u # s \/ a.plan # "derive"
       PROVE  MadeBy(u, v)'
  BY <1>2, <1>8, <1>9, <1>11, MadeByKept
<1>12. InOrder'
  <2> SUFFICES ASSUME NEW t \in Stages, NEW u \in Stages, u < t, ~Waiting(ledger'[t])
               PROVE  Settled(ledger'[u])
    BY DEF InOrder, Waiting, Settled
  <2>1. CASE u = s
    BY <1>5, <2>1
  <2>2. CASE u # s /\ ~Waiting(ledger[t])
    <3>1. Settled(ledger[u])
      BY <1>3, <2>2 DEF RowsCurrent, InOrder
    <3> QED
      BY <1>6, <2>2, <3>1 DEF Settled, Waiting
  <2>3. CASE u # s /\ Waiting(ledger[t])
    <3>1. t = s \/ t = s + 1
      BY <1>6, <2>3
    <3>2. u < s
      BY <1>0, <2>3, <3>1
    <3> QED
      BY <1>7, <3>2
  <2> QED
    BY <2>1, <2>2, <2>3
<1>13. Hashed'
  <2>1. object'.hash = object.hash \/ object'.hash = object.seen
    BY <1>0, <1>4, <1>1 DEF Finish, Work, Derives, Objects
  <2>2. Done(1)' => object'.hash = object.seen
    <3>1. CASE s # 1
      <4>1. ledger'[1] = ledger[1] \/ ledger'[1].status = "pending"
        BY <1>0, <1>6, <3>1
      <4>2. object' = object
        BY <1>1, <3>1 DEF Finish
      <4> QED
        BY <1>3, <4>1, <4>2 DEF Done, RowsCurrent, Hashed
    <3>2. CASE s = 1 /\ Done(1)'
      <4>1. a.plan = "derive"
        BY <1>0, <1>1, <1>4, <1>5, <3>2 DEF Work, Done, Attempts
      <4>2. a.input.content = object.seen
        BY <1>4, <4>1 DEF Work, Derives
      <4>3. CASE a.hash = object.seen
        <5>1. object.hash = object.seen
          BY <1>3, <1>4, <4>3 DEF Work, RowsCurrent, Hashed
        <5> QED
          BY <2>1, <5>1
      <4>4. CASE a.hash # object.seen
        BY <1>0, <1>1, <3>2, <4>1, <4>2, <4>4 DEF Finish, Objects
      <4> QED
        BY <4>3, <4>4
    <3> QED
      BY <3>1, <3>2
  <2> QED
    BY <1>2, <1>3, <2>1, <2>2 DEF RowsCurrent, Hashed
<1>14. Skips'
  <2> SUFFICES ASSUME NEW u \in Stages, ledger'[u].status = "skipped"
               PROVE  ledger'[u].reason \in {"waiting", "disabled"}
    BY DEF Skips
  <2>1. CASE u = s
    BY <1>5, <2>1
  <2>2. CASE u # s
    BY <1>3, <1>6, <2>2 DEF RowsCurrent, Skips
  <2> QED
    BY <2>1, <2>2
<1>15. ASSUME MadeBy(N, want[N]), ~Waiting(ledger[N])
       PROVE  MadeBy(N, want[N])'
  <2>1. CASE N = s /\ a.plan = "derive"
    BY <1>10, <2>1
  <2>2. CASE N # s \/ a.plan # "derive"
    <3>1. PICK v : v = want[N]
      OBVIOUS
    <3>2. MadeBy(N, v)'
      BY <1>0, <1>11, <1>15, <2>2, <3>1
    <3> QED
      BY <1>2, <3>1, <3>2 DEF MadeBy
  <2> QED
    BY <2>1, <2>2
<1>16. Good'
  <2> SUFFICES ASSUME NEW u \in Stages, Done(u)'
               PROVE  ledger'[u].producer # 0 /\ MadeBy(u, ledger[u].producer)'
    BY DEF Good
  <2>1. CASE u = s
    <3>1. a.plan \in {"derive", "project"}
      BY <1>0, <1>1, <1>4, <1>5, <2>1 DEF Work, Done, Attempts
    <3>2. MadeBy(s, want[s])'
      <4>1. CASE a.plan = "derive"
        BY <1>10, <4>1
      <4>2. CASE a.plan = "project"
        <5>1. s = N /\ MadeBy(N, want[N]) /\ ~Waiting(ledger[N])
          BY <1>1, <1>3, <1>4, <4>2 DEF Work, HeldRowsOpen
        <5> QED
          BY <1>15, <5>1
      <4> QED
        BY <3>1, <4>1, <4>2
    <3> QED
      BY <1>0, <1>2, <1>5, <2>1, <3>2 DEF MadeBy
  <2>2. CASE u # s
    <3>1. ledger'[u] = ledger[u] /\ ~Waiting(ledger[u])
      BY <1>6, <2>2 DEF Done, Waiting
    <3>2. ledger[u].producer # 0 /\ MadeBy(u, ledger[u].producer)
      BY <1>3, <3>1 DEF Done, RowsCurrent, Good
    <3>3. PICK v : v = ledger[u].producer
      OBVIOUS
    <3>4. MadeBy(u, v)'
      BY <1>11, <2>2, <3>1, <3>2, <3>3
    <3> QED
      BY <3>1, <3>2, <3>3, <3>4 DEF MadeBy
  <2> QED
    BY <2>1, <2>2
<1>17. Marked'
  <2> SUFFICES ASSUME ledger'[N].reason = "access", ~Settled(ledger'[N])
               PROVE  MadeBy(N, want[N])'
    BY DEF Marked, Settled, Waiting
  <2>1. N # s
    BY <1>5
  <2>2. ledger'[N] = ledger[N]
    BY <1>0, <1>6, <2>1
  <2>3. MadeBy(N, want[N]) /\ ~Waiting(ledger[N])
    BY <1>3, <2>2 DEF RowsCurrent, Marked, Waiting, Settled
  <2> QED
    BY <1>15, <2>3
<1>18. ASSUME NEW v \in Workers PROVE Held(v)' /\ Work(v)'
  <2>1. CASE v = w
    BY <2>1, FinishShape DEF Held, Work
  <2>2. CASE v # w
    <3>1. PICK t \in Stages : t = attempt[v].stage
      BY <1>0
    <3>2. attempt'[v] = attempt[v] /\ Held(v) /\ Work(v)
      BY <1>3, <2>2, FinishShape DEF AttemptsCurrent
    <3> SUFFICES ASSUME attempt[v].phase # "idle" PROVE Held(v)' /\ Work(v)'
      BY <3>2 DEF Held, Work
    <3>3. ~Waiting(ledger[t])
      BY <1>3, <3>1 DEF HeldRowsOpen
    <3>4. t # s => ledger'[t] = ledger[t]
      BY <1>6, <3>3
    <3>5. Held(v)'
      BY <1>2, <1>5, <3>1, <3>2, <3>4 DEF Held, Done
    <3>6. MadeBy(N, want[N]) /\ t = N => MadeBy(N, want[N])'
      BY <1>15, <3>3
    <3>7. Derives(v) => Derives(v)'
      BY <1>2, <1>8, <3>1, <3>2, <3>3 DEF Derives
    <3>8. attempt[v].hash # 0 /\ object.hash = object.seen => object'.hash = object.seen
      BY <1>0, <1>1, <1>4 DEF Finish, Work, Derives, Objects
    <3>9. attempt[v].phase = "working" => ledger'[t].producer \in {attempt[v].producer, want[t]}
      BY <1>5, <3>1, <3>2, <3>4 DEF Work
    <3>10. Work(v)'
      BY <1>2, <3>1, <3>2, <3>6, <3>7, <3>8, <3>9 DEF Work
    <3> QED
      BY <3>5, <3>10
  <2> QED
    BY <2>1, <2>2
<1> QED
  BY <1>12, <1>13, <1>14, <1>16, <1>17, <1>18 DEF RowsCurrent, AttemptsCurrent

(* A step that settles, opens and parks no row, and leaves every attempt   *)
(* but w's alone.                                                          *)
LEMMA CurrentIfProgressKept ==
    ASSUME Bounded, Current, Steady => Steady', Steady' => Steady,
           NEW w \in Workers, UNCHANGED <<object, out, want, enabled>>,
           \A s \in Stages :
              /\ Settled(ledger'[s]) <=> Settled(ledger[s])
              /\ Waiting(ledger'[s]) <=> Waiting(ledger[s])
              /\ Done(s)' <=> Done(s)
              /\ ledger'[s].producer = ledger[s].producer
              /\ ledger'[s].status = "skipped" => ledger'[s] = ledger[s],
           ledger'[N].reason = "access" => ledger[N].reason = "access",
           \A v \in Workers : v # w => attempt'[v] = attempt[v],
           Steady => (Held(w)' /\ Work(w)')
    PROVE  Current'
<1> SUFFICES ASSUME Steady PROVE RowsCurrent' /\ AttemptsCurrent'
  BY DEF Current
<1>1. N \in Stages /\ 1 \in Stages /\ \A v \in Workers : attempt[v].stage \in Stages
  BY StrikeTypes, ConstantTypes
<1>2. RowsCurrent /\ AttemptsCurrent
  BY DEF Current
<1>3. RowsCurrent'
  BY <1>1, <1>2, RowsKept
<1>4. ASSUME NEW v \in Workers, v # w PROVE Held(v)' /\ Work(v)'
  <2>1. Held(v) /\ Work(v) /\ attempt'[v] = attempt[v]
    BY <1>2, <1>4 DEF AttemptsCurrent
  <2> QED
    BY <1>1, <2>1, AttemptKept
<1> QED
  BY <1>3, <1>4 DEF AttemptsCurrent

LEMMA ClaimCurrent ==
    ASSUME Bounded, Current, NEW w \in Workers, NEW s \in Stages, Claim(w, s)
    PROVE  Current'
<1>1. /\ ledger \in [Stages -> Rows] /\ ledger[s] \in Rows
      /\ attempt \in [Workers -> Attempts] /\ Idle.phase = "idle"
  BY StrikeTypes DEF Bounded, TypeOK, Idle
<1>2. /\ UNCHANGED <<object, out, want, enabled, raced, skewed>>
      /\ ledger' = [ledger EXCEPT ![s] = Claimed(ledger[s], w, s)] /\ Claimable(ledger[s])
      /\ \A v \in Workers : v # w => attempt'[v] = attempt[v]
  BY <1>1 DEF Claim, config, history
<1>3. /\ Claimed(ledger[s], w, s).status = "running"
      /\ Claimed(ledger[s], w, s).producer = ledger[s].producer
      /\ s = N /\ Claimed(ledger[s], w, s).reason = "access" => ledger[s].reason = "access"
  BY <1>1 DEF Claimed, Rows
<1>4. \A u \in Stages : u # s => ledger'[u] = ledger[u]
  BY <1>1, <1>2
<1>5. ledger'[s].status = "running" /\ ledger'[s].producer = ledger[s].producer
      /\ (s = N /\ ledger'[s].reason = "access" => ledger[s].reason = "access")
  BY <1>1, <1>2, <1>3
<1>6. \A u \in Stages :
          /\ Settled(ledger'[u]) <=> Settled(ledger[u])
          /\ Waiting(ledger'[u]) <=> Waiting(ledger[u])
          /\ Done(u)' <=> Done(u)
          /\ ledger'[u].producer = ledger[u].producer
          /\ ledger'[u].status = "skipped" => ledger'[u] = ledger[u]
  BY <1>2, <1>4, <1>5 DEF Claimable, Settled, Waiting, Done
<1>7. ledger'[N].reason = "access" => ledger[N].reason = "access"
  BY <1>4, <1>5, ConstantTypes
<1>8. /\ attempt'[w].phase = "claimed" /\ attempt'[w].stage = s
      /\ attempt'[w].version = want[s] /\ attempt'[w].on = enabled[s]
  BY <1>1 DEF Claim, Idle
<1>9. Held(w)' /\ Work(w)'
  BY <1>2, <1>5, <1>8 DEF Held, Work, Settled, Done
<1>10. Steady' <=> Steady
  BY <1>2 DEF Steady
<1> QED
  BY <1>2, <1>6, <1>7, <1>9, <1>10, CurrentIfProgressKept

LEMMA BeginCurrent ==
    ASSUME Bounded, Current, NEW w \in Workers, Begin(w)
    PROVE  Current'
<1> DEFINE a == attempt[w]
<1>1. PICK s \in Stages : s = a.stage
  BY StrikeTypes
<1>2. UNCHANGED <<ledger, object, out, want, enabled, raced, skewed>>
  BY DEF Begin, config, history
<1>3. /\ a.phase = "claimed" /\ \A v \in Workers : v # w => attempt'[v] = attempt[v]
      /\ \/ attempt'[w].phase = "idle"
         \/ /\ ledger[s].status = "running"
            /\ attempt'[w].phase = "recording" /\ attempt'[w].stage = s
         \/ /\ ledger[s].status = "running" /\ ~Unfetched(s, a.on)
            /\ attempt'[w].phase = "working" /\ attempt'[w].stage = s
            /\ attempt'[w].version = a.version /\ attempt'[w].on = a.on
            /\ attempt'[w].plan = Plan(s, a.on)
            /\ attempt'[w].producer = ledger[s].producer
            /\ attempt'[w].hash = object.hash /\ attempt'[w].input = Input(s)
  BY <1>1, BeginShape
<1>4. ASSUME Steady PROVE Held(w)' /\ Work(w)'
  <2>1. RowsCurrent /\ Held(w)
    BY <1>4 DEF Current, AttemptsCurrent
  <2>2. a.version = want[s] /\ a.on = enabled[s] /\ enabled[s] \in BOOLEAN
    BY <1>1, <1>3, <2>1 DEF Held, Bounded, TypeOK
  <2>3. CASE attempt'[w].phase # "working"
    BY <1>2, <1>3, <2>3 DEF Held, Work, Done
  <2>4. CASE attempt'[w].phase = "working"
    <3>1. /\ ledger[s].status = "running" /\ ~Unfetched(s, a.on) /\ attempt'[w].stage = s
          /\ attempt'[w].version = want[s] /\ attempt'[w].on = enabled[s]
          /\ attempt'[w].plan = Plan(s, enabled[s])
          /\ attempt'[w].producer = ledger[s].producer
          /\ attempt'[w].hash = object.hash /\ attempt'[w].input = Input(s)
      BY <1>3, <2>2, <2>4
    <3>2. Held(w)'
      BY <1>2, <2>4, <3>1 DEF Held, Settled, Done
    <3>3. object.hash \in {0, object.seen} /\ object.seen # 0
      BY <2>1 DEF RowsCurrent, Hashed
    <3>4. Plan(s, enabled[s]) # "declined" /\ (Plan(s, enabled[s]) = "disabled" <=> ~enabled[s])
      BY <1>4, <2>2 DEF Plan, Steady
    <3>5. Plan(s, enabled[s]) = "project" => s = N /\ MadeBy(N, want[N])
      BY <2>1, <3>1 DEF Plan, RowsCurrent, Marked, Settled
    <3>6. ASSUME Plan(s, enabled[s]) = "derive" PROVE Derives(w)'
      <4>1. enabled[s]
        BY <2>2, <3>6 DEF Plan
      <4>2. Input(s).content = object.seen
        BY <2>2, <3>1, <3>3, <4>1, StageAssumption DEF Input, Unfetched, Stages
      <4>3. ASSUME NEW u \in Stages, u < s, Done(u)
            PROVE  Input(s).recipe[u] = ledger[u].producer
        BY <2>1, <4>3 DEF Input, RowsCurrent, Good, MadeBy
      <4> QED
        BY <1>2, <3>1, <4>2, <4>3 DEF Derives, Done
    <3>7. MadeBy(N, want[N]) => MadeBy(N, want[N])'
      BY <1>2 DEF MadeBy, Done
    <3>8. Work(w)'
      BY <1>2, <3>1, <3>3, <3>4, <3>5, <3>6, <3>7 DEF Work
    <3> QED
      BY <3>2, <3>8
  <2> QED
    BY <2>3, <2>4
<1>5. Steady' <=> Steady
  BY <1>2 DEF Steady
<1> QED
  BY <1>2, <1>3, <1>4, <1>5, CurrentIfProgressKept DEF Done

LEMMA RaiseCurrent ==
    ASSUME Bounded, Current, NEW w \in Workers,
           Crash(w) \/ \E k \in {"ordinary", "outage", "poison"} : Raise(w, k)
    PROVE  Current'
<1>1. PICK s \in Stages : s = attempt[w].stage
  BY StrikeTypes
<1>2. UNCHANGED <<ledger, object, out, want, enabled, raced, skewed>>
  BY DEF Crash, Raise, config, history
<1>3. /\ \A v \in Workers : v # w => attempt'[v] = attempt[v]
      /\ attempt[w].phase # "idle"
      /\ attempt'[w].phase = "idle" \/ (attempt'[w].phase = "recording" /\ attempt'[w].stage = s)
  <2>1. CASE Crash(w)
    BY <2>1 DEF Crash, Idle, Bounded, TypeOK
  <2>2. CASE \E k \in {"ordinary", "outage", "poison"} : Raise(w, k)
    BY <1>1, <2>2, RaiseShape
  <2> QED
    BY <2>1, <2>2
<1>4. ASSUME Steady PROVE Held(w)' /\ Work(w)'
  <2>1. Held(w)
    BY <1>4 DEF Current, AttemptsCurrent
  <2> QED
    BY <1>1, <1>2, <1>3, <2>1 DEF Held, Work, Done
<1>5. Steady' <=> Steady
  BY <1>2 DEF Steady
<1> QED
  BY <1>2, <1>3, <1>4, <1>5, CurrentIfProgressKept DEF Done

LEMMA RecordCurrent ==
    ASSUME Bounded, HeldRowsOpen, Current, NEW w \in Workers, RecordFailure(w)
    PROVE  Current'
<1> DEFINE a == attempt[w]
<1>1. PICK s \in Stages : s = a.stage
  BY StrikeTypes
<1>2. /\ ledger \in [Stages -> Rows] /\ ledger[s] \in Rows
      /\ attempt \in [Workers -> Attempts] /\ Idle.phase = "idle"
  BY StrikeTypes DEF Bounded, TypeOK, Idle
<1>3. /\ UNCHANGED <<object, out, want, enabled, raced>>
      /\ skewed' = (skewed \/ Settled(ledger[s])) /\ a.phase = "recording"
      /\ ledger' = [ledger EXCEPT ![s] = Recorded(a, ledger[s])]
      /\ \A v \in Workers : attempt'[v] = IF v = w THEN Idle ELSE attempt[v]
  BY <1>1, <1>2 DEF RecordFailure, config
<1> SUFFICES ASSUME Steady' PROVE Current'
  BY DEF Current
<1>4. Steady /\ ~Settled(ledger[s]) /\ ~Waiting(ledger[s])
  BY <1>1, <1>3 DEF Steady, HeldRowsOpen
<1>5. /\ Recorded(a, ledger[s]).status \in {ledger[s].status, "failed", "quarantined"}
      /\ Recorded(a, ledger[s]).reason = "none"
      /\ Recorded(a, ledger[s]).producer = ledger[s].producer
  BY <1>2 DEF Recorded, Rows
<1>6. /\ \A u \in Stages : u # s => ledger'[u] = ledger[u]
      /\ ledger'[s] = Recorded(a, ledger[s])
  BY <1>2, <1>3
<1>7. ledger[s].status \notin {"done", "skipped"}
  BY <1>4 DEF Settled, Waiting
<1>8. \A u \in Stages :
          /\ Settled(ledger'[u]) <=> Settled(ledger[u])
          /\ Waiting(ledger'[u]) <=> Waiting(ledger[u])
          /\ Done(u)' <=> Done(u)
          /\ ledger'[u].producer = ledger[u].producer
          /\ ledger'[u].status = "skipped" => ledger'[u] = ledger[u]
  BY <1>5, <1>6, <1>7 DEF Settled, Waiting, Done
<1>9. ledger'[N].reason = "access" => ledger[N].reason = "access"
  BY <1>5, <1>6, ConstantTypes
<1>10. Held(w)' /\ Work(w)'
  BY <1>2, <1>3 DEF Held, Work
<1> QED
  BY <1>3, <1>4, <1>8, <1>9, <1>10, CurrentIfProgressKept

LEMMA ExpireCurrent ==
    ASSUME Bounded, Current, NEW S \in SUBSET Stages, ExpireClaims(S)
    PROVE  Current'
<1>1. /\ UNCHANGED <<object, out, want, enabled, attempt, raced, skewed>>
      /\ \A s \in S : ledger[s].status = "running"
      /\ \A s \in Stages : ledger'[s] =
             IF s \in S THEN [ledger[s] EXCEPT !.status = "failed", !.reason = "none"]
                        ELSE ledger[s]
  BY DEF ExpireClaims, config, history
<1>2. ASSUME NEW s \in S
      PROVE  LET r == [ledger[s] EXCEPT !.status = "failed", !.reason = "none"]
             IN  r.status = "failed" /\ r.reason = "none" /\ r.producer = ledger[s].producer
  BY StrikeTypes DEF Rows
<1>3. \A s \in Stages : IF s \in S
          THEN /\ ledger[s].status = "running" /\ ledger'[s].status = "failed"
               /\ ledger'[s].reason = "none" /\ ledger'[s].producer = ledger[s].producer
          ELSE ledger'[s] = ledger[s]
  <2> SUFFICES ASSUME NEW s \in Stages, s \in S
               PROVE  /\ ledger'[s].status = "failed"
                      /\ ledger'[s].reason = "none" /\ ledger'[s].producer = ledger[s].producer
    BY <1>1
  <2> DEFINE r == [ledger[s] EXCEPT !.status = "failed", !.reason = "none"]
  <2>1. r.status = "failed" /\ r.reason = "none" /\ r.producer = ledger[s].producer
    BY <1>2
  <2>2. ledger'[s] = r
    BY <1>1
  <2> HIDE DEF r
  <2> QED
    BY <2>1, <2>2
<1>4. \A u \in Stages :
          /\ Settled(ledger'[u]) <=> Settled(ledger[u])
          /\ Waiting(ledger'[u]) <=> Waiting(ledger[u])
          /\ Done(u)' <=> Done(u)
          /\ ledger'[u].producer = ledger[u].producer
          /\ ledger'[u].status = "skipped" => ledger'[u] = ledger[u]
  BY <1>3 DEF Settled, Waiting, Done
<1>5. ledger'[N].reason = "access" => ledger[N].reason = "access"
  BY <1>3, ConstantTypes
<1> SUFFICES ASSUME Steady' PROVE RowsCurrent' /\ AttemptsCurrent'
  BY DEF Current
<1>6. RowsCurrent /\ AttemptsCurrent
  BY <1>1 DEF Current, Steady
<1>7. N \in Stages /\ 1 \in Stages /\ \A v \in Workers : attempt[v].stage \in Stages
  BY StrikeTypes, ConstantTypes
<1>8. RowsCurrent'
  BY <1>1, <1>4, <1>5, <1>6, <1>7, RowsKept
<1>9. ASSUME NEW v \in Workers PROVE Held(v)' /\ Work(v)'
  <2>1. Held(v) /\ Work(v) /\ attempt'[v] = attempt[v]
    BY <1>1, <1>6 DEF AttemptsCurrent
  <2> QED
    BY <1>1, <1>4, <1>7, <2>1, AttemptKept
<1> QED
  BY <1>8, <1>9 DEF AttemptsCurrent

(* With no attempt under way only the rows matter.                         *)
LEMMA AttemptsAbsent ==
    ASSUME attempt' = attempt, ~UnderWay
    PROVE  AttemptsCurrent'
  BY DEF UnderWay, AttemptsCurrent, Held, Work

LEMMA ChangeCurrent ==
    ASSUME Bounded, ObserveChange
    PROVE  Current'
<1> SUFFICES ASSUME Steady' PROVE RowsCurrent' /\ AttemptsCurrent'
  BY DEF Current
<1>1. attempt' = attempt /\ ~UnderWay
  BY DEF ObserveChange, Steady
<1>2. \A s \in Stages : IF s = 1 THEN ledger'[s].status = "pending"
                        ELSE ledger'[s].status = "skipped" /\ ledger'[s].reason = "waiting"
  BY DEF ObserveChange, ResetRows, FreshRow
<1>3. object'.seen # 0 /\ object'.hash = 0
  <2>1. object.seen \in Nat
    BY BudgetAssumption DEF Bounded, TypeOK, Objects, Contents, Kinds
  <2> QED
    BY <2>1 DEF ObserveChange, Bounded, TypeOK, Objects
<1>4. N \in Stages /\ 1 \in Stages /\ N # 1
  BY StageAssumption DEF Stages
<1>5. InOrder'
  <2> SUFFICES ASSUME NEW s \in Stages, NEW u \in Stages, u < s, ~Waiting(ledger'[s]) PROVE FALSE
    BY DEF InOrder, Waiting
  <2> QED
    BY <1>2 DEF Waiting, Stages
<1>6. Hashed' /\ Skips' /\ Good'
  BY <1>2, <1>3, <1>4 DEF Hashed, Skips, Good, Done
<1>7. Marked'
  BY <1>2, <1>4 DEF Marked
<1> QED
  BY <1>1, <1>5, <1>6, <1>7, AttemptsAbsent DEF RowsCurrent

(* Rows up to a stage stay, that stage is queued, for a permission refresh *)
(* only over chunks of the version configured, and what follows it waits.  *)
LEMMA RequeuedCurrent ==
    ASSUME Bounded, RowsCurrent, NEW i \in Stages, UNCHANGED <<out, want>>,
           object'.seen = object.seen, object'.hash = object.hash,
           \A s \in Stages : s < i => ledger'[s] = ledger[s] /\ Settled(ledger[s]),
           ledger'[i].status = "pending",
           ledger'[i].reason = "access" => i = N /\ MadeBy(N, want[N]),
           \A s \in Stages : i < s => Waiting(ledger'[s])
    PROVE  RowsCurrent'
<1>0. Stages \subseteq Nat /\ (\A s, u \in Stages : s = u \/ s < u \/ u < s) /\ N \in Stages /\ 1 \in Stages
  BY StageAssumption DEF Stages
<1>1. ASSUME NEW s \in Stages, ~Waiting(ledger'[s]), s # i
      PROVE  s < i /\ ledger'[s] = ledger[s]
  BY <1>0, <1>1
<1>2. InOrder'
  <2> SUFFICES ASSUME NEW s \in Stages, NEW u \in Stages, u < s, ~Waiting(ledger'[s])
               PROVE  Settled(ledger'[u])
    BY DEF InOrder, Waiting, Settled
  <2>1. u < i
    <3>1. s = i \/ s < i
      BY <1>1
    <3> QED
      BY <3>1, StageAssumption DEF Stages
  <2> QED
    BY <2>1 DEF Settled, Waiting
<1>3. \A s \in Stages : Done(s)' => s < i /\ Done(s) /\ ledger'[s] = ledger[s]
  BY <1>1 DEF Done, Waiting
<1>4. Hashed' /\ Skips'
  <2>1. Hashed'
    BY <1>0, <1>3 DEF RowsCurrent, Hashed
  <2>2. \A s \in Stages : ledger'[s].status = "skipped" => Waiting(ledger'[s]) \/ ledger'[s] = ledger[s]
    BY <1>1
  <2>3. Skips'
    BY <2>2 DEF RowsCurrent, Skips, Waiting
  <2> QED
    BY <2>1, <2>3
<1>5. Good'
  <2> SUFFICES ASSUME NEW s \in Stages, Done(s)'
               PROVE  ledger'[s].producer # 0 /\ MadeBy(s, ledger[s].producer)'
    BY DEF Good
  <2>1. PICK v : v = ledger[s].producer
    OBVIOUS
  <2>2. v # 0 /\ MadeBy(s, v) /\ ledger'[s].producer = v
    BY <1>3, <2>1 DEF RowsCurrent, Good
  <2>3. MadeBy(s, v)'
    BY <1>3, <2>2, MadeByKept
  <2> QED
    BY <2>2, <2>3 DEF MadeBy
<1>6. Marked'
  <2> SUFFICES ASSUME ledger'[N].reason = "access", ~Settled(ledger'[N])
               PROVE  MadeBy(N, want[N])'
    BY DEF Marked, Settled, Waiting
  <2>1. N = i
    BY <1>0, <1>1, StageAssumption DEF Waiting, Stages
  <2>2. PICK v : v = want[N]
    OBVIOUS
  <2>3. MadeBy(N, v)'
    BY <1>0, <1>3, <2>1, <2>2, MadeByKept
  <2> QED
    BY <2>2, <2>3 DEF MadeBy
<1> QED
  BY <1>2, <1>4, <1>5, <1>6 DEF RowsCurrent

LEMMA PutBackCurrent ==
    ASSUME Bounded, Current, NEW i \in Stages, PutBack(i)
    PROVE  Current'
<1> SUFFICES ASSUME Steady' PROVE RowsCurrent' /\ AttemptsCurrent'
  BY DEF Current
<1>1. /\ UNCHANGED <<object, out, want, attempt>> /\ ~UnderWay /\ Steady
      /\ i = 1 \/ Settled(ledger[i - 1])
  <2>1. /\ UNCHANGED <<object, out, want, attempt>> /\ raced' = (raced \/ UnderWay)
        /\ skewed' = (skewed \/ (i > 1 /\ ~Settled(ledger[i - 1])))
    BY DEF PutBack, config
  <2>2. ~raced /\ ~UnderWay /\ ~skewed /\ (i > 1 => Settled(ledger[i - 1])) /\ object.live
    BY <2>1 DEF Steady
  <2>3. i = 1 \/ i > 1
    BY StageAssumption DEF Stages
  <2> QED
    BY <2>1, <2>2, <2>3 DEF Steady
<1>2. RowsCurrent
  BY <1>1 DEF Current
<1>3. \A s \in Stages : s < i => Settled(ledger[s])
  <2> SUFFICES ASSUME NEW s \in Stages, s < i PROVE Settled(ledger[s])
    OBVIOUS
  <2>1. i - 1 \in Stages /\ Settled(ledger[i - 1]) /\ (s = i - 1 \/ s < i - 1)
    BY <1>1, StageAssumption DEF Stages
  <2>2. ~Waiting(ledger[i - 1])
    BY <2>1 DEF Settled, Waiting
  <2> QED
    BY <1>2, <2>1, <2>2 DEF RowsCurrent, InOrder
<1>4. /\ \A s \in Stages : s < i => ledger'[s] = ledger[s]
      /\ ledger'[i].status = "pending" /\ ledger'[i].reason = "none"
      /\ \A s \in Stages : i < s => Waiting(ledger'[s])
  BY StageAssumption DEF PutBack, Parked, FreshRow, Waiting, Stages
<1>5. RowsCurrent'
  BY <1>1, <1>2, <1>3, <1>4, RequeuedCurrent
<1> QED
  BY <1>1, <1>5, AttemptsAbsent

LEMMA AccessCurrent ==
    ASSUME Bounded, Current, ObserveAccess
    PROVE  Current'
<1> SUFFICES ASSUME Steady' PROVE RowsCurrent' /\ AttemptsCurrent'
  BY DEF Current
<1>0. /\ ledger \in [Stages -> Rows] /\ object \in Objects
      /\ N \in Stages /\ 1 \in Stages /\ \A s \in Stages : s < N \/ s = N
  BY StageAssumption DEF Bounded, TypeOK, Stages
<1>1. /\ UNCHANGED <<out, want, attempt>> /\ ~UnderWay
      /\ object'.seen = object.seen /\ object'.hash = object.hash
      /\ ledger' = AccessQueued(ledger) /\ Steady
      /\ Settled(ledger[N]) => Fresh(N)
  BY <1>0 DEF ObserveAccess, Steady, config, Objects
<1>2. RowsCurrent
  BY <1>1 DEF Current
<1>3. CASE Settled(ledger[N])
  <2>1. /\ ~Waiting(ledger[N]) /\ Done(N) /\ ledger[N].producer = want[N]
    BY <1>1, <1>3 DEF Settled, Waiting, Fresh, Done
  <2>2. MadeBy(N, want[N])
    BY <1>0, <1>2, <2>1 DEF RowsCurrent, Good
  <2>3. \A s \in Stages : s < N => ledger'[s] = ledger[s] /\ Settled(ledger[s])
    BY <1>0, <1>1, <1>2, <2>1, StageAssumption DEF AccessQueued, RowsCurrent, InOrder
  <2>4. ledger'[N].status = "pending"
    BY <1>0, <1>1, <1>3 DEF AccessQueued, FreshRow
  <2>5. \A s \in Stages : N < s => Waiting(ledger'[s])
    BY <1>0, StageAssumption DEF Stages
  <2> QED
    BY <1>0, <1>1, <1>2, <2>2, <2>3, <2>4, <2>5, RequeuedCurrent, AttemptsAbsent
<1>4. CASE ~Settled(ledger[N])
  <2>1. ledger' = ledger
    BY <1>1, <1>4 DEF AccessQueued
  <2>2. RowsCurrent'
    BY <1>0, <1>1, <1>2, <2>1, RowsKept DEF Done
  <2> QED
    BY <1>1, <2>2, AttemptsAbsent
<1> QED
  BY <1>3, <1>4

LEMMA EnableCurrent ==
    ASSUME Bounded, Current, RequeueNewlyEnabled
    PROVE  Current'
<1> SUFFICES ASSUME Steady' PROVE RowsCurrent' /\ AttemptsCurrent'
  BY DEF Current
<1>0. /\ ledger \in [Stages -> Rows] /\ N \in Stages
      /\ \A s \in Stages : (s < N => s # N) /\ ~(N < s)
  BY StageAssumption DEF Bounded, TypeOK, Stages
<1>1. /\ UNCHANGED <<object, out, want, attempt>> /\ ~UnderWay /\ Steady
      /\ NewlyEnabled = {N}
  BY DEF RequeueNewlyEnabled, Steady, config
<1>2. RowsCurrent
  BY <1>1 DEF Current
<1>3. ~Waiting(ledger[N])
  BY <1>1 DEF NewlyEnabled, Waiting
<1>4. \A s \in Stages : s < N => ledger'[s] = ledger[s] /\ Settled(ledger[s])
  BY <1>0, <1>1, <1>2, <1>3 DEF RequeueNewlyEnabled, RowsCurrent, InOrder
<1>5. ledger'[N].status = "pending" /\ ledger'[N].reason = "none"
  BY <1>0, <1>1 DEF RequeueNewlyEnabled, Rows
<1> QED
  BY <1>0, <1>1, <1>2, <1>4, <1>5, RequeuedCurrent, AttemptsAbsent

LEMMA AdminCurrent ==
    ASSUME Bounded, Current, NEW s \in Stages, BumpVersion(s) \/ ToggleStage(s)
    PROVE  Current'
<1> SUFFICES ASSUME Steady' PROVE RowsCurrent' /\ AttemptsCurrent'
  BY DEF Current
<1>1. /\ UNCHANGED <<ledger, object, out, attempt>> /\ ~UnderWay /\ Steady
      /\ \/ want' = want
         \/ want' = [want EXCEPT ![s] = want[s] + 1] /\ ledger[s].reason # "access"
  <2>1. CASE BumpVersion(s)
    BY <2>1 DEF BumpVersion, Steady
  <2>2. CASE ToggleStage(s)
    BY <2>2 DEF ToggleStage, Steady
  <2> QED
    BY <2>1, <2>2
<1>2. RowsCurrent
  BY <1>1 DEF Current
<1>3. InOrder' /\ Hashed' /\ Skips'
  BY <1>1, <1>2 DEF RowsCurrent, InOrder, Hashed, Skips, Settled, Waiting, Done
<1>4. Good'
  BY <1>1, <1>2 DEF RowsCurrent, Good, MadeBy, Done
<1>5. Marked'
  <2> SUFFICES ASSUME ledger[N].reason = "access", ~Settled(ledger[N])
               PROVE  MadeBy(N, want[N])'
    BY <1>1 DEF Marked, Settled, Waiting
  <2>1. MadeBy(N, want[N])
    BY <1>2 DEF RowsCurrent, Marked
  <2>2. want'[N] = want[N]
    BY <1>1, ConstantTypes DEF Bounded, TypeOK
  <2> QED
    BY <1>1, <2>1, <2>2 DEF MadeBy, Done
<1> QED
  BY <1>1, <1>3, <1>4, <1>5, AttemptsAbsent DEF RowsCurrent

LEMMA CurrentStep == Flow /\ Current /\ [Next]_vars => Current'
<1> SUFFICES ASSUME Flow, Current, [Next]_vars PROVE Current'
  OBVIOUS
<1>0. Bounded /\ Reasonable /\ HeldRowsOpen
  BY DEF Flow
<1>1. CASE \E w \in Workers, s \in Stages : Claim(w, s)
  BY <1>0, <1>1, ClaimCurrent
<1>2. CASE \E w \in Workers : Begin(w)
  BY <1>0, <1>2, BeginCurrent
<1>3. CASE \E w \in Workers : Finish(w)
  <2> SUFFICES ASSUME Steady' PROVE RowsCurrent' /\ AttemptsCurrent'
    BY DEF Current
  <2> QED
    BY <1>0, <1>3, FinishCurrent
<1>4. CASE \E w \in Workers : Crash(w) \/ \E k \in {"ordinary", "outage", "poison"} : Raise(w, k)
  BY <1>0, <1>4, RaiseCurrent
<1>5. CASE \E w \in Workers : RecordFailure(w)
  BY <1>0, <1>5, RecordCurrent
<1>6. CASE \E S \in SUBSET Stages : ExpireAbandoned(S) \/ ExpireHeld(S)
  BY <1>0, <1>6, ExpireCurrent DEF ExpireAbandoned, ExpireHeld
<1>7. CASE ObserveChange
  BY <1>0, <1>7, ChangeCurrent
<1>8. CASE ObserveAccess
  BY <1>0, <1>8, AccessCurrent
<1>9. CASE ObserveDeletion
  <2>1. ~object'.live
    BY <1>0, <1>9 DEF ObserveDeletion, Bounded, TypeOK, Objects
  <2> QED
    BY <2>1 DEF Current, Steady
<1>10. CASE \E i \in Stages : PutBack(i)
  BY <1>0, <1>10, PutBackCurrent
<1>11. CASE RequeueNewlyEnabled
  BY <1>0, <1>11, EnableCurrent
<1>12. CASE \E s \in Stages : BumpVersion(s) \/ ToggleStage(s)
  BY <1>0, <1>12, AdminCurrent
<1>13. CASE UNCHANGED vars
  <2>1. \A w \in Workers : attempt[w].stage \in Stages
    BY <1>0, StrikeTypes
  <2>2. UNCHANGED <<ledger, object, out, want, enabled, attempt, raced, skewed>>
    BY <1>13 DEF vars
  <2> SUFFICES ASSUME Steady PROVE RowsCurrent' /\ AttemptsCurrent'
    BY <2>2 DEF Current, Steady
  <2>3. RowsCurrent'
    BY <2>2, ConstantTypes, RowsKept DEF Current, Done
  <2>4. AttemptsCurrent'
    BY <2>1, <2>2, ConstantTypes, AttemptKept DEF Current, AttemptsCurrent, Done
  <2> QED
    BY <2>3, <2>4
<1>14. ASSUME RequeueOutdated \/ RequeueOntology \/ RequeueKnowledge
              \/ \E s \in Stages : RetryQuarantined(s)
       PROVE  \E i \in Stages : PutBack(i)
  BY <1>14, StageAssumption DEF RequeueOutdated, RequeueOntology, RequeueKnowledge,
                                RetryQuarantined, Stages
<1> QED
  BY <1>1, <1>2, <1>3, <1>4, <1>5, <1>6, <1>7, <1>8, <1>9, <1>10, <1>11, <1>12,
     <1>13, <1>14 DEF Next

LEMMA InitCurrent == Init => Current
<1> SUFFICES ASSUME Init PROVE RowsCurrent /\ AttemptsCurrent
  BY DEF Current
<1>1. N \in Stages /\ 1 \in Stages /\ N # 1
  BY StageAssumption DEF Stages
<1>2. AttemptsCurrent
  BY DEF Init, AttemptsCurrent, Held, Work, Idle
<1>3. Hashed /\ Skips /\ Good /\ Marked
  BY <1>1 DEF Init, Hashed, Skips, Good, Marked, Done, FreshRow
<1>4. InOrder
  BY StageAssumption DEF Init, InOrder, Waiting, FreshRow, Stages
<1> QED
  BY <1>2, <1>3, <1>4 DEF RowsCurrent

(* When every stage of a steady document is settled and none is outdated,  *)
(* what every enabled stage stored was derived from the content last seen  *)
(* by the versions configured (UndisturbedIsCurrent).                      *)
THEOREM SettledIsCurrent == Spec => []UndisturbedIsCurrent
<1>1. Bounded /\ Current => UndisturbedIsCurrent
  <2> SUFFICES ASSUME Bounded, Current, Finished, Steady,
                      ~\E s \in Stages : Outdated(s), NEW s \in Stages, enabled[s]
               PROVE  /\ out[s].content = object.seen
                      /\ \A u \in 1 .. s : enabled[u] => out[s].recipe[u] = want[u]
    BY DEF UndisturbedIsCurrent, Steady
  <2>1. RowsCurrent
    BY DEF Current
  <2>2. ASSUME NEW u \in Stages, enabled[u]
        PROVE  Done(u) /\ ledger[u].producer = want[u]
    <3>1. Settled(ledger[u]) /\ u \notin NewlyEnabled
      BY DEF Finished
    <3>2. Done(u)
      BY <2>1, <2>2, <3>1 DEF Settled, Waiting, NewlyEnabled, RowsCurrent, Skips, Done
    <3>3. ledger[u].producer # 0
      BY <2>1, <3>2 DEF RowsCurrent, Good
    <3> QED
      BY <2>2, <3>2, <3>3 DEF Outdated, Done
  <2>3. MadeBy(s, want[s])
    BY <2>1, <2>2 DEF RowsCurrent, Good
  <2>4. ASSUME NEW u \in 1 .. s, enabled[u] PROVE out[s].recipe[u] = want[u]
    <3>1. u \in Stages /\ (u = s \/ u < s)
      BY StageAssumption DEF Stages
    <3>2. Done(u) /\ ledger[u].producer = want[u]
      BY <2>2, <2>4, <3>1
    <3> QED
      BY <2>3, <3>1, <3>2 DEF MadeBy
  <2> QED
    BY <2>3, <2>4 DEF MadeBy
<1>2. Flow /\ Current /\ [Next]_vars => (Flow /\ Current)'
  BY StepBounded, ReasonStep, OpenStep, CurrentStep DEF Flow, Open
<1>3. Flow => Bounded
  BY DEF Flow
<1> QED
  BY <1>1, <1>2, <1>3, InitFlow, InitCurrent, PTL DEF Spec

=====
