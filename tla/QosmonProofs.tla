---------------------------- MODULE QosmonProofs ----------------------------
(***************************************************************************)
(* Proofs about the congestion controller, for every link speed, ping      *)
(* interval, gain, trip time and load, and for every failure of a request. *)
(* IInv is what holds of the daemon's own variables; none of its parts is  *)
(* inductive alone: the range of a new limit rests on the ping limit being *)
(* positive, and the limit in force after a pass rests on the one in force *)
(* before it.  RInv ties the limit the kernel shapes with to the one the   *)
(* daemon recorded, as far as the last event of that limit allows.         *)
(***************************************************************************)
EXTENDS Qosmon, TLAPS

Links == [dbw_ul : Nat, kernel : Nat, last : {"made", "taken", "failed"}]

\* What the daemon recorded during a measurement, and that it pings.
AsksMeasureRate ==
    /\ qstate = "INIT" => link.dbw_ul = MeasureRate
    /\ qstate \in {"INIT", "ACTIVE", "REALTIME"} => pingon

IInv ==
    /\ TypeOK
    /\ LimitInRange
    /\ LimitInForce
    /\ AsksMeasureRate
    /\ PingLimitKnown

-----------------------------------------------------------------------------
(* Arithmetic.                                                              *)

\* A quotient of naturals is a natural (the rounding of the control law).
LEMMA DivNat ==
    ASSUME NEW x \in Nat, NEW y \in Nat \ {0}
    PROVE  x \div y \in Nat
OBVIOUS

\* A product of naturals is a natural.
LEMMA MulNat ==
    ASSUME NEW x \in Nat, NEW y \in Nat
    PROVE  x * y \in Nat
OBVIOUS

\* The dynamic range is not empty, lies above the measuring rate and
\* contains the limit the daemon starts from.
LEMMA RangeFacts ==
    /\ Floor \in Nat /\ StartLimit \in Nat
    /\ MeasureRate < Floor /\ Floor <= StartLimit /\ StartLimit <= DBW_UL
BY RateAssumption DEF Floor, StartLimit

\* tc_class_modify leaves dbw_ul at the rate asked for, accepted or refused.
LEMMA TcClassModifyResult ==
    ASSUME NEW l \in Links, NEW rate \in Nat, NEW m \in TcClassModify(l, rate)
    PROVE  m \in Links /\ m.dbw_ul = rate
<1>1. CASE l.dbw_ul = rate
  BY <1>1 DEF TcClassModify
<1>2. CASE l.dbw_ul # rate
  <2>1. PICK k \in {l.kernel, rate}, w \in {"taken", "failed"} :
          m = [dbw_ul |-> rate, kernel |-> k, last |-> w]
    BY <1>2 DEF TcClassModify, FailedRequest
  <2>2. k \in Nat
    BY DEF Links
  <2> QED  BY <2>1, <2>2 DEF Links
<1> QED  BY <1>1, <1>2

\* An increase stays within the dynamic range.
LEMMA IncreasedInRange ==
    ASSUME NEW base \in Floor .. DBW_UL, NEW err \in Int, err < 0,
           NEW plimit \in Nat \ {0}
    PROVE  Increased(base, err, plimit) \in Floor .. DBW_UL
<1> DEFINE gain == base * UpGain * (-err) * Period
           scale == plimit * GainScale
<1>1. base \in Nat /\ DBW_UL \in Nat /\ Floor \in Nat
  BY RangeFacts, RateAssumption
<1>2. gain \in Nat
  BY <1>1, MulNat, GainAssumption, PingAssumption
<1>3. scale \in Nat \ {0}
  BY GainAssumption
<1> HIDE DEF gain, scale
<1>4. gain \div scale \in Nat
  BY <1>2, <1>3, DivNat
<1>5. Increased(base, err, plimit) = AtMost(base + gain \div scale, DBW_UL)
  BY DEF Increased, gain, scale
<1> QED  BY <1>1, <1>4, <1>5 DEF AtMost

\* A decrease stays within the dynamic range.
LEMMA DecreasedInRange ==
    ASSUME NEW base \in Floor .. DBW_UL, NEW err \in Nat,
           NEW plimit \in Nat \ {0}
    PROVE  Decreased(base, err, plimit) \in Floor .. DBW_UL
<1> DEFINE loss == base * DownGain * AtMost(err, 2 * plimit) * Period
           scale == plimit * GainScale
<1>1. base \in Nat /\ DBW_UL \in Nat /\ Floor \in Nat
  BY RangeFacts, RateAssumption
<1>2. AtMost(err, 2 * plimit) \in Nat
  BY DEF AtMost
<1>3. loss \in Nat
  BY <1>1, <1>2, MulNat, GainAssumption, PingAssumption
<1>4. scale \in Nat \ {0}
  BY GainAssumption
<1> HIDE DEF loss, scale
<1>5. CeilDiv(loss, scale) \in Nat
  <2>1. loss + scale - 1 \in Nat
    BY <1>3, <1>4
  <2> QED  BY <2>1, <1>4, DivNat DEF CeilDiv
<1>6. Decreased(base, err, plimit)
        = AtLeast(base - CeilDiv(loss, scale), Floor)
  BY DEF Decreased, loss, scale
<1> QED  BY <1>1, <1>5, <1>6 DEF AtLeast

\* What the control law proposes is in range and is what it has applied.
LEMMA ControlResult ==
    ASSUME NEW l \in Links, NEW base \in Floor .. DBW_UL, l.dbw_ul = base,
           NEW err \in Int, NEW plimit \in Nat \ {0}, NEW load,
           NEW r \in Control(l, base, err, plimit, load)
    PROVE  /\ r[1] \in Floor .. DBW_UL
           /\ r[2] \in Links
           /\ r[2].dbw_ul = r[1]
<1> Floor .. DBW_UL \subseteq Nat
  BY RangeFacts, RateAssumption
<1>1. CASE err >= 0
  <2> DEFINE new == Decreased(base, err, plimit)
  <2>1. new \in Floor .. DBW_UL
    BY <1>1, DecreasedInRange
  <2>2. PICK m \in TcClassModify(l, new) : r = <<new, m>>
    BY <1>1 DEF Control
  <2> HIDE DEF new
  <2> QED  BY <2>1, <2>2, TcClassModifyResult
<1>2. CASE err < 0 /\ 100 * load < 85 * l.dbw_ul
  BY <1>2 DEF Control
<1>3. CASE err < 0 /\ ~(100 * load < 85 * l.dbw_ul)
  <2> DEFINE new == Increased(base, err, plimit)
  <2>1. new \in Floor .. DBW_UL
    BY <1>3, IncreasedInRange
  <2>2. PICK m \in TcClassModify(l, new) : r = <<new, m>>
    BY <1>3 DEF Control
  <2> HIDE DEF new
  <2> QED  BY <2>1, <2>2, TcClassModifyResult
<1> QED  BY <1>1, <1>2, <1>3

\* The filtered trip time stays between 0 and the ping interval.
LEMMA FilterResult ==
    ASSUME TypeOK, NEW f \in Filtered \cup {1000 * rawfltime}
    PROVE  f \in 0 .. 1000 * Period
<1>1. CASE f \in Filtered
  <2>1. CASE f = fil_triptime
    BY <2>1 DEF TypeOK
  <2>2. CASE f \in {1000 * t : t \in Trips \cup {0, Period}}
    BY <2>2, PingAssumption
  <2> QED  BY <1>1, <2>1, <2>2 DEF Filtered
<1>2. CASE f = 1000 * rawfltime
  BY <1>2, PingAssumption DEF TypeOK
<1> QED  BY <1>1, <1>2

\* A measured ping limit is a positive number.
LEMMA MeasuredLimitPositive ==
    ASSUME NEW fil \in Nat, pinglimit \in Nat
    PROVE  MeasuredLimit(fil) \in Nat /\ MeasuredLimit(fil) > 0
<1>1. (11 * fil) \div 10 \in Nat
  BY DivNat
<1> QED  BY <1>1, PingAssumption DEF MeasuredLimit, AtMost, AtLeast

-----------------------------------------------------------------------------
(* The inductive invariant.                                                 *)

\* The daemon starts at the link's speed with 90% of it proposed.
LEMMA InitInv == Init => IInv
<1> SUFFICES ASSUME Init PROVE IInv
  OBVIOUS
<1>1. TypeOK
  <2>1. /\ 0 \in 0 .. CountMod - 1 /\ 0 \in 0 .. Period
        /\ 0 \in 0 .. 1000 * Period /\ 1 \in 1 .. MaxLists
        /\ 0 \in 0 .. MaxLists /\ 0 \in 0 .. MaxOlder
        /\ PingLimitCL \in Nat
    BY PingAssumption, GainAssumption
  <2>2. DBW_UL \in Nat /\ StartLimit \in Nat
    BY RangeFacts, RateAssumption
  <2> QED  BY <2>1, <2>2 DEF Init, TypeOK, States
<1>2. LimitInRange
  BY RangeFacts, RateAssumption DEF Init, LimitInRange
<1>3. LimitInForce /\ AsksMeasureRate /\ PingLimitKnown
  BY DEF Init, LimitInForce, AsksMeasureRate, PingLimitKnown, Controlling
<1> QED  BY <1>1, <1>2, <1>3 DEF IInv

\* Steps that leave the state machine, its limits and the pinger alone.
LEMMA QuietStep ==
    ASSUME IInv, TypeOK',
           UNCHANGED <<qstate, pingon, pinglimit, limitVars, link>>
    PROVE  IInv'
BY DEF IInv, LimitInRange, LimitInForce, AsksMeasureRate, PingLimitKnown,
       limitVars

\* A pass of the control law keeps the invariant.
LEMMA AdjustLimitInv ==
    ASSUME IInv, NEW load \in Loads, NEW rt \in BOOLEAN, AdjustLimit(load, rt)
    PROVE  IInv'
<1> DEFINE mode == Mode(rt)
           base == BaseLimit(mode)
           plimit == PLimit(mode)
<1> USE DEF IInv
<1>1. qstate \in Controlling /\ pinglimit \in Nat /\ pinglimit > 0
  BY DEF AdjustLimit, Controlling, PingLimitKnown, TypeOK
<1>2. mode \in {"ACTIVE", "REALTIME"}
  BY DEF Mode
<1>3. plimit \in Nat \ {0}
  <2>1. (135 * PingLimitCL) \div 100 \in Nat
    BY PingAssumption, DivNat
  <2> QED  BY <1>1, <2>1 DEF PLimit
<1>4. /\ SavedActive \in Floor .. DBW_UL
      /\ SavedRealtime \in Floor .. DBW_UL
      /\ base \in Floor .. DBW_UL
  BY DEF SavedActive, SavedRealtime, BaseLimit, LimitInRange
<1>5. fil_triptime' \in 0 .. 1000 * Period
  BY FilterResult DEF AdjustLimit
<1>6. Floor .. DBW_UL \subseteq Nat /\ 0 .. 1000 * Period \subseteq Int
  BY RangeFacts, RateAssumption
<1>7. \A l \in SwitchMode(mode) : l \in Links /\ l.dbw_ul = base
  <2> SUFFICES ASSUME NEW l \in SwitchMode(mode)
               PROVE  l \in Links /\ l.dbw_ul = base
    OBVIOUS
  <2>0. link \in Links
    BY DEF TypeOK, Links
  <2>1. CASE qstate = mode
    BY <2>0, <2>1, <1>1 DEF SwitchMode, BaseLimit, LimitInForce
  <2>2. CASE qstate # mode
    <3>1. l \in TcClassModify(link, base)
      BY <2>2 DEF SwitchMode
    <3> HIDE DEF base
    <3> QED  BY <3>1, <2>0, <1>4, <1>6, TcClassModifyResult
  <2> QED  BY <2>1, <2>2
<1>8. PICK l \in SwitchMode(mode) :
        \E r \in Control(l, base, fil_triptime' - plimit, plimit, load) :
           new_dbw_ul' = r[1] /\ link' = r[2]
  BY DEF AdjustLimit
<1>9. PICK r \in Control(l, base, fil_triptime' - plimit, plimit, load) :
           new_dbw_ul' = r[1] /\ link' = r[2]
  BY <1>8
<1>10. /\ new_dbw_ul' \in Floor .. DBW_UL
       /\ link' \in Links /\ link'.dbw_ul = new_dbw_ul'
  <2>1. l \in Links /\ l.dbw_ul = base
    BY <1>7
  <2>2. fil_triptime' - plimit \in Int
    BY <1>3, <1>5, <1>6
  <2> HIDE DEF base, plimit
  <2> QED  BY <2>1, <2>2, <1>3, <1>4, <1>9, ControlResult
<1>11. /\ saved_active_limit' = SavedActive
       /\ saved_realtime_limit' = SavedRealtime
       /\ qstate' \in {"IDLE", "ACTIVE", "REALTIME"}
       /\ pingon' = TRUE
       /\ pinglimit' = pinglimit
  BY <1>2 DEF AdjustLimit
<1>12. TypeOK'
  <2>1. /\ pc' = "top" /\ view' = classes
        /\ UNCHANGED <<sigterm, rawfltime, classes, netVars, nreceived>>
    BY DEF AdjustLimit, PassFrame
  <2> QED
    BY <2>1, <1>4, <1>5, <1>6, <1>10, <1>11
    DEF TypeOK, netVars, States, Links
<1>13. LimitInRange'
  BY <1>4, <1>10, <1>11 DEF LimitInRange
<1>14. LimitInForce' /\ AsksMeasureRate' /\ PingLimitKnown'
  BY <1>1, <1>10, <1>11 DEF LimitInForce, AsksMeasureRate, PingLimitKnown
<1> QED  BY <1>12, <1>13, <1>14

\* Every step keeps the invariant.
LEMMA NextInv == IInv /\ [Next]_vars => IInv'
<1> SUFFICES ASSUME IInv, [Next]_vars PROVE IInv'
  OBVIOUS
<1> USE DEF IInv
<1>a. /\ Floor .. DBW_UL \subseteq Nat /\ MeasureRate \in Nat
      /\ DBW_UL \in Nat
  BY RangeFacts, RateAssumption
<1>b. link \in Links /\ [link EXCEPT !.dbw_ul = 0] \in Links
  BY DEF TypeOK, Links
<1>c. new_dbw_ul \in Nat
  BY DEF TypeOK
<1>d. \A n \in Nat : n % CountMod \in 0 .. CountMod - 1
  BY GainAssumption
<1>1. CASE LoopHead
  <2>1. TypeOK'
    <3>1. rawfltime' \in 0 .. Period
      BY <1>1, PingAssumption DEF LoopHead
    <3>2. latest' \in BOOLEAN
      BY <1>1 DEF LoopHead, TypeOK, netVars
    <3>3. older' \in 0 .. MaxOlder
      <4>1. \/ older' = older
            \/ older' = AtMost(older, MaxOlder)
            \/ older' = AtMost(older + 1, MaxOlder)
        BY <1>1 DEF LoopHead, netVars
      <4> QED  BY <4>1, GainAssumption DEF TypeOK, AtMost
    <3> QED
      BY <1>1, <3>1, <3>2, <3>3 DEF LoopHead, TypeOK, limitVars
  <2> QED  BY <1>1, <2>1, QuietStep DEF LoopHead
<1>2. CASE PongLatest
  <2>1. TypeOK'
    <3>1. nreceived' \in 0 .. CountMod - 1
      BY <1>2, <1>d, GainAssumption DEF PongLatest, TypeOK
    <3>2. rawfltime' \in 0 .. Period /\ latest' \in BOOLEAN
      BY <1>2, PingAssumption DEF PongLatest
    <3> QED  BY <1>2, <3>1, <3>2 DEF PongLatest, TypeOK, limitVars
  <2> QED  BY <1>2, <2>1, QuietStep DEF PongLatest
<1>3. CASE PongOlder
  <2>1. TypeOK'
    BY <1>3, <1>d, GainAssumption DEF PongOlder, TypeOK, limitVars
  <2> QED  BY <1>3, <2>1, QuietStep DEF PongOlder
<1>4. CASE SelectTimeout \/ SelectError \/ Signal
  <2>1. pc' \in {"scan", "exit", "top", "wait"} /\ sigterm' \in BOOLEAN
    BY <1>4 DEF SelectTimeout, SelectError, Signal, TypeOK
  <2>2. UNCHANGED <<qstate, pingVars, limitVars, link, classes, view, netVars>>
    BY <1>4 DEF SelectTimeout, SelectError, Signal
  <2>3. TypeOK'
    BY <2>1, <2>2 DEF TypeOK, pingVars, limitVars, netVars
  <2> QED
    BY <1>4, <2>3, QuietStep DEF SelectTimeout, SelectError, Signal, pingVars
<1>5. CASE ChangeClasses
  <2>1. TypeOK'
    BY <1>5, GainAssumption
    DEF ChangeClasses, TypeOK, pingVars, limitVars, netVars
  <2> QED  BY <1>5, <2>1, QuietStep DEF ChangeClasses, pingVars
<1>5a. CASE MakeClasses
  <2>1. link' = [link EXCEPT !.kernel = DBW_UL, !.last = "made"]
    BY <1>5a DEF MakeClasses
  <2>2. link' \in Links /\ link'.dbw_ul = link.dbw_ul
    BY <2>1, <1>a, <1>b DEF Links
  <2>3. classes' \in 1 .. MaxLists
    BY <1>5a, GainAssumption DEF MakeClasses, TypeOK, AtMost
  <2>4. TypeOK'
    BY <1>5a, <2>2, <2>3
    DEF MakeClasses, TypeOK, pingVars, limitVars, netVars, Links
  <2> QED
    BY <1>5a, <2>2, <2>4
    DEF MakeClasses, LimitInRange, LimitInForce, AsksMeasureRate,
        PingLimitKnown, pingVars, limitVars
<1>6. CASE ScanReset
  <2>1. TypeOK'
    <3>1. pingon' \in BOOLEAN
      BY <1>6 DEF ScanReset
    <3>2. view' \in 0 .. MaxLists /\ qstate' \in States
      BY <1>6, GainAssumption DEF ScanReset, States
    <3> QED  BY <1>6, <3>1, <3>2 DEF ScanReset, TypeOK, limitVars, netVars
  <2>2. LimitInRange'
    BY <1>6 DEF ScanReset, LimitInRange, limitVars
  <2> QED
    BY <1>6, <2>1, <2>2
    DEF ScanReset, LimitInForce, AsksMeasureRate, PingLimitKnown, Controlling
<1>7. CASE CheckWaits
  <2>1. TypeOK'
    BY <1>7, FilterResult
    DEF CheckWaits, PassFrame, TypeOK, limitVars, netVars
  <2> QED
    BY <1>7, <2>1
    DEF CheckWaits, LimitInRange, LimitInForce, AsksMeasureRate,
        PingLimitKnown, limitVars, Controlling
<1>8. CASE CheckToIdle
  <2>1. link' \in Links /\ link'.dbw_ul = new_dbw_ul
    BY <1>8, <1>b, <1>c, TcClassModifyResult DEF CheckToIdle
  <2>2. fil_triptime' \in 0 .. 1000 * Period
    BY <1>8, FilterResult DEF CheckToIdle
  <2>3. TypeOK'
    BY <1>8, <2>1, <2>2
    DEF CheckToIdle, PassFrame, TypeOK, limitVars, netVars, Links, States
  <2> QED
    BY <1>8, <2>1, <2>3
    DEF CheckToIdle, LimitInRange, LimitInForce, AsksMeasureRate,
        PingLimitKnown, limitVars, TypeOK
<1>9. CASE CheckToInit
  <2>1. link' \in Links /\ link'.dbw_ul = MeasureRate
    BY <1>9, <1>a, <1>b, TcClassModifyResult DEF CheckToInit
  <2>2. fil_triptime' \in 0 .. 1000 * Period
    BY <1>9, FilterResult DEF CheckToInit
  <2>3. TypeOK'
    BY <1>9, <2>1, <2>2, GainAssumption
    DEF CheckToInit, PassFrame, TypeOK, limitVars, netVars, Links, States
  <2> QED
    BY <1>9, <2>1, <2>3
    DEF CheckToInit, LimitInRange, LimitInForce, AsksMeasureRate,
        PingLimitKnown, limitVars, Controlling
<1>10. CASE InitMeasures
  <2>1. fil_triptime' \in 0 .. 1000 * Period
    BY <1>10, FilterResult DEF InitMeasures, MeasuredTrip
  <2>2. TypeOK'
    BY <1>10, <2>1 DEF InitMeasures, PassFrame, TypeOK, limitVars, netVars
  <2> QED
    BY <1>10, <2>2
    DEF InitMeasures, LimitInRange, LimitInForce, AsksMeasureRate,
        PingLimitKnown, limitVars
<1>11. CASE InitToIdle
  <2>1. link' \in Links /\ link'.dbw_ul = new_dbw_ul
    BY <1>11, <1>b, <1>c, TcClassModifyResult DEF InitToIdle
  <2>2. fil_triptime' \in 0 .. 1000 * Period
    BY <1>11, FilterResult DEF InitToIdle, MeasuredTrip
  <2>3. fil_triptime' \in Nat /\ pinglimit \in Nat
    BY <2>2 DEF TypeOK
  <2>4. pinglimit' \in Nat /\ pinglimit' > 0
    BY <1>11, <2>3, MeasuredLimitPositive DEF InitToIdle
  <2>5. TypeOK'
    BY <1>11, <2>1, <2>2, <2>4
    DEF InitToIdle, PassFrame, TypeOK, limitVars, netVars, Links, States
  <2> QED
    BY <1>11, <2>1, <2>4, <2>5
    DEF InitToIdle, LimitInRange, LimitInForce, AsksMeasureRate,
        PingLimitKnown, limitVars
<1>12. ASSUME NEW load \in Loads, IdleWaits(load) PROVE IInv'
  <2>1. TypeOK'
    <3>1. fil_triptime' \in 0 .. 1000 * Period
      BY <1>12, FilterResult DEF IdleWaits
    <3>2. classes \in 0 .. MaxLists
      BY GainAssumption DEF TypeOK
    <3> QED
      BY <1>12, <3>1, <3>2 DEF IdleWaits, PassFrame, TypeOK, limitVars, netVars
  <2> QED
    BY <1>12, <2>1
    DEF IdleWaits, LimitInRange, LimitInForce, AsksMeasureRate,
        PingLimitKnown, limitVars
<1>13. ASSUME NEW load \in Loads, NEW rt \in BOOLEAN, AdjustLimit(load, rt)
       PROVE  IInv'
  BY <1>13, AdjustLimitInv
<1>14. CASE Exit
  <2>1. link' \in Links
    BY <1>14, <1>a, <1>b, TcClassModifyResult DEF Exit
  <2>2. TypeOK'
    BY <1>14, <2>1
    DEF Exit, TypeOK, pingVars, limitVars, netVars, Links, States
  <2> QED
    BY <1>14, <2>2
    DEF Exit, LimitInRange, LimitInForce, AsksMeasureRate, PingLimitKnown,
        limitVars, Controlling
<1>15. CASE UNCHANGED vars
  <2>1. TypeOK'
    BY <1>15 DEF vars, TypeOK, pingVars, limitVars, netVars
  <2> QED  BY <1>15, <2>1, QuietStep DEF vars, pingVars
<1> QED
  BY <1>1, <1>2, <1>3, <1>4, <1>5, <1>5a, <1>6, <1>7, <1>8, <1>9, <1>10, <1>11,
     <1>12, <1>13, <1>14, <1>15
  DEF Next, Daemon, StateMachine, Terminated

\* Spec keeps the conjunction of the type and safety invariants.
THEOREM Invariance == Spec => []IInv
BY InitInv, NextInv, PTL DEF Spec

\* TypeOK holds of every run of the daemon, for every configuration.
THEOREM TypeCorrect == Spec => []TypeOK
<1>1. IInv => TypeOK
  BY DEF IInv
<1> QED  BY <1>1, Invariance, PTL

\* The limits of both modes never leave the range 15% to 100% of the link's
\* speed: the arithmetic of the control law has no run that escapes it.
THEOREM RangeKept == Spec => []LimitInRange
<1>1. IInv => LimitInRange
  BY DEF IInv
<1> QED  BY <1>1, Invariance, PTL

\* In the states that control the link, the limit last asked of the kernel is
\* the proposed one.
THEOREM ProposalInForce == Spec => []LimitInForce
<1>1. IInv => LimitInForce
  BY DEF IInv
<1> QED  BY <1>1, Invariance, PTL

\* The control law never divides by zero.
THEOREM PingLimitPositive == Spec => []PingLimitKnown
<1>1. IInv => PingLimitKnown
  BY DEF IInv
<1> QED  BY <1>1, Invariance, PTL

-----------------------------------------------------------------------------
(* The limit the kernel shapes with.                                        *)

InStep(l) ==
    /\ l.last = "taken" => l.kernel = l.dbw_ul
    /\ l.last = "made" => l.kernel = DBW_UL

RInv == InStep(link) /\ (pc = "done" => link.dbw_ul = DBW_UL)

\* A request keeps the kernel in step with dbw_ul or is known to have failed,
\* and so does one that is not made because the rate was recorded before.
LEMMA ModifiedInStep ==
    ASSUME NEW l \in Links, NEW rate \in Nat,
           InStep(l) \/ l.dbw_ul # rate, NEW m \in TcClassModify(l, rate)
    PROVE  InStep(m)
<1>1. CASE l.dbw_ul = rate
  BY <1>1 DEF TcClassModify
<1>2. CASE l.dbw_ul # rate
  <2>1. \/ m = [dbw_ul |-> rate, kernel |-> rate, last |-> "taken"]
        \/ \E k \in {l.kernel, rate} :
              m = [dbw_ul |-> rate, kernel |-> k, last |-> "failed"]
    BY <1>2 DEF TcClassModify, FailedRequest
  <2> QED  BY <2>1 DEF InStep
<1> QED  BY <1>1, <1>2

\* A pass of the control law keeps the kernel in step.
LEMMA AdjustLimitInStep ==
    ASSUME IInv, InStep(link),
           NEW load \in Loads, NEW rt \in BOOLEAN, AdjustLimit(load, rt)
    PROVE  InStep(link')
<1> DEFINE mode == Mode(rt)
           base == BaseLimit(mode)
           plimit == PLimit(mode)
           err == fil_triptime' - plimit
<1>1. link \in Links
  BY DEF IInv, TypeOK, Links
<1>2. base \in Floor .. DBW_UL /\ Floor .. DBW_UL \subseteq Nat
  BY RangeFacts, RateAssumption
  DEF IInv, LimitInRange, BaseLimit, SavedActive, SavedRealtime
<1>a. PICK l \in SwitchMode(mode) :
        \E r \in Control(l, base, err, plimit, load) : link' = r[2]
  BY DEF AdjustLimit
<1>3. PICK r \in Control(l, base, err, plimit, load) : link' = r[2]
  BY <1>a
<1>4. l \in Links /\ InStep(l)
  <2> HIDE DEF mode
  <2>1. CASE qstate = mode
    BY <1>1, <1>3, <2>1 DEF SwitchMode
  <2>2. CASE qstate # mode
    <3>1. l \in TcClassModify(link, base)
      BY <1>3, <2>2 DEF SwitchMode
    <3> HIDE DEF base
    <3> QED  BY <3>1, <1>1, <1>2, ModifiedInStep, TcClassModifyResult
  <2> QED  BY <2>1, <2>2
<1>5. \/ link' = l
      \/ \E new \in Floor .. DBW_UL : link' \in TcClassModify(l, new)
  <2>1. qstate \in Controlling /\ pinglimit \in Nat /\ pinglimit > 0
    BY DEF AdjustLimit, Controlling, PingLimitKnown, TypeOK, IInv
  <2>2. plimit \in Nat \ {0}
    <3>1. (135 * PingLimitCL) \div 100 \in Nat
      BY PingAssumption, DivNat
    <3> QED  BY <2>1, <3>1 DEF PLimit
  <2>3. err \in Int
    <3>1. fil_triptime' \in 0 .. 1000 * Period
      BY FilterResult DEF AdjustLimit, IInv
    <3> QED  BY <2>2, <3>1, PingAssumption
  <2> HIDE DEF base, plimit, err
  <2>4. CASE err >= 0
    <3>1. Decreased(base, err, plimit) \in Floor .. DBW_UL
      BY <2>2, <2>3, <2>4, <1>2, DecreasedInRange
    <3> QED  BY <3>1, <2>4, <1>3 DEF Control
  <2>5. CASE err < 0
    <3>1. Increased(base, err, plimit) \in Floor .. DBW_UL
      BY <2>2, <2>3, <2>5, <1>2, IncreasedInRange
    <3> QED  BY <3>1, <2>5, <2>3, <1>3 DEF Control
  <2> QED  BY <2>3, <2>4, <2>5
<1> QED  BY <1>2, <1>4, <1>5, ModifiedInStep

\* Every step keeps the kernel in step and restores the link at the end.
LEMMA NextRInv == IInv /\ RInv /\ [Next]_vars => RInv'
<1> SUFFICES ASSUME IInv, RInv, [Next]_vars PROVE RInv'
  OBVIOUS
<1>1. /\ link \in Links /\ [link EXCEPT !.dbw_ul = 0] \in Links
      /\ InStep(link)
  BY DEF IInv, TypeOK, Links, RInv
<1>2. /\ new_dbw_ul \in Nat /\ new_dbw_ul # 0
      /\ MeasureRate \in Nat /\ DBW_UL \in Nat
  BY RangeFacts, RateAssumption DEF IInv, LimitInRange
<1>3. CASE Exit
  BY <1>1, <1>2, <1>3, ModifiedInStep, TcClassModifyResult DEF Exit, RInv
<1>4. CASE CheckToIdle
  <2>1. [link EXCEPT !.dbw_ul = 0].dbw_ul # new_dbw_ul
    BY <1>1, <1>2 DEF Links
  <2>2. InStep(link')
    BY <1>1, <1>2, <1>4, <2>1, ModifiedInStep DEF CheckToIdle
  <2> QED  BY <1>4, <2>2 DEF CheckToIdle, PassFrame, RInv
<1>5. CASE CheckToInit
  <2>1. InStep(link')
    BY <1>1, <1>2, <1>5, ModifiedInStep DEF CheckToInit
  <2> QED  BY <1>5, <2>1 DEF CheckToInit, PassFrame, RInv
<1>6. CASE InitToIdle
  <2>1. InStep(link')
    BY <1>1, <1>2, <1>6, ModifiedInStep DEF InitToIdle
  <2> QED  BY <1>6, <2>1 DEF InitToIdle, PassFrame, RInv
<1>7. ASSUME NEW load \in Loads, NEW rt \in BOOLEAN, AdjustLimit(load, rt)
      PROVE  RInv'
  BY <1>1, <1>7, AdjustLimitInStep DEF AdjustLimit, PassFrame, RInv
<1>8. CASE LoopHead \/ PongLatest \/ PongOlder \/ SelectTimeout
           \/ SelectError \/ Signal \/ ChangeClasses \/ ScanReset
  BY <1>8
  DEF LoopHead, PongLatest, PongOlder, SelectTimeout, SelectError, Signal,
      ChangeClasses, ScanReset, RInv
<1>8a. CASE MakeClasses
  <2>1. link' = [link EXCEPT !.kernel = DBW_UL, !.last = "made"]
    BY <1>8a DEF MakeClasses
  <2>2. InStep(link')
    BY <2>1, <1>1 DEF InStep, Links
  <2> QED  BY <1>8a, <2>2 DEF MakeClasses, RInv
<1>9. CASE CheckWaits \/ InitMeasures \/ \E load \in Loads : IdleWaits(load)
  BY <1>9 DEF CheckWaits, InitMeasures, IdleWaits, PassFrame, RInv
<1>10. CASE UNCHANGED vars
  BY <1>10 DEF vars, RInv
<1> QED
  BY <1>3, <1>4, <1>5, <1>6, <1>7, <1>8, <1>8a, <1>9, <1>10
  DEF Next, Daemon, StateMachine, Terminated

\* Both invariants hold in every run.
THEOREM KernelInvariance == Spec => [](IInv /\ RInv)
<1>1. Init => RInv
  BY DEF Init, RInv, InStep
<1>2. IInv /\ RInv /\ [Next]_vars => RInv'
  BY NextRInv
<1> QED  BY <1>1, <1>2, Invariance, PTL DEF Spec

\* All through a measurement the kernel holds the link at the measuring rate,
\* unless the last request failed or the classes were made anew since it.
THEOREM MeasurementUnloaded == Spec => []MeasuresUnloaded
<1>1. IInv /\ RInv => MeasuresUnloaded
  BY DEF IInv, RInv, InStep, AsksMeasureRate, MeasuresUnloaded
<1> QED  BY <1>1, KernelInvariance, PTL

\* A daemon that has ended has left the link at its full speed, whatever state
\* it was in and whatever requests failed, unless the last one it made did.
THEOREM LinkRestored == Spec => []RestoredOnExit
<1>1. IInv /\ RInv => RestoredOnExit
  <2> SUFFICES ASSUME IInv, RInv, pc = "done", link.last # "failed"
               PROVE  link.kernel = DBW_UL
    BY DEF RestoredOnExit
  <2>1. link.last \in {"made", "taken"}
    BY DEF IInv, TypeOK
  <2> QED  BY <2>1 DEF RInv, InStep
<1> QED  BY <1>1, KernelInvariance, PTL
=============================================================================
