------------------------------- MODULE Qosmon -------------------------------
(***************************************************************************)
(* The active congestion controller qosmon (qosmon.c): one process that    *)
(* pings a target, scans the traffic classes of the download device and    *)
(* moves the upper rate limit of the parent class so that the ping time    *)
(* stays below a limit.  One pass of the daemon's main loop is split where *)
(* the outside world can interleave with it: the loop head (LoopHead), the *)
(* select() wait (PongLatest, PongOlder, SelectTimeout, SelectError) and   *)
(* the work after the wait, which runs to the end of the pass in one step  *)
(* (ScanReset or one step of the state machine).                           *)
(*                                                                         *)
(* dbw_fil and RTDCA are recomputed by every scan and read only in the     *)
(* pass that follows it, so they are the parameters load and rt of that    *)
(* pass.  Ping times are in milliseconds in rawfltime and in microseconds  *)
(* in fil_triptime and pinglimit, as in the code; rates are in bps.        *)
(***************************************************************************)
EXTENDS Integers

CONSTANTS
    DBW_UL,        \* download speed of the WAN link, argv[2]*1000 (bps)
    MeasureRate,   \* the rate the link is held at while pings are measured
    Period,        \* ping interval, argv[0] (ms)
    PingLimitCL,   \* ping limit of the command line, 0 when none (us)
    AddEntitlement,\* the -a flag
    FilterStart,   \* 10000 in the code: time given to the link to drain (ms)
    FilterEnd,     \* 15000 in the code: end of the measurement (ms)
    PingMin,       \* 10000 in the code: smallest measured ping limit (us)
    PingMax,       \* 800000 in the code: largest measured ping limit (us)
    UpGain,        \* 4 in the code: 0.004 per second of ping time below the limit
    DownGain,      \* 5 in the code: 0.005 per second of ping time above it
    GainScale,     \* 10^6 in the code: the gains are per 1000 and the period in ms
    Trips,         \* the round trip times the network produces (ms)
    Loads,         \* the filtered loads the class scan can report (bps)
    CountMod,      \* 2^16 in the code: nreceived is a uint16_t
    MaxOlder,      \* bound: replies to earlier pings still on their way
    MaxLists,      \* bound: class lists the kernel goes through
    BigLists,      \* those of them with more classes than dnstats holds
    TalkMayFail    \* whether a netlink request may be refused

ASSUME RateAssumption ==
    /\ DBW_UL \in Nat /\ MeasureRate \in Nat
    /\ 0 < MeasureRate /\ MeasureRate < (15 * DBW_UL) \div 100
ASSUME PingAssumption ==
    /\ Period \in Nat \ {0} /\ FilterStart \in Nat /\ FilterEnd \in Nat
    /\ FilterStart <= FilterEnd
    /\ Trips \subseteq 0 .. Period
    /\ PingLimitCL \in Nat /\ PingMin \in Nat \ {0}
    /\ PingMax \in Nat /\ PingMin <= PingMax
ASSUME GainAssumption ==
    /\ UpGain \in Nat /\ DownGain \in Nat /\ GainScale \in Nat \ {0}
    /\ Loads \subseteq Nat
    /\ CountMod \in Nat \ {0} /\ MaxOlder \in Nat
    /\ MaxLists \in Nat \ {0} /\ BigLists \subseteq 1 .. MaxLists
ASSUME FlagAssumption ==
    AddEntitlement \in BOOLEAN /\ TalkMayFail \in BOOLEAN

VARIABLES
    pc,                   \* where the main loop stands
    sigterm,              \* set by the signal handler finish()
    qstate,               \* state of the controller
    pingon,               \* the pinger is active
    nreceived,            \* pongs counted
    rawfltime,            \* trip time of this pass (ms)
    fil_triptime,         \* filtered trip time (us)
    pinglimit,            \* MinRTT mode ping limit (us)
    new_dbw_ul,           \* the limit proposed by the state machine
    saved_active_limit,   \* new_dbw_ul last used in ACTIVE
    saved_realtime_limit, \* new_dbw_ul last used in REALTIME
    link,                 \* dbw_ul, the kernel's limit, and (history) what
                          \* last happened to it
    classes,              \* the kernel's class list, by generation
    view,                 \* the list recorded in dnstats; 0: firstflg is set
    latest,               \* the reply to the latest ping may still come
    older                 \* replies to earlier pings that may still come

pingVars == <<pingon, nreceived, rawfltime, fil_triptime, pinglimit>>
limitVars == <<new_dbw_ul, saved_active_limit, saved_realtime_limit>>
netVars == <<latest, older>>
vars == <<pc, sigterm, qstate, pingVars, limitVars, link, classes, view,
          netVars>>

States == {"CHK", "INIT", "ACTIVE", "REALTIME", "IDLE", "EXIT"}
Controlling == {"ACTIVE", "REALTIME", "IDLE"}

\* The lowest limit of the control law and the one it starts from.
Floor == (15 * DBW_UL) \div 100
StartLimit == (90 * DBW_UL) \div 100

CeilDiv(x, y) == (x + y - 1) \div y
AtMost(x, bound) == IF x > bound THEN bound ELSE x
AtLeast(x, bound) == IF x < bound THEN bound ELSE x

-----------------------------------------------------------------------------
\* The ways a request fails: the device is not found (the code returns 1) or
\* the kernel refuses the rate (2), and the limit stays; or the kernel takes
\* it and its answer is lost (2).  No caller looks at the return code.
FailedRequest(l, rate) ==
    {[dbw_ul |-> rate, kernel |-> k, last |-> "failed"] :
        k \in {l.kernel, rate}}

\* tc_class_modify: nothing when the rate is the one last asked for; otherwise
\* dbw_ul records the rate before the request is made.
TcClassModify(l, rate) ==
    IF l.dbw_ul = rate THEN {l}
    ELSE {[dbw_ul |-> rate, kernel |-> rate, last |-> "taken"]} \cup
         (IF TalkMayFail THEN FailedRequest(l, rate) ELSE {})

Init ==
    /\ pc = "top" /\ sigterm = FALSE /\ qstate = "CHK"
    /\ pingon = FALSE /\ nreceived = 0 /\ rawfltime = 0
    /\ fil_triptime = 0 /\ pinglimit = PingLimitCL
    /\ new_dbw_ul = StartLimit
    /\ saved_active_limit = StartLimit
    /\ saved_realtime_limit = StartLimit
    /\ link = [dbw_ul |-> DBW_UL, kernel |-> DBW_UL, last |-> "made"]
    /\ classes = 1 /\ view = 0
    /\ latest = FALSE /\ older = 0

-----------------------------------------------------------------------------
(* The loop head and the wait for pongs.                                    *)

\* Mutant: the loop does not look at sigterm.
LoopHeadDeaf ==
    /\ pc = "top"
    /\ pc' = "wait"
    /\ rawfltime' = Period
    /\ IF pingon
       THEN /\ latest' = TRUE
            /\ older' = AtMost(IF latest THEN older + 1 ELSE older, MaxOlder)
       ELSE UNCHANGED netVars
    /\ UNCHANGED <<sigterm, qstate, pingon, nreceived, fil_triptime, pinglimit,
                   limitVars, link, classes, view>>

LoopHead ==
    /\ pc = "top" /\ ~sigterm
    /\ pc' = "wait"
    /\ rawfltime' = Period
    /\ IF pingon
       THEN /\ latest' = TRUE
            /\ older' = AtMost(IF latest THEN older + 1 ELSE older, MaxOlder)
       ELSE UNCHANGED netVars
    /\ UNCHANGED <<sigterm, qstate, pingon, nreceived, fil_triptime, pinglimit,
                   limitVars, link, classes, view>>

\* pr_pack for the reply whose sequence number is the latest one sent.
PongLatest ==
    /\ pc = "wait" /\ latest
    /\ latest' = FALSE
    /\ nreceived' = (nreceived + 1) % CountMod
    /\ rawfltime' \in Trips
    /\ UNCHANGED <<pc, sigterm, qstate, pingon, fil_triptime, pinglimit,
                   limitVars, link, classes, view, older>>

\* pr_pack for any other reply of ours: counted, its time ignored.
PongOlder ==
    /\ pc = "wait" /\ older > 0
    /\ older' = older - 1
    /\ nreceived' = (nreceived + 1) % CountMod
    /\ UNCHANGED <<pc, sigterm, qstate, pingon, rawfltime, fil_triptime,
                   pinglimit, limitVars, link, classes, view, latest>>

SelectTimeout ==
    /\ pc = "wait"
    /\ pc' = "scan"
    /\ UNCHANGED <<sigterm, qstate, pingVars, limitVars, link, classes, view,
                   netVars>>

\* select() returned something else than 0 or 1: the loop ends.
SelectError ==
    /\ pc = "wait"
    /\ pc' = "exit"
    /\ UNCHANGED <<sigterm, qstate, pingVars, limitVars, link, classes, view,
                   netVars>>

-----------------------------------------------------------------------------
(* The scan of the class list and the state machine.                        *)

\* class_list found too many classes, or a list other than the recorded one.
ScanFails == classes \in BigLists \/ (view # 0 /\ view # classes)

ScanReset ==
    /\ pc = "scan" /\ ScanFails
    /\ view' = 0 /\ pingon' = FALSE /\ qstate' = "CHK"
    /\ pc' = "top"
    /\ UNCHANGED <<sigterm, nreceived, rawfltime, fil_triptime, pinglimit,
                   limitVars, link, classes, netVars>>

\* What every pass that is not reset does around the state machine.
PassFrame ==
    /\ pc = "scan" /\ ~ScanFails
    /\ view' = classes
    /\ pc' = "top"
    /\ UNCHANGED <<sigterm, rawfltime, classes, netVars>>

\* One step of the ping filter: a value between the old one and the new
\* sample.  Only multiples of the modelled trip times are kept.
Filtered ==
    IF ~pingon THEN {fil_triptime}
    ELSE {f \in {1000 * t : t \in Trips \cup {0, Period}} :
            \/ fil_triptime <= f /\ f <= 1000 * rawfltime
            \/ 1000 * rawfltime <= f /\ f <= fil_triptime}

\* QMON_CHK: wait for two pongs; then either start with the limit of the
\* command line or unload the link for the measurement.
CheckWaits ==
    /\ PassFrame /\ qstate = "CHK" /\ nreceived < 2
    /\ pingon' = TRUE
    /\ fil_triptime' \in Filtered
    /\ UNCHANGED <<qstate, nreceived, pinglimit, limitVars, link>>

\* Mutant: the start without a measurement does not ask for a limit.
CheckToIdleBlind ==
    /\ PassFrame /\ qstate = "CHK" /\ nreceived >= 2
    /\ ~AddEntitlement
    /\ pingon' = TRUE
    /\ link' \in TcClassModify([link EXCEPT !.dbw_ul = 0], new_dbw_ul)
    /\ fil_triptime' = 1000 * rawfltime
    /\ qstate' = "IDLE"
    /\ UNCHANGED <<nreceived, pinglimit, limitVars>>

CheckToIdle ==
    /\ PassFrame /\ qstate = "CHK" /\ nreceived >= 2
    /\ pinglimit # 0 /\ ~AddEntitlement
    /\ pingon' = TRUE
    /\ link' \in TcClassModify([link EXCEPT !.dbw_ul = 0], new_dbw_ul)
    /\ fil_triptime' = 1000 * rawfltime
    /\ qstate' = "IDLE"
    /\ UNCHANGED <<nreceived, pinglimit, limitVars>>

\* Mutant: the measurement starts without a request for its rate.
CheckToInitLoaded ==
    /\ PassFrame /\ qstate = "CHK" /\ nreceived >= 2
    /\ pinglimit = 0 \/ AddEntitlement
    /\ pingon' = TRUE
    /\ fil_triptime' \in Filtered
    /\ nreceived' = 0
    /\ qstate' = "INIT"
    /\ UNCHANGED <<pinglimit, limitVars, link>>

CheckToInit ==
    /\ PassFrame /\ qstate = "CHK" /\ nreceived >= 2
    /\ pinglimit = 0 \/ AddEntitlement
    /\ pingon' = TRUE
    /\ link' \in TcClassModify(link, MeasureRate)
    /\ fil_triptime' \in Filtered
    /\ nreceived' = 0
    /\ qstate' = "INIT"
    /\ UNCHANGED <<pinglimit, limitVars>>

\* QMON_INIT: until FilterStart the filter follows the last ping, after
\* FilterEnd the measurement is over.  Both times are counted in pongs.
MeasuredTrip ==
    IF nreceived < FilterStart \div Period + 1
    THEN {1000 * rawfltime} ELSE Filtered

MeasuredLimit(fil) ==
    LET raw == IF AddEntitlement THEN pinglimit + (11 * fil) \div 10
               ELSE 2 * fil
    IN  AtMost(AtLeast(raw, PingMin), PingMax)

InitMeasures ==
    /\ PassFrame /\ qstate = "INIT"
    /\ nreceived <= FilterEnd \div Period + 1
    /\ fil_triptime' \in MeasuredTrip
    /\ UNCHANGED <<qstate, pingon, nreceived, pinglimit, limitVars, link>>

\* Mutant: the end of the measurement does not restore the bandwidth.
InitToIdleThrottled ==
    /\ PassFrame /\ qstate = "INIT"
    /\ nreceived > FilterEnd \div Period + 1
    /\ fil_triptime' \in MeasuredTrip
    /\ qstate' = "IDLE"
    /\ pinglimit' = MeasuredLimit(fil_triptime')
    /\ UNCHANGED <<pingon, nreceived, limitVars, link>>

InitToIdle ==
    /\ PassFrame /\ qstate = "INIT"
    /\ nreceived > FilterEnd \div Period + 1
    /\ fil_triptime' \in MeasuredTrip
    /\ qstate' = "IDLE"
    /\ link' \in TcClassModify(link, new_dbw_ul)
    /\ pinglimit' = MeasuredLimit(fil_triptime')
    /\ UNCHANGED <<pingon, nreceived, limitVars>>

\* QMON_IDLE with a load below 15% of the link: the pinger is off.
IdleWaits(load) ==
    /\ PassFrame /\ qstate = "IDLE" /\ 100 * load < 15 * DBW_UL
    /\ pingon' = FALSE
    /\ fil_triptime' \in Filtered
    /\ UNCHANGED <<qstate, nreceived, pinglimit, limitVars, link>>

-----------------------------------------------------------------------------
(* The control law of the ACTIVE and REALTIME states.                       *)

Mode(rt) == IF ~rt /\ AddEntitlement THEN "ACTIVE" ELSE "REALTIME"

PLimit(mode) ==
    IF mode = "ACTIVE" THEN (135 * PingLimitCL) \div 100 + pinglimit
    ELSE pinglimit

\* What the saved limits are after the state left has stored its own.
SavedActive == IF qstate = "ACTIVE" THEN new_dbw_ul ELSE saved_active_limit
SavedRealtime ==
    IF qstate = "REALTIME" THEN new_dbw_ul ELSE saved_realtime_limit

\* The limit the pass starts from: the proposal, or what was saved for the
\* mode when the mode is entered.
BaseLimit(mode) ==
    IF qstate = mode THEN new_dbw_ul
    ELSE IF mode = "ACTIVE" THEN SavedActive ELSE SavedRealtime

\* Ping time below the limit: increase, never above the link's speed.
Increased(base, err, plimit) ==
    AtMost(base + (base * UpGain * (-err) * Period) \div (plimit * GainScale),
           DBW_UL)

\* Mutant: the dynamic range is not enforced on the way down.
DecreasedFreely(base, err, plimit) ==
    AtLeast(base - CeilDiv(base * DownGain * AtMost(err, 2 * plimit) * Period,
                           plimit * GainScale), 1)

\* Ping time above the limit: decrease, never below the floor.
Decreased(base, err, plimit) ==
    AtLeast(base - CeilDiv(base * DownGain * AtMost(err, 2 * plimit) * Period,
                           plimit * GainScale),
            Floor)

\* What one pass applies to a link whose mode switch (if any) was applied.
Control(l, base, err, plimit, load) ==
    IF err >= 0
    THEN LET new == Decreased(base, err, plimit)
         IN  {<<new, m>> : m \in TcClassModify(l, new)}
    ELSE IF 100 * load < 85 * l.dbw_ul THEN {<<base, l>>}
    ELSE LET new == Increased(base, err, plimit)
         IN  {<<new, m>> : m \in TcClassModify(l, new)}

\* Mutant: the mode's saved limit becomes the proposal but is not applied.
SwitchModeLazily(mode) == {link}

\* A mode that is entered applies its limit at once.
SwitchMode(mode) ==
    IF qstate = mode THEN {link} ELSE TcClassModify(link, BaseLimit(mode))

AdjustLimit(load, rt) ==
    LET mode == Mode(rt)
        base == BaseLimit(mode)
    IN  /\ PassFrame
        /\ \/ qstate \in {"ACTIVE", "REALTIME"}
           \/ qstate = "IDLE" /\ 100 * load >= 15 * DBW_UL
        /\ pingon' = TRUE
        /\ fil_triptime' \in Filtered
        /\ saved_active_limit' = SavedActive
        /\ saved_realtime_limit' = SavedRealtime
        /\ qstate' = IF 100 * load < 10 * DBW_UL THEN "IDLE" ELSE mode
        /\ \E l \in SwitchMode(mode) :
             \E r \in Control(l, base, fil_triptime' - PLimit(mode),
                              PLimit(mode), load) :
                /\ new_dbw_ul' = r[1]
                /\ link' = r[2]
        /\ UNCHANGED <<nreceived, pinglimit>>

-----------------------------------------------------------------------------
(* Termination, the signal handler and the rest of the router.              *)

\* Mutant: the daemon goes without restoring the link.
ExitAtOnce ==
    /\ pc = "exit" \/ (pc = "top" /\ sigterm)
    /\ pc' = "done"
    /\ qstate' = "EXIT"
    /\ UNCHANGED <<sigterm, pingVars, limitVars, link, classes, view, netVars>>

Exit ==
    /\ pc = "exit" \/ (pc = "top" /\ sigterm)
    /\ pc' = "done"
    /\ qstate' = "EXIT"
    /\ link' \in TcClassModify(link, DBW_UL)
    /\ UNCHANGED <<sigterm, pingVars, limitVars, classes, view, netVars>>

\* finish(): a signal that finds the process in select() also ends the wait
\* with EINTR, unless it arrives while a pong is being read.
Signal ==
    /\ pc \in {"top", "wait", "scan"} /\ ~sigterm
    /\ sigterm' = TRUE
    /\ pc' \in (IF pc = "wait" THEN {"wait", "exit"} ELSE {pc})
    /\ UNCHANGED <<qstate, pingVars, limitVars, link, classes, view, netVars>>

\* Somebody makes the classes of the device anew while the daemon runs: the
\* parent class has the link's speed as its limit again.  The leaf classes
\* may be the same as before, and then the scan finds nothing.
MakeClasses ==
    /\ pc # "done"
    /\ link' = [link EXCEPT !.kernel = DBW_UL, !.last = "made"]
    /\ classes' \in classes .. AtMost(classes + 1, MaxLists)
    /\ UNCHANGED <<pc, sigterm, qstate, pingVars, limitVars, view, netVars>>

\* Somebody adds or removes leaf classes and leaves the parent class alone.
ChangeClasses ==
    /\ pc # "done" /\ classes < MaxLists
    /\ classes' = classes + 1
    /\ UNCHANGED <<pc, sigterm, qstate, pingVars, limitVars, link, view,
                   netVars>>

\* The process is gone: nothing happens any more.
Terminated == pc = "done" /\ UNCHANGED vars

StateMachine ==
    \/ CheckWaits \/ CheckToIdle \/ CheckToInit
    \/ InitMeasures \/ InitToIdle
    \/ \E load \in Loads : IdleWaits(load)
    \/ \E load \in Loads, rt \in BOOLEAN : AdjustLimit(load, rt)

Daemon == LoopHead \/ SelectTimeout \/ ScanReset \/ StateMachine \/ Exit

Next ==
    \/ Daemon \/ PongLatest \/ PongOlder \/ SelectError
    \/ Signal \/ MakeClasses \/ ChangeClasses \/ Terminated

Spec == Init /\ [][Next]_vars

\* The loop runs on: select() has a timeout and nothing else blocks.
LoopSpec == Spec /\ WF_vars(Daemon)

\* In addition the target answers: a reply to the latest ping that can come
\* again and again comes.
ResponsiveSpec == LoopSpec /\ SF_vars(PongLatest)
-----------------------------------------------------------------------------
(* Properties.                                                              *)

TypeOK ==
    /\ pc \in {"top", "wait", "scan", "exit", "done"}
    /\ sigterm \in BOOLEAN /\ qstate \in States
    /\ pingon \in BOOLEAN /\ nreceived \in 0 .. CountMod - 1
    /\ rawfltime \in 0 .. Period
    /\ fil_triptime \in 0 .. 1000 * Period
    /\ pinglimit \in Nat
    /\ new_dbw_ul \in Nat
    /\ saved_active_limit \in Nat /\ saved_realtime_limit \in Nat
    /\ link \in [dbw_ul : Nat, kernel : Nat,
                 last : {"made", "taken", "failed"}]
    /\ classes \in 1 .. MaxLists /\ view \in 0 .. MaxLists
    /\ latest \in BOOLEAN /\ older \in 0 .. MaxOlder

\* The control law stays within its dynamic range in every mode, whatever
\* the pings, the loads, the mode switches and the resets were.
LimitInRange ==
    /\ new_dbw_ul \in Floor .. DBW_UL
    /\ saved_active_limit \in Floor .. DBW_UL
    /\ saved_realtime_limit \in Floor .. DBW_UL

\* In the states that control the link the limit asked of the kernel is the
\* proposed one: mode switches, early breaks and the measurement leave no
\* other limit in force.
LimitInForce == qstate \in Controlling => link.dbw_ul = new_dbw_ul

\* The kernel holds the link at the measuring rate all through a measurement,
\* unless the last request failed or the classes were made anew after the
\* last request; and the pinger is on in every state that computes with pings.
MeasuresUnloaded ==
    /\ (qstate = "INIT" /\ link.last = "taken") => link.kernel = MeasureRate
    /\ qstate \in {"INIT", "ACTIVE", "REALTIME"} => pingon

\* The control law divides by the ping limit: it is known, and not zero, in
\* every state from which the law can run.
PingLimitKnown == qstate \in Controlling => pinglimit > 0

\* A daemon that is gone leaves the kernel at the link's speed, if the last
\* request it made, now or any time before, did not fail: also when the
\* classes were made anew under it and when it asks for nothing at its exit.
RestoredOnExit ==
    (pc = "done" /\ link.last # "failed") => link.kernel = DBW_UL

\* A link throttled for a measurement does not stay throttled.
ThrottlingEnds ==
    (link.dbw_ul = MeasureRate) ~> (link.dbw_ul # MeasureRate)

\* A termination signal ends the daemon, wherever in the loop it arrives.
SignalEndsDaemon == sigterm ~> (pc = "done")
=============================================================================
