----------------------------- MODULE BwHistory -----------------------------
(***************************************************************************)
(* The history of one rule of the bandwidth monitor: volumes by interval   *)
(* for every host.  bwmon_gargoyle makes the rule, gives the kernel the    *)
(* history of a file (bw_set -h) and backs it up from cron and before it   *)
(* removes the rule (bw_get -h).  The kernel keeps times as if the present *)
(* offset from UTC had always been in force; the library (ipt_bwctl.c)     *)
(* turns them into true times and back, and computes when each interval    *)
(* began.                                                                  *)
(*                                                                         *)
(* Times are in seconds of UTC, day 0 being the last of a month; offsets   *)
(* are in minutes west.  first_end is treated like last_end and left out,  *)
(* and so is the conversion of files of an older release (bw_convert).     *)
(***************************************************************************)
EXTENDS Integers, Sequences, FiniteSets, FiniteSetsExt

CONSTANTS
    Cases,       \* the rule's interval, its zone, where its file is kept
    Hosts,
    Volumes,     \* what a host transfers at a time
    Word,        \* 2^32 in the code
    Nodes,       \* intervals the kernel keeps
    MonthStarts, \* the days months begin on
    MaxPackets,  \* bound: packets
    MaxStops,    \* bound: stops of the monitor and power losses
    None, Unknown

\* Months have 28 days or more; the kernel keeps something.
ASSUME CalendarAssumption ==
    /\ MonthStarts \subseteq Int
    /\ \A m, n \in MonthStarts : m < n => m + 28 <= n
ASSUME BoundAssumption ==
    Volumes \subseteq Nat /\ Word \in Nat \ {0} /\ Nodes \in Nat \ {0}

\* What is no history, and no file, is neither.
History == [start : Int, end : Int, bws : Seq(Nat)]
ASSUME NoneAssumption ==
    \A H \in SUBSET Hosts :
        /\ None \notin [H -> History]
        /\ None \notin [whole : BOOLEAN, hosts : [H -> History]]

VARIABLES
    case,     \* the case at hand
    clock,    \* the time
    sys_west, \* the kernel's tz_minuteswest
    kernel,   \* the histories of the rule, None if it is not there
    init,     \* the init script: "off", "start" (rule made), "up", "stop"
    proc,     \* the two who back up: cron and the init script
    file,     \* the backup file, None if there is none
    packets, stops,
    truth,    \* history: when each interval began, and its volume, if known,
              \* of what was counted since the rule was made or got its history
    kept      \* history: the truth the backup file should tell

vars == <<case, clock, sys_west, kernel, init, proc, file, packets, stops,
          truth, kept>>

-----------------------------------------------------------------------------
\* External: the C library's zone and calendar.

WestIn(zone, t) == IF t < zone.change THEN zone.before ELSE zone.after
LocalIn(zone, t) == t - 60 * WestIn(zone, t)
\* A time as who believes that offset west was always in force has it.
ViewIn(zone, t, west) == t + 60 * (west - WestIn(zone, t))
West(t) == WestIn(case.zone, t)
Local(t) == LocalIn(case.zone, t)
MkTime(l) ==
    CHOOSE t \in {l + 60 * case.zone.before, l + 60 * case.zone.after} :
        Local(t) = l

Hour == 3600
Day == 86400
DayOfMonth(l) ==
    LET day == l \div Day
    IN day - Max({m \in MonthStarts : m <= day}) + 1

\* Mutant: a local day in another month than that of UTC is not noticed.
GetMinutesWestWithinMonth(t) ==
    LET l == Local(t)
    IN (Day \div 60) * (DayOfMonth(t) - DayOfMonth(l)) +
       (t % Day) \div 60 - (l % Day) \div 60

\* The offset by the days and minutes of both times; a day that seems to be
\* far ahead is the last one of a month.
GetMinutesWest(t) ==
    LET l == Local(t)
        utc_day == IF DayOfMonth(t) < DayOfMonth(l) - 1
                   THEN DayOfMonth(l) + 1 ELSE DayOfMonth(t)
        tz_day == IF DayOfMonth(l) < utc_day - 1 THEN utc_day + 1
                  ELSE DayOfMonth(l)
    IN (Day \div 60) * (utc_day - tz_day) +
       (t % Day) \div 60 - (l % Day) \div 60

-----------------------------------------------------------------------------
\* The library.

BANDWIDTH_MINUTE == 80
BANDWIDTH_HOUR == 81
BANDWIDTH_DAY == 82
BANDWIDTH_WEEK == 83
BANDWIDTH_MONTH == 84

\* Where the interval after the one at local time l begins.
NextLocal(l) ==
    CASE case.interval = BANDWIDTH_MINUTE -> (l \div 60 + 1) * 60
      [] case.interval = BANDWIDTH_HOUR -> (l \div Hour + 1) * Hour
      [] case.interval = BANDWIDTH_DAY -> (l \div Day + 1) * Day
      [] case.interval = BANDWIDTH_WEEK ->
            Min({d \in l \div Day + 1 .. l \div Day + 7 : d % 7 = 0}) * Day
      [] OTHER -> Min({m \in MonthStarts : m * Day > l}) * Day

\* Local time l is where the interval after the one of local time k begins.
Follows(interval, k, l) ==
    LET seconds == CASE interval = BANDWIDTH_MINUTE -> 60
                     [] interval = BANDWIDTH_HOUR -> Hour
                     [] interval = BANDWIDTH_DAY -> Day
                     [] OTHER -> 7 * Day
    IN /\ k < l
       /\ IF interval \in BANDWIDTH_MINUTE .. BANDWIDTH_WEEK
          THEN l % seconds = 0 /\ l - seconds <= k
          ELSE \E m \in MonthStarts :
                /\ l = m * Day
                /\ \A n \in MonthStarts : n * Day > k => n >= m

\* A rule's interval and its zone, whose offsets are of less than a day.
OffsetRange == -1439 .. 1439
RuleShape(c) ==
    /\ c.constant \in BOOLEAN /\ c.interval \in Nat
    /\ c.zone.change \in Int
    /\ c.zone.before \in OffsetRange /\ c.zone.after \in OffsetRange

\* Times at which its intervals begin, one after the other.
StartsShape(c) ==
    /\ c.starts \in Seq(Int) /\ Len(c.starts) >= 2
    /\ \A i, j \in 1 .. Len(c.starts) : i < j => c.starts[i] < c.starts[j]
StartsFollow(c) ==
    \A i \in 1 .. Len(c.starts) - 1 :
        IF c.constant THEN c.starts[i + 1] = c.starts[i] + c.interval
        ELSE Follows(c.interval, LocalIn(c.zone, c.starts[i]),
                     LocalIn(c.zone, c.starts[i + 1]))

\* None is so close to a change of the zone that the other offset puts it on
\* the other side.
FarFromChange(c) ==
    \A i \in 1 .. Len(c.starts), west \in {c.zone.before, c.zone.after} :
        WestIn(c.zone, ViewIn(c.zone, c.starts[i], west))
            = WestIn(c.zone, c.starts[i])

\* They come after the first days of the calendar.
InCalendar(c) == \E m \in MonthStarts : (m + 4) * Day <= c.starts[1]

ASSUME CaseAssumption ==
    \A c \in Cases :
        /\ RuleShape(c) /\ StartsShape(c) /\ StartsFollow(c)
        /\ FarFromChange(c) /\ InCalendar(c)

\* Interval names are converted in local time, lengths are added; the rules
\* of the monitor have a reset time only where the interval is a length.
NextStart(t) ==
    IF case.constant THEN t + case.interval ELSE MkTime(NextLocal(Local(t)))

\* get_interval_starts_for_history.
IntervalStarts(history) ==
    LET start[i \in 1 .. Len(history.bws)] ==
            IF i = 1 THEN history.start ELSE NextStart(start[i - 1])
    IN [i \in 1 .. Len(history.bws) |-> start[i]]

\* parse_returned_ip_data: the times as they really were.
Returned(history) ==
    LET Shift(t) == 60 * (GetMinutesWest(t) - GetMinutesWest(clock))
    IN [history EXCEPT !.start = @ + Shift(@), !.end = @ + Shift(@)]

\* set_ip_block: minutes are added to seconds, and with the same sign.
Sent(history) ==
    LET Shift(t) == GetMinutesWest(t) - GetMinutesWest(clock)
    IN [history EXCEPT !.start = @ + Shift(@), !.end = @ + Shift(@)]

Int32Max == Word \div 2 - 1

\* Mutant: the width of a host's volumes is that of the last one.
BitsOfLast(bws) == IF bws[Len(bws)] < Int32Max THEN 32 ELSE 64

\* The volumes of a host are of one width in the file.
Bits(bws) == IF \A i \in DOMAIN bws : bws[i] < Int32Max THEN 32 ELSE 64

\* save_history_to_file.
Saved(history) ==
    LET bits == Bits(history.bws)
        Field(v) == IF bits = 32 THEN v % Word ELSE v
    IN [history EXCEPT !.bws = [i \in DOMAIN @ |-> Field(@[i])]]

\* load_history_from_file: what is not in the file of a host's volumes is 0;
\* the fields of a host that is not there at all are not initialised, and
\* the program may die of them.
Loads ==
    IF file.whole THEN {file.hosts}
    ELSE {<<>>, [h \in DOMAIN file.hosts |->
                    [file.hosts[h] EXCEPT
                        !.bws = [i \in DOMAIN @ |-> 0]]]}

-----------------------------------------------------------------------------
\* External: the bandwidth match of the kernel.  case.starts are the times at
\* which intervals begin; the kernel has them in the view of an offset, and
\* looks at the clock whenever it is asked or counts.

View(t, west) == ViewIn(case.zone, t, west)
Present == Max({i \in DOMAIN case.starts : case.starts[i] <= clock})
Following == case.starts[Present + 1]
Zeros(n) == [i \in 1 .. n |-> 0]
Latest(s) == SubSeq(s, Max({1, Len(s) - Nodes + 1}), Len(s))
AddToLast(s, v) == [s EXCEPT ![Len(s)] = @ + v]

\* The intervals that have begun since are added, the oldest are forgotten.
Current(history, west) ==
    LET view(i) == View(case.starts[i], west)
        missed == Cardinality({i \in 1 .. Present : view(i) >= history.end})
        bws == history.bws \o Zeros(missed)
        forgotten == Len(bws) - Nodes
        passed(i) == {j \in DOMAIN case.starts :
                         history.start < view(j) /\ view(j) <= view(i)}
    IN [start |->
            IF forgotten <= 0 THEN history.start
            ELSE view(CHOOSE i \in DOMAIN case.starts :
                         Cardinality(passed(i)) = forgotten),
        end |-> View(Following, west), bws |-> Latest(bws)]

NewHistory(west) ==
    [start |-> View(case.starts[Present], west),
     end |-> View(Following, west), bws |-> <<0>>]

\* settimeofday: the kernel moves all it has to the new offset.
InZone(histories) ==
    LET shift == 60 * (West(clock) - sys_west)
    IN [h \in DOMAIN histories |->
            [histories[h] EXCEPT !.start = @ + shift, !.end = @ + shift]]

\* The same for what really happened.
TrueSince(told) ==
    LET last == told.starts[Len(told.starts)]
        missed == Cardinality({i \in 1 .. Present : case.starts[i] > last})
    IN [starts |-> Latest(told.starts \o
                    SubSeq(case.starts, Present - missed + 1, Present)),
        bws |-> Latest(told.bws \o Zeros(missed))]
NewTruth == [starts |-> <<case.starts[Present]>>, bws |-> <<0>>]

With(f, h, new) ==
    [x \in DOMAIN f \cup {h} |-> IF x = h THEN new ELSE f[x]]

-----------------------------------------------------------------------------
Idle == [pc |-> "idle", data |-> <<>>, told |-> None, alone |-> TRUE]

Init ==
    /\ case \in Cases
    /\ clock = case.starts[1] /\ sys_west = West(clock)
    /\ kernel = None /\ init = "off"
    /\ proc = [p \in {"cron", "stop"} |-> Idle]
    /\ file = None
    /\ packets = 0 /\ stops = 0
    /\ truth = <<>> /\ kept = <<>>

\* External: the clock goes on to the next interval or change of the zone;
\* cron has set the kernel's time zone since the last change.
Tick ==
    /\ Present + 1 < Len(case.starts) /\ sys_west = West(clock)
    /\ clock' = IF clock < case.zone.change
                THEN Min({Following, case.zone.change}) ELSE Following
    /\ UNCHANGED <<case, sys_west, kernel, init, proc, file, packets, stops,
                   truth, kept>>

\* set_kernel_timezone, which bw_get and bw_set begin with.
ZoneSet ==
    /\ sys_west' = West(clock)
    /\ kernel' = IF kernel = None THEN None ELSE InZone(kernel)

\* The same, run by cron.
SetKernelTimezone ==
    /\ sys_west # West(clock)
    /\ ZoneSet
    /\ UNCHANGED <<case, clock, init, proc, file, packets, stops, truth, kept>>

\* External: a packet of host h.
Count(h, v) ==
    /\ kernel # None /\ packets < MaxPackets
    /\ packets' = packets + 1
    /\ LET old == IF h \in DOMAIN kernel THEN Current(kernel[h], sys_west)
                  ELSE NewHistory(sys_west)
       IN kernel' = With(kernel, h, [old EXCEPT !.bws = AddToLast(@, v)])
    /\ truth' =
        IF truth = Unknown THEN Unknown
        ELSE LET old == IF h \in DOMAIN truth THEN TrueSince(truth[h])
                        ELSE NewTruth
             IN With(truth, h, [old EXCEPT !.bws = AddToLast(@, v)])
    /\ UNCHANGED <<case, clock, sys_west, init, proc, file, stops, kept>>

-----------------------------------------------------------------------------
\* bw_get -h, a line of the backup script: the query, the opening of the file
\* and the writing.

CronStarts ==
    /\ init \in {"up", "stop"} /\ proc["cron"].pc = "idle"
    /\ proc' = [proc EXCEPT !["cron"].pc = "get"]
    /\ UNCHANGED <<case, clock, sys_west, kernel, init, file, packets, stops,
                   truth, kept>>

\* The rule is gone, the lock is not got in time, or the program dies of the
\* answer to a getsockopt that failed; the file is left alone.
QueryFails(p) ==
    /\ proc[p].pc = "get"
    /\ proc' = [proc EXCEPT ![p] = Idle]
    /\ ZoneSet
    /\ UNCHANGED <<case, clock, init, file, packets, stops, truth, kept>>

\* What a backup of now should tell: nothing certain while the rule waits for
\* its history.
Told == IF truth = Unknown \/ init = "start" THEN Unknown
        ELSE [h \in DOMAIN truth |-> TrueSince(truth[h])]
Other(p) == IF p = "cron" THEN "stop" ELSE "cron"

\* p goes on to the file with data, of which told is the truth.
Answered(p, data, told) ==
    LET alone == proc[Other(p)].pc \notin {"open", "write"}
    IN proc' = [proc EXCEPT
                    ![p] = [pc |-> "open", data |-> data, told |-> told,
                            alone |-> alone],
                    ![Other(p)].alone = @ /\ alone]

Query(p) ==
    /\ proc[p].pc = "get" /\ kernel # None
    /\ ZoneSet
    /\ Answered(p, [h \in DOMAIN kernel |->
                        Returned(Current(kernel'[h], sys_west'))], Told)
    /\ UNCHANGED <<case, clock, init, file, packets, stops, truth, kept>>

\* No socket can be made: a success without hosts, whether or not there is a
\* rule, and the file will be emptied.
NoSocket(p) ==
    /\ proc[p].pc = "get"
    /\ ZoneSet
    /\ Answered(p, <<>>, Unknown)
    /\ UNCHANGED <<case, clock, init, file, packets, stops, truth, kept>>

Content(p) == [h \in DOMAIN proc[p].data |-> Saved(proc[p].data[h])]

OpenFile(p) ==
    /\ proc[p].pc = "open"
    /\ proc' = [proc EXCEPT ![p].pc = "write"]
    /\ file' = [whole |-> FALSE, hosts |-> Content(p)]
    /\ kept' = Unknown
    /\ UNCHANGED <<case, clock, sys_west, kernel, init, packets, stops, truth>>

\* Two who write at once leave the content of either, at any time.
WriteFile(p) ==
    /\ proc[p].pc = "write"
    /\ proc' = [proc EXCEPT ![p] = Idle]
    /\ file' = [whole |-> TRUE, hosts |-> Content(p)]
    /\ kept' = IF proc[p].alone THEN proc[p].told ELSE Unknown
    /\ UNCHANGED <<case, clock, sys_west, kernel, init, packets, stops, truth>>

-----------------------------------------------------------------------------
\* start: the chains and rules are made, the backup script is begun anew.
MakeRule ==
    /\ init = "off"
    /\ init' = "start" /\ kernel' = <<>> /\ truth' = <<>>
    /\ UNCHANGED <<case, clock, sys_west, proc, file, packets, stops, kept>>

\* bw_restore: bw_set -h and the line of the script.  Who has no history in
\* the file loses what he has counted since MakeRule.
Restore ==
    /\ init = "start" /\ file # None
    /\ init' = "up"
    /\ sys_west' = West(clock)
    /\ \E hosts \in Loads :
        LET sent == [h \in DOMAIN hosts |-> Sent(hosts[h])]
            moved == sent # hosts
        IN IF hosts = <<>> THEN kernel' = InZone(kernel) /\ truth' = truth
           ELSE /\ kernel' = sent
                /\ truth' = IF kept = Unknown \/ moved THEN Unknown ELSE kept
    /\ UNCHANGED <<case, clock, proc, file, packets, stops, kept>>

\* The lock is not got in time, no socket can be made, setsockopt fails or the
\* program dies; the script does not look, and goes on with the rule as it is.
RestoreFails ==
    /\ init = "start" /\ file # None
    /\ init' = "up"
    /\ ZoneSet
    /\ UNCHANGED <<case, clock, proc, file, packets, stops, truth, kept>>

NoBackup ==
    /\ init = "start" /\ file = None
    /\ init' = "up"
    /\ UNCHANGED <<case, clock, sys_west, kernel, proc, file, packets, stops,
                   truth, kept>>

\* stop: a backup, then the rule is taken away.
Stop ==
    /\ init = "up" /\ stops < MaxStops
    /\ init' = "stop" /\ stops' = stops + 1
    /\ proc' = [proc EXCEPT !["stop"].pc = "get"]
    /\ UNCHANGED <<case, clock, sys_west, kernel, file, packets, truth, kept>>

RemoveRule ==
    /\ init = "stop" /\ proc["stop"].pc = "idle"
    /\ init' = "off" /\ kernel' = None /\ truth' = <<>>
    /\ UNCHANGED <<case, clock, sys_west, proc, file, packets, stops, kept>>

\* External: what is in memory is gone; a file that was being written has
\* lost its end.  The time zone is set at the boot.
PowerLoss ==
    /\ stops < MaxStops
    /\ stops' = stops + 1
    /\ kernel' = None /\ init' = "off" /\ truth' = <<>>
    /\ proc' = [p \in DOMAIN proc |-> Idle]
    /\ sys_west' = West(clock)
    /\ IF case.flash THEN UNCHANGED <<file, kept>>
       ELSE file' = None /\ kept' = <<>>
    /\ UNCHANGED <<case, clock, packets>>

Next ==
    \/ Tick \/ SetKernelTimezone
    \/ \E h \in Hosts, v \in Volumes : Count(h, v)
    \/ CronStarts
    \/ \E p \in {"cron", "stop"} :
        \/ QueryFails(p) \/ Query(p) \/ NoSocket(p)
        \/ OpenFile(p) \/ WriteFile(p)
    \/ MakeRule \/ Restore \/ RestoreFails \/ NoBackup
    \/ Stop \/ RemoveRule \/ PowerLoss

Spec == Init /\ [][Next]_vars

-----------------------------------------------------------------------------
\* A history tells the truth: as many volumes as intervals, each with the time
\* its interval began and what the host transferred in it.
Tells(history, told) ==
    /\ IntervalStarts(history) = told.starts
    /\ history.bws = told.bws

\* Who asks for the history of a rule, and is answered, gets the truth,
\* through changes of the zone, backups, restarts and power losses.  A restore
\* that fails is not noticed: the truth is then what was counted since the
\* rule was made, and what the file had is lost with the next backup.  The
\* truth is not known after a restore from a file that two wrote at once, that
\* was cut off, emptied or made while the rule waited for its history, and
\* after one of times with another offset than the present one.
HistoryTrue ==
    kernel # None /\ truth # Unknown =>
        /\ DOMAIN kernel = DOMAIN truth
        /\ \A h \in DOMAIN kernel :
            Tells(Returned(Current(InZone(kernel)[h], West(clock))),
                  TrueSince(truth[h]))

\* The backup file tells the truth of the moment it was made, whatever the
\* volumes and the zone were, unless two wrote it at once or bw_get, which
\* takes it for a success, could make no socket and emptied it.
FileTrue ==
    file # None /\ kept # Unknown =>
        /\ file.whole /\ DOMAIN file.hosts = DOMAIN kept
        /\ \A h \in DOMAIN kept : Tells(file.hosts[h], kept[h])
=============================================================================
