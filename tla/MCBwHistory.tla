---------------------------- MODULE MCBwHistory ----------------------------
(***************************************************************************)
(* Histories of the bandwidth monitor: days around both changes of the     *)
(* clocks in a zone east of UTC, lengths, weeks and months.  Day 0 is the  *)
(* last of a month and a Sunday.                                           *)
(***************************************************************************)
EXTENDS BwHistory, TLC

Zone(change, before, after) ==
    [change |-> change, before |-> before, after |-> after]
Always(west) == Zone(100 * Day, west, west)

Rule(interval, constant, zone, starts, flash) ==
    [interval |-> interval, constant |-> constant, zone |-> zone,
     starts |-> starts, flash |-> flash]

\* 2 o'clock local time becomes 3 on the 1st; a day has 23 hours.
Spring == Rule(BANDWIDTH_DAY, FALSE, Zone(Day + Hour, -60, -120),
               <<-Hour, Day - Hour, 2 * Day - 2 * Hour, 3 * Day - 2 * Hour>>,
               TRUE)

\* 3 o'clock becomes 2; a day has 25 hours.
Autumn == Rule(BANDWIDTH_DAY, FALSE, Zone(Day + Hour, -120, -60),
               <<-2 * Hour, Day - 2 * Hour, 2 * Day - Hour, 3 * Day - Hour>>,
               TRUE)

\* Two hours around midnight, west of UTC, in memory only.
Length == Rule(2 * Hour, TRUE, Always(300),
               <<Day + 2 * Hour, Day + 4 * Hour, Day + 6 * Hour,
                 Day + 8 * Hour>>, FALSE)

Months == Rule(BANDWIDTH_MONTH, FALSE, Always(-330),
               <<Day - 330 * 60, 32 * Day - 330 * 60, 60 * Day - 330 * 60,
                 91 * Day - 330 * 60>>, TRUE)

Weeks == Rule(BANDWIDTH_WEEK, FALSE, Always(300),
              <<300 * 60, 7 * Day + 300 * 60, 14 * Day + 300 * 60,
                21 * Day + 300 * 60>>, FALSE)

MCCases == {Spring, Autumn, Length, Weeks, Months}
MCMonthStarts == {-30, 1, 32, 60, 91}

MCHosts == Permutations(Hosts)
=============================================================================
