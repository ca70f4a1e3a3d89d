----------------------------- MODULE MCDiscovery -----------------------------
(***************************************************************************)
(* Instances of Discovery for TLC: an hour of two ticks, a day of 24 hours, *)
(* and models like those that are configured, with observations that come   *)
(* less often and windows that are shorter.                                 *)
(***************************************************************************)
EXTENDS Discovery

Source(kind, cycles, steps, every, delay, lookback, limit, poll) ==
    [kind |-> kind, cycles |-> cycles, steps |-> steps, every |-> every,
     delay |-> delay, lookback |-> lookback, limit |-> limit, poll |-> poll]

\* Four model runs a day, looked for four hours later, every hour.
Gfs == Source("forecast", {0, 6, 12, 18}, {0, 1}, 0, 8, 0, 0, 2)
\* A window of two hours, as short as it may be for something to be owed: a
\* model run every two hours, looked for one hour later, every half hour.
Short == Source("forecast", {2 * i : i \in 0 .. 11}, {0}, 0, 2, 0, 0, 1)
\* Radar and images every half hour, kept for two and three hours.
Mrms == Source("mrms", {}, {0}, 1, 0, 4, 5, 1)
Goes == Source("goes", {}, {0}, 1, 0, 6, 2, 1)
\* What is there for every third hour, a day and three hours later.  (Products
\* for every hour are asked for at the minute of the clock and not found.)
Gldas == Source("lis", {}, {0}, 6, 54, 12, 0, 3)

MCSources == {Gfs, Short, Mrms, Goes, Gldas}
MCStarts == {48, 71, 93}
=============================================================================
