------------------------------ MODULE ServedTafs ------------------------------
(***************************************************************************)
(* What the tables of forecasts promise a client of get_latest_taf: the    *)
(* newest TAF of a station only gives way to one as new, and a request is  *)
(* answered with the whole of one TAF, the newest there was when it was    *)
(* looked up or one that took its place before the answer.                 *)
(***************************************************************************)
EXTENDS Naturals

CONSTANTS Stations, Reports, NumPeriods

VARIABLES
    latest,    \* latest[s]: the newest TAF of a station, 0 for none
    request    \* the client's last request

vars == <<latest, request>>

Init ==
    /\ latest = [s \in Stations |-> 0]
    /\ request = [step |-> "none"]

\* A TAF that is stored meanwhile may be the one a request is answered with.
Store(s) ==
    \E v \in Reports :
        /\ latest[s] <= v
        /\ latest' = [latest EXCEPT ![s] = v]
        /\ \/ UNCHANGED request
           \/ /\ request.step = "asked" /\ request.station = s
              /\ request' = [request EXCEPT !.taken = v]

Ask(s) ==
    /\ request.step # "asked" /\ latest[s] # 0
    /\ request' = [step |-> "asked", station |-> s, taken |-> latest[s]]
    /\ UNCHANGED latest

Give ==
    /\ request.step = "asked"
    /\ request' = [step |-> "answered", station |-> request.station,
                   rows |-> {request.taken} \X (1..NumPeriods)]
    /\ UNCHANGED latest

Next == Give \/ \E s \in Stations : Store(s) \/ Ask(s)

Spec == Init /\ [][Next]_vars
================================================================================
