-------------------------- MODULE ConnectionStatus ---------------------------
(***************************************************************************)
(* The connection to the API: EmeraldApiAccess turns the reports of its    *)
(* clients and the time since the last good one into a status, and the     *)
(* reconnect loop of the desktop application restarts all services while   *)
(* the status is DISCONNECTED.                                             *)
(*                                                                         *)
(* Time passes in ticks.  A timer of Node.js calls back when it is due or  *)
(* up to MaxLate ticks later; a ping is answered within Latency ticks when *)
(* the server is well.  The reconnect loop hears of every status at once,  *)
(* so its previousStatus is always the status.                             *)
(***************************************************************************)
EXTENDS Integers, Sequences

CONSTANTS Links,         \* credentials, blockchain and monitoring client
          Monitoring,    \* the link a ping is answered on
          PeriodOk,      \* PERIOD_OK of the code
          PeriodIssues,  \* PERIOD_ISSUES
          PeriodPing,    \* PERIOD_PING
          PeriodCheck,   \* pause of periodicCheck()
          Pause,         \* pause of the reconnect loop
          MaxLate,       \* how late a timer may be called back
          Latency        \* how long a healthy server takes to answer a ping

ASSUME LinkAssumption == Monitoring \in Links
ASSUME PeriodAssumption ==
  /\ PeriodOk \in Nat /\ PeriodIssues \in Nat /\ PeriodPing \in Nat
  /\ PeriodCheck \in Nat /\ Pause \in Nat /\ MaxLate \in Nat /\ Latency \in Nat
  /\ 0 < PeriodOk /\ PeriodOk < PeriodIssues
  /\ 0 < PeriodPing /\ 0 < PeriodCheck /\ 0 < Pause
ASSUME PingMargin == PeriodPing + MaxLate + Latency < PeriodOk
ASSUME LoopMargin == Pause + MaxLate < PeriodIssues

VARIABLES up,        \* links whose last report was good
          offline,   \* time since connectedAt, at most PeriodIssues
          status,    \* status of EmeraldApiAccess, previousStatus of Reconnect
          check,     \* time until the timer of periodicCheck() is due
          ping,      \* time until the timer of ping() is due
          waiting,   \* age of the oldest unanswered ping, or None
          loops,     \* time until each pending untilReconnect() is due
          since,     \* time since the last restart of the services, capped
          suspect    \* history: a bad report or a late answer since connectedAt

vars == <<up, offline, status, check, ping, waiting, loops, since, suspect>>

None == -1
Statuses == {"CONNECTED", "CONNECTION_ISSUES", "DISCONNECTED"}
SinceCap == Pause + MaxLate + 1

(* ServiceManager.reconnect(): every service is restarted.                 *)
ReconnectServices == since' = 0

(* Mutant of SetStatus: a repeated DISCONNECTED starts a loop again.       *)
SetStatusAlways(new) ==
  /\ status' = new
  /\ IF new = "DISCONNECTED"
       THEN loops' = Append(loops, Pause) /\ ReconnectServices
       ELSE UNCHANGED <<loops, since>>

(* setStatus() and its listener: on the way to DISCONNECTED the services   *)
(* are restarted, and a timer is set to do it again.                       *)
SetStatus(new) ==
  /\ status' = new
  /\ IF new = "DISCONNECTED" /\ status # new
       THEN loops' = Append(loops, Pause) /\ ReconnectServices
       ELSE UNCHANGED <<loops, since>>

(* verifyOffline(): the status by the time since the last good report.     *)
StatusAt(period) ==
  CASE period < PeriodOk -> "CONNECTED"
    [] period >= PeriodOk /\ period < PeriodIssues -> "CONNECTION_ISSUES"
    [] period >= PeriodIssues -> "DISCONNECTED"

VerifyOffline == SetStatus(StatusAt(offline)) /\ UNCHANGED offline

(* Mutant of VerifyConnection: connectedAt is not refreshed.               *)
VerifyConnectionStale ==
  IF up' = Links
    THEN /\ suspect' = FALSE
         /\ SetStatus("CONNECTED")
         /\ UNCHANGED offline
    ELSE /\ VerifyOffline
         /\ suspect' = TRUE

(* verifyConnection() after a report.                                      *)
VerifyConnection ==
  IF up' = Links
    THEN /\ offline' = 0
         /\ suspect' = FALSE
         /\ SetStatus("CONNECTED")
    ELSE /\ VerifyOffline
         /\ suspect' = TRUE

(* The constructor checks and pings; the status is CONNECTED for a start.  *)
Init ==
  /\ up = {}
  /\ offline = 0
  /\ status = "CONNECTED"
  /\ check = PeriodCheck
  /\ ping = PeriodPing
  /\ waiting = 0
  /\ loops = <<>>
  /\ since = SinceCap
  /\ suspect = TRUE

(* A client reports its link, whether or not it changed.                   *)
Report(link, good) ==
  /\ up' = IF good THEN up \cup {link} ELSE up \ {link}
  /\ VerifyConnection
  /\ UNCHANGED <<check, ping, waiting>>

(* The answer to a ping, or its failure, is a report of its client.        *)
PingEnds(good) ==
  /\ waiting # None
  /\ waiting' = None
  /\ up' = IF good THEN up \cup {Monitoring} ELSE up \ {Monitoring}
  /\ VerifyConnection
  /\ UNCHANGED <<check, ping>>

Ping ==
  /\ ping <= 0
  /\ ping' = PeriodPing
  /\ waiting' = IF waiting = None THEN 0 ELSE waiting
  /\ UNCHANGED <<up, offline, status, check, loops, since, suspect>>

(* Mutants of PeriodicCheck: armed with the period of the status; the      *)
(* status is not verified.                                                 *)
PeriodicCheckSeldom ==
  /\ check <= 0
  /\ check' = PeriodOk
  /\ VerifyOffline
  /\ UNCHANGED <<up, ping, waiting, suspect>>

PeriodicCheckBlind ==
  /\ check <= 0
  /\ check' = PeriodCheck
  /\ UNCHANGED <<up, offline, status, ping, waiting, loops, since, suspect>>

PeriodicCheck ==
  /\ check <= 0
  /\ check' = PeriodCheck
  /\ VerifyOffline
  /\ UNCHANGED <<up, ping, waiting, suspect>>

(* Mutant of UntilReconnect: the timer is not set again.                   *)
UntilReconnectOnce(i) ==
  /\ loops[i] <= 0
  /\ loops' = SubSeq(loops, 1, i - 1) \o SubSeq(loops, i + 1, Len(loops))
  /\ ReconnectServices
  /\ UNCHANGED <<up, offline, status, check, ping, waiting, suspect>>

(* untilReconnect() from its timer: once more unless the status changed,   *)
(* and the services are restarted in either case.                          *)
UntilReconnect(i) ==
  LET others == SubSeq(loops, 1, i - 1) \o SubSeq(loops, i + 1, Len(loops))
  IN  /\ loops[i] <= 0
      /\ loops' = IF status = "DISCONNECTED" THEN Append(others, Pause) ELSE others
      /\ ReconnectServices
      /\ UNCHANGED <<up, offline, status, check, ping, waiting, suspect>>

Capped(n, cap) == IF n < cap THEN n + 1 ELSE n

Tick ==
  /\ check > -MaxLate /\ ping > -MaxLate
  /\ \A i \in DOMAIN loops : loops[i] > -MaxLate
  /\ check' = check - 1
  /\ ping' = ping - 1
  /\ loops' = [i \in DOMAIN loops |-> loops[i] - 1]
  /\ offline' = Capped(offline, PeriodIssues)
  /\ since' = Capped(since, SinceCap)
  /\ waiting' = IF waiting = None THEN None ELSE Capped(waiting, Latency + 1)
  /\ suspect' = (suspect \/ waiting' > Latency)
  /\ UNCHANGED <<up, status>>

Next ==
  \/ \E link \in Links, good \in BOOLEAN : Report(link, good)
  \/ \E good \in BOOLEAN : PingEnds(good)
  \/ Ping
  \/ PeriodicCheck
  \/ \E i \in DOMAIN loops : UntilReconnect(i)
  \/ Tick

Spec == Init /\ [][Next]_vars

(* The clock runs, and a due timer is called back before the clock is more *)
(* than MaxLate past it.                                                   *)
Fairness == WF_vars(Tick) /\ WF_vars(PeriodicCheck) /\ WF_vars(Ping)
            /\ WF_vars(\E i \in DOMAIN loops : UntilReconnect(i))

FairSpec == Spec /\ Fairness

------------------------------------------------------------------------------
TypeOK ==
  /\ up \subseteq Links
  /\ offline \in 0..PeriodIssues
  /\ status \in Statuses
  /\ check \in -MaxLate..PeriodCheck
  /\ ping \in -MaxLate..PeriodPing
  /\ waiting \in None..(Latency + 1)
  /\ loops \in Seq(-MaxLate..Pause)
  /\ since \in 0..SinceCap
  /\ suspect \in BOOLEAN

(* However the status flaps, there is one reconnect loop: a second one     *)
(* would restart every subscription twice per pause, for good.             *)
OneReconnectLoop == Len(loops) <= 1

(* No false alarm: while all links are good and pings are answered in time *)
(* the status stays CONNECTED, although nobody but the answer to a ping    *)
(* refreshes connectedAt.                                                  *)
HealthyIsConnected == ~suspect => status = "CONNECTED"

(* While disconnected, the services are restarted every few seconds.       *)
RestartedWhileDisconnected == status = "DISCONNECTED" => since <= Pause + MaxLate

(* A link that stays down is noticed, even when no client reports it any   *)
(* more, and the status is DISCONNECTED until it is up again.              *)
OutageNoticed == <>[](up # Links) => <>[](status = "DISCONNECTED")
==============================================================================
